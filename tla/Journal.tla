------------------------------ MODULE Journal ------------------------------
(***************************************************************************)
(* What the pipeline promises, without transactions, locks or sealers: an  *)
(* accepted event waits until one atomic step settles it.  The step puts   *)
(* events at the end of one shard's log, or sets one aside because its     *)
(* external id is in a log by then.  A log only grows, at its end; no      *)
(* event and no external id is ever in the logs twice.                     *)
(***************************************************************************)
EXTENDS Integers, Sequences, FiniteSets, SequencesExt

CONSTANTS Event, Ext, ExtOf, Shard, Nil

VARIABLES
    accepted,   \* the events accepted so far
    waiting,    \* those not settled yet
    log         \* the journal of each shard, in chain order

vars == <<accepted, waiting, log>>

Logged == UNION {ToSet(log[s]) : s \in Shard}

ExtsIn(events) == {ExtOf[e] : e \in events} \ {Nil}

Init ==
    /\ accepted = {}
    /\ waiting = {}
    /\ log = [s \in Shard |-> << >>]

Accept(e) ==
    /\ e \notin accepted
    /\ accepted' = accepted \cup {e}
    /\ waiting' = waiting \cup {e}
    /\ UNCHANGED log

\* The external ids among new are fresh and pairwise distinct.
FreshIds(new) ==
    /\ ExtsIn(new) \cap ExtsIn(Logged) = {}
    /\ \A d, e \in new : ExtOf[d] = ExtOf[e] /\ ExtOf[d] # Nil => d = e

\* Append the events of new to the log of s and set duplicates aside.
Settle(s, new, duplicates) ==
    /\ new \cup duplicates # {}
    /\ waiting' = waiting \ (new \cup duplicates)
    /\ new \cap duplicates = {}
    /\ FreshIds(new)
    /\ ExtsIn(duplicates) \subseteq ExtsIn(new \cup Logged)
    /\ \A e \in duplicates : ExtOf[e] # Nil
    /\ \E order \in [1 .. Cardinality(new) -> new] :
          /\ ToSet(order) = new
          /\ log' = [log EXCEPT ![s] = @ \o order]
    /\ UNCHANGED accepted

Next ==
    \/ \E e \in Event : Accept(e)
    \/ \E s \in Shard : \E new \in SUBSET waiting :
          \E duplicates \in SUBSET (waiting \ new) : Settle(s, new, duplicates)

Spec == Init /\ [][Next]_vars
=============================================================================
