---------------------------- MODULE JournalRows ----------------------------
(***************************************************************************)
(* The rows readers find for a chain whose log (Journal) is l: what the    *)
(* sealer writes and ChainIntact says of it (Sealer).                      *)
(***************************************************************************)
EXTENDS Chain, SequencesExt

CONSTANTS
    Event,
    PayloadOf       \* the payload hash of an event

EventRow == [id: Event, payload: Payload, pos: Nat, hash: Hash,
             prev: Hash \cup {Nil}]

\* The hash at position i commits to everything up to it.
HashAt(l, i) == [j \in 1 .. i |-> <<PayloadOf[l[j]], j>>]

\* The row of events at position i.
EventAt(l, i) ==
    [id |-> l[i], payload |-> PayloadOf[l[i]], pos |-> i, hash |-> HashAt(l, i),
     prev |-> IF i = 1 THEN Nil ELSE HashAt(l, i - 1)]

TipHash(l) == IF l = << >> THEN Nil ELSE HashAt(l, Len(l))

\* latest_position and latest_event_hash of the row of chains; of a log without
\* events nobody but the sealer that inserts it sees the row.
ChainRow(l) == [pos |-> Len(l), hash |-> TipHash(l)]
=============================================================================
