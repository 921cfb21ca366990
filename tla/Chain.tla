------------------------------- MODULE Chain -------------------------------
(***************************************************************************)
(* The hash chain and its verification: core/chain.go and core/verify.go.  *)
(*                                                                         *)
(* SHA-256 is idealised as an injective function: the hash of an event is  *)
(* the sequence of the <<payload, position>> pairs it commits to, so two   *)
(* hashes are equal exactly when their whole pre-images are equal.  The    *)
(* empty sequence is both the empty predecessor hash and the literal       *)
(* "genesis" the code normalises it to.  A payload hash is an element of   *)
(* Payload.                                                                *)
(***************************************************************************)
EXTENDS Integers, Sequences, FiniteSets, FiniteSetsExt

CONSTANTS
    Payload,    \* the canonical content hashes (PayloadHash of some content)
    Nil         \* an absent optional value (a nil pointer, a SQL NULL)

Hash == Seq(Payload \X Nat)

Genesis == << >>

ASSUME NilAssumption == Nil \notin Payload /\ Nil \notin Hash

(***************************************************************************)
(* EventHash chains a payload hash to its predecessor and position.        *)
(***************************************************************************)
EventHash(previousHash, payloadHash, position) ==
    Append(previousHash, <<payloadHash, position>>)

(***************************************************************************)
(* One event's verifiable facts.  prev is Nil when the record carries no   *)
(* predecessor hash; content is the payload hash recomputed from the       *)
(* stored content, or Nil when the content is not shipped.                 *)
(***************************************************************************)
Record ==
    [prev: Hash \cup {Nil}, payload: Payload, hash: Hash, pos: Nat,
     content: Payload \cup {Nil}]

PayloadMatches(rec) == rec.content # Nil => rec.content = rec.payload

\* The verdict of VerifyEvent: the event hash recomputes, a predecessor is
\* absent exactly at position 1, and the content, when shipped, rehashes to
\* the stored payload hash.
VerifyEvent(rec) ==
    LET prev == IF rec.prev = Nil THEN Genesis ELSE rec.prev
    IN  /\ EventHash(prev, rec.payload, rec.pos) = rec.hash
        /\ IF rec.pos = 1 THEN rec.prev = Nil
                          ELSE rec.prev # Nil /\ rec.prev # Genesis
        /\ PayloadMatches(rec)

(***************************************************************************)
(* VerifyChain walks the records with a running tip, which is the stored   *)
(* hash of the record before, and stops at the first record that does not  *)
(* continue the tip.                                                       *)
(***************************************************************************)
\* Mutant: the tip is not advanced.
RunningTipFromGenesis(records, i) == Genesis

RunningTip(records, i) == IF i = 1 THEN Genesis ELSE records[i - 1].hash

ContinuesTip(rec, tip) ==
    /\ rec.prev # Nil => rec.prev = tip
    /\ EventHash(tip, rec.payload, rec.pos) = rec.hash
    /\ PayloadMatches(rec)

Breaks(records) ==
    {i \in DOMAIN records : ~ ContinuesTip(records[i], RunningTip(records, i))}

VerifyChain(records) ==
    LET broken == Breaks(records)
    IN  [valid    |-> broken = {},
         verified |-> IF broken = {} THEN Len(records) ELSE Min(broken) - 1,
         count    |-> Len(records)]
=============================================================================
