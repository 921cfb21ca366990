----------------------------- MODULE ChainProofs -----------------------------
(***************************************************************************)
(* Theorems about Chain, for any payloads and records of any length: what  *)
(* the verdict of VerifyChain says of the records it was given.  Their     *)
(* lemmas serve the proofs about the sealer and the exports.               *)
(***************************************************************************)
EXTENDS Chain, SequenceTheorems, WellFoundedInduction, TLAPS

\* A set of naturals has a least member.
LEMMA LeastNatural ==
    ASSUME NEW T \in SUBSET Nat, T # {}
    PROVE  \E n \in T : \A k \in T : n <= k
  <1> DEFINE Less == {p \in Nat \X Nat : p[1] < p[2]}
  <1>1. IsWellFoundedOn(Less, Nat)
    BY NatLessThanWellFounded DEF OpToRel
  <1>2. PICK n \in T : \A k \in T : ~ (<<k, n>> \in Less)
    <2> HIDE DEF Less
    <2> QED
      BY <1>1, WFMin
  <1>3. \A k \in T : ~ (k < n)
    BY <1>2
  <1> QED
    BY <1>3

\* Two hashes of one length with the same pairs are one.
LEMMA SameHash ==
    ASSUME NEW a \in Hash, NEW b \in Hash, Len(a) = Len(b),
           \A k \in 1 .. Len(a) : a[k] = b[k]
    PROVE  a = b
  BY SeqEqual DEF Hash

\* A hash is longer by one pair than the hash it continues.
LEMMA HashAppends ==
    ASSUME NEW h \in Hash, NEW p \in Payload, NEW n \in Nat
    PROVE  /\ EventHash(h, p, n) \in Hash
           /\ Len(EventHash(h, p, n)) = Len(h) + 1
           /\ EventHash(h, p, n)[Len(h) + 1] = <<p, n>>
           /\ \A k \in 1 .. Len(h) : EventHash(h, p, n)[k] = h[k]
  <1>1. h \in Seq(Payload \X Nat) /\ <<p, n>> \in Payload \X Nat
    BY DEF Hash
  <1> QED
    BY <1>1, AppendProperties DEF EventHash, Hash

\* The hash of a verified record holds the pairs of all records up to it.
HoldsPairs(records, i) ==
    /\ records[i].hash \in Hash /\ Len(records[i].hash) = i
    /\ \A k \in 1 .. i : records[i].hash[k] = <<records[k].payload, records[k].pos>>

LEMMA VerifiedContinues ==
    ASSUME NEW records \in Seq(Record), VerifyChain(records).valid,
           NEW i \in 1 .. Len(records)
    PROVE  /\ records[i].payload \in Payload /\ records[i].pos \in Nat
           /\ records[i].hash \in Hash
           /\ EventHash(IF i = 1 THEN Genesis ELSE records[i - 1].hash,
                        records[i].payload, records[i].pos) = records[i].hash
  <1>1. i \in DOMAIN records /\ records[i] \in Record
    OBVIOUS
  <1>2. ContinuesTip(records[i], RunningTip(records, i))
    BY <1>1 DEF VerifyChain, Breaks
  <1> QED
    BY <1>1, <1>2 DEF ContinuesTip, RunningTip, Record

LEMMA VerifiedHoldsPairs ==
    ASSUME NEW records \in Seq(Record), VerifyChain(records).valid
    PROVE  \A i \in 1 .. Len(records) : HoldsPairs(records, i)
  <1> DEFINE n == Len(records)
             Off == {i \in 1 .. n : ~ HoldsPairs(records, i)}
  <1> SUFFICES ASSUME Off # {} PROVE FALSE
    OBVIOUS
  <1>1. PICK i \in Off : \A k \in Off : i <= k
    <2>1. Off \in SUBSET Nat
      OBVIOUS
    <2> HIDE DEF Off
    <2> QED
      BY <2>1, LeastNatural
  <1>2. i \in 1 .. n /\ ~ HoldsPairs(records, i) /\ n \in Nat
    BY <1>1
  <1> DEFINE tip == IF i = 1 THEN Genesis ELSE records[i - 1].hash
             p == records[i].payload
             m == records[i].pos
  <1>3. /\ p \in Payload /\ m \in Nat /\ records[i].hash \in Hash
        /\ EventHash(tip, p, m) = records[i].hash
    BY <1>2, VerifiedContinues
  <1>4. /\ tip \in Hash /\ Len(tip) = i - 1
        /\ \A k \in 1 .. i - 1 : tip[k] = <<records[k].payload, records[k].pos>>
    <2>1. CASE i = 1
      <3>1. Genesis \in Hash /\ Len(Genesis) = 0
        BY DEF Genesis, Hash
      <3> QED
        BY <2>1, <3>1
    <2>2. CASE i # 1
      <3>1. i - 1 \in 1 .. n /\ ~ (i <= i - 1)
        BY <1>2, <2>2
      <3>2. HoldsPairs(records, i - 1)
        BY <1>1, <3>1
      <3> QED
        BY <2>2, <3>2 DEF HoldsPairs
    <2> QED
      BY <2>1, <2>2
  <1> HIDE DEF tip, p, m
  <1>5. /\ Len(records[i].hash) = i
        /\ records[i].hash[i] = <<p, m>>
        /\ \A k \in 1 .. i - 1 : records[i].hash[k] = tip[k]
    <2>1. Len(tip) + 1 = i
      BY <1>2, <1>4
    <2>2. /\ Len(EventHash(tip, p, m)) = Len(tip) + 1
          /\ EventHash(tip, p, m)[Len(tip) + 1] = <<p, m>>
          /\ \A k \in 1 .. Len(tip) : EventHash(tip, p, m)[k] = tip[k]
      BY <1>3, <1>4, HashAppends
    <2> QED
      BY <1>3, <1>4, <2>1, <2>2
  <1>6. \A k \in 1 .. i : records[i].hash[k] = <<records[k].payload, records[k].pos>>
    <2>1. \A k \in 1 .. i : k = i \/ k \in 1 .. i - 1
      BY <1>2
    <2> QED
      BY <1>4, <1>5, <2>1 DEF p, m
  <1> QED
    BY <1>2, <1>3, <1>5, <1>6 DEF HoldsPairs

(***************************************************************************)
(* A chain cannot be rewritten under its last hash: two lists of records   *)
(* that VerifyChain accepts and that end in the same hash have the same    *)
(* length and, at every place, the same payload hash, position and hash    *)
(* (core/verify.go; SHA-256 taken as injective).                           *)
(***************************************************************************)
THEOREM TamperEvident ==
    ASSUME NEW a \in Seq(Record), NEW b \in Seq(Record), a # << >>, b # << >>,
           VerifyChain(a).valid, VerifyChain(b).valid,
           a[Len(a)].hash = b[Len(b)].hash
    PROVE  /\ Len(a) = Len(b)
           /\ \A i \in 1 .. Len(a) : /\ a[i].payload = b[i].payload
                                     /\ a[i].pos = b[i].pos
                                     /\ a[i].hash = b[i].hash
  <1>1. Len(a) \in 1 .. Len(a) /\ Len(b) \in 1 .. Len(b)
    BY EmptySeq
  <1>2. /\ \A i \in 1 .. Len(a) : HoldsPairs(a, i)
        /\ \A i \in 1 .. Len(b) : HoldsPairs(b, i)
    BY VerifiedHoldsPairs
  <1>3. Len(a) = Len(b)
    BY <1>1, <1>2 DEF HoldsPairs
  <1>4. ASSUME NEW i \in 1 .. Len(a)
        PROVE  a[i].payload = b[i].payload /\ a[i].pos = b[i].pos
    <2>1. /\ a[Len(a)].hash[i] = <<a[i].payload, a[i].pos>>
          /\ b[Len(b)].hash[i] = <<b[i].payload, b[i].pos>>
      BY <1>1, <1>2, <1>3 DEF HoldsPairs
    <2> QED
      BY <1>3, <2>1
  <1>5. ASSUME NEW i \in 1 .. Len(a) PROVE a[i].hash = b[i].hash
    <2>1. HoldsPairs(a, i) /\ HoldsPairs(b, i)
      BY <1>2, <1>3
    <2>2. \A k \in 1 .. i : k \in 1 .. Len(a)
      OBVIOUS
    <2>3. \A k \in 1 .. i : a[i].hash[k] = b[i].hash[k]
      BY <1>4, <2>1, <2>2 DEF HoldsPairs
    <2>4. /\ a[i].hash \in Hash /\ b[i].hash \in Hash
          /\ Len(a[i].hash) = i /\ Len(b[i].hash) = i
      BY <2>1 DEF HoldsPairs
    <2> QED
      BY <2>3, <2>4, SameHash
  <1> QED
    BY <1>3, <1>4, <1>5

(***************************************************************************)
(* Where the walk stops: the records before the reported break verify by   *)
(* themselves, and one more does not (VerifyChain's verified count).       *)
(***************************************************************************)
First(records, n) == [i \in 1 .. n |-> records[i]]

LEMMA FirstValid ==
    ASSUME NEW records \in Seq(Record), NEW n \in 0 .. Len(records)
    PROVE  VerifyChain(First(records, n)).valid
              <=> \A i \in 1 .. n : ContinuesTip(records[i], RunningTip(records, i))
  <1>1. \A i \in 1 .. n : /\ First(records, n)[i] = records[i]
                          /\ RunningTip(First(records, n), i) = RunningTip(records, i)
    <2> TAKE i \in 1 .. n
    <2>1. i # 1 => i - 1 \in 1 .. n
      OBVIOUS
    <2> QED
      BY <2>1 DEF First, RunningTip
  <1>2. DOMAIN First(records, n) = 1 .. n
    BY DEF First
  <1> QED
    BY <1>1, <1>2 DEF VerifyChain, Breaks

\* The verified count that VerifyChain reports is that of the longest prefix
\* which verifies by itself, for any records (core/verify.go).
THEOREM VerifiedIsLongest ==
    ASSUME NEW records \in Seq(Record)
    PROVE  LET n == VerifyChain(records).verified IN
           /\ n \in 0 .. Len(records)
           /\ VerifyChain(First(records, n)).valid
           /\ n < Len(records) => ~ VerifyChain(First(records, n + 1)).valid
  <1> DEFINE broken == Breaks(records)
             n == VerifyChain(records).verified
  <1>1. /\ broken \in SUBSET (1 .. Len(records)) /\ Len(records) \in Nat
        /\ \A i \in 1 .. Len(records) :
              i \in broken <=> ~ ContinuesTip(records[i], RunningTip(records, i))
    BY DEF Breaks
  <1>2. n = IF broken = {} THEN Len(records) ELSE Min(broken) - 1
    BY DEF VerifyChain
  <1> HIDE DEF broken, n
  <1>3. CASE broken = {}
    <2>1. n = Len(records)
      BY <1>2, <1>3
    <2>2. VerifyChain(First(records, n)).valid
      BY <1>1, <1>3, <2>1, FirstValid
    <2> QED
      BY <1>1, <2>1, <2>2 DEF n
  <1>4. CASE broken # {}
    <2>1. \E m \in broken : \A k \in broken : m <= k
      <3>1. broken \in SUBSET Nat
        BY <1>1
      <3> QED
        BY <1>4, <3>1, LeastNatural
    <2>2. Min(broken) \in broken /\ \A k \in broken : Min(broken) <= k
      BY <2>1 DEF Min
    <2>3. /\ n \in 0 .. Len(records) /\ n + 1 \in broken /\ n + 1 \in 0 .. Len(records)
          /\ \A k \in broken : n + 1 <= k
      <3> DEFINE m == Min(broken)
      <3>1. m \in broken /\ m \in 1 .. Len(records) /\ n = m - 1
        BY <1>1, <1>2, <1>4, <2>2
      <3>2. n + 1 = m /\ n \in 0 .. Len(records) /\ m \in 0 .. Len(records)
        <4> HIDE DEF m
        <4> QED
          BY <1>1, <3>1
      <3> QED
        BY <2>2, <3>1, <3>2
    <2>4. \A i \in 1 .. n : i \in 1 .. Len(records) /\ i \notin broken
      BY <1>1, <2>3
    <2>5. VerifyChain(First(records, n)).valid
      BY <1>1, <2>3, <2>4, FirstValid
    <2>6. ~ VerifyChain(First(records, n + 1)).valid
      BY <1>1, <2>3, FirstValid
    <2> QED
      BY <2>3, <2>5, <2>6 DEF n
  <1> QED
    BY <1>3, <1>4
=============================================================================
