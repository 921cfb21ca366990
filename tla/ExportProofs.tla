---------------------------- MODULE ExportProofs -----------------------------
(***************************************************************************)
(* Theorems about Export, for any events, chains, periods, workers, seals  *)
(* between the statements of an export, and failures.                      *)
(***************************************************************************)
EXTENDS Export, ChainProofs, FiniteSetTheorems, TLAPS

(***************************************************************************)
(* The pipeline: what a step of it does to the chains.                     *)
(***************************************************************************)
Prefix(a, b) == Len(a) <= Len(b) /\ \A i \in 1 .. Len(a) : a[i] = b[i]

PipelineOK ==
    /\ accepted \subseteq Event /\ waiting \subseteq accepted
    /\ IsFiniteSet(waiting)
    /\ log \in [Shard -> Seq(Event)]

LEMMA PipelineInit == J!Init => PipelineOK
  BY FS_EmptySet DEF J!Init, PipelineOK

LEMMA SameCardinality == \A S : J!Cardinality(S) = Cardinality(S)
  BY Zenon DEF J!Cardinality, Cardinality

\* A step of the pipeline adds to the end of the chains.
LEMMA LogGrows ==
    ASSUME PipelineOK, J!Next
    PROVE  PipelineOK' /\ \A s \in Shard : Prefix(log[s], log'[s])
  <1>1. CASE \E e \in Event : J!Accept(e)
    <2>1. PICK e \in Event : J!Accept(e)
      BY <1>1
    <2>2. IsFiniteSet(waiting')
      BY <2>1, FS_AddElement DEF PipelineOK, J!Accept
    <2> QED
      BY <2>1, <2>2 DEF PipelineOK, J!Accept, Prefix
  <1>2. ASSUME NEW s \in Shard, NEW new \in SUBSET waiting,
               NEW dups \in SUBSET (waiting \ new), J!Settle(s, new, dups)
        PROVE  PipelineOK' /\ \A t \in Shard : Prefix(log[t], log'[t])
    <2>1. PICK order \in [1 .. Cardinality(new) -> new] :
             log' = [log EXCEPT ![s] = @ \o order]
      BY <1>2, SameCardinality DEF J!Settle
    <2>2. IsFiniteSet(new) /\ Cardinality(new) \in Nat
      BY <1>2, FS_Subset, FS_CardinalityType DEF PipelineOK
    <2>3. order \in Seq(Event)
      <3>1. order \in [1 .. Cardinality(new) -> Event]
        BY <1>2, <2>1 DEF PipelineOK
      <3> QED
        BY <2>2, <3>1
    <2>4. /\ log' \in [Shard -> Seq(Event)]
          /\ \A t \in Shard : Prefix(log[t], log'[t])
      BY <2>1, <2>3 DEF PipelineOK, Prefix
    <2>5. waiting' \subseteq waiting /\ accepted' = accepted
      BY <1>2 DEF J!Settle
    <2>6. IsFiniteSet(waiting')
      BY <2>5, FS_Subset DEF PipelineOK
    <2> QED
      BY <2>4, <2>5, <2>6 DEF PipelineOK
  <1> QED
    BY <1>1, <1>2 DEF J!Next

LEMMA PrefixTransitive ==
    ASSUME NEW a \in Seq(Event), NEW b \in Seq(Event), NEW c \in Seq(Event),
           Prefix(a, b), Prefix(b, c)
    PROVE  Prefix(a, c)
  BY DEF Prefix

-----------------------------------------------------------------------------
(***************************************************************************)
(* The order of the rows of a bundle.                                      *)
(***************************************************************************)
\* Any set of positions can be put in order.
LEMMA IncreasingExists ==
    ASSUME NEW m \in Nat, NEW P \in SUBSET (1 .. m)
    PROVE  Cardinality(P) \in Nat /\ Increasing(P) # {}
  <1>0. \A n \in Nat : \A Q \in SUBSET (1 .. n) :
           IsFiniteSet(Q) /\ Cardinality(Q) \in Nat
    <2> TAKE n \in Nat
    <2>1. IsFiniteSet(1 .. n)
      BY FS_Interval
    <2> QED
      BY <2>1, FS_Subset, FS_CardinalityType
  <1> DEFINE Bad == {n \in Nat : \E Q \in SUBSET (1 .. n) : Increasing(Q) = {}}
  <1>1. ASSUME Bad # {} PROVE FALSE
    <2>1. PICK n \in Bad : \A k \in Bad : n <= k
      <3>1. Bad \in SUBSET Nat
        OBVIOUS
      <3> HIDE DEF Bad
      <3> QED
        BY <1>1, <3>1, LeastNatural
    <2>2. PICK Q \in SUBSET (1 .. n) : Increasing(Q) = {}
      BY <2>1
    <2>3. CASE Q = {}
      <3>1. Cardinality(Q) = 0
        BY <2>3, FS_EmptySet
      <3>2. [i \in 1 .. 0 |-> i] \in Increasing(Q)
        BY <2>3, <3>1 DEF Increasing
      <3> QED
        BY <2>2, <3>2
    <2>4. CASE Q # {}
      <3>1. n \in Nat /\ n >= 1 /\ n - 1 \in Nat
        <4>1. PICK i \in 1 .. n : i \in Q
          BY <2>2, <2>4
        <4>2. n \in Nat
          BY <2>1
        <4> QED
          BY <4>1, <4>2
      <3>2. n - 1 \notin Bad
        BY <2>1, <3>1
      <3>3. CASE n \notin Q
        <4>1. Q \in SUBSET (1 .. n - 1)
          BY <2>2, <3>1, <3>3
        <4> QED
          BY <2>2, <3>1, <3>2, <4>1
      <3>4. CASE n \in Q
        <4> DEFINE R == Q \ {n}
                   c == Cardinality(R)
        <4>1. R \in SUBSET (1 .. n - 1)
          BY <2>2, <3>1
        <4>2. IsFiniteSet(R) /\ c \in Nat
          BY <1>0, <3>1, <4>1
        <4>3. Cardinality(Q) = c + 1
          <5>1. Q = R \cup {n} /\ n \notin R
            BY <3>4
          <5> QED
            BY <4>2, <5>1, FS_AddElement
        <4>4. PICK g : g \in Increasing(R)
          <5>1. Increasing(R) # {}
            BY <3>1, <3>2, <4>1
          <5> QED
            BY <5>1
        <4>5. /\ g \in [1 .. c -> R]
              /\ \A a, b \in 1 .. c : a < b => g[a] < g[b]
          BY <4>4 DEF Increasing
        <4> DEFINE f == [k \in 1 .. c + 1 |-> IF k = c + 1 THEN n ELSE g[k]]
        <4>6. f \in [1 .. Cardinality(Q) -> Q]
          <5>1. ASSUME NEW k \in 1 .. c + 1 PROVE f[k] \in Q
            <6>1. CASE k = c + 1
              BY <3>4, <6>1
            <6>2. CASE k # c + 1
              <7>1. k \in 1 .. c
                BY <4>2, <6>2
              <7> QED
                BY <4>5, <6>2, <7>1
            <6> QED
              BY <6>1, <6>2
          <5> HIDE DEF c
          <5> QED
            BY <4>3, <5>1
        <4>7. ASSUME NEW a \in 1 .. c + 1, NEW b \in 1 .. c + 1, a < b
              PROVE  f[a] < f[b]
          <5>1. a \in 1 .. c
            BY <4>2, <4>7
          <5>2. CASE b = c + 1
            <6>1. g[a] \in 1 .. n - 1
              BY <4>1, <4>5, <5>1
            <6>2. f[a] = g[a] /\ f[b] = n
              <7> HIDE DEF c
              <7> QED
                BY <4>2, <5>1, <5>2
            <6> QED
              BY <3>1, <6>1, <6>2
          <5>3. CASE b # c + 1
            <6>1. b \in 1 .. c
              BY <4>2, <5>3
            <6>2. f[a] = g[a] /\ f[b] = g[b]
              <7> HIDE DEF c
              <7> QED
                BY <4>2, <5>1, <6>1
            <6> QED
              BY <4>5, <4>7, <5>1, <6>1, <6>2
          <5> QED
            BY <5>2, <5>3
        <4>8. f \in Increasing(Q)
          BY <4>3, <4>6, <4>7 DEF Increasing
        <4> QED
          BY <2>2, <4>8
      <3> QED
        BY <3>3, <3>4
    <2> QED
      BY <2>3, <2>4
  <1> QED
    BY <1>0, <1>1

\* In order, all positions are themselves.
LEMMA IncreasingAll ==
    ASSUME NEW m \in Nat, NEW f \in Increasing(1 .. m)
    PROVE  DOMAIN f = 1 .. m /\ \A k \in 1 .. m : f[k] = k
  <1>1. Cardinality(1 .. m) = m
    BY FS_Interval
  <1>2. /\ f \in [1 .. m -> 1 .. m]
        /\ \A a, b \in 1 .. m : a < b => f[a] < f[b]
    BY <1>1 DEF Increasing
  <1> DEFINE Low == {k \in 1 .. m : f[k] < k}
             High == {d \in 0 .. m - 1 : f[m - d] > m - d}
  <1>3. Low = {}
    <2> SUFFICES ASSUME Low # {} PROVE FALSE
      OBVIOUS
    <2>1. PICK k \in Low : \A i \in Low : k <= i
      <3>1. Low \in SUBSET Nat
        OBVIOUS
      <3> HIDE DEF Low
      <3> QED
        BY <3>1, LeastNatural
    <2>2. k \in 1 .. m /\ f[k] \in 1 .. m /\ f[k] < k
      BY <1>2, <2>1
    <2>3. k - 1 \in 1 .. m /\ k - 1 \notin Low
      BY <2>1, <2>2
    <2>4. f[k - 1] < f[k] /\ f[k - 1] \in 1 .. m /\ ~ (f[k - 1] < k - 1)
      BY <1>2, <2>2, <2>3
    <2> QED
      BY <2>2, <2>4
  <1>4. High = {}
    <2> SUFFICES ASSUME High # {} PROVE FALSE
      OBVIOUS
    <2>1. PICK d \in High : \A i \in High : d <= i
      <3>1. High \in SUBSET Nat
        OBVIOUS
      <3> HIDE DEF High
      <3> QED
        BY <3>1, LeastNatural
    <2>2. d \in 0 .. m - 1 /\ m - d \in 1 .. m /\ f[m - d] \in 1 .. m /\ f[m - d] > m - d
      BY <1>2, <2>1
    <2>3. d >= 1 /\ d - 1 \in 0 .. m - 1 /\ d - 1 \notin High
      <3>1. d # 0
        BY <2>2
      <3>2. d >= 1 /\ d - 1 \in 0 .. m - 1
        BY <2>2, <3>1
      <3> HIDE DEF High
      <3> QED
        BY <2>1, <2>2, <3>2
    <2>4. m - (d - 1) \in 1 .. m /\ ~ (f[m - (d - 1)] > m - (d - 1))
      BY <2>2, <2>3
    <2>5. f[m - d] < f[m - (d - 1)] /\ f[m - (d - 1)] \in 1 .. m
      BY <1>2, <2>2, <2>4
    <2> QED
      BY <2>2, <2>4, <2>5
  <1>5. ASSUME NEW k \in 1 .. m PROVE f[k] = k
    <2>1. f[k] \in 1 .. m /\ ~ (f[k] < k)
      BY <1>2, <1>3
    <2>2. m - k \in 0 .. m - 1 /\ m - (m - k) = k
      OBVIOUS
    <2>3. ~ (f[k] > k)
      BY <1>4, <2>2
    <2> QED
      BY <2>1, <2>3
  <1> QED
    BY <1>2, <1>5

-----------------------------------------------------------------------------
(***************************************************************************)
(* The rows of a chain, and what the offline verifier makes of them.       *)
(***************************************************************************)
LEMMA HashType ==
    ASSUME NEW l \in Seq(Event), NEW i \in 0 .. Len(l)
    PROVE  /\ HashAt(l, i) \in Hash
           /\ Len(HashAt(l, i)) = i
           /\ \A k \in 1 .. i : HashAt(l, i)[k] = <<PayloadOf[l[k]], k>>
  <1>1. i \in Nat
    OBVIOUS
  <1>2. \A k \in 1 .. i : <<PayloadOf[l[k]], k>> \in Payload \X Nat
    BY ExportAssumption
  <1>3. HashAt(l, i) \in [1 .. i -> Payload \X Nat]
    BY <1>2 DEF HashAt
  <1> QED
    BY <1>1, <1>3 DEF HashAt, Hash

LEMMA RowType ==
    ASSUME NEW l \in Seq(Event), NEW i \in 1 .. Len(l)
    PROVE  EventAt(l, i) \in EventRow
  <1>1. HashAt(l, i) \in Hash /\ (i # 1 => HashAt(l, i - 1) \in Hash)
    BY HashType
  <1>2. l[i] \in Event /\ PayloadOf[l[i]] \in Payload /\ i \in Nat
    BY ExportAssumption
  <1> QED
    BY <1>1, <1>2 DEF EventAt, EventRow

\* A hash is the hash before it with one more pair.
LEMMA HashContinues ==
    ASSUME NEW l \in Seq(Event), NEW i \in 1 .. Len(l)
    PROVE  HashAt(l, i) = EventHash(HashAt(l, i - 1), PayloadOf[l[i]], i)
  <1> DEFINE h == HashAt(l, i - 1)
             new == <<PayloadOf[l[i]], i>>
  <1>1. /\ HashAt(l, i) \in Hash /\ Len(HashAt(l, i)) = i
        /\ h \in Hash /\ Len(h) = i - 1
        /\ \A k \in 1 .. i : HashAt(l, i)[k] = <<PayloadOf[l[k]], k>>
        /\ \A k \in 1 .. i - 1 : h[k] = <<PayloadOf[l[k]], k>>
    BY HashType
  <1>2. new \in Payload \X Nat
    BY ExportAssumption
  <1>3. /\ Append(h, new) \in Hash /\ Len(Append(h, new)) = i
        /\ \A k \in 1 .. i : Append(h, new)[k] = <<PayloadOf[l[k]], k>>
    BY <1>1, <1>2 DEF Hash
  <1>4. HashAt(l, i) = Append(h, new)
    BY <1>1, <1>3, SameHash
  <1> QED
    BY <1>4 DEF EventHash

RowsAt(l, f) == [k \in DOMAIN f |-> EventAt(l, f[k])]

RecordsAt(l, f) == [k \in DOMAIN f |-> BundleRecord(RowsAt(l, f)[k])]

\* The rows of some positions of a chain, in order.
LEMMA RowsType ==
    ASSUME NEW l \in Seq(Event), NEW j, NEW f \in Increasing(Picked(l, j))
    PROVE  LET n == Cardinality(Picked(l, j)) IN
           /\ n \in Nat
           /\ f \in [1 .. n -> 1 .. Len(l)]
           /\ \A k \in 1 .. n : l[f[k]] \in InPeriod[j]
           /\ RowsAt(l, f) \in Seq(EventRow)
           /\ Len(RowsAt(l, f)) = n
  <1> DEFINE n == Cardinality(Picked(l, j))
  <1>1. Picked(l, j) \in SUBSET (1 .. Len(l)) /\ Len(l) \in Nat
    BY DEF Picked
  <1>2. n \in Nat
    BY <1>1, IncreasingExists
  <1>3. f \in [1 .. n -> Picked(l, j)]
    BY DEF Increasing
  <1> HIDE DEF n
  <1>4. f \in [1 .. n -> 1 .. Len(l)] /\ DOMAIN f = 1 .. n
    BY <1>1, <1>3
  <1>5. RowsAt(l, f) \in [1 .. n -> EventRow]
    BY <1>4, RowType DEF RowsAt
  <1>6. \A k \in 1 .. n : l[f[k]] \in InPeriod[j]
    BY <1>3 DEF Picked
  <1>7. RowsAt(l, f) \in Seq(EventRow) /\ Len(RowsAt(l, f)) = n
    BY <1>2, <1>5
  <1> QED
    BY <1>2, <1>4, <1>6, <1>7 DEF n

LEMMA RecordContinues ==
    ASSUME NEW l \in Seq(Event), NEW n \in Nat, NEW f \in [1 .. n -> 1 .. Len(l)],
           NEW k \in 1 .. n
    PROVE  LET tip == RunningTip(RecordsAt(l, f), k) IN
           /\ tip = IF k = 1 THEN Genesis ELSE HashAt(l, f[k - 1])
           /\ ContinuesTip(RecordsAt(l, f)[k], tip)
                <=> EventHash(tip, PayloadOf[l[f[k]]], f[k]) = HashAt(l, f[k])
  <1>1. \A i \in 1 .. n : /\ RecordsAt(l, f)[i].prev = Nil
                          /\ RecordsAt(l, f)[i].content = Nil
                          /\ RecordsAt(l, f)[i].payload = PayloadOf[l[f[i]]]
                          /\ RecordsAt(l, f)[i].pos = f[i]
                          /\ RecordsAt(l, f)[i].hash = HashAt(l, f[i])
    BY DEF RecordsAt, RowsAt, BundleRecord, EventAt
  <1>2. k # 1 => k - 1 \in 1 .. n
    OBVIOUS
  <1>3. RunningTip(RecordsAt(l, f), k) = IF k = 1 THEN Genesis ELSE HashAt(l, f[k - 1])
    BY <1>1, <1>2 DEF RunningTip
  <1> QED
    BY <1>1, <1>3 DEF ContinuesTip, PayloadMatches

LEMMA ValidMeansUnbroken ==
    ASSUME NEW l \in Seq(Event), NEW n \in Nat, NEW f \in [1 .. n -> 1 .. Len(l)]
    PROVE  VerifyChain(RecordsAt(l, f)).valid
             <=> \A k \in 1 .. n : ContinuesTip(RecordsAt(l, f)[k],
                                                RunningTip(RecordsAt(l, f), k))
  <1>1. DOMAIN RecordsAt(l, f) = 1 .. n
    BY DEF RecordsAt
  <1> QED
    BY <1>1 DEF VerifyChain, Breaks

\* Rows that verify are the first of their chain, without a gap.
LEMMA ValidMeansFirst ==
    ASSUME NEW l \in Seq(Event), NEW n \in Nat, NEW f \in [1 .. n -> 1 .. Len(l)],
           VerifyChain(RecordsAt(l, f)).valid
    PROVE  \A k \in 1 .. n : f[k] = k
  <1> DEFINE Off == {k \in 1 .. n : f[k] # k}
  <1> SUFFICES ASSUME Off # {} PROVE FALSE
    OBVIOUS
  <1>1. PICK k \in Off : \A i \in Off : k <= i
    <2>1. Off \in SUBSET Nat
      OBVIOUS
    <2> HIDE DEF Off
    <2> QED
      BY <2>1, LeastNatural
  <1> DEFINE tip == RunningTip(RecordsAt(l, f), k)
  <1>2. k \in 1 .. n /\ f[k] \in 1 .. Len(l) /\ f[k] # k
    BY <1>1
  <1>3. /\ tip = IF k = 1 THEN Genesis ELSE HashAt(l, f[k - 1])
        /\ EventHash(tip, PayloadOf[l[f[k]]], f[k]) = HashAt(l, f[k])
    BY <1>2, ValidMeansUnbroken, RecordContinues
  <1>4. Len(HashAt(l, f[k])) = f[k]
    <2>1. f[k] \in 0 .. Len(l)
      BY <1>2
    <2> QED
      BY <2>1, HashType
  <1>5. tip \in Hash /\ Len(tip) = k - 1
    <2>1. CASE k = 1
      BY <1>3, <2>1, EmptySeq DEF Genesis, Hash
    <2>2. CASE k # 1
      <3>1. k - 1 \in 1 .. n /\ k - 1 \notin Off
        BY <1>1, <1>2, <2>2
      <3>2. f[k - 1] = k - 1 /\ k - 1 \in 0 .. Len(l)
        BY <3>1
      <3> QED
        BY <1>3, <2>2, <3>2, HashType
    <2> QED
      BY <2>1, <2>2
  <1>6. Len(EventHash(tip, PayloadOf[l[f[k]]], f[k])) = k
    BY <1>2, <1>5 DEF EventHash, Hash
  <1> QED
    BY <1>2, <1>3, <1>4, <1>6

\* All rows of a chain verify.
LEMMA WholeMeansValid ==
    ASSUME NEW l \in Seq(Event), NEW f \in [1 .. Len(l) -> 1 .. Len(l)],
           \A k \in 1 .. Len(l) : f[k] = k
    PROVE  VerifyChain(RecordsAt(l, f)).valid
  <1>1. ASSUME NEW k \in 1 .. Len(l)
        PROVE  ContinuesTip(RecordsAt(l, f)[k], RunningTip(RecordsAt(l, f), k))
    <2>1. /\ HashAt(l, k) = EventHash(HashAt(l, k - 1), PayloadOf[l[k]], k)
          /\ k # 1 => f[k - 1] = k - 1
      BY HashContinues
    <2>2. k = 1 => HashAt(l, k - 1) = Genesis
      <3>1. Len(HashAt(l, 0)) = 0 /\ HashAt(l, 0) \in Hash
        BY HashType
      <3> QED
        BY <3>1, EmptySeq DEF Genesis, Hash
    <2> DEFINE tip == RunningTip(RecordsAt(l, f), k)
    <2>3. /\ tip = IF k = 1 THEN Genesis ELSE HashAt(l, f[k - 1])
          /\ ContinuesTip(RecordsAt(l, f)[k], tip)
               <=> EventHash(tip, PayloadOf[l[f[k]]], f[k]) = HashAt(l, f[k])
      <3>1. Len(l) \in Nat
        OBVIOUS
      <3> QED
        BY <3>1, RecordContinues
    <2> HIDE DEF tip
    <2>4. tip = HashAt(l, k - 1)
      BY <2>1, <2>2, <2>3
    <2>5. EventHash(tip, PayloadOf[l[f[k]]], f[k]) = HashAt(l, f[k])
      BY <2>1, <2>4
    <2> QED
      BY <2>3, <2>5 DEF tip
  <1> QED
    BY <1>1, ValidMeansUnbroken

-----------------------------------------------------------------------------
(***************************************************************************)
(* What a worker has read stays a true account of the chains.              *)
(***************************************************************************)
\* The events of a bundle are those of the period in the chains of its first
\* read, in order.
Bundled(b, j) ==
    /\ b.then \in [Shard -> Seq(Event)]
    /\ b.events = [s \in Shard |-> b.events[s]]
    /\ \A s \in Shard :
          /\ Prefix(b.then[s], log[s])
          /\ \E f \in Increasing(Picked(b.then[s], j)) :
                b.events[s] = RowsAt(b.then[s], f)

\* Its heads are those of the chains at some moment since.
Headed(b) ==
    \A s \in Shard : \E l \in Seq(Event) :
        Prefix(b.then[s], l) /\ Prefix(l, log[s]) /\ b.tips[s] = ChainRow(l)

TxSound(w) ==
    LET t == tx[w] IN
    /\ t.step \in {"idle", "events", "chains", "complete", "commit"}
    /\ IF Active(w) THEN t.job \in Job /\ Processing(t.job) ELSE t.job = Nil
    /\ t.step \in {"chains", "complete", "commit"} => Bundled(t.bundle, t.job)
    /\ t.step \in {"complete", "commit"} => t.bundle \in Bundle /\ Headed(t.bundle)

\* FOR UPDATE: no two workers have one export.
JobsExclusive ==
    \A v, w \in Worker : v # w /\ Active(v) => tx[v].job # tx[w].job

JobsOK ==
    /\ queue \in Seq(Job)
    /\ status \in [Job -> {"none", "processing", "completed", "failed"}]
    /\ bundle \in [Job -> Bundle \cup {Nil}]
    /\ notBuilt \subseteq Job
    /\ failures \in 0 .. MaxFailures

BundleSound(j) ==
    IF status[j] = "completed"
    THEN bundle[j] \in Bundle /\ Bundled(bundle[j], j) /\ Headed(bundle[j])
    ELSE bundle[j] = Nil

BundlesSound == \A j \in Job : BundleSound(j)

ExportInv ==
    /\ PipelineOK
    /\ JobsOK
    /\ BundlesSound
    /\ tx = [w \in Worker |-> tx[w]]
    /\ \A w \in Worker : TxSound(w)
    /\ JobsExclusive

LEMMA InvInit == Init => ExportInv
  <1> SUFFICES ASSUME Init PROVE ExportInv
    OBVIOUS
  <1>1. PipelineOK
    BY PipelineInit DEF Init
  <1>2. JobsOK /\ BundlesSound
    <2>1. MaxFailures \in Nat
      BY ExportAssumption
    <2> QED
      BY <2>1, EmptySeq DEF Init, JobsOK, BundlesSound, BundleSound
  <1>3. tx = [w \in Worker |-> tx[w]] /\ \A w \in Worker : TxSound(w)
    BY DEF Init, NoTx, Tx, TxSound, Active
  <1>4. JobsExclusive
    BY DEF Init, NoTx, Tx, JobsExclusive, Active
  <1> QED
    BY <1>1, <1>2, <1>3, <1>4 DEF ExportInv

LEMMA BundleKept ==
    ASSUME PipelineOK, PipelineOK', \A s \in Shard : Prefix(log[s], log'[s]),
           NEW b, NEW j
    PROVE  /\ Bundled(b, j) => Bundled(b, j)'
           /\ Bundled(b, j) /\ Headed(b) => Headed(b)'
  <1>1. Bundled(b, j) => Bundled(b, j)'
    <2> SUFFICES ASSUME Bundled(b, j) PROVE Bundled(b, j)'
      OBVIOUS
    <2>1. \A s \in Shard : Prefix(b.then[s], log'[s])
      BY PrefixTransitive DEF PipelineOK, Bundled
    <2> QED
      BY <2>1 DEF Bundled
  <1>2. Headed(b) => Headed(b)'
    <2> SUFFICES ASSUME Headed(b), NEW s \in Shard
                 PROVE  \E l \in Seq(Event) : /\ Prefix(b.then[s], l)
                                              /\ Prefix(l, log'[s])
                                              /\ b.tips[s] = ChainRow(l)
      BY DEF Headed
    <2>1. PICK l \in Seq(Event) : /\ Prefix(b.then[s], l) /\ Prefix(l, log[s])
                                  /\ b.tips[s] = ChainRow(l)
      BY DEF Headed
    <2>2. Prefix(l, log'[s])
      BY <2>1, PrefixTransitive DEF PipelineOK
    <2> QED
      BY <2>1, <2>2
  <1> QED
    BY <1>1, <1>2

LEMMA PipelineKeeps ==
    ASSUME ExportInv, Pipeline
    PROVE  ExportInv'
  <1>1. PipelineOK' /\ \A s \in Shard : Prefix(log[s], log'[s])
    BY LogGrows DEF ExportInv, Pipeline
  <1>2. UNCHANGED <<queue, status, bundle, tx, notBuilt, failures>>
    BY DEF Pipeline
  <1>3. JobsOK' /\ JobsExclusive'
    BY <1>2 DEF ExportInv, JobsOK, JobsExclusive, Active
  <1>4. BundlesSound'
    BY <1>1, <1>2, BundleKept DEF ExportInv, BundlesSound, BundleSound
  <1>5. ASSUME NEW w \in Worker PROVE TxSound(w)'
    BY <1>1, <1>2, BundleKept DEF ExportInv, TxSound, Active, Processing
  <1> QED
    BY <1>1, <1>2, <1>3, <1>4, <1>5 DEF ExportInv

\* A worker that moves, and changes no status but that of its own export.
LEMMA WorkerKeeps ==
    ASSUME ExportInv, NEW w \in Worker, UNCHANGED pipeline,
           \A v \in Worker \ {w} : Active(v) => status'[tx[v].job] = status[tx[v].job],
           NEW t, tx' = [tx EXCEPT ![w] = t], TxSound(w)',
           \A v \in Worker \ {w} : t.step # "idle" => tx[v].job # t.job,
           JobsOK', BundlesSound'
    PROVE  ExportInv'
  <1>1. tx'[w] = t /\ \A v \in Worker \ {w} : tx'[v] = tx[v]
    BY DEF ExportInv
  <1>2. tx' = [v \in Worker |-> tx'[v]]
    BY DEF ExportInv
  <1>3. PipelineOK'
    BY DEF ExportInv, PipelineOK, pipeline
  <1>4. ASSUME NEW v \in Worker \ {w} PROVE TxSound(v)'
    <2>1. \A b, j : (Bundled(b, j) => Bundled(b, j)') /\ (Headed(b) => Headed(b)')
      BY DEF Bundled, Headed, pipeline
    <2>2. tx'[v] = tx[v] /\ TxSound(v)
      BY <1>1 DEF ExportInv
    <2> QED
      BY <2>1, <2>2 DEF TxSound, Active, Processing
  <1>5. JobsExclusive'
    <2>1. ASSUME NEW v \in Worker, NEW u \in Worker, v # u, Active(v)'
          PROVE  tx'[v].job # tx'[u].job
      <3>1. CASE v = w
        BY <1>1, <2>1, <3>1 DEF Active
      <3>2. CASE u = w
        <4>1. tx'[v] = tx[v] /\ tx'[u] = t
          BY <1>1, <2>1, <3>2
        <4>2. tx[v].job \in Job
          BY <2>1, <4>1 DEF ExportInv, TxSound, Active
        <4>3. t.step = "idle" => t.job = Nil
          BY <1>1 DEF TxSound, Active
        <4> QED
          BY <2>1, <3>2, <4>1, <4>2, <4>3, ExportAssumption
      <3>3. CASE v # w /\ u # w
        BY <1>1, <2>1, <3>3 DEF ExportInv, JobsExclusive, Active
      <3> QED
        BY <3>1, <3>2, <3>3
    <2> QED
      BY <2>1 DEF JobsExclusive
  <1> QED
    BY <1>2, <1>3, <1>4, <1>5 DEF ExportInv

LEMMA RequestKeeps ==
    ASSUME ExportInv, NEW j \in Job, RequestExport(j)
    PROVE  ExportInv'
  <1>1. /\ status[j] = "none" /\ status' = [status EXCEPT ![j] = "processing"]
        /\ queue' = Append(queue, j)
        /\ UNCHANGED <<pipeline, bundle, tx, notBuilt, failures>>
    BY DEF RequestExport
  <1>2. JobsOK'
    BY <1>1 DEF ExportInv, JobsOK
  <1>3. \A b, i : (Bundled(b, i) => Bundled(b, i)') /\ (Headed(b) => Headed(b)')
    BY <1>1 DEF Bundled, Headed, pipeline
  <1>4. \A i \in Job : status[i] \in {"processing", "completed"} => status'[i] = status[i]
    BY <1>1 DEF ExportInv, JobsOK
  <1>5. BundlesSound'
    <2> SUFFICES ASSUME NEW i \in Job PROVE BundleSound(i)'
      BY DEF BundlesSound
    <2>1. status'[i] = "completed" <=> status[i] = "completed"
      BY <1>1 DEF ExportInv, JobsOK
    <2>2. BundleSound(i) /\ bundle'[i] = bundle[i]
      BY <1>1 DEF ExportInv, BundlesSound
    <2>3. CASE status[i] = "completed"
      BY <1>3, <2>1, <2>2, <2>3 DEF BundleSound
    <2>4. CASE status[i] # "completed"
      BY <2>1, <2>2, <2>4 DEF BundleSound
    <2> QED
      BY <2>3, <2>4
  <1>6. ASSUME NEW w \in Worker PROVE TxSound(w)'
    BY <1>1, <1>3, <1>4 DEF ExportInv, TxSound, Active, Processing
  <1> QED
    BY <1>1, <1>2, <1>5, <1>6 DEF ExportInv, PipelineOK, pipeline, JobsExclusive, Active

\* A step of a running transaction that changes none of the exports.
LEMMA MoveKeeps ==
    ASSUME ExportInv, NEW w \in Worker, NEW j \in Job, Processing(j),
           \A v \in Worker \ {w} : tx[v].job # j,
           NEW step \in {"events", "chains", "complete", "commit"}, NEW b,
           tx' = [tx EXCEPT ![w] = Tx(step, j, b)],
           step # "events" => Bundled(b, j),
           step \in {"complete", "commit"} => b \in Bundle /\ Headed(b),
           UNCHANGED <<pipeline, queue, status, bundle, notBuilt, failures>>
    PROVE  ExportInv'
  <1> DEFINE t == Tx(step, j, b)
  <1>1. tx'[w] = t /\ t.step = step /\ t.job = j /\ t.bundle = b
    BY DEF ExportInv, Tx
  <1>2. (Bundled(b, j) => Bundled(b, j)') /\ (Headed(b) => Headed(b)')
    BY DEF Bundled, Headed, pipeline
  <1>3. TxSound(w)'
    BY <1>1, <1>2 DEF TxSound, Active, Processing
  <1>4. JobsOK' /\ BundlesSound'
    BY DEF ExportInv, JobsOK, BundlesSound, BundleSound, Bundled, Headed, pipeline
  <1>5. \A v \in Worker \ {w} : t.step # "idle" => tx[v].job # t.job
    BY <1>1
  <1> QED
    <2> HIDE DEF t
    <2> QED
      BY <1>3, <1>4, <1>5, WorkerKeeps DEF t

\* SKIP LOCKED: the export claimed is in processing, and no other worker's.
LEMMA ClaimKeeps ==
    ASSUME ExportInv, NEW w \in Worker, ClaimPendingExport(w)
    PROVE  ExportInv'
  <1> DEFINE j == queue[Min(Claimable)]
  <1>1. /\ Claimable # {}
        /\ tx' = [tx EXCEPT ![w] = Tx("events", j, Nil)]
        /\ UNCHANGED <<pipeline, queue, status, bundle, notBuilt, failures>>
    BY DEF ClaimPendingExport
  <1>2. Min(Claimable) \in Claimable
    <2>1. Claimable \in SUBSET Nat
      BY DEF ExportInv, JobsOK, Claimable
    <2>2. \E n \in Claimable : \A k \in Claimable : n <= k
      BY <1>1, <2>1, LeastNatural
    <2> QED
      BY <2>2 DEF Min
  <1>3. j \in Job /\ Processing(j) /\ Unlocked(j)
    BY <1>2 DEF ExportInv, JobsOK, Claimable
  <1> QED
    <2> HIDE DEF j
    <2> QED
      BY <1>1, <1>3, MoveKeeps DEF Unlocked

\* What is known of a running transaction.
LEMMA Running ==
    ASSUME ExportInv, NEW w \in Worker, Active(w)
    PROVE  /\ tx[w].job \in Job /\ Processing(tx[w].job)
           /\ \A v \in Worker \ {w} : tx[v].job # tx[w].job
  <1>1. tx[w].job \in Job /\ Processing(tx[w].job)
    BY DEF ExportInv, TxSound
  <1>2. ASSUME NEW v \in Worker \ {w} PROVE tx[v].job # tx[w].job
    BY DEF ExportInv, JobsExclusive
  <1> QED
    BY <1>1, <1>2

LEMMA EventsKeep ==
    ASSUME ExportInv, NEW w \in Worker, ListEventsForExport(w)
    PROVE  ExportInv'
  <1> DEFINE j == tx[w].job
             b == [events |-> EventsForExport(j), then |-> log]
  <1>1. /\ tx' = [tx EXCEPT ![w] = Tx("chains", j, b)]
        /\ UNCHANGED <<pipeline, queue, status, bundle, notBuilt, failures>>
        /\ Active(w)
    BY DEF ListEventsForExport, Active
  <1>2. ASSUME NEW s \in Shard
        PROVE  \E f \in Increasing(Picked(log[s], j)) : b.events[s] = RowsAt(log[s], f)
    <2> DEFINE P == Picked(log[s], j)
               f == CHOOSE g \in Increasing(P) : TRUE
    <2>1. P \in SUBSET (1 .. Len(log[s])) /\ Len(log[s]) \in Nat
      BY DEF ExportInv, PipelineOK, Picked
    <2>2. f \in Increasing(P)
      <3> HIDE DEF P
      <3> QED
        BY <2>1, IncreasingExists
    <2>3. b.events[s] = RowsAt(log[s], f)
      BY DEF EventsForExport, RowsAt
    <2> QED
      BY <2>2, <2>3
  <1>3. Bundled(b, j)
    <2>1. b.events = [s \in Shard |-> b.events[s]] /\ b.then = log
      BY DEF EventsForExport
    <2>2. log \in [Shard -> Seq(Event)] /\ \A s \in Shard : Prefix(log[s], log[s])
      BY DEF ExportInv, PipelineOK, Prefix
    <2> HIDE DEF b
    <2> QED
      BY <1>2, <2>1, <2>2 DEF Bundled
  <1> QED
    <2> HIDE DEF b
    <2> QED
      BY <1>1, <1>3, Running, MoveKeeps

LEMMA ChainsKeep ==
    ASSUME ExportInv, NEW w \in Worker, ListChainSummariesForOrg(w)
    PROVE  ExportInv'
  <1> DEFINE j == tx[w].job
             c == tx[w].bundle
             b == [events |-> c.events, then |-> c.then,
                   tips |-> [s \in Shard |-> ChainRow(log[s])]]
  <1>1. /\ tx' = [tx EXCEPT ![w] = Tx("complete", j, b)]
        /\ UNCHANGED <<pipeline, queue, status, bundle, notBuilt, failures>>
        /\ Active(w) /\ tx[w].step = "chains"
    BY DEF ListChainSummariesForOrg, Active
  <1>2. Bundled(c, j)
    BY <1>1 DEF ExportInv, TxSound
  <1>3. Bundled(b, j)
    BY <1>2 DEF Bundled
  <1>4. Headed(b)
    BY <1>2 DEF Headed, Bundled, ExportInv, PipelineOK, Prefix
  <1>5. b \in Bundle
    <2>1. ASSUME NEW s \in Shard PROVE b.events[s] \in Seq(EventRow)
      <3>1. PICK f \in Increasing(Picked(c.then[s], j)) :
               c.events[s] = RowsAt(c.then[s], f)
        BY <1>2 DEF Bundled
      <3>2. c.then[s] \in Seq(Event)
        BY <1>2 DEF Bundled
      <3> QED
        BY <3>1, <3>2, RowsType
    <2>2. ASSUME NEW s \in Shard
          PROVE  ChainRow(log[s]) \in [pos: Nat, hash: Hash \cup {Nil}]
      <3>1. log[s] \in Seq(Event)
        BY DEF ExportInv, PipelineOK
      <3>2. TipHash(log[s]) \in Hash \cup {Nil}
        BY <3>1, HashType DEF TipHash
      <3> QED
        BY <3>1, <3>2 DEF ChainRow
    <2>3. c.then \in [Shard -> Seq(Event)] /\ DOMAIN c.events = Shard
          /\ c.events = [s \in Shard |-> c.events[s]]
      BY <1>2 DEF Bundled
    <2> QED
      BY <2>1, <2>2, <2>3 DEF Bundle
  <1> QED
    <2> HIDE DEF b
    <2> QED
      BY <1>1, <1>3, <1>4, <1>5, Running, MoveKeeps

LEMMA MarkKeeps ==
    ASSUME ExportInv, NEW w \in Worker, MarkExportCompleted(w)
    PROVE  ExportInv'
  <1>1. /\ tx' = [tx EXCEPT ![w] = Tx("commit", tx[w].job, tx[w].bundle)]
        /\ UNCHANGED <<pipeline, queue, status, bundle, notBuilt, failures>>
        /\ Active(w) /\ tx[w].step = "complete"
    BY DEF MarkExportCompleted, Active
  <1>2. Bundled(tx[w].bundle, tx[w].job) /\ tx[w].bundle \in Bundle /\ Headed(tx[w].bundle)
    BY <1>1 DEF ExportInv, TxSound
  <1> QED
    BY <1>1, <1>2, Running, MoveKeeps

\* The end of a transaction, in which only its own export changes.
LEMMA EndKeeps ==
    ASSUME ExportInv, NEW w \in Worker, Active(w), UNCHANGED pipeline,
           NEW j, j = tx[w].job,
           tx' = [tx EXCEPT ![w] = NoTx], JobsOK',
           \A i \in Job \ {j} : status'[i] = status[i] /\ bundle'[i] = bundle[i],
           BundleSound(j)'
    PROVE  ExportInv'
  <1>1. /\ tx[w].job \in Job
        /\ \A v \in Worker \ {w} : tx[v].job # tx[w].job
    BY Running
  <1>2. tx'[w] = NoTx
    BY DEF ExportInv
  <1>3. TxSound(w)'
    BY <1>2 DEF NoTx, Tx, TxSound, Active
  <1>4. \A v \in Worker \ {w} : Active(v) => status'[tx[v].job] = status[tx[v].job]
    BY <1>1 DEF ExportInv, TxSound
  <1>5. ASSUME NEW i \in Job PROVE BundleSound(i)'
    <2>1. CASE i = j
      BY <2>1
    <2>2. CASE i # j
      <3>1. PICK c : c = bundle[i]
        OBVIOUS
      <3>2. status'[i] = status[i] /\ bundle'[i] = c /\ BundleSound(i)
        BY <2>2, <3>1 DEF ExportInv, BundlesSound
      <3>3. (Bundled(c, i) => Bundled(c, i)') /\ (Headed(c) => Headed(c)')
        BY DEF Bundled, Headed, pipeline
      <3> QED
        BY <3>1, <3>2, <3>3 DEF BundleSound
    <2> QED
      BY <2>1, <2>2
  <1>6. BundlesSound'
    BY <1>5 DEF BundlesSound
  <1>7. NoTx.step = "idle"
    BY DEF NoTx, Tx
  <1> QED
    BY <1>3, <1>4, <1>6, <1>7, WorkerKeeps

LEMMA CommitKeeps ==
    ASSUME ExportInv, NEW w \in Worker, CommitExport(w)
    PROVE  ExportInv'
  <1>0. PICK j, b : j = tx[w].job /\ b = tx[w].bundle
    OBVIOUS
  <1>1. /\ tx[w].step = "commit" /\ Active(w)
        /\ status' = [status EXCEPT ![j] = "completed"]
        /\ bundle' = [bundle EXCEPT ![j] = b]
        /\ tx' = [tx EXCEPT ![w] = NoTx]
        /\ UNCHANGED <<pipeline, queue, notBuilt, failures>>
    BY <1>0 DEF CommitExport, Active
  <1>2. j \in Job /\ Bundled(b, j) /\ b \in Bundle /\ Headed(b)
    BY <1>0, <1>1 DEF ExportInv, TxSound
  <1>3. JobsOK'
    BY <1>1, <1>2 DEF ExportInv, JobsOK
  <1>4. BundleSound(j)'
    <2>1. status'[j] = "completed" /\ bundle'[j] = b
      BY <1>1, <1>2 DEF ExportInv, JobsOK
    <2>2. Bundled(b, j)' /\ Headed(b)'
      BY <1>1, <1>2 DEF Bundled, Headed, pipeline
    <2> QED
      BY <1>2, <2>1, <2>2 DEF BundleSound
  <1>5. \A i \in Job \ {j} : status'[i] = status[i] /\ bundle'[i] = bundle[i]
    BY <1>1 DEF ExportInv, JobsOK
  <1> QED
    BY <1>0, <1>1, <1>3, <1>4, <1>5, EndKeeps

LEMMA FailureKeeps ==
    ASSUME ExportInv, NEW w \in Worker,
           BuildStatementFails(w) \/ CanonicalizeFails(w) \/ RollsBack(w)
    PROVE  ExportInv'
  <1>0. PICK j : j = tx[w].job
    OBVIOUS
  <1>1. /\ Active(w) /\ failures < MaxFailures /\ failures' = failures + 1
        /\ tx' = [tx EXCEPT ![w] = NoTx]
        /\ UNCHANGED <<pipeline, queue, bundle>>
        /\ \/ status' = status
           \/ status' = [status EXCEPT ![j] = "failed"]
        /\ \/ notBuilt' = notBuilt
           \/ notBuilt' = notBuilt \cup {j}
    BY <1>0 DEF BuildStatementFails, CanonicalizeFails, RollsBack, Fails
  <1>2. j \in Job /\ status[j] = "processing"
    BY <1>0, <1>1, Running DEF Processing
  <1>3. JobsOK'
    BY <1>1, <1>2, ExportAssumption DEF ExportInv, JobsOK
  <1>4. BundleSound(j)'
    <2>1. bundle'[j] = Nil
      BY <1>1, <1>2 DEF ExportInv, BundlesSound, BundleSound
    <2>2. status'[j] # "completed"
      BY <1>1, <1>2 DEF ExportInv, JobsOK
    <2> QED
      BY <2>1, <2>2 DEF BundleSound
  <1>5. \A i \in Job \ {j} : status'[i] = status[i] /\ bundle'[i] = bundle[i]
    BY <1>1 DEF ExportInv, JobsOK
  <1> QED
    BY <1>0, <1>1, <1>3, <1>4, <1>5, EndKeeps

LEMMA InvStep == ExportInv /\ [Next]_vars => ExportInv'
  <1> SUFFICES ASSUME ExportInv, [Next]_vars PROVE ExportInv'
    OBVIOUS
  <1>1. CASE Pipeline
    BY <1>1, PipelineKeeps
  <1>2. CASE \E j \in Job : RequestExport(j)
    BY <1>2, RequestKeeps
  <1>3. ASSUME NEW w \in Worker, ProcessOne(w) PROVE ExportInv'
    BY <1>3, ClaimKeeps, EventsKeep, ChainsKeep, MarkKeeps, CommitKeeps DEF ProcessOne
  <1>4. ASSUME NEW w \in Worker,
               BuildStatementFails(w) \/ CanonicalizeFails(w) \/ RollsBack(w)
        PROVE  ExportInv'
    BY <1>4, FailureKeeps
  <1>5. CASE UNCHANGED vars
    <2>1. /\ PipelineOK' /\ JobsOK' /\ JobsExclusive'
          /\ (tx = [w \in Worker |-> tx[w]])'
      BY <1>5 DEF vars, pipeline, ExportInv, PipelineOK, JobsOK, JobsExclusive, Active
    <2>2. BundlesSound'
      BY <1>5 DEF vars, pipeline, ExportInv, BundlesSound, BundleSound, Bundled, Headed
    <2>3. \A w \in Worker : TxSound(w)'
      BY <1>5 DEF vars, pipeline, ExportInv, TxSound, Bundled, Headed, Active, Processing
    <2> QED
      BY <2>1, <2>2, <2>3 DEF ExportInv
  <1> QED
    BY <1>1, <1>2, <1>3, <1>4, <1>5 DEF Next, Rest

LEMMA InvHolds == Spec => []ExportInv
  BY InvInit, InvStep, PTL DEF Spec

-----------------------------------------------------------------------------
(***************************************************************************)
(* Theorems                                                                *)
(***************************************************************************)
\* The state of exports and workers is well formed: a bundle is stored
\* exactly with the completed exports.
THEOREM TypeCorrect == Spec => []TypeOK
  <1>1. ExportInv => TypeOK
    <2> SUFFICES ASSUME ExportInv PROVE TypeOK
      OBVIOUS
    <2>1. ASSUME NEW w \in Worker
          PROVE  /\ tx[w].step \in {"idle", "events", "chains", "complete", "commit"}
                 /\ tx[w].job \in Job \cup {Nil}
                 /\ Active(w) <=> tx[w].job # Nil
                 /\ tx[w].step \in {"complete", "commit"} => tx[w].bundle \in Bundle
      BY ExportAssumption DEF ExportInv, TxSound
    <2>2. \A j \in Job : status[j] = "completed" <=> bundle[j] # Nil
      BY ExportAssumption DEF ExportInv, BundlesSound, BundleSound
    <2> QED
      BY <2>1, <2>2 DEF ExportInv, PipelineOK, JobsOK, TypeOK
  <1> QED
    BY <1>1, InvHolds, PTL

\* An export that is completed or failed is never touched again: only a
\* worker that holds its row writes it, and it took the row in processing.
THEOREM SettledStays == Spec => ExportsFinal
  <1> DEFINE Kept == \A j \in Job : status[j] \in {"completed", "failed"} =>
                        status'[j] = status[j] /\ bundle'[j] = bundle[j]
  <1>1. ExportInv /\ [Next]_vars => [Kept]_vars
    <2> SUFFICES ASSUME ExportInv, Next, NEW j \in Job,
                        status[j] \in {"completed", "failed"}
                 PROVE  status'[j] = status[j] /\ bundle'[j] = bundle[j]
      OBVIOUS
    <2>1. CASE Pipeline \/ Rest
      BY <2>1 DEF Pipeline, Rest, vars
    <2>2. CASE \E i \in Job : RequestExport(i)
      BY <2>2 DEF RequestExport, ExportInv, JobsOK
    <2>3. ASSUME NEW w \in Worker,
                 \/ ProcessOne(w) \/ BuildStatementFails(w)
                 \/ CanonicalizeFails(w) \/ RollsBack(w)
          PROVE  status'[j] = status[j] /\ bundle'[j] = bundle[j]
      <3>1. Active(w) => tx[w].job \in Job /\ tx[w].job # j
        BY Running DEF Processing
      <3>2. CASE CommitExport(w)
        BY <3>1, <3>2 DEF CommitExport, Active, ExportInv, JobsOK
      <3>3. CASE BuildStatementFails(w) \/ CanonicalizeFails(w) \/ RollsBack(w)
        BY <3>1, <3>3 DEF BuildStatementFails, CanonicalizeFails, RollsBack, Fails,
           ExportInv, JobsOK
      <3> QED
        BY <2>3, <3>2, <3>3 DEF ProcessOne, ClaimPendingExport, ListEventsForExport,
           ListChainSummariesForOrg, MarkExportCompleted
    <2> QED
      BY <2>1, <2>2, <2>3 DEF Next
  <1> QED
    BY <1>1, InvHolds, PTL DEF Spec, ExportsFinal

\* What a stored bundle says of one of its chains.
LEMMA BundleOfChain ==
    ASSUME ExportInv, NEW j \in Job, status[j] = "completed", NEW b, b = bundle[j],
           NEW s \in Shard
    PROVE  \E then, l \in Seq(Event), f \in Increasing(Picked(b.then[s], j)) :
              /\ then = b.then[s] /\ b.events[s] = RowsAt(then, f)
              /\ Prefix(then, l) /\ Prefix(l, log[s]) /\ b.tips[s] = ChainRow(l)
  <1>1. Bundled(b, j) /\ Headed(b)
    BY DEF ExportInv, BundlesSound, BundleSound
  <1>2. b.then[s] \in Seq(Event)
    BY <1>1 DEF Bundled
  <1>3. PICK f \in Increasing(Picked(b.then[s], j)) : b.events[s] = RowsAt(b.then[s], f)
    BY <1>1 DEF Bundled
  <1>4. PICK l \in Seq(Event) :
           Prefix(b.then[s], l) /\ Prefix(l, log[s]) /\ b.tips[s] = ChainRow(l)
    BY <1>1 DEF Headed
  <1> QED
    BY <1>2, <1>3, <1>4

\* A chain that grows keeps its rows.
LEMMA PrefixRows ==
    ASSUME NEW a \in Seq(Event), NEW c \in Seq(Event), Prefix(a, c),
           NEW i \in 1 .. Len(a)
    PROVE  HashAt(a, i) = HashAt(c, i) /\ EventAt(a, i) = EventAt(c, i)
  <1>1. \A k \in 1 .. Len(a) : a[k] = c[k]
    BY DEF Prefix
  <1>2. ASSUME NEW k \in 0 .. Len(a) PROVE HashAt(a, k) = HashAt(c, k)
    <2>1. \A n \in 1 .. k : a[n] = c[n]
      BY <1>1
    <2> QED
      BY <2>1 DEF HashAt
  <1>3. a[i] = c[i] /\ HashAt(a, i) = HashAt(c, i) /\ HashAt(a, i - 1) = HashAt(c, i - 1)
    BY <1>1, <1>2
  <1> QED
    BY <1>3 DEF EventAt

\* What ChainVerifies looks at, for the rows of a bundle.
LEMMA VerifiesRows ==
    ASSUME NEW l \in Seq(Event), NEW j, NEW f \in Increasing(Picked(l, j)),
           NEW b, NEW s, b.events[s] = RowsAt(l, f), RowsAt(l, f) # << >>
    PROVE  LET n == Cardinality(Picked(l, j)) IN
           /\ n \in Nat \ {0} /\ f[n] \in 1 .. Len(l)
           /\ ChainVerifies(b, s) <=> /\ VerifyChain(RecordsAt(l, f)).valid
                                      /\ b.tips[s].hash = HashAt(l, f[n])
  <1> DEFINE n == Cardinality(Picked(l, j))
             rows == RowsAt(l, f)
  <1>1. /\ n \in Nat /\ f \in [1 .. n -> 1 .. Len(l)]
        /\ rows \in Seq(EventRow) /\ Len(rows) = n
    BY RowsType
  <1> HIDE DEF n
  <1>2. n # 0 /\ n \in 1 .. n /\ f[n] \in 1 .. Len(l)
    BY <1>1, EmptySeq
  <1>3. Last(rows).hash = HashAt(l, f[n])
    <2>1. Last(rows) = rows[n]
      BY <1>1 DEF Last
    <2>2. rows[n] = EventAt(l, f[n])
      BY <1>1, <1>2 DEF RowsAt
    <2> QED
      BY <2>1, <2>2 DEF EventAt
  <1>4. [i \in DOMAIN rows |-> BundleRecord(rows[i])] = RecordsAt(l, f)
    BY DEF RecordsAt, RowsAt
  <1> QED
    BY <1>1, <1>2, <1>3, <1>4 DEF ChainVerifies, TipMatches, n

\* Whatever the period and the seals between the reads, a bundle verifies
\* only with every event of its chains up to the published heads: the hash
\* of the head commits to the number of events before it.
THEOREM VerifiedMeansWhole == Spec => []VerifiedBundleWhole
  <1>1. ExportInv => VerifiedBundleWhole
    <2> SUFFICES ASSUME ExportInv, NEW b \in Bundles, VerifyBundle(b),
                        NEW s \in ChainsIn(b)
                 PROVE  /\ Len(b.events[s]) = b.tips[s].pos
                        /\ \A i \in DOMAIN b.events[s] :
                              b.events[s][i] = EventAt(log[s], i)
      BY DEF VerifiedBundleWhole
    <2>0. PICK j \in Job : status[j] = "completed" /\ b = bundle[j]
      BY DEF Bundles
    <2>1. s \in Shard /\ b.events[s] # << >> /\ ChainVerifies(b, s)
      BY DEF VerifyBundle, ChainsIn
    <2>2. PICK then, l \in Seq(Event), f \in Increasing(Picked(b.then[s], j)) :
              /\ then = b.then[s] /\ b.events[s] = RowsAt(then, f)
              /\ Prefix(then, l) /\ Prefix(l, log[s]) /\ b.tips[s] = ChainRow(l)
      BY <2>0, <2>1, BundleOfChain
    <2> DEFINE n == Cardinality(Picked(then, j))
    <2>3. /\ n \in Nat /\ f \in [1 .. n -> 1 .. Len(then)]
          /\ Len(RowsAt(then, f)) = n
      BY <2>2, RowsType
    <2>4. /\ n \in Nat \ {0} /\ f[n] \in 1 .. Len(then)
          /\ VerifyChain(RecordsAt(then, f)).valid
          /\ b.tips[s].hash = HashAt(then, f[n])
      BY <2>1, <2>2, VerifiesRows
    <2> HIDE DEF n
    <2>5. \A k \in 1 .. n : f[k] = k
      <3>1. then \in Seq(Event) /\ n \in Nat /\ f \in [1 .. n -> 1 .. Len(then)]
        BY <2>2, <2>3
      <3> QED
        BY <3>1, <2>4, ValidMeansFirst
    <2>6. Len(HashAt(then, n)) = n /\ b.tips[s].hash = HashAt(then, n)
      <3>1. n \in 0 .. Len(then) /\ f[n] = n
        BY <2>3, <2>4, <2>5
      <3> QED
        BY <2>4, <3>1, HashType
    <2>7. Len(then) <= Len(l) /\ Len(l) \in Nat /\ l # << >>
      BY <2>2, <2>4 DEF Prefix
    <2>8. Len(HashAt(l, Len(l))) = Len(l) /\ b.tips[s].hash = HashAt(l, Len(l))
          /\ b.tips[s].pos = Len(l)
      <3>1. Len(l) \in 0 .. Len(l)
        BY <2>7
      <3> QED
        BY <2>2, <2>7, <3>1, HashType DEF ChainRow, TipHash
    <2>9. Len(b.events[s]) = b.tips[s].pos
      BY <2>2, <2>3, <2>6, <2>8
    <2>10. ASSUME NEW i \in DOMAIN b.events[s]
           PROVE  b.events[s][i] = EventAt(log[s], i)
      <3>1. i \in 1 .. n /\ b.events[s][i] = EventAt(then, i) /\ i \in 1 .. Len(then)
        BY <2>2, <2>3, <2>5 DEF RowsAt
      <3>2. log[s] \in Seq(Event)
        BY <2>1 DEF ExportInv, PipelineOK
      <3>3. Prefix(then, log[s])
        BY <2>2, <3>2, PrefixTransitive
      <3> QED
        BY <3>1, <3>2, <3>3, PrefixRows
    <2> QED
      BY <2>9, <2>10
  <1> QED
    BY <1>1, InvHolds, PTL

\* The period and the seals between the reads are the only reasons for a
\* stored bundle not to verify: with all events and an unmoved head it does.
THEOREM FailureExplained == Spec => []BundleFailureExplained
  <1>1. ExportInv => BundleFailureExplained
    <2> SUFFICES ASSUME ExportInv, NEW j \in Job, status[j] = "completed",
                        NEW b, b = bundle[j], NEW s \in ChainsIn(b),
                        ToSet(b.then[s]) \subseteq InPeriod[j],
                        ~ (Len(b.then[s]) < b.tips[s].pos)
                 PROVE  ChainVerifies(b, s)
      BY DEF BundleFailureExplained, VerifyBundle
    <2>1. s \in Shard /\ b.events[s] # << >>
      BY DEF ChainsIn
    <2>2. PICK then, l \in Seq(Event), f \in Increasing(Picked(b.then[s], j)) :
              /\ then = b.then[s] /\ b.events[s] = RowsAt(then, f)
              /\ Prefix(then, l) /\ Prefix(l, log[s]) /\ b.tips[s] = ChainRow(l)
      BY <2>1, BundleOfChain
    <2> DEFINE n == Len(then)
    <2>3. n \in Nat /\ Len(l) = n
      BY <2>2 DEF Prefix, ChainRow
    <2>4. Picked(then, j) = 1 .. n
      BY <2>2 DEF Picked, ToSet
    <2>5. Cardinality(1 .. n) = n
      <3> HIDE DEF n
      <3> QED
        BY <2>3, FS_Interval
    <2>6. f \in [1 .. n -> 1 .. n] /\ \A k \in 1 .. n : f[k] = k
      <3>1. f \in Increasing(1 .. n)
        BY <2>2, <2>4
      <3>2. f \in [1 .. n -> 1 .. n]
        BY <2>5, <3>1 DEF Increasing
      <3> QED
        BY <2>3, <3>1, <3>2, IncreasingAll
    <2>7. VerifyChain(RecordsAt(then, f)).valid
      BY <2>6, WholeMeansValid
    <2>8. /\ n # 0 /\ f[n] = n
          /\ ChainVerifies(b, s) <=> /\ VerifyChain(RecordsAt(then, f)).valid
                                     /\ b.tips[s].hash = HashAt(then, n)
      <3> DEFINE m == Cardinality(Picked(then, j))
      <3>1. /\ m \in Nat \ {0}
            /\ ChainVerifies(b, s) <=> /\ VerifyChain(RecordsAt(then, f)).valid
                                       /\ b.tips[s].hash = HashAt(then, f[m])
        BY <2>1, <2>2, VerifiesRows
      <3>2. m = n
        BY <2>4, <2>5
      <3> QED
        BY <2>3, <2>6, <3>1, <3>2
    <2>9. b.tips[s].hash = HashAt(then, n)
      <3>1. n \in 1 .. n /\ l # << >> /\ Len(l) = n
        BY <2>3, <2>8
      <3>2. b.tips[s].hash = HashAt(l, n)
        BY <2>2, <3>1 DEF ChainRow, TipHash
      <3> QED
        BY <2>2, <3>1, <3>2, PrefixRows
    <2> QED
      BY <2>7, <2>8, <2>9
  <1> QED
    BY <1>1, InvHolds, PTL

-----------------------------------------------------------------------------
(***************************************************************************)
(* The verifier, on any bundle.  VerifiedBundleWhole is about the bundles  *)
(* the workers store; this is about whatever a receiver may hold under the *)
(* heads of a stored one: rows left out, added, moved or changed, in any   *)
(* way.  If cmd/verify accepts it, the payload hashes, positions and event *)
(* hashes of every chain it shows are those of the journal, all of them    *)
(* from the first to the head.  The ids of rows are not covered: no hash   *)
(* commits to them.                                                        *)
(***************************************************************************)
AsSealed(row, s, i) ==
    LET sealed == EventAt(log[s], i)
    IN  row.payload = sealed.payload /\ row.pos = sealed.pos /\ row.hash = sealed.hash

HeadsDecide ==
    \A j \in Job : status[j] = "completed" =>
        \A b \in Bundle : b.tips = bundle[j].tips /\ VerifyBundle(b) =>
            \A s \in ChainsIn(b) :
                /\ Len(b.events[s]) = b.tips[s].pos
                /\ \A i \in DOMAIN b.events[s] : AsSealed(b.events[s][i], s, i)

\* Rows that verify and end in the hash of a log are as that log says.
LEMMA VerifiedAsLogged ==
    ASSUME NEW rows \in Seq(EventRow), rows # << >>, NEW l \in Seq(Event), l # << >>,
           VerifyChain([i \in DOMAIN rows |-> BundleRecord(rows[i])]).valid,
           Last(rows).hash = HashAt(l, Len(l))
    PROVE  /\ Len(rows) = Len(l)
           /\ \A i \in 1 .. Len(l) : /\ rows[i].payload = PayloadOf[l[i]]
                                     /\ rows[i].pos = i
                                     /\ rows[i].hash = HashAt(l, i)
  <1> DEFINE n == Len(rows)
             records == [i \in DOMAIN rows |-> BundleRecord(rows[i])]
  <1>1. n \in Nat /\ n \in 1 .. n /\ DOMAIN rows = 1 .. n /\ Last(rows) = rows[n]
    BY EmptySeq DEF Last
  <1>2. DOMAIN records = 1 .. n /\ \A i \in 1 .. n : records[i] = BundleRecord(rows[i])
    BY <1>1
  <1>3. \A i \in 1 .. n : rows[i] \in EventRow
    BY <1>1
  <1>4. ASSUME NEW r \in EventRow
        PROVE  /\ BundleRecord(r) \in Record
               /\ BundleRecord(r).payload = r.payload
               /\ BundleRecord(r).pos = r.pos /\ BundleRecord(r).hash = r.hash
    BY DEF EventRow, BundleRecord, Record
  <1>5. VerifyChain(records).valid /\ records = [i \in DOMAIN records |-> records[i]]
    OBVIOUS
  <1> HIDE DEF records, n
  <1>6. \A i \in 1 .. n : /\ records[i] \in Record
                          /\ records[i].payload = rows[i].payload
                          /\ records[i].pos = rows[i].pos
                          /\ records[i].hash = rows[i].hash
    BY <1>2, <1>3, <1>4
  <1>7. records \in Seq(Record) /\ Len(records) = n
    <2>1. records \in [1 .. n -> Record]
      BY <1>2, <1>5, <1>6
    <2>2. records \in Seq(Record)
      BY <1>1, <2>1
    <2> QED
      BY <1>1, <1>2, <2>2
  <1>8. \A i \in 1 .. n : HoldsPairs(records, i)
    BY <1>7, <1>5, VerifiedHoldsPairs
  <1>9. /\ Len(l) \in Nat
        /\ \A i \in 0 .. Len(l) :
              /\ HashAt(l, i) \in Hash /\ Len(HashAt(l, i)) = i
              /\ \A k \in 1 .. i : HashAt(l, i)[k] = <<PayloadOf[l[k]], k>>
    BY HashType
  <1>10. records[n].hash = HashAt(l, Len(l))
    BY <1>1, <1>6
  <1>11. n = Len(l)
    <2>1. Len(records[n].hash) = n
      BY <1>1, <1>8 DEF HoldsPairs
    <2>2. Len(HashAt(l, Len(l))) = Len(l)
      <3>1. Len(l) \in 0 .. Len(l)
        BY <1>9
      <3> QED
        BY <1>9, <3>1
    <2> QED
      BY <1>10, <2>1, <2>2
  <1>12. ASSUME NEW i \in 1 .. n
        PROVE  rows[i].payload = PayloadOf[l[i]] /\ rows[i].pos = i
    <2>1. records[n].hash[i] = <<records[i].payload, records[i].pos>>
      BY <1>1, <1>8 DEF HoldsPairs
    <2>2. HashAt(l, n)[i] = <<PayloadOf[l[i]], i>>
      <3>1. n \in 0 .. Len(l)
        BY <1>9, <1>11
      <3> QED
        BY <1>9, <3>1
    <2> QED
      BY <1>6, <1>10, <1>11, <2>1, <2>2
  <1>13. ASSUME NEW i \in 1 .. n
         PROVE  rows[i].hash = HashAt(l, i)
    <2>1. i \in 0 .. Len(l) /\ i \in Nat
      BY <1>1, <1>11
    <2>2. /\ HashAt(l, i) \in Hash /\ Len(HashAt(l, i)) = i
          /\ \A k \in 1 .. i : HashAt(l, i)[k] = <<PayloadOf[l[k]], k>>
      BY <1>9, <2>1
    <2>3. /\ records[i].hash \in Hash /\ Len(records[i].hash) = i
          /\ \A k \in 1 .. i :
                records[i].hash[k] = <<records[k].payload, records[k].pos>>
      BY <1>8 DEF HoldsPairs
    <2>4. ASSUME NEW k \in 1 .. i
          PROVE  records[i].hash[k] = HashAt(l, i)[k]
      <3>1. k \in 1 .. n
        BY <1>1
      <3>2. records[k].payload = PayloadOf[l[k]] /\ records[k].pos = k
        BY <1>6, <1>12, <3>1
      <3>3. /\ records[i].hash[k] = <<records[k].payload, records[k].pos>>
            /\ HashAt(l, i)[k] = <<PayloadOf[l[k]], k>>
        BY <2>2, <2>3
      <3> QED
        BY <3>2, <3>3
    <2>5. records[i].hash = HashAt(l, i)
      BY <2>2, <2>3, <2>4, SameHash
    <2> QED
      BY <1>6, <2>5
  <1> QED
    BY <1>11, <1>12, <1>13 DEF n

\* Whoever keeps the heads of a stored bundle cannot have other events
\* accepted under them: the hash of a head decides all the rows before it.
THEOREM HeadsAlwaysDecide == Spec => []HeadsDecide
  <1>1. ExportInv => HeadsDecide
    <2> SUFFICES ASSUME ExportInv, NEW j \in Job, status[j] = "completed",
                        NEW b \in Bundle, b.tips = bundle[j].tips,
                        VerifyBundle(b), NEW s \in ChainsIn(b)
                 PROVE  /\ Len(b.events[s]) = b.tips[s].pos
                        /\ \A i \in DOMAIN b.events[s] : AsSealed(b.events[s][i], s, i)
      BY DEF HeadsDecide
    <2> DEFINE rows == b.events[s]
    <2>1. /\ s \in Shard /\ rows # << >> /\ rows \in Seq(EventRow)
          /\ ChainVerifies(b, s)
      BY DEF ChainsIn, VerifyBundle, Bundle
    <2>2. PICK l \in Seq(Event) : Prefix(l, log[s]) /\ b.tips[s] = ChainRow(l)
      BY <2>1, BundleOfChain
    <2>3. /\ VerifyChain([i \in DOMAIN rows |-> BundleRecord(rows[i])]).valid
          /\ b.tips[s].hash = Last(rows).hash
      BY <2>1 DEF ChainVerifies, TipMatches
    <2> HIDE DEF rows
    <2>4. Last(rows).hash # Nil
      <3>1. Len(rows) \in 1 .. Len(rows)
        BY <2>1, EmptySeq
      <3>2. Last(rows) \in EventRow
        BY <2>1, <3>1 DEF Last
      <3> QED
        BY <3>2, NilAssumption DEF EventRow
    <2>5. l # << >> /\ Last(rows).hash = HashAt(l, Len(l)) /\ b.tips[s].pos = Len(l)
      BY <2>2, <2>3, <2>4 DEF ChainRow, TipHash
    <2>6. /\ Len(rows) = Len(l)
          /\ \A i \in 1 .. Len(l) : /\ rows[i].payload = PayloadOf[l[i]]
                                    /\ rows[i].pos = i
                                    /\ rows[i].hash = HashAt(l, i)
      BY <2>1, <2>2, <2>3, <2>5, VerifiedAsLogged
    <2>7. ASSUME NEW i \in DOMAIN rows
          PROVE  AsSealed(rows[i], s, i)
      <3>1. i \in 1 .. Len(l)
        BY <2>1, <2>6
      <3>2. log[s] \in Seq(Event)
        BY <2>1 DEF ExportInv, PipelineOK
      <3>3. HashAt(l, i) = HashAt(log[s], i) /\ EventAt(l, i) = EventAt(log[s], i)
        BY <2>2, <3>1, <3>2, PrefixRows
      <3>4. /\ EventAt(l, i).payload = PayloadOf[l[i]]
            /\ EventAt(l, i).pos = i /\ EventAt(l, i).hash = HashAt(l, i)
        BY DEF EventAt
      <3> QED
        BY <2>6, <3>1, <3>3, <3>4 DEF AsSealed
    <2> QED
      BY <2>5, <2>6, <2>7 DEF rows
  <1> QED
    BY <1>1, InvHolds, PTL

\* No two workers are ever at one export: the row lock of a claim lasts until
\* the export is settled or given up (ClaimPendingExport, FOR UPDATE SKIP
\* LOCKED), so an export is built twice only after a failure.
THEOREM ExportsAlwaysExclusive == Spec => []JobsExclusive
  <1>1. ExportInv => JobsExclusive
    BY DEF ExportInv
  <1> QED
    BY <1>1, InvHolds, PTL
=============================================================================
