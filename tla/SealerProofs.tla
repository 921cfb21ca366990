---------------------------- MODULE SealerProofs ----------------------------
(***************************************************************************)
(* Theorems about Sealer, for any set of events, shards, processes and any *)
(* batch size, concurrency and number of failures.                         *)
(***************************************************************************)
EXTENDS Sealer, ChainProofs, FiniteSetTheorems, TLAPS

-----------------------------------------------------------------------------
(***************************************************************************)
(* What the local computations of a transaction return.                    *)
(***************************************************************************)
LEMMA PrevHashType ==
    ASSUME NEW t \in Tx
    PROVE  PrevHash(t) \in Hash
  <1>1. t.rows \in Seq(Row) /\ t.tip.hash \in Hash
    BY DEF Tx, Tip
  <1>2. CASE t.rows = << >>
    BY <1>1, <1>2 DEF PrevHash
  <1>3. CASE t.rows # << >>
    <2>1. t.rows[Len(t.rows)] \in Row
      BY <1>1, <1>3
    <2> QED
      BY <2>1, <1>3 DEF PrevHash, Row
  <1> QED
    BY <1>2, <1>3

LEMMA NextPositionType ==
    ASSUME NEW t \in Tx
    PROVE  NextPosition(t) \in Nat \ {0}
  BY DEF NextPosition, Tx, Tip

LEMMA EventHashType ==
    ASSUME NEW h \in Hash, NEW p \in Payload, NEW n \in Nat
    PROVE  EventHash(h, p, n) \in Hash
  BY DEF EventHash, Hash

LEMMA EventRowType ==
    ASSUME NEW t \in Tx, NEW e \in Event, NEW s \in Shard
    PROVE  EventRow(t, e, s) \in Row
  <1>1. PayloadOf[e] \in Payload
    BY SealerAssumption
  <1>2. EventHash(PrevHash(t), PayloadOf[e], NextPosition(t)) \in Hash
    BY <1>1, PrevHashType, NextPositionType, EventHashType
  <1> QED
    BY <1>1, <1>2, PrevHashType, NextPositionType DEF EventRow, Row

LEMMA NewTipType ==
    ASSUME NEW t \in Tx
    PROVE  NewTip(t) \in Tip
  BY PrevHashType, NextPositionType DEF NewTip, Tip

\* The transaction after it has dropped, or kept and chained, a row.
LEMMA PassRowType ==
    ASSUME NEW t \in Tx
    PROVE  [t EXCEPT !.next = @ + 1] \in Tx
  <1>1. t.next + 1 \in Nat \ {0}
    BY DEF Tx
  <1> QED
    BY <1>1 DEF Tx

LEMMA KeepRowType ==
    ASSUME NEW t \in Tx, NEW T \in SUBSET Ext, NEW r \in Row
    PROVE  [t EXCEPT !.next = @ + 1, !.taken = @ \cup T,
                     !.rows = Append(@, r)] \in Tx
  <1>1. t.next + 1 \in Nat \ {0} /\ t.taken \cup T \in SUBSET Ext
    BY DEF Tx
  <1>2. Append(t.rows, r) \in Seq(Row)
    BY DEF Tx
  <1> QED
    BY <1>1, <1>2 DEF Tx

LEMMA NoTxType == NoTx \in Tx
  BY DEF NoTx, Tx, Step, EmptyTip, Tip, Genesis, Hash

-----------------------------------------------------------------------------
(***************************************************************************)
(* Type correctness.                                                       *)
(***************************************************************************)
LEMMA TypeInit == Init => TypeOK
  <1> SUFFICES ASSUME Init PROVE TypeOK
    OBVIOUS
  <1>1. tx \in [Worker -> Tx]
    BY NoTxType DEF Init
  <1>2. chains \in [Shard -> Tip]
    BY DEF Init, EmptyTip, Tip, Genesis, Hash
  <1>3. failures \in 0 .. MaxFailures
    BY SealerAssumption DEF Init
  <1> QED
    BY <1>1, <1>2, <1>3 DEF Init, TypeOK

LEMMA TypeStep == TypeOK /\ [Next]_vars => TypeOK'
  <1> SUFFICES ASSUME TypeOK, [Next]_vars
               PROVE  TypeOK'
    OBVIOUS
  <1> USE DEF TypeOK, vars, acceptVars, tableVars
  <1>1. ASSUME NEW e \in Event, InsertPendingEvent(e)
        PROVE  TypeOK'
    <2>1. ShardChoices(e) \subseteq Shard
      BY SealerAssumption DEF ShardChoices, ShardKey
    <2>2. Acked \in SUBSET Event
      BY DEF Acked
    <2> QED
      BY <1>1, <2>1, <2>2 DEF InsertPendingEvent
  <1>2. ASSUME NEW e \in Event, PendingVisible(e)
        PROVE  TypeOK'
    BY <1>2 DEF PendingVisible
  <1>3. ASSUME NEW p \in Process, ListShardsWithPending(p)
        PROVE  TypeOK'
    BY <1>3 DEF ListShardsWithPending, WorkLists
  <1>4. ASSUME NEW p \in Process, TickIdle(p)
        PROVE  TypeOK'
    BY <1>4 DEF TickIdle
  <1>5. ASSUME NEW p \in Process, NEW s \in Shard, BeginSeal(p, s)
        PROVE  TypeOK'
    <2>1. [NoTx EXCEPT !.step = "ensure"] \in Tx
      BY NoTxType DEF Tx, Step
    <2> QED
      BY <1>5, <2>1 DEF BeginSeal, Worker
  <1>6. ASSUME NEW w \in Worker, SealShard(w)
        PROVE  TypeOK'
    <2>0. tx[w] \in Tx /\ w[1] \in Process /\ w[2] \in Shard
      BY DEF Worker
    <2>1. CASE EnsureShardChain(w)
      BY <2>0, <2>1 DEF EnsureShardChain, Tx, Step
    <2>2. CASE LockShardChain(w)
      BY <2>0, <2>2 DEF LockShardChain, Tx, Step
    <2>3. CASE SkipLockedShard(w)
      BY <2>3, NoTxType DEF SkipLockedShard
    <2>4. CASE DrainPendingForShard(w)
      <3>0. PICK n \in 1 .. BatchSize : \E b \in [1 .. n -> PendingOf(w[2])] :
               tx' = [tx EXCEPT ![w].step = "lookup", ![w].batch = b]
        BY <2>4 DEF DrainPendingForShard
      <3>1. PICK b \in [1 .. n -> PendingOf(w[2])] :
               tx' = [tx EXCEPT ![w].step = "lookup", ![w].batch = b]
        BY <3>0
      <3>2. b \in Seq(Event)
        <4>1. n \in Nat /\ PendingOf(w[2]) \subseteq Event
          BY SealerAssumption DEF PendingOf
        <4> QED
          BY <4>1
      <3>3. [tx[w] EXCEPT !.step = "lookup", !.batch = b] \in Tx
        BY <2>0, <3>2 DEF Tx, Step
      <3> QED
        BY <2>0, <2>4, <3>1, <3>3 DEF DrainPendingForShard
    <2>5. CASE DrainNothing(w)
      BY <2>0, <2>5, NoTxType DEF DrainNothing
    <2>6. CASE ExistingExternalEventIDs(w)
      <3> DEFINE found == SealedExts \cap {ExtOf[e] : e \in ToSet(tx[w].batch)}
      <3>1. found \in SUBSET Ext
        BY SealerAssumption DEF SealedExts, Row
      <3> HIDE DEF found
      <3>2. [tx[w] EXCEPT !.step = "build", !.taken = found] \in Tx
        BY <2>0, <3>1 DEF Tx, Step
      <3> QED
        BY <2>0, <2>6, <3>2 DEF ExistingExternalEventIDs, found
    <2>7. CASE DropDuplicate(w)
      <3>1. [tx[w] EXCEPT !.next = @ + 1] \in Tx
        BY <2>0, PassRowType
      <3> QED
        BY <2>0, <2>7, <3>1 DEF DropDuplicate
    <2>8. CASE ChainRow(w)
      <3> DEFINE e == tx[w].batch[tx[w].next]
                 built == [tx[w] EXCEPT !.next = @ + 1,
                                        !.taken = @ \cup TakenBy(e),
                                        !.rows = Append(@, EventRow(tx[w], e, w[2]))]
      <3>1. e \in Event
        BY <2>0, <2>8 DEF ChainRow, MoreRows, Tx
      <3>2. TakenBy(e) \subseteq Ext
        BY <3>1, SealerAssumption DEF TakenBy
      <3>3. EventRow(tx[w], e, w[2]) \in Row
        BY <2>0, <3>1, EventRowType
      <3> HIDE DEF e
      <3>4. built \in Tx
        BY <2>0, <3>2, <3>3, KeepRowType
      <3> QED
        BY <2>0, <2>8, <3>4 DEF ChainRow, e
    <2>9. CASE CommitAllDuplicates(w)
      BY <2>0, <2>9, NoTxType DEF CommitAllDuplicates
    <2>10. CASE CopyEvents(w)
      BY <2>0, <2>10, NoTxType DEF CopyEvents, Tx, Step
    <2>11. CASE PublishCheckpoint(w)
      <3>1. [tx[w] EXCEPT !.step = "commit"] \in Tx
        BY <2>0 DEF Tx, Step
      <3>2. NewTip(tx[w]) \in Tip
        BY <2>0, NewTipType
      <3>3. anchored' \subseteq Anchor
        BY <2>0, <2>11, <3>2 DEF PublishCheckpoint, NewHead, Anchor, Tip
      <3> QED
        BY <2>0, <2>11, <3>1, <3>3 DEF PublishCheckpoint
    <2>12. CASE CommitSeal(w)
      <3>1. NewTip(tx[w]) \in Tip
        BY <2>0, NewTipType
      <3>2. ToSet(tx[w].rows) \subseteq Row
        BY <2>0 DEF Tx, ToSet
      <3>3. NewCheckpoint(tx[w], w[2]) \in Checkpoint
        <4>1. tx[w].tip.pos + 1 \in Nat /\ Len(tx[w].rows) \in Nat
          BY <2>0 DEF Tx, Tip
        <4> QED
          BY <2>0, <3>1, <4>1 DEF NewCheckpoint, Checkpoint, Tip
      <3>4. chains' \in [Shard -> Tip]
        BY <2>0, <2>12, <3>1 DEF CommitSeal
      <3>5. journal' \subseteq Row /\ checkpoints' \subseteq Checkpoint
        BY <2>12, <3>2, <3>3 DEF CommitSeal
      <3>6. tx' \in [Worker -> Tx]
        BY <2>12, NoTxType DEF CommitSeal
      <3>7. pending' \subseteq Event /\ chainRows' \subseteq Shard
        BY <2>0, <2>12 DEF CommitSeal
      <3> QED
        BY <2>12, <3>4, <3>5, <3>6, <3>7 DEF CommitSeal
    <2> QED
      BY <1>6, <2>1, <2>2, <2>3, <2>4, <2>5, <2>6, <2>7, <2>8, <2>9, <2>10,
         <2>11, <2>12 DEF SealShard
  <1>7. ASSUME NEW w \in Worker, SealFails(w)
        PROVE  TypeOK'
    BY <1>7, NoTxType, SealerAssumption DEF SealFails
  <1>8. ASSUME NEW p \in Process, Crash(p)
        PROVE  TypeOK'
    BY <1>8, NoTxType, SealerAssumption DEF Crash
  <1>9. CASE UNCHANGED vars
    BY <1>9
  <1> QED
    BY <1>1, <1>2, <1>3, <1>4, <1>5, <1>6, <1>7, <1>8, <1>9 DEF Next

(***************************************************************************)
(* Every variable keeps its type, in every instance.                       *)
(***************************************************************************)
THEOREM TypeCorrect == Spec => []TypeOK
  BY TypeInit, TypeStep, PTL DEF Spec

-----------------------------------------------------------------------------
(***************************************************************************)
(* The chain invariant.  A step of SealShard changes one transaction; the  *)
(* next lemma says what it must show of the transaction it leaves behind:  *)
(* it holds the chain row only if it did before, with the same tip, or if  *)
(* the row was free and it read the current tip, and its rows continue     *)
(* that tip.                                                               *)
(***************************************************************************)
LEMMA OneTxChanges ==
    ASSUME TypeOK, OneSealer, TipCurrent, RowsContinueTip, chains' = chains,
           NEW w \in Worker, NEW t, tx' = [tx EXCEPT ![w] = t],
           t.step \in Locking =>
               \/ Holds(w) /\ t.tip = tx[w].tip
               \/ LockFree(w) /\ t.tip = chains[w[2]],
           RowsContinue(t, w[2])
    PROVE  OneSealer' /\ TipCurrent' /\ RowsContinueTip'
  <1>1. tx'[w] = t /\ \A v \in Worker : v # w => tx'[v] = tx[v]
    BY DEF TypeOK
  <1>2. OneSealer'
    <2> SUFFICES ASSUME NEW u \in Worker, NEW v \in Worker, u[2] = v[2],
                        Holds(u)', Holds(v)', u # v
                 PROVE  FALSE
      BY DEF OneSealer
    <2>1. CASE u # w /\ v # w
      BY <1>1, <2>1 DEF OneSealer, Holds
    <2>2. CASE u = w
      BY <1>1, <2>2 DEF OneSealer, Holds, LockFree
    <2>3. CASE v = w
      BY <1>1, <2>3 DEF OneSealer, Holds, LockFree
    <2> QED
      BY <2>1, <2>2, <2>3
  <1>3. TipCurrent'
    BY <1>1 DEF TipCurrent, Holds
  <1>4. RowsContinueTip'
    BY <1>1 DEF RowsContinueTip
  <1> QED
    BY <1>2, <1>3, <1>4

LEMMA NoTxContinues ==
    ASSUME NEW s
    PROVE  RowsContinue(NoTx, s) /\ NoTx.step \notin Locking
  BY DEF NoTx, RowsContinue, Locking

\* Steps that touch neither the chains nor the journal keep the chain.
LEMMA ChainUntouched ==
    ASSUME ChainIntact, UNCHANGED <<chains, journal>>
    PROVE  ChainIntact'
  BY DEF ChainIntact, ChainPositions, ChainLinks, ChainTip, RowsOf

\* The rows are chained as they are built: appending EventRow continues them.
LEMMA ChainRowContinues ==
    ASSUME NEW t \in Tx, NEW s \in Shard, NEW e \in Event, RowsContinue(t, s),
           t.step = "build", NEW T
    PROVE  RowsContinue([t EXCEPT !.next = @ + 1, !.taken = @ \cup T,
                                  !.rows = Append(@, EventRow(t, e, s))], s)
  <1> DEFINE r == EventRow(t, e, s)
             u == [t EXCEPT !.next = @ + 1, !.taken = @ \cup T,
                            !.rows = Append(@, r)]
             n == Len(t.rows)
  <1>1. /\ t.rows \in Seq(Row) /\ n \in Nat /\ t.tip.pos \in Nat
        /\ r \in Row
    BY EventRowType DEF Tx, Tip
  <1>2. /\ u.rows = Append(t.rows, r) /\ u.tip = t.tip /\ u.step = "build"
    BY DEF Tx
  <1>3. /\ r.shard = s /\ r.pos = t.tip.pos + (n + 1)
        /\ r.prev = (IF n + 1 = 1 THEN t.tip.hash ELSE t.rows[n].hash)
        /\ r.hash = EventHash(r.prev, r.payload, r.pos)
    <2>1. r.shard = s /\ r.pos = t.tip.pos + n + 1
      BY DEF EventRow, NextPosition
    <2>2. r.prev = (IF t.rows = << >> THEN t.tip.hash ELSE t.rows[n].hash)
      BY DEF EventRow, PrevHash
    <2>3. r.hash = EventHash(r.prev, r.payload, r.pos)
      BY DEF EventRow
    <2>4. n + 1 = 1 <=> t.rows = << >>
      BY <1>1
    <2> QED
      BY <1>1, <2>1, <2>2, <2>3, <2>4
  <1>4. ASSUME NEW i \in 1 .. n
        PROVE  RowContinues(u, s, i)
    <2>1. RowContinues(t, s, i)
      BY DEF RowsContinue
    <2>2. u.rows[i] = t.rows[i] /\ (i # 1 => u.rows[i - 1] = t.rows[i - 1])
      <3> HIDE DEF r, u
      <3> QED
        BY <1>1, <1>2
    <2> QED
      BY <1>2, <2>1, <2>2 DEF RowContinues
  <1>5. RowContinues(u, s, n + 1)
    <2>1. u.rows[n + 1] = r /\ (n + 1 # 1 => u.rows[n + 1 - 1] = t.rows[n])
      <3> HIDE DEF r, u
      <3> QED
        BY <1>1, <1>2
    <2> HIDE DEF r, u
    <2> QED
      BY <1>1, <1>2, <1>3, <2>1 DEF RowContinues
  <1>6. Len(u.rows) = n + 1
    <2> HIDE DEF r, u
    <2> QED
      BY <1>1, <1>2
  <1> QED
    <2> HIDE DEF r
    <2>1. \A i \in 1 .. Len(u.rows) : RowContinues(u, s, i)
      <3> HIDE DEF u
      <3> QED
        BY <1>1, <1>4, <1>5, <1>6
    <2> QED
      BY <1>2, <2>1 DEF RowsContinue, r

(***************************************************************************)
(* The commit puts the batch at the end of the chain: its rows take the    *)
(* positions after the old tip, the first one continues the row the tip    *)
(* named, and the new tip names the last.                                  *)
(***************************************************************************)
LEMMA CommitKeepsChain ==
    ASSUME TypeOK, TipCurrent, RowsContinueTip, ChainIntact,
           NEW w \in Worker, CommitSeal(w)
    PROVE  ChainIntact'
  <1> DEFINE t == tx[w]
             s == w[2]
             n == Len(t.rows)
             old == chains[s].pos
             new == {t.rows[i] : i \in 1 .. n}
  <1>1. s \in Shard /\ t \in Tx
    BY DEF Worker, TypeOK
  <1>2. /\ t.rows \in Seq(Row) /\ n \in Nat /\ old \in Nat /\ t.rows # << >>
        /\ t.tip = chains[s]
        /\ n >= 1
    <2>1. t.rows \in Seq(Row)
      BY <1>1 DEF Tx
    <2>2. chains[s] \in Tip /\ t.step = "commit"
      BY <1>1 DEF TypeOK, CommitSeal
    <2>3. t.tip = chains[s]
      BY <2>2 DEF TipCurrent, Holds, Locking
    <2>4. t.rows # << >>
      BY <2>2 DEF RowsContinueTip, RowsContinue
    <2> QED
      BY <2>1, <2>2, <2>3, <2>4 DEF Tip
  <1>3. \A i \in 1 .. n :
           /\ t.rows[i].shard = s
           /\ t.rows[i].pos = old + i
           /\ t.rows[i].prev = IF i = 1 THEN chains[s].hash
                                        ELSE t.rows[i - 1].hash
           /\ t.rows[i].hash = EventHash(t.rows[i].prev, t.rows[i].payload,
                                         t.rows[i].pos)
    BY <1>2 DEF RowsContinueTip, RowsContinue, RowContinues
  <1>4. journal' = journal \cup new
    BY <1>2 DEF CommitSeal, ToSet
  <1>5. chains'[s] = [pos |-> old + n, hash |-> t.rows[n].hash]
    <2>1. NewTip(t) = [pos |-> old + n, hash |-> t.rows[n].hash]
      BY <1>2 DEF NewTip, NextPosition, PrevHash
    <2> QED
      BY <1>1, <2>1 DEF CommitSeal, TypeOK
  <1>6. \A z \in Shard \ {s} : chains'[z] = chains[z]
    BY <1>1 DEF CommitSeal, TypeOK
  <1> HIDE DEF t, n, old
  <1>7. RowsOf(s)' = RowsOf(s) \cup new
    BY <1>3, <1>4 DEF RowsOf
  <1>8. \A z \in Shard \ {s} : RowsOf(z)' = RowsOf(z)
    BY <1>3, <1>4 DEF RowsOf
  <1>9. ASSUME NEW z \in Shard \ {s}
        PROVE  (ChainPositions(z) /\ ChainLinks(z) /\ ChainTip(z))'
    BY <1>6, <1>8 DEF ChainIntact, ChainPositions, ChainLinks, ChainTip
  <1> HIDE DEF s
  <1>num. n \in Nat /\ old \in Nat /\ n >= 1
    BY <1>2
  <1>pos. \A i \in 1 .. n : t.rows[i].pos = old + i
    BY <1>3
  <1>10. /\ \A r \in RowsOf(s) : r.pos \in 1 .. old
         /\ \A r \in new : r.pos \in old + 1 .. old + n
    <2>1. \A r \in RowsOf(s) : r.pos \in 1 .. old
      BY <1>1 DEF ChainIntact, ChainPositions, old
    <2>2. \A r \in new : r.pos \in old + 1 .. old + n
      BY <1>num, <1>pos
    <2> QED
      BY <2>1, <2>2
  <1>11. ChainPositions(s)'
    <2>1. \A r \in RowsOf(s)' : r.pos \in 1 .. chains'[s].pos
      BY <1>2, <1>5, <1>7, <1>10
    <2>2. ASSUME NEW i \in 1 .. chains'[s].pos
          PROVE  \E r \in RowsOf(s)' : r.pos = i
      <3>1. CASE i <= old
        <4>1. \E r \in RowsOf(s) : r.pos = i
          BY <1>1, <1>2, <2>2, <3>1 DEF ChainIntact, ChainPositions, old
        <4> QED
          BY <1>7, <4>1
      <3>2. CASE i > old
        <4>1. i - old \in 1 .. n
          BY <1>2, <1>5, <2>2, <3>2
        <4>2. t.rows[i - old] \in new /\ t.rows[i - old].pos = old + (i - old)
          BY <1>pos, <4>1
        <4>3. old + (i - old) = i
          BY <1>num, <1>5, <2>2
        <4> QED
          BY <1>7, <4>2, <4>3
      <3> QED
        BY <1>num, <1>5, <2>2, <3>1, <3>2
    <2>3. ASSUME NEW q \in RowsOf(s)', NEW r \in RowsOf(s)', q.pos = r.pos
          PROVE  q = r
      <3>1. CASE q \in RowsOf(s) /\ r \in RowsOf(s)
        BY <1>1, <2>3, <3>1 DEF ChainIntact, ChainPositions
      <3>2. CASE q \in new /\ r \in new
        <4>1. PICK i \in 1 .. n : q = t.rows[i]
          BY <3>2
        <4>2. PICK j \in 1 .. n : r = t.rows[j]
          BY <3>2
        <4>3. i = j
          BY <1>num, <1>pos, <2>3, <4>1, <4>2
        <4> QED
          BY <4>1, <4>2, <4>3
      <3> QED
        BY <1>num, <1>7, <1>10, <2>3, <3>1, <3>2
    <2> QED
      BY <2>1, <2>2, <2>3 DEF ChainPositions
  <1>12. ChainLinks(s)'
    <2> SUFFICES ASSUME NEW r \in RowsOf(s)'
                 PROVE  /\ r.hash = EventHash(r.prev, r.payload, r.pos)
                        /\ r.pos = 1 => r.prev = Genesis
                        /\ \A q \in RowsOf(s)' :
                              r.pos = q.pos + 1 => r.prev = q.hash
      BY DEF ChainLinks
    <2>1. CASE r \in RowsOf(s)
      <3>1. /\ r.hash = EventHash(r.prev, r.payload, r.pos)
            /\ r.pos = 1 => r.prev = Genesis
            /\ \A q \in RowsOf(s) : r.pos = q.pos + 1 => r.prev = q.hash
        BY <1>1, <2>1 DEF ChainIntact, ChainLinks
      <3>2. \A q \in new : r.pos # q.pos + 1
        BY <1>2, <1>10, <2>1
      <3> QED
        BY <1>7, <3>1, <3>2
    <2>2. CASE r \in new
      <3>1. PICK i \in 1 .. n : r = t.rows[i]
        BY <2>2
      <3>2. r.hash = EventHash(r.prev, r.payload, r.pos)
        BY <1>3, <3>1
      <3>3. ASSUME r.pos = 1
            PROVE  r.prev = Genesis
        <4>1. i = 1 /\ old = 0
          BY <1>2, <1>3, <3>1, <3>3
        <4>2. chains[s].hash = Genesis
          BY <1>1, <4>1 DEF ChainIntact, ChainTip, old
        <4> QED
          BY <1>3, <3>1, <4>1, <4>2
      <3>4. ASSUME NEW q \in RowsOf(s), r.pos = q.pos + 1
            PROVE  r.prev = q.hash
        <4>1. i = 1 /\ q.pos = old
          BY <1>num, <1>pos, <1>10, <3>1, <3>4
        <4>2. q.hash = chains[s].hash
          BY <1>1, <4>1 DEF ChainIntact, ChainTip, old
        <4> QED
          BY <1>3, <3>1, <4>1, <4>2
      <3>5. ASSUME NEW q \in new, r.pos = q.pos + 1
            PROVE  r.prev = q.hash
        <4>1. PICK j \in 1 .. n : q = t.rows[j]
          BY <3>5
        <4>2. i # 1 /\ j = i - 1
          BY <1>num, <1>pos, <3>1, <3>5, <4>1
        <4> QED
          BY <1>3, <3>1, <4>1, <4>2
      <3> QED
        BY <1>7, <3>2, <3>3, <3>4, <3>5
    <2> QED
      BY <1>7, <2>1, <2>2
  <1>13. ChainTip(s)'
    <2>1. chains'[s].pos # 0
      BY <1>2, <1>5
    <2>2. ASSUME NEW r \in RowsOf(s)', r.pos = chains'[s].pos
          PROVE  r.hash = chains'[s].hash
      <3>1. r \in new
        BY <1>2, <1>5, <1>7, <1>10, <2>2
      <3>2. PICK i \in 1 .. n : r = t.rows[i]
        BY <3>1
      <3>3. i = n
        BY <1>2, <1>3, <1>5, <2>2, <3>2
      <3> QED
        BY <1>5, <3>2, <3>3
    <2> QED
      BY <2>1, <2>2 DEF ChainTip
  <1> QED
    BY <1>9, <1>11, <1>12, <1>13 DEF ChainIntact

LEMMA ChainInvInit == Init => ChainInv
  <1> SUFFICES ASSUME Init PROVE ChainInv
    OBVIOUS
  <1>1. TypeOK
    BY TypeInit
  <1>2. \A w \in Worker : tx[w] = NoTx
    BY DEF Init
  <1>3. OneSealer /\ TipCurrent /\ RowsContinueTip
    BY <1>2, NoTxContinues DEF OneSealer, TipCurrent, RowsContinueTip, Holds
  <1>4. ChainIntact
    BY DEF Init, ChainIntact, ChainPositions, ChainLinks, ChainTip, RowsOf,
           EmptyTip
  <1> QED
    BY <1>1, <1>3, <1>4 DEF ChainInv

LEMMA ChainInvStep == ChainInv /\ [Next]_vars => ChainInv'
  <1> SUFFICES ASSUME ChainInv, [Next]_vars
               PROVE  ChainInv'
    OBVIOUS
  <1>1. TypeOK'
    BY TypeStep DEF ChainInv
  <1> SUFFICES ChainIntact' /\ OneSealer' /\ TipCurrent' /\ RowsContinueTip'
    BY <1>1 DEF ChainInv
  <1>2. TypeOK /\ OneSealer /\ TipCurrent /\ RowsContinueTip /\ ChainIntact
    BY DEF ChainInv
  \* Steps that leave every transaction and the chains alone.
  <1>3. ASSUME UNCHANGED <<chains, journal, tx>>
        PROVE  ChainIntact' /\ OneSealer' /\ TipCurrent' /\ RowsContinueTip'
    BY <1>2, <1>3, ChainUntouched
       DEF OneSealer, TipCurrent, RowsContinueTip, Holds
  \* Steps that roll a transaction back, or commit one that sealed nothing.
  <1>4. ASSUME NEW w \in Worker, UNCHANGED <<chains, journal>>,
               tx' = [tx EXCEPT ![w] = NoTx]
        PROVE  ChainIntact' /\ OneSealer' /\ TipCurrent' /\ RowsContinueTip'
    BY <1>2, <1>4, ChainUntouched, NoTxContinues, OneTxChanges
  <1>5. ASSUME NEW p \in Process, NEW s \in Shard, BeginSeal(p, s)
        PROVE  ChainIntact' /\ OneSealer' /\ TipCurrent' /\ RowsContinueTip'
    <2> DEFINE t == [NoTx EXCEPT !.step = "ensure"]
    <2>1. RowsContinue(t, s) /\ t.step \notin Locking
      BY DEF NoTx, RowsContinue, Locking
    <2>2. <<p, s>> \in Worker /\ <<p, s>>[2] = s
      BY DEF Worker
    <2>3. UNCHANGED <<chains, journal>> /\ tx' = [tx EXCEPT ![<<p, s>>] = t]
      BY <1>5 DEF BeginSeal, tableVars
    <2> HIDE DEF t
    <2> QED
      BY <1>2, <2>1, <2>2, <2>3, ChainUntouched, OneTxChanges
  <1>6. ASSUME NEW w \in Worker, SealShard(w)
        PROVE  ChainIntact' /\ OneSealer' /\ TipCurrent' /\ RowsContinueTip'
    <2> DEFINE t == tx[w]
    <2>0. /\ t \in Tx /\ w[2] \in Shard /\ RowsContinue(t, w[2])
          /\ chains[w[2]] \in Tip /\ t.rows \in Seq(Row)
      BY <1>2 DEF TypeOK, Worker, RowsContinueTip, Tx
    \* A step that changes neither the tip nor the rows, and takes no lock.
    <2>a. ASSUME NEW u, UNCHANGED <<chains, journal>>, tx' = [tx EXCEPT ![w] = u],
                 u.tip = t.tip, u.rows = t.rows,
                 u.step \in Locking => t.step \in Locking,
                 u.step \notin {"build", "anchor", "commit"} => t.rows = << >>,
                 u.step \in {"anchor", "commit"} => t.rows # << >>
          PROVE  ChainIntact' /\ OneSealer' /\ TipCurrent' /\ RowsContinueTip'
      <3>1. RowsContinue(u, w[2])
        BY <2>0, <2>a DEF RowsContinue, RowContinues
      <3> QED
        BY <1>2, <2>a, <3>1, ChainUntouched, OneTxChanges DEF Holds
    <2>1. CASE EnsureShardChain(w)
      <3> DEFINE u == [t EXCEPT !.step = "lock", !.creates = w[2] \notin chainRows]
      <3>1. /\ u.tip = t.tip /\ u.rows = t.rows /\ u.step = "lock"
        BY <2>0 DEF Tx
      <3>2. t.rows = << >>
        BY <2>0, <2>1 DEF EnsureShardChain, RowsContinue
      <3>3. UNCHANGED <<chains, journal>> /\ tx' = [tx EXCEPT ![w] = u]
        BY <2>1 DEF EnsureShardChain, tableVars
      <3> HIDE DEF u, t
      <3> QED
        BY <2>a, <3>1, <3>2, <3>3 DEF Locking
    <2>2. CASE LockShardChain(w)
      <3> DEFINE u == [t EXCEPT !.step = "drain", !.tip = chains[w[2]]]
      <3>1. u.tip = chains[w[2]] /\ u.rows = t.rows /\ u.step = "drain"
        BY <2>0 DEF Tx
      <3>2. t.rows = << >>
        BY <2>0, <2>2 DEF LockShardChain, RowsContinue
      <3>3. RowsContinue(u, w[2])
        <4> HIDE DEF u
        <4> QED
          BY <3>1, <3>2 DEF RowsContinue
      <3>4. UNCHANGED <<chains, journal>> /\ tx' = [tx EXCEPT ![w] = u]
            /\ LockFree(w)
        BY <2>2 DEF LockShardChain, tableVars
      <3> HIDE DEF u, t
      <3> QED
        BY <1>2, <3>1, <3>3, <3>4, ChainUntouched, OneTxChanges
    <2>3. CASE SkipLockedShard(w)
      BY <2>3, <1>4 DEF SkipLockedShard, tableVars
    <2>4. CASE DrainPendingForShard(w)
      <3>1. PICK b : tx' = [tx EXCEPT ![w].step = "lookup", ![w].batch = b]
        BY <2>4 DEF DrainPendingForShard
      <3> DEFINE u == [t EXCEPT !.step = "lookup", !.batch = b]
      <3>2. u.tip = t.tip /\ u.rows = t.rows /\ u.step = "lookup"
        BY <2>0 DEF Tx
      <3>3. t.rows = << >> /\ t.step \in Locking
        BY <2>0, <2>4 DEF DrainPendingForShard, RowsContinue, Locking
      <3>4. UNCHANGED <<chains, journal>> /\ tx' = [tx EXCEPT ![w] = u]
        BY <2>4, <3>1 DEF DrainPendingForShard, tableVars
      <3> HIDE DEF u, t
      <3> QED
        BY <2>a, <3>2, <3>3, <3>4
    <2>5. CASE DrainNothing(w)
      BY <2>5, <1>4 DEF DrainNothing
    <2>6. CASE ExistingExternalEventIDs(w)
      <3>1. PICK T : tx' = [tx EXCEPT ![w].step = "build", ![w].taken = T]
        BY <2>6 DEF ExistingExternalEventIDs
      <3> DEFINE u == [t EXCEPT !.step = "build", !.taken = T]
      <3>2. u.tip = t.tip /\ u.rows = t.rows /\ u.step = "build"
        BY <2>0 DEF Tx
      <3>3. t.step \in Locking
        BY <2>6 DEF ExistingExternalEventIDs, Locking
      <3>4. UNCHANGED <<chains, journal>> /\ tx' = [tx EXCEPT ![w] = u]
        BY <2>6, <3>1 DEF ExistingExternalEventIDs, tableVars
      <3> HIDE DEF u, t
      <3> QED
        BY <2>a, <3>2, <3>3, <3>4
    <2>7. CASE DropDuplicate(w)
      <3> DEFINE u == [t EXCEPT !.next = @ + 1]
      <3>1. u.tip = t.tip /\ u.rows = t.rows /\ u.step = t.step
        BY <2>0 DEF Tx
      <3>2. t.step = "build"
        BY <2>7 DEF DropDuplicate, MoreRows
      <3>3. UNCHANGED <<chains, journal>> /\ tx' = [tx EXCEPT ![w] = u]
        BY <2>7 DEF DropDuplicate, tableVars
      <3> HIDE DEF u, t
      <3> QED
        BY <2>a, <3>1, <3>2, <3>3
    <2>8. CASE ChainRow(w)
      <3> DEFINE e == t.batch[t.next]
                 T == TakenBy(e)
                 u == [t EXCEPT !.next = @ + 1, !.taken = @ \cup T,
                                !.rows = Append(@, EventRow(t, e, w[2]))]
      <3>1. t.step = "build" /\ e \in Event
        BY <2>0, <2>8 DEF ChainRow, MoreRows, Tx
      <3>2. u.tip = t.tip /\ u.step = t.step
        BY <2>0 DEF Tx
      <3>3. UNCHANGED <<chains, journal>> /\ tx' = [tx EXCEPT ![w] = u]
        BY <2>8 DEF ChainRow, tableVars
      <3>4. RowsContinue(u, w[2])
        <4> HIDE DEF e, T, t
        <4> QED
          BY <2>0, <3>1, ChainRowContinues
      <3> HIDE DEF u
      <3> QED
        BY <1>2, <3>1, <3>2, <3>3, <3>4, ChainUntouched, OneTxChanges
           DEF Holds, Locking
    <2>9. CASE CommitAllDuplicates(w)
      BY <2>9, <1>4 DEF CommitAllDuplicates
    <2>10. CASE CopyEvents(w)
      <3>1. CASE UniqueViolation(w)
        BY <2>10, <3>1, <1>4 DEF CopyEvents, tableVars
      <3>2. CASE ~ UniqueViolation(w)
        <4> DEFINE u == [t EXCEPT !.step = "anchor"]
        <4>1. u.tip = t.tip /\ u.rows = t.rows /\ u.step = "anchor"
          BY <2>0 DEF Tx
        <4>2. t.step \in Locking /\ t.rows # << >>
          BY <2>10 DEF CopyEvents, BatchBuilt, Locking
        <4>3. UNCHANGED <<chains, journal>> /\ tx' = [tx EXCEPT ![w] = u]
          BY <2>10, <3>2 DEF CopyEvents, tableVars
        <4> HIDE DEF u, t
        <4> QED
          BY <2>a, <4>1, <4>2, <4>3
      <3> QED
        BY <3>1, <3>2
    <2>11. CASE PublishCheckpoint(w)
      <3> DEFINE u == [t EXCEPT !.step = "commit"]
      <3>1. u.tip = t.tip /\ u.rows = t.rows /\ u.step = "commit"
        BY <2>0 DEF Tx
      <3>2. t.step \in Locking /\ t.rows # << >>
        BY <2>0, <2>11 DEF PublishCheckpoint, RowsContinue, Locking
      <3>3. UNCHANGED <<chains, journal>> /\ tx' = [tx EXCEPT ![w] = u]
        BY <2>11 DEF PublishCheckpoint, tableVars
      <3> HIDE DEF u, t
      <3> QED
        BY <2>a, <3>1, <3>2, <3>3
    <2>12. CASE CommitSeal(w)
      <3>1. ChainIntact'
        BY <1>2, <2>12, CommitKeepsChain
      <3>2. tx' = [tx EXCEPT ![w] = NoTx]
            /\ chains' = [chains EXCEPT ![w[2]] = NewTip(t)]
            /\ Holds(w)
        BY <2>12 DEF CommitSeal, Holds, Locking
      <3>3. tx'[w] = NoTx /\ \A v \in Worker \ {w} : tx'[v] = tx[v]
        BY <1>2, <3>2 DEF TypeOK
      <3>4. OneSealer'
        BY <1>2, <3>3, NoTxContinues DEF OneSealer, Holds
      <3>5. TipCurrent'
        <4> SUFFICES ASSUME NEW v \in Worker, Holds(v)'
                     PROVE  tx'[v].tip = chains'[v[2]]
          BY DEF TipCurrent
        <4>1. v # w /\ Holds(v)
          BY <3>3, NoTxContinues DEF Holds
        <4>2. v[2] # w[2] /\ v[2] \in Shard
          BY <1>2, <3>2, <4>1 DEF OneSealer, Worker
        <4> QED
          BY <1>2, <2>0, <3>2, <3>3, <4>1, <4>2 DEF TipCurrent, TypeOK
      <3>6. RowsContinueTip'
        BY <1>2, <3>3, NoTxContinues DEF RowsContinueTip
      <3> QED
        BY <3>1, <3>4, <3>5, <3>6
    <2> QED
      BY <1>6, <2>1, <2>2, <2>3, <2>4, <2>5, <2>6, <2>7, <2>8, <2>9, <2>10,
         <2>11, <2>12 DEF SealShard
  <1>7. ASSUME NEW p \in Process, Crash(p)
        PROVE  ChainIntact' /\ OneSealer' /\ TipCurrent' /\ RowsContinueTip'
    <2>1. UNCHANGED <<chains, journal>>
      BY <1>7 DEF Crash, tableVars
    <2>2. \A w \in Worker : tx'[w] = NoTx \/ tx'[w] = tx[w]
      BY <1>7 DEF Crash
    <2>3. OneSealer' /\ TipCurrent'
      BY <1>2, <2>1, <2>2, NoTxContinues DEF OneSealer, TipCurrent, Holds
    <2>4. RowsContinueTip'
      BY <1>2, <2>2, NoTxContinues DEF RowsContinueTip
    <2> QED
      BY <1>2, <2>1, <2>3, <2>4, ChainUntouched
  <1>8. ASSUME NEW e \in Event, InsertPendingEvent(e) \/ PendingVisible(e)
        PROVE  ChainIntact' /\ OneSealer' /\ TipCurrent' /\ RowsContinueTip'
    BY <1>3, <1>8 DEF InsertPendingEvent, PendingVisible, tableVars
  <1>9. ASSUME NEW p \in Process, ListShardsWithPending(p) \/ TickIdle(p)
        PROVE  ChainIntact' /\ OneSealer' /\ TipCurrent' /\ RowsContinueTip'
    BY <1>3, <1>9 DEF ListShardsWithPending, TickIdle, vars, tableVars
  <1>10. ASSUME NEW w \in Worker, SealFails(w)
         PROVE  ChainIntact' /\ OneSealer' /\ TipCurrent' /\ RowsContinueTip'
    BY <1>4, <1>10 DEF SealFails, tableVars
  <1>11. CASE UNCHANGED vars
    BY <1>3, <1>11 DEF vars, tableVars
  <1> QED
    BY <1>5, <1>6, <1>7, <1>8, <1>9, <1>10, <1>11 DEF Next

(***************************************************************************)
(* In every reachable state the chain of every shard is intact, however    *)
(* many sealers run, whatever fails and whatever the batch size.           *)
(***************************************************************************)
THEOREM ChainAlwaysIntact == Spec => []ChainIntact
  <1>1. ChainInv => ChainIntact
    BY DEF ChainInv
  <1> QED
    BY <1>1, ChainInvInit, ChainInvStep, PTL DEF Spec

(***************************************************************************)
(* What SealShard does between two commits keeps the chains safe, in every *)
(* reachable state: one goroutine holds a chain, the tip it has locked is  *)
(* the committed one, and the rows it has built continue that tip.         *)
(***************************************************************************)
THEOREM LockedTipCurrent == Spec => []ChainInv
  BY ChainInvInit, ChainInvStep, PTL DEF Spec

-----------------------------------------------------------------------------
(***************************************************************************)
(* The checkpoints of a chain.                                             *)
(***************************************************************************)
LEMMA TileInit == Init => CheckpointsTile
  BY DEF Init, CheckpointsTile, CheckpointsOf, EmptyTip

LEMMA TileUntouched ==
    ASSUME CheckpointsTile, UNCHANGED <<chains, journal, checkpoints>>
    PROVE  CheckpointsTile'
  BY DEF CheckpointsTile, CheckpointsOf, RowsOf

\* The checkpoint of a commit spans exactly the positions the commit adds.
LEMMA CommitTiles ==
    ASSUME ChainInv, CheckpointsTile, NEW w \in Worker, CommitSeal(w)
    PROVE  CheckpointsTile'
  <1> DEFINE t == tx[w]
             s == w[2]
             n == Len(t.rows)
             old == chains[s].pos
             c == NewCheckpoint(t, s)
             spans(C, i) == {k \in C : i \in k.from .. k.to}
  <1>1. /\ TypeOK /\ RowsContinue(t, s) /\ s \in Shard
        /\ t.rows \in Seq(Row) /\ n \in Nat /\ n >= 1 /\ old \in Nat
        /\ t.tip = chains[s]
    <2>1. t \in Tx /\ s \in Shard /\ chains[s] \in Tip /\ Holds(w)
      BY DEF ChainInv, TypeOK, Worker, CommitSeal, Holds, Locking
    <2>2. TypeOK /\ RowsContinue(t, s) /\ t.tip = chains[s]
      BY <2>1 DEF ChainInv, RowsContinueTip, TipCurrent
    <2>3. t.rows # << >>
      BY <2>2 DEF CommitSeal, RowsContinue
    <2> QED
      BY <2>1, <2>2, <2>3 DEF Tx, Tip
  <1>2. /\ t.rows[n].shard = s /\ t.rows[n].pos = old + n
        /\ t.rows[n] \in ToSet(t.rows)
    BY <1>1 DEF RowsContinue, RowContinues, ToSet
  <1>3. /\ journal' = journal \cup ToSet(t.rows)
        /\ checkpoints' = checkpoints \cup {c}
        /\ chains' = [chains EXCEPT ![s] = NewTip(t)]
    BY DEF CommitSeal
  <1>4. /\ NewTip(t).pos = old + n /\ NewTip(t).hash = t.rows[n].hash
        /\ c.shard = s /\ c.from = old + 1 /\ c.to = old + n /\ c.count = n
        /\ c.root = t.rows[n].hash
    BY <1>1 DEF NewTip, NextPosition, PrevHash, NewCheckpoint
  <1>5. /\ CheckpointsOf(s)' = CheckpointsOf(s) \cup {c}
        /\ \A z \in Shard \ {s} : CheckpointsOf(z)' = CheckpointsOf(z)
        /\ \A z \in Shard : RowsOf(z) \subseteq RowsOf(z)'
        /\ t.rows[n] \in RowsOf(s)'
        /\ chains'[s].pos = old + n
        /\ \A z \in Shard \ {s} : chains'[z] = chains[z]
    BY <1>1, <1>2, <1>3, <1>4 DEF CheckpointsOf, RowsOf, TypeOK
  <1>6. \A k \in CheckpointsOf(s) : /\ k.from \in Nat /\ k.to \in Nat
                                    /\ k.from >= 1 /\ k.to <= old
    BY <1>1 DEF CheckpointsTile, CheckpointsOf, TypeOK, Checkpoint
  <1> HIDE DEF t, n, old, c
  <1>7. ASSUME NEW z \in Shard, NEW k \in CheckpointsOf(z)'
        PROVE  /\ k.count = k.to - k.from + 1
               /\ \E r \in RowsOf(z)' : r.pos = k.to /\ r.hash = k.root
               /\ k.from >= 1 /\ k.to <= chains'[z].pos
    <2>1. CASE k \in CheckpointsOf(z)
      <3>1. /\ k.count = k.to - k.from + 1
            /\ \E r \in RowsOf(z) : r.pos = k.to /\ r.hash = k.root
            /\ k.from >= 1 /\ k.to <= chains[z].pos
        BY <2>1 DEF CheckpointsTile
      <3>2. chains'[z].pos >= chains[z].pos
        <4>1. chains[z].pos \in Nat
          BY <1>1 DEF TypeOK, Tip
        <4> QED
          BY <1>1, <1>5, <4>1 DEF old
      <3>3. k.to \in Nat /\ chains[z].pos \in Nat /\ chains'[z].pos \in Nat
        <4>1. k.to \in Nat
          BY <1>1, <2>1 DEF TypeOK, CheckpointsOf, Checkpoint
        <4>2. chains[z].pos \in Nat
          BY <1>1 DEF TypeOK, Tip
        <4>3. chains'[z].pos = old + n \/ chains'[z].pos = chains[z].pos
          BY <1>5
        <4> QED
          BY <1>1, <4>1, <4>2, <4>3
      <3> QED
        BY <1>5, <3>1, <3>2, <3>3
    <2>2. CASE k \notin CheckpointsOf(z)
      <3>1. z = s /\ k = c
        BY <1>5, <2>2
      <3>2. k.count = k.to - k.from + 1 /\ k.from >= 1 /\ k.to <= chains'[z].pos
        BY <1>1, <1>4, <1>5, <3>1
      <3> QED
        BY <1>2, <1>4, <1>5, <3>1, <3>2
    <2> QED
      BY <2>1, <2>2
  <1>8. ASSUME NEW z \in Shard, NEW i \in 1 .. chains'[z].pos
        PROVE  Cardinality(spans(CheckpointsOf(z)', i)) = 1
    <2>1. CASE z # s
      <3>1. CheckpointsOf(z)' = CheckpointsOf(z) /\ i \in 1 .. chains[z].pos
        BY <1>5, <1>8, <2>1
      <3> QED
        BY <3>1 DEF CheckpointsTile
    <2>2. CASE z = s /\ i <= old
      <3>1. i \in 1 .. old /\ i \notin c.from .. c.to
        BY <1>1, <1>4, <1>5, <1>8, <2>2
      <3>2. spans(CheckpointsOf(s)', i) = spans(CheckpointsOf(s), i)
        BY <1>5, <3>1
      <3> QED
        BY <1>1, <2>2, <3>1, <3>2 DEF CheckpointsTile, old
    <2>3. CASE z = s /\ i > old
      <3>1. i \in c.from .. c.to
        BY <1>1, <1>4, <1>5, <1>8, <2>3
      <3>2. \A k \in CheckpointsOf(s) : i \notin k.from .. k.to
        BY <1>1, <1>6, <1>8, <2>3
      <3>3. spans(CheckpointsOf(s)', i) = {c}
        BY <1>5, <3>1, <3>2
      <3> QED
        BY <2>3, <3>3, FS_Singleton
    <2>4. i \in Int
      BY <1>8
    <2> QED
      BY <1>1, <2>1, <2>2, <2>3, <2>4
  <1> QED
    BY <1>7, <1>8 DEF CheckpointsTile

\* Only a commit writes the tables of the journal.
LEMMA OnlyCommitsWrite ==
    ASSUME [Next]_vars, ~ \E w \in Worker : CommitSeal(w)
    PROVE  UNCHANGED <<chains, journal, checkpoints>>
  <1>1. ASSUME NEW w \in Worker, SealShard(w) \/ SealFails(w)
        PROVE  UNCHANGED <<chains, journal, checkpoints>>
    BY <1>1 DEF SealShard, EnsureShardChain, LockShardChain,
       SkipLockedShard, DrainPendingForShard, DrainNothing,
       ExistingExternalEventIDs, DropDuplicate, ChainRow,
       CommitAllDuplicates, CopyEvents, PublishCheckpoint, SealFails, tableVars
  <1>2. ASSUME NEW p \in Process,
               \/ ListShardsWithPending(p) \/ TickIdle(p) \/ Crash(p)
               \/ \E s \in Shard : BeginSeal(p, s)
        PROVE  UNCHANGED <<chains, journal, checkpoints>>
    BY <1>2 DEF ListShardsWithPending, TickIdle, Crash, BeginSeal, vars, tableVars
  <1>3. ASSUME NEW e \in Event, InsertPendingEvent(e) \/ PendingVisible(e)
        PROVE  UNCHANGED <<chains, journal, checkpoints>>
    BY <1>3 DEF InsertPendingEvent, PendingVisible, tableVars
  <1> QED
    BY <1>1, <1>2, <1>3 DEF Next, vars, tableVars

LEMMA TileStep == ChainInv /\ CheckpointsTile /\ [Next]_vars => CheckpointsTile'
  <1>1. CASE \E w \in Worker : CommitSeal(w)
    BY <1>1, CommitTiles
  <1>2. CASE ~ \E w \in Worker : CommitSeal(w)
    BY <1>2, OnlyCommitsWrite, TileUntouched
  <1> QED
    BY <1>1, <1>2

(***************************************************************************)
(* In every reachable state the checkpoints of a chain cover each of its   *)
(* positions exactly once, and name the hash of the last row they span     *)
(* (SealShard's CreateCheckpoint, chains.sql).                             *)
(***************************************************************************)
THEOREM CheckpointsAlwaysTile == Spec => []CheckpointsTile
  BY ChainInvInit, ChainInvStep, TileInit, TileStep, PTL DEF Spec

-----------------------------------------------------------------------------
(***************************************************************************)
(* What the sealer writes, read back in chain order, is what the verifier  *)
(* accepts.  Beside the chain, a row's payload hash must be that of its    *)
(* event, in the journal and in the rows under construction.               *)
(***************************************************************************)
PayloadsKept ==
    /\ \A r \in journal : r.payload = PayloadOf[r.id]
    /\ \A w \in Worker : \A i \in 1 .. Len(tx[w].rows) :
          tx[w].rows[i].payload = PayloadOf[tx[w].rows[i].id]

LEMMA PayloadsInit == Init => PayloadsKept
  BY DEF Init, PayloadsKept, NoTx

LEMMA PayloadsUntouched ==
    ASSUME TypeOK, PayloadsKept, journal' = journal,
           NEW w \in Worker, NEW t, tx' = [tx EXCEPT ![w] = t],
           t.rows = tx[w].rows \/ t.rows = << >>
    PROVE  PayloadsKept'
  <1>1. tx'[w] = t /\ \A v \in Worker : v # w => tx'[v] = tx[v]
    BY DEF TypeOK
  <1> QED
    BY <1>1 DEF PayloadsKept

LEMMA PayloadsStep == ChainInv /\ PayloadsKept /\ [Next]_vars => PayloadsKept'
  <1> SUFFICES ASSUME ChainInv, PayloadsKept, [Next]_vars
               PROVE  PayloadsKept'
    OBVIOUS
  <1>1. TypeOK /\ NoTx.rows = << >>
    BY DEF ChainInv, NoTx
  <1>2. ASSUME NEW w \in Worker, SealShard(w)
        PROVE  PayloadsKept'
    <2> DEFINE t == tx[w]
    <2>1. t \in Tx /\ w[2] \in Shard
      BY <1>1 DEF TypeOK, Worker
    <2>2. CASE ChainRow(w)
      <3> DEFINE r == EventRow(t, t.batch[t.next], w[2])
                 T == TakenBy(t.batch[t.next])
                 u == [t EXCEPT !.next = @ + 1, !.taken = @ \cup T,
                                !.rows = Append(@, r)]
      <3>1. r.payload = PayloadOf[r.id]
        BY DEF EventRow
      <3>2. journal' = journal /\ tx' = [tx EXCEPT ![w] = u]
        BY <2>2 DEF ChainRow, tableVars
      <3> HIDE DEF r, T
      <3>3. u.rows = Append(t.rows, r) /\ t.rows \in Seq(Row)
        BY <2>1 DEF Tx
      <3>4. \A i \in 1 .. Len(u.rows) :
               u.rows[i] = r \/ (i \in 1 .. Len(t.rows) /\ u.rows[i] = t.rows[i])
        BY <3>3
      <3>5. tx'[w] = u /\ \A v \in Worker : v # w => tx'[v] = tx[v]
        BY <1>1, <3>2 DEF TypeOK
      <3> HIDE DEF u
      <3>6. \A i \in 1 .. Len(u.rows) : u.rows[i].payload = PayloadOf[u.rows[i].id]
        BY <3>1, <3>4 DEF PayloadsKept
      <3> QED
        BY <3>2, <3>5, <3>6 DEF PayloadsKept
    <2>3. CASE CommitSeal(w)
      <3>1. t.rows \in Seq(Row)
        BY <2>1 DEF Tx
      <3>2. \A r \in ToSet(t.rows) : r.payload = PayloadOf[r.id]
        BY <3>1 DEF PayloadsKept, ToSet
      <3>3. /\ journal' = journal \cup ToSet(t.rows)
            /\ tx' = [tx EXCEPT ![w] = NoTx]
        BY <2>3 DEF CommitSeal
      <3>4. tx'[w] = NoTx /\ \A v \in Worker : v # w => tx'[v] = tx[v]
        BY <1>1, <3>3 DEF TypeOK
      <3> HIDE DEF t
      <3> QED
        BY <1>1, <3>2, <3>3, <3>4 DEF PayloadsKept
    <2>4. CASE ~ ChainRow(w) /\ ~ CommitSeal(w)
      <3>1. journal' = journal
        BY <1>2, <2>4 DEF SealShard, EnsureShardChain, LockShardChain,
           SkipLockedShard, DrainPendingForShard, DrainNothing,
           ExistingExternalEventIDs, DropDuplicate, CommitAllDuplicates,
           CopyEvents, PublishCheckpoint, tableVars
      <3>2. /\ tx'[w].rows = tx[w].rows \/ tx'[w].rows = << >>
            /\ \A v \in Worker : v # w => tx'[v] = tx[v]
        <4>1. CASE EnsureShardChain(w)
          BY <1>1, <2>1, <4>1 DEF EnsureShardChain, TypeOK, Tx
        <4>2. CASE LockShardChain(w)
          BY <1>1, <2>1, <4>2 DEF LockShardChain, TypeOK, Tx
        <4>3. CASE SkipLockedShard(w) \/ DrainNothing(w) \/ CommitAllDuplicates(w)
          <5>1. tx' = [tx EXCEPT ![w] = NoTx]
            BY <4>3 DEF SkipLockedShard, DrainNothing, CommitAllDuplicates
          <5> QED
            BY <1>1, <5>1 DEF TypeOK
        <4>4. CASE DrainPendingForShard(w)
          <5>1. PICK n \in 1 .. BatchSize : \E b \in [1 .. n -> PendingOf(w[2])] :
                   tx' = [tx EXCEPT ![w].step = "lookup", ![w].batch = b]
            BY <4>4 DEF DrainPendingForShard
          <5>2. PICK b \in [1 .. n -> PendingOf(w[2])] :
                   tx' = [tx EXCEPT ![w].step = "lookup", ![w].batch = b]
            BY <5>1
          <5> QED
            BY <1>1, <2>1, <5>2 DEF TypeOK, Tx
        <4>5. CASE ExistingExternalEventIDs(w)
          BY <1>1, <2>1, <4>5 DEF ExistingExternalEventIDs, TypeOK, Tx
        <4>6. CASE DropDuplicate(w)
          BY <1>1, <2>1, <4>6 DEF DropDuplicate, TypeOK, Tx
        <4>7. CASE CopyEvents(w)
          BY <1>1, <2>1, <4>7 DEF CopyEvents, TypeOK, Tx
        <4>8. CASE PublishCheckpoint(w)
          BY <1>1, <2>1, <4>8 DEF PublishCheckpoint, TypeOK, Tx
        <4> QED
          BY <1>2, <2>4, <4>1, <4>2, <4>3, <4>4, <4>5, <4>6, <4>7, <4>8
             DEF SealShard
      <3> QED
        BY <3>1, <3>2 DEF PayloadsKept
    <2> QED
      BY <2>2, <2>3, <2>4
  <1>3. ASSUME NEW p \in Process, NEW s \in Shard, BeginSeal(p, s)
        PROVE  PayloadsKept'
    <2> DEFINE u == [NoTx EXCEPT !.step = "ensure"]
    <2>1. u.rows = << >> /\ <<p, s>> \in Worker
      BY DEF NoTx, Worker
    <2>2. tx' = [tx EXCEPT ![<<p, s>>] = u] /\ journal' = journal
      BY <1>3 DEF BeginSeal, tableVars
    <2> HIDE DEF u
    <2> QED
      BY <1>1, <2>1, <2>2, PayloadsUntouched
  <1>4. ASSUME NEW w \in Worker, SealFails(w)
        PROVE  PayloadsKept'
    <2>1. tx' = [tx EXCEPT ![w] = NoTx] /\ journal' = journal
      BY <1>4 DEF SealFails, tableVars
    <2> QED
      BY <1>1, <2>1, PayloadsUntouched
  <1>5. ASSUME NEW p \in Process, Crash(p)
        PROVE  PayloadsKept'
    <2>1. /\ journal' = journal
          /\ \A w \in Worker : tx'[w] = NoTx \/ tx'[w] = tx[w]
      BY <1>5 DEF Crash, tableVars
    <2> QED
      BY <1>1, <2>1 DEF PayloadsKept
  <1>6. ASSUME NEW e \in Event, InsertPendingEvent(e) \/ PendingVisible(e)
        PROVE  PayloadsKept'
    BY <1>6 DEF InsertPendingEvent, PendingVisible, tableVars, PayloadsKept
  <1>7. ASSUME NEW p \in Process, ListShardsWithPending(p) \/ TickIdle(p)
        PROVE  PayloadsKept'
    BY <1>7 DEF ListShardsWithPending, TickIdle, vars, tableVars, PayloadsKept
  <1>8. CASE UNCHANGED vars
    BY <1>8 DEF vars, tableVars, PayloadsKept
  <1> QED
    BY <1>2, <1>3, <1>4, <1>5, <1>6, <1>7, <1>8 DEF Next

-----------------------------------------------------------------------------
\* A walk of an intact chain meets the rows one position after the other.
LEMMA WalkedInOrder ==
    ASSUME TypeOK, ChainIntact, NEW s \in Shard
    PROVE  /\ WalkChain(s) \in [1 .. chains[s].pos -> RowsOf(s)]
           /\ \A i \in 1 .. chains[s].pos :
                 WalkChain(s)[i].pos
                    = IF i = 1 THEN 1 ELSE WalkChain(s)[i - 1].pos + 1
  <1> DEFINE n == chains[s].pos
             at(i) == CHOOSE r \in RowsOf(s) : r.pos = i
             g == [i \in 1 .. n |-> at(i)]
  <1>1. n \in Nat /\ \A r \in RowsOf(s) : r.pos \in 1 .. n
    BY DEF TypeOK, Tip, ChainIntact, ChainPositions
  <1>2. \A i \in 1 .. n : at(i) \in RowsOf(s) /\ at(i).pos = i
    BY DEF ChainIntact, ChainPositions
  <1>3. \A q, r \in RowsOf(s) : q.pos = r.pos => q = r
    BY DEF ChainIntact, ChainPositions
  <1> HIDE DEF n, at
  <1>4. /\ g \in [1 .. n -> RowsOf(s)] /\ IsInjective(g)
        /\ \A r \in RowsOf(s) : \E i \in 1 .. n : g[i] = r
        /\ \A i \in 1 .. n : g[i].pos = i
    BY <1>1, <1>2, <1>3 DEF IsInjective
  <1> HIDE DEF g
  <1>5. g \in Bijection(1 .. n, RowsOf(s))
    BY <1>4 DEF Bijection, Injection, Surjection
  <1>6. Cardinality(RowsOf(s)) = n
    BY <1>1, <1>5, FS_CountingElements DEF ExistsBijection
  <1>7. IsFiniteSet(RowsOf(s))
    BY <1>1, <1>5, FS_NatBijection DEF ExistsBijection
  <1>8. InWalkOrder(g)
    BY <1>1, <1>4 DEF InWalkOrder
  <1>9. /\ WalkChain(s) \in [1 .. n -> RowsOf(s)]
        /\ IsInjective(WalkChain(s)) /\ InWalkOrder(WalkChain(s))
    BY <1>4, <1>6, <1>8 DEF WalkChain
  <1> DEFINE f == WalkChain(s)
  <1> HIDE DEF f
  <1>10. \A r \in RowsOf(s) : \E i \in 1 .. n : f[i] = r
    <2>1. f \in Injection(1 .. n, RowsOf(s))
      BY <1>9 DEF Injection, f
    <2>2. Cardinality(1 .. n) = n
      BY <1>1, FS_Interval
    <2>3. f \in Surjection(1 .. n, RowsOf(s))
      BY <1>6, <1>7, <2>1, <2>2, FS_Injection
    <2> QED
      BY <2>3 DEF Surjection
  <1>11. \A i, j \in 1 .. n : i < j => f[i].pos < f[j].pos
    <2> SUFFICES ASSUME NEW i \in 1 .. n, NEW j \in 1 .. n, i < j
                 PROVE  f[i].pos < f[j].pos
      OBVIOUS
    <2>1. f[i].pos <= f[j].pos
      BY <1>9 DEF InWalkOrder, f
    <2>2. f[i].pos # f[j].pos
      BY <1>3, <1>9 DEF IsInjective, f
    <2>3. f[i].pos \in Nat /\ f[j].pos \in Nat
      BY <1>1, <1>9 DEF f
    <2> QED
      BY <2>1, <2>2, <2>3
  <1>12. \A i \in 1 .. n : f[i].pos \in 1 .. n
    BY <1>1, <1>9 DEF f
  <1>13. \A p \in 1 .. n : \E i \in 1 .. n : f[i].pos = p
    BY <1>4, <1>9, <1>10 DEF f
  <1>14. ASSUME NEW i \in 1 .. n
         PROVE  f[i].pos = IF i = 1 THEN 1 ELSE f[i - 1].pos + 1
    <2>1. CASE i = 1
      <3>1. 1 \in 1 .. n
        BY <1>14, <2>1
      <3>2. PICK j \in 1 .. n : f[j].pos = 1
        BY <1>13, <3>1
      <3>3. j = 1 \/ 1 < j
        BY <1>1
      <3>4. 1 < j => f[1].pos < 1
        BY <1>11, <3>1, <3>2
      <3>5. f[1].pos \in 1 .. n
        BY <1>12, <3>1
      <3> QED
        BY <2>1, <3>2, <3>3, <3>4, <3>5
    <2>2. CASE i # 1
      <3> DEFINE k == i - 1
                 p == f[k].pos
      <3>1. k \in 1 .. n /\ k < i /\ i = k + 1
        BY <1>1, <2>2
      <3>2. p < f[i].pos /\ p \in 1 .. n /\ f[i].pos \in 1 .. n
        BY <1>11, <1>12, <3>1
      <3>3. p + 1 \in 1 .. n
        BY <1>1, <3>2
      <3> HIDE DEF p, k
      <3>4. PICK j \in 1 .. n : f[j].pos = p + 1
        BY <1>13, <3>3
      <3>5. ~ (j < k) /\ j # k
        BY <1>11, <3>1, <3>2, <3>4 DEF p
      <3>6. ~ (i < j)
        BY <1>11, <3>2, <3>4
      <3>7. j = i
        BY <3>1, <3>5, <3>6
      <3> QED
        BY <2>2, <3>4, <3>7 DEF p, k
    <2> QED
      BY <2>1, <2>2
  <1> QED
    BY <1>9, <1>14 DEF f, n

LEMMA IntactVerifies == ChainInv /\ PayloadsKept => JournalVerifies
  <1> SUFFICES ASSUME ChainInv, PayloadsKept, NEW s \in Shard
               PROVE  LET walk    == WalkChain(s)
                          records == [i \in DOMAIN walk |-> RecordOf(walk[i])]
                      IN  /\ VerifyChain(records).valid
                          /\ \A i \in DOMAIN records : VerifyEvent(records[i])
    BY DEF JournalVerifies
  <1> DEFINE n == chains[s].pos
             walk == WalkChain(s)
             records == [i \in DOMAIN walk |-> RecordOf(walk[i])]
  <1>1. TypeOK /\ ChainIntact
    BY DEF ChainInv
  <1>2. /\ walk \in [1 .. n -> RowsOf(s)] /\ n \in Nat
        /\ \A i \in 1 .. n :
              walk[i].pos = IF i = 1 THEN 1 ELSE walk[i - 1].pos + 1
    BY <1>1, WalkedInOrder DEF TypeOK, Tip
  <1> HIDE DEF walk, n
  <1>3. \A r \in RowsOf(s) : /\ r \in Row /\ r.payload = PayloadOf[r.id]
                             /\ r.hash = EventHash(r.prev, r.payload, r.pos)
                             /\ r.pos = 1 => r.prev = Genesis
                             /\ \A q \in RowsOf(s) :
                                   r.pos = q.pos + 1 => r.prev = q.hash
    BY <1>1 DEF TypeOK, RowsOf, PayloadsKept, ChainIntact, ChainLinks
  <1>4. \A r \in RowsOf(s) : r.hash # Genesis /\ r.hash # Nil
    <2> TAKE r \in RowsOf(s)
    <2>1. /\ r.prev \in Hash /\ r.hash \in Hash
          /\ r.hash = EventHash(r.prev, r.payload, r.pos)
      BY <1>3 DEF Row
    <2>2. r.hash # << >>
      <3> DEFINE h == r.prev
                 x == <<r.payload, r.pos>>
      <3>1. h \in Seq(Payload \X Nat) /\ x \in Payload \X Nat
        BY <1>3, <2>1 DEF Hash, Row
      <3>2. r.hash = Append(h, x)
        BY <2>1 DEF EventHash
      <3> HIDE DEF h, x
      <3> QED
        BY <3>1, <3>2
    <2> QED
      BY <2>1, <2>2, NilAssumption DEF Genesis
  <1>5. ASSUME NEW i \in 1 .. n
        PROVE  /\ walk[i] \in RowsOf(s)
               /\ walk[i].prev = IF i = 1 THEN Genesis ELSE walk[i - 1].hash
               /\ walk[i].prev = Genesis <=> walk[i].pos = 1
               /\ walk[i].prev = Genesis <=> i = 1
    <2>1. walk[i] \in RowsOf(s) /\ walk[i].pos \in Nat
      BY <1>2, <1>3 DEF Row
    <2>2. CASE i = 1
      BY <1>2, <1>3, <2>1, <2>2
    <2>3. CASE i # 1
      <3>1. i - 1 \in 1 .. n
        BY <1>2, <2>3
      <3>2. /\ walk[i - 1] \in RowsOf(s) /\ walk[i - 1].pos \in 1 .. n
            /\ walk[i].pos = walk[i - 1].pos + 1
        <4>1. walk[i - 1] \in RowsOf(s)
          BY <1>2, <3>1
        <4>2. walk[i - 1].pos \in 1 .. n
          BY <1>1, <4>1 DEF ChainIntact, ChainPositions, n
        <4> QED
          BY <1>2, <2>3, <4>1, <4>2
      <3>3. walk[i].prev = walk[i - 1].hash /\ walk[i].pos # 1
        BY <1>2, <1>3, <2>1, <3>2
      <3> QED
        BY <1>4, <2>1, <2>3, <3>2, <3>3
    <2> QED
      BY <2>2, <2>3
  <1>6. /\ DOMAIN records = 1 .. n /\ Len(records) = n
        /\ \A i \in 1 .. n : records[i] = RecordOf(walk[i])
    BY <1>2
  <1> HIDE DEF records
  <1>7. ASSUME NEW i \in 1 .. n
        PROVE  /\ records[i].prev = IF i = 1 THEN Nil ELSE walk[i - 1].hash
               /\ records[i].payload = walk[i].payload
               /\ records[i].hash = walk[i].hash
               /\ records[i].pos = walk[i].pos
               /\ records[i].content = walk[i].payload
               /\ walk[i].hash = EventHash(walk[i].prev, walk[i].payload,
                                           walk[i].pos)
    <2>1. walk[i] \in RowsOf(s) /\ walk[i].payload = PayloadOf[walk[i].id]
      BY <1>3, <1>5
    <2>2. records[i] = RecordOf(walk[i])
      BY <1>6
    <2>3. records[i].prev = IF i = 1 THEN Nil ELSE walk[i - 1].hash
      BY <1>5, <2>2 DEF RecordOf
    <2> QED
      BY <1>3, <2>1, <2>2, <2>3 DEF RecordOf
  <1>8. ASSUME NEW i \in 1 .. n
        PROVE  RunningTip(records, i) = walk[i].prev
    <2>1. CASE i = 1
      BY <1>5, <2>1 DEF RunningTip
    <2>2. CASE i # 1
      <3>1. i - 1 \in 1 .. n
        BY <1>2, <2>2
      <3>2. records[i - 1].hash = walk[i - 1].hash
        BY <1>7, <3>1
      <3> QED
        BY <1>5, <2>2, <3>2 DEF RunningTip
    <2> QED
      BY <2>1, <2>2
  <1>9. ASSUME NEW i \in 1 .. n
        PROVE  ContinuesTip(records[i], RunningTip(records, i))
    <2>1. records[i].prev # Nil => records[i].prev = walk[i].prev
      BY <1>5, <1>7
    <2> QED
      BY <1>7, <1>8, <2>1 DEF ContinuesTip, PayloadMatches
  <1>10. VerifyChain(records).valid
    <2>1. Breaks(records) = {}
      BY <1>6, <1>9 DEF Breaks
    <2> QED
      BY <2>1 DEF VerifyChain
  <1>11. ASSUME NEW i \in 1 .. n
         PROVE  VerifyEvent(records[i])
    <2>1. /\ walk[i].prev \in Hash /\ walk[i].prev # Nil
      BY <1>3, <1>5, NilAssumption DEF Row
    <2>2. (IF records[i].prev = Nil THEN Genesis ELSE records[i].prev)
             = walk[i].prev
      BY <1>5, <1>7, <2>1
    <2>3. IF records[i].pos = 1 THEN records[i].prev = Nil
          ELSE records[i].prev # Nil /\ records[i].prev # Genesis
      BY <1>5, <1>7, <2>1
    <2> QED
      BY <1>7, <2>2, <2>3 DEF VerifyEvent, PayloadMatches
  <1> QED
    BY <1>6, <1>10, <1>11 DEF records, walk

(***************************************************************************)
(* In every reachable state the journal of every shard, read in chain      *)
(* order, passes VerifyChain, and each of its rows VerifyEvent: whatever   *)
(* the sealer writes the verifier accepts (sealer.go, core/verify.go).     *)
(***************************************************************************)
THEOREM JournalAlwaysVerifies == Spec => []JournalVerifies
  BY ChainInvInit, ChainInvStep, PayloadsInit, PayloadsStep, IntactVerifies,
     PTL DEF Spec

-----------------------------------------------------------------------------
(***************************************************************************)
(* Published heads that the journal has not reached and no open            *)
(* transaction is about to write: each is the work of a failure.           *)
(***************************************************************************)
Orphans == {h \in anchored : ~ Sealing(h) /\ ~ Reached(h)}

Running(p) == {s \in Shard : Active(<<p, s>>)}

\* A shard waits on a process's work list until a goroutine takes it up.
TodoIdle ==
    \A p \in Process : \A s \in todo[p] : ~ Active(<<p, s>>)

AnchorInv ==
    /\ TodoIdle
    /\ \A p \in Process :
          IsFiniteSet(Running(p)) /\ Cardinality(Running(p)) <= Concurrency
    /\ IsFiniteSet(Orphans)
    /\ Cardinality(Orphans) <= failures * Concurrency

LEMMA AddedFew ==
    ASSUME NEW S, NEW A, NEW T, T \subseteq S \cup A,
           IsFiniteSet(S), IsFiniteSet(A), NEW m \in Nat, NEW n \in Nat,
           Cardinality(S) <= m, Cardinality(A) <= n
    PROVE  IsFiniteSet(T) /\ Cardinality(T) <= m + n
  <1>1. /\ IsFiniteSet(S \cup A)
        /\ Cardinality(S \cup A) = Cardinality(S) + Cardinality(A)
                                      - Cardinality(S \cap A)
    BY FS_Union
  <1>2. IsFiniteSet(S \cap A)
    BY FS_Subset
  <1>3. IsFiniteSet(T) /\ Cardinality(T) <= Cardinality(S \cup A)
    BY <1>1, FS_Subset
  <1>4. /\ Cardinality(S) \in Nat /\ Cardinality(A) \in Nat
        /\ Cardinality(S \cap A) \in Nat /\ Cardinality(S \cup A) \in Nat
        /\ Cardinality(T) \in Nat
    BY <1>1, <1>2, <1>3, FS_CardinalityType
  <1> QED
    BY <1>1, <1>3, <1>4

LEMMA AnchorInit == Init => AnchorInv
  <1> SUFFICES ASSUME Init PROVE AnchorInv
    OBVIOUS
  <1>1. \A p \in Process : Running(p) = {}
    BY DEF Init, Running, Active, NoTx, Worker
  <1>2. Orphans = {} /\ failures * Concurrency = 0
    BY SealerAssumption DEF Init, Orphans
  <1>3. IsFiniteSet({}) /\ Cardinality({}) = 0
    BY FS_EmptySet
  <1>4. 0 <= Concurrency
    BY SealerAssumption
  <1>5. \A p \in Process :
           IsFiniteSet(Running(p)) /\ Cardinality(Running(p)) <= Concurrency
    BY <1>1, <1>3, <1>4
  <1>6. IsFiniteSet(Orphans) /\ Cardinality(Orphans) <= failures * Concurrency
    BY <1>2, <1>3
  <1>7. TodoIdle
    BY DEF Init, TodoIdle
  <1> QED
    BY <1>5, <1>6, <1>7 DEF AnchorInv

LEMMA TodoStep == TypeOK /\ TodoIdle /\ [Next]_vars => TodoIdle'
  <1> SUFFICES ASSUME TypeOK, TodoIdle, [Next]_vars
               PROVE  TodoIdle'
    OBVIOUS
  <1>7. \A p \in Process : \A s \in todo[p] : <<p, s>> \in Worker
    BY DEF TypeOK, Worker
  <1>8. NoTx.step = "idle"
    BY DEF NoTx
  <1>1. ASSUME NEW p \in Process, NEW s \in Shard, BeginSeal(p, s)
        PROVE  TodoIdle'
    <2>1. /\ todo'[p] = todo[p] \ {s}
          /\ \A q \in Process : q # p => todo'[q] = todo[q]
          /\ \A v \in Worker : v # <<p, s>> => tx'[v] = tx[v]
      BY <1>1 DEF BeginSeal, TypeOK
    <2> SUFFICES ASSUME NEW q \in Process, NEW z \in todo'[q]
                 PROVE  tx'[<<q, z>>].step = "idle"
      BY DEF TodoIdle, Active
    <2>2. z \in todo[q] /\ <<q, z>> # <<p, s>> /\ <<q, z>> \in Worker
      BY <2>1 DEF TypeOK, Worker
    <2> QED
      BY <2>1, <2>2 DEF TodoIdle, Active
  <1>2. ASSUME NEW w \in Worker, SealShard(w)
        PROVE  TodoIdle'
    <2>1. /\ Active(w) /\ todo' = todo
          /\ \A v \in Worker : v # w => tx'[v] = tx[v]
      BY <1>2 DEF SealShard, EnsureShardChain, LockShardChain, SkipLockedShard,
         DrainPendingForShard, DrainNothing, ExistingExternalEventIDs,
         DropDuplicate, ChainRow, MoreRows, BatchBuilt, CommitAllDuplicates,
         CopyEvents, PublishCheckpoint, CommitSeal, Active, TypeOK
    <2> QED
      BY <2>1, <1>7 DEF TodoIdle, Active
  <1>3. ASSUME NEW w \in Worker, SealFails(w)
        PROVE  TodoIdle'
    <2>1. /\ tx'[w] = NoTx /\ todo' = todo
          /\ \A v \in Worker : v # w => tx'[v] = tx[v]
      BY <1>3 DEF SealFails, TypeOK
    <2> QED
      BY <2>1, <1>7, <1>8 DEF TodoIdle, Active
  <1>4. ASSUME NEW q \in Process, Crash(q)
        PROVE  TodoIdle'
    <2>1. /\ \A v \in Worker : tx'[v] = NoTx \/ tx'[v] = tx[v]
          /\ \A p \in Process : todo'[p] \subseteq todo[p]
      BY <1>4 DEF Crash, TypeOK
    <2> QED
      BY <2>1, <1>7, <1>8 DEF TodoIdle, Active
  <1>5. ASSUME NEW q \in Process, ListShardsWithPending(q)
        PROVE  TodoIdle'
    <2>1. /\ tx' = tx /\ Idle(q) /\ todo' \in [Process -> SUBSET Shard]
          /\ \A p \in Process : p # q => todo'[p] = todo[p]
      BY <1>5 DEF ListShardsWithPending, WorkLists, TypeOK
    <2> QED
      BY <2>1 DEF TodoIdle, Active, Idle, Worker, TypeOK
  <1>6. ASSUME \/ \E e \in Event : InsertPendingEvent(e) \/ PendingVisible(e)
               \/ \E q \in Process : TickIdle(q)
               \/ UNCHANGED vars
        PROVE  TodoIdle'
    <2>1. tx' = tx /\ todo' = todo
      BY <1>6 DEF InsertPendingEvent, PendingVisible, TickIdle, vars
    <2> QED
      BY <2>1 DEF TodoIdle, Active
  <1> QED
    BY <1>1, <1>2, <1>3, <1>4, <1>5, <1>6 DEF Next

\* A process starts no more goroutines than its semaphore allows.
LEMMA RunningStep ==
    ASSUME TypeOK, AnchorInv, [Next]_vars, NEW p \in Process
    PROVE  IsFiniteSet(Running(p)') /\ Cardinality(Running(p)') <= Concurrency
  <1>1. /\ IsFiniteSet(Running(p)) /\ Cardinality(Running(p)) <= Concurrency
        /\ Cardinality(Running(p)) \in Nat /\ Concurrency \in Nat
    BY FS_CardinalityType, SealerAssumption DEF AnchorInv
  <1>2. ASSUME Running(p)' \subseteq Running(p)
        PROVE  IsFiniteSet(Running(p)') /\ Cardinality(Running(p)') <= Concurrency
    <2> DEFINE R == Running(p)'
    <2>1. /\ R \in SUBSET Running(p)
      BY <1>2
    <2> HIDE DEF R
    <2>2. IsFiniteSet(R) /\ Cardinality(R) <= Cardinality(Running(p))
      BY <1>1, <2>1, FS_Subset
    <2>3. Cardinality(R) \in Nat
      BY <2>2, FS_CardinalityType
    <2> QED
      BY <1>1, <2>2, <2>3 DEF R
  <1>3. ASSUME NEW q \in Process, NEW s \in Shard, BeginSeal(q, s)
        PROVE  IsFiniteSet(Running(p)') /\ Cardinality(Running(p)') <= Concurrency
    <2>1. \A v \in Worker : v # <<q, s>> => tx'[v] = tx[v]
      BY <1>3 DEF BeginSeal, TypeOK
    <2>2. CASE q # p
      <3>1. Running(p)' = Running(p)
        BY <2>1, <2>2 DEF Running, Active, Worker
      <3> QED
        BY <1>2, <3>1
    <2>3. CASE q = p
      <3> DEFINE R == Running(p)'
      <3>1. R \subseteq Running(p) \cup {s}
        BY <2>1, <2>3 DEF Running, Active, Worker
      <3>2. Cardinality(Running(p)) < Concurrency
        BY <1>3, <2>3 DEF BeginSeal, SemaphoreFree, Running
      <3> HIDE DEF R
      <3>3. /\ IsFiniteSet(Running(p) \cup {s})
            /\ Cardinality(Running(p) \cup {s}) <= Cardinality(Running(p)) + 1
        <4> DEFINE P == Running(p)
        <4>1. IsFiniteSet(P) /\ Cardinality(P) \in Nat
          BY <1>1
        <4> HIDE DEF P
        <4>2. /\ IsFiniteSet(P \cup {s})
              /\ Cardinality(P \cup {s})
                    = IF s \in P THEN Cardinality(P) ELSE Cardinality(P) + 1
          BY <4>1, FS_AddElement
        <4>3. Cardinality(P \cup {s}) <= Cardinality(P) + 1
          BY <4>1, <4>2
        <4> QED
          BY <4>2, <4>3 DEF P
      <3>4. IsFiniteSet(R) /\ Cardinality(R) <= Cardinality(Running(p) \cup {s})
        BY <3>1, <3>3, FS_Subset
      <3>5. /\ Cardinality(R) \in Nat
            /\ Cardinality(Running(p) \cup {s}) \in Nat
        BY <3>3, <3>4, FS_CardinalityType
      <3> QED
        BY <1>1, <3>2, <3>3, <3>4, <3>5 DEF R
    <2> QED
      BY <2>2, <2>3
  <1>4. ASSUME NEW w \in Worker, SealShard(w)
        PROVE  Running(p)' \subseteq Running(p)
    <2>1. Active(w) /\ \A v \in Worker : v # w => tx'[v] = tx[v]
      BY <1>4 DEF SealShard, EnsureShardChain, LockShardChain, SkipLockedShard,
         DrainPendingForShard, DrainNothing, ExistingExternalEventIDs,
         DropDuplicate, ChainRow, MoreRows, BatchBuilt, CommitAllDuplicates,
         CopyEvents, PublishCheckpoint, CommitSeal, Active, TypeOK
    <2> QED
      BY <2>1 DEF Running, Active, Worker
  <1>5. ASSUME NEW w \in Worker, SealFails(w)
        PROVE  Running(p)' \subseteq Running(p)
    <2>1. tx'[w] = NoTx /\ \A v \in Worker : v # w => tx'[v] = tx[v]
      BY <1>5 DEF SealFails, TypeOK
    <2> QED
      BY <2>1 DEF Running, Active, Worker, NoTx
  <1>6. ASSUME NEW q \in Process, Crash(q)
        PROVE  Running(p)' \subseteq Running(p)
    <2>1. \A v \in Worker : tx'[v] = NoTx \/ tx'[v] = tx[v]
      BY <1>6 DEF Crash
    <2> QED
      BY <2>1 DEF Running, Active, Worker, NoTx
  <1>7. ASSUME \/ \E e \in Event : InsertPendingEvent(e) \/ PendingVisible(e)
               \/ \E q \in Process : ListShardsWithPending(q) \/ TickIdle(q)
               \/ UNCHANGED vars
        PROVE  Running(p)' \subseteq Running(p)
    <2>1. tx' = tx
      BY <1>7 DEF InsertPendingEvent, PendingVisible, ListShardsWithPending,
                  TickIdle, vars
    <2> QED
      BY <2>1 DEF Running, Active
  <1> QED
    BY <1>2, <1>3, <1>4, <1>5, <1>6, <1>7 DEF Next

LEMMA ReachedStays ==
    ASSUME NEW h, Reached(h), journal \subseteq journal'
    PROVE  Reached(h)'
  BY DEF Reached, RowsOf

\* The commit of a transaction that has published a head reaches it.
LEMMA CommitReaches ==
    ASSUME TypeOK, RowsContinueTip, NEW w \in Worker, CommitSeal(w),
           NEW h, h = NewHead(tx[w], w[2])
    PROVE  Reached(h)'
  <1> DEFINE t == tx[w]
             n == Len(t.rows)
             r == t.rows[n]
  <1>1. t \in Tx /\ t.step = "commit"
    BY DEF TypeOK, CommitSeal
  <1>2. t.rows \in Seq(Row) /\ t.rows # << >> /\ t.tip.pos \in Nat
    BY <1>1 DEF Tx, Tip, RowsContinueTip, RowsContinue
  <1>3. n \in 1 .. Len(t.rows) /\ n \in Nat
    BY <1>2
  <1>4. r.shard = w[2] /\ r.pos = t.tip.pos + n
    BY <1>3 DEF RowsContinueTip, RowsContinue, RowContinues
  <1>5. NewTip(t) = [pos |-> t.tip.pos + n, hash |-> r.hash]
    BY <1>2, <1>3 DEF NewTip, NextPosition, PrevHash
  <1>6. r \in journal'
    BY <1>2, <1>3 DEF CommitSeal, ToSet
  <1>7. h.shard = w[2] /\ h.to = r.pos /\ h.root = r.hash
    BY <1>4, <1>5 DEF NewHead
  <1> HIDE DEF r
  <1>8. r.shard = w[2]
    BY <1>4
  <1> QED
    BY <1>6, <1>7, <1>8 DEF Reached, RowsOf

\* What a step leaves of the open transactions keeps the heads it does not
\* give up: a transaction about to commit commits, fails or crashes.
LEMMA GivenUp ==
    ASSUME ChainInv, TodoIdle, [Next]_vars, NEW h \in Orphans', h \notin Orphans
    PROVE  \/ \E w \in Worker : SealFails(w) /\ h = NewHead(tx[w], w[2])
           \/ \E p \in Process : \E s \in Running(p) :
                 Crash(p) /\ h = NewHead(tx[<<p, s>>], s)
  <1>1. TypeOK /\ RowsContinueTip
    BY DEF ChainInv
  <1>2. /\ h \in anchored'
        /\ \A v \in Worker : ~ (tx'[v].step = "commit" /\ NewHead(tx'[v], v[2]) = h)
    BY DEF Orphans, Sealing
  <1>3. ~ Reached(h)'
    BY DEF Orphans
  <1>4. journal \subseteq journal'
    BY DEF Next, vars, tableVars, acceptVars, InsertPendingEvent, PendingVisible,
       ListShardsWithPending, TickIdle, BeginSeal, SealShard, EnsureShardChain,
       LockShardChain, SkipLockedShard, DrainPendingForShard, DrainNothing,
       ExistingExternalEventIDs, DropDuplicate, ChainRow, CommitAllDuplicates,
       CopyEvents, PublishCheckpoint, CommitSeal, SealFails, Crash
  <1>5. ~ Reached(h)
    BY <1>3, <1>4, ReachedStays
  <1>6. h \in anchored
    <2>1. SUFFICES ASSUME h \notin anchored PROVE FALSE
      OBVIOUS
    <2>2. PICK w \in Worker : PublishCheckpoint(w)
      BY <1>2, <2>1 DEF Next, vars, tableVars, acceptVars, InsertPendingEvent,
         PendingVisible, ListShardsWithPending, TickIdle, BeginSeal, SealShard,
         EnsureShardChain, LockShardChain, SkipLockedShard, DrainPendingForShard,
         DrainNothing, ExistingExternalEventIDs, DropDuplicate, ChainRow,
         CommitAllDuplicates, CopyEvents, CommitSeal, SealFails, Crash
    <2>3. h = NewHead(tx[w], w[2])
      BY <1>2, <2>1, <2>2 DEF PublishCheckpoint
    <2>4. tx'[w] = [tx[w] EXCEPT !.step = "commit"] /\ tx[w] \in Tx
      BY <1>1, <2>2 DEF PublishCheckpoint, TypeOK
    <2>5. /\ tx'[w].step = "commit" /\ tx'[w].rows = tx[w].rows
          /\ tx'[w].tip = tx[w].tip
      BY <2>4 DEF Tx
    <2>6. NewHead(tx'[w], w[2]) = NewHead(tx[w], w[2])
      BY <2>5 DEF NewHead, NewTip, NextPosition, PrevHash
    <2> QED
      BY <1>2, <2>3, <2>5, <2>6
  <1>7. PICK w \in Worker : tx[w].step = "commit" /\ NewHead(tx[w], w[2]) = h
    BY <1>5, <1>6 DEF Orphans, Sealing
  <1>8. tx'[w] # tx[w]
    BY <1>2, <1>7
  <1>9. ASSUME NEW v \in Worker, SealShard(v)
        PROVE  FALSE
    <2>1. \A u \in Worker : u # v => tx'[u] = tx[u]
      BY <1>1, <1>9 DEF SealShard, EnsureShardChain, LockShardChain,
         SkipLockedShard, DrainPendingForShard, DrainNothing,
         ExistingExternalEventIDs, DropDuplicate, ChainRow,
         CommitAllDuplicates, CopyEvents, PublishCheckpoint, CommitSeal, TypeOK
    <2>2. v = w
      BY <1>8, <2>1
    <2>3. CommitSeal(w)
      BY <1>7, <1>9, <2>2 DEF SealShard, EnsureShardChain, LockShardChain,
         SkipLockedShard, DrainPendingForShard, DrainNothing,
         ExistingExternalEventIDs, DropDuplicate, ChainRow, MoreRows, BatchBuilt,
         CommitAllDuplicates, CopyEvents, PublishCheckpoint
    <2> QED
      BY <1>1, <1>3, <1>7, <2>3, CommitReaches
  <1>10. ASSUME NEW p \in Process, NEW s \in Shard, BeginSeal(p, s)
         PROVE  FALSE
    <2>1. tx' = [tx EXCEPT ![<<p, s>>] = [NoTx EXCEPT !.step = "ensure"]]
      BY <1>10 DEF BeginSeal
    <2>2. w = <<p, s>>
      BY <1>1, <1>8, <2>1 DEF TypeOK
    <2> QED
      BY <1>7, <1>10, <2>2 DEF BeginSeal, TodoIdle, Active
  <1>12. CASE \E v \in Worker : SealFails(v)
    <2>1. PICK v \in Worker : SealFails(v)
      BY <1>12
    <2>2. v = w
      BY <1>1, <1>8, <2>1 DEF SealFails, TypeOK
    <2> QED
      BY <1>7, <2>1, <2>2
  <1>13. CASE \E p \in Process : Crash(p)
    <2>1. PICK p \in Process : Crash(p)
      BY <1>13
    <2>2. w[1] = p
      BY <1>8, <2>1 DEF Crash, TypeOK
    <2>3. w = <<p, w[2]>> /\ w[2] \in Shard
      BY <2>2 DEF Worker
    <2>4. w[2] \in Running(p)
      BY <1>7, <2>3 DEF Running, Active
    <2> QED
      BY <1>7, <2>1, <2>3, <2>4
  <1>14. CASE tx' = tx
    BY <1>8, <1>14
  <1> QED
    BY <1>9, <1>10, <1>12, <1>13, <1>14 DEF Next, vars, InsertPendingEvent,
       PendingVisible, ListShardsWithPending, TickIdle

\* So a failure leaves behind one head, and a crash no more than the process
\* had goroutines.
LEMMA AnchorStep == ChainInv /\ AnchorInv /\ [Next]_vars => AnchorInv'
  <1> SUFFICES ASSUME ChainInv, AnchorInv, [Next]_vars
               PROVE  AnchorInv'
    OBVIOUS
  <1>1. TypeOK /\ TodoIdle
    BY DEF ChainInv, AnchorInv
  <1>2. TodoIdle'
    BY <1>1, TodoStep
  <1>3. \A p \in Process : /\ IsFiniteSet(Running(p)')
                             /\ Cardinality(Running(p)') <= Concurrency
    BY <1>1, RunningStep
  <1>4. /\ IsFiniteSet(Orphans)
        /\ Cardinality(Orphans) <= failures * Concurrency
        /\ Concurrency \in Nat /\ Concurrency >= 1
        /\ failures \in Nat /\ failures * Concurrency \in Nat
    <2>1. Concurrency \in Nat /\ Concurrency >= 1 /\ failures \in Nat
      BY <1>1, SealerAssumption DEF TypeOK
    <2>2. failures * Concurrency \in Nat
      BY <2>1
    <2> QED
      BY <2>1, <2>2 DEF AnchorInv
  <1>5. ASSUME NEW A, IsFiniteSet(A), Cardinality(A) <= Concurrency,
               Orphans' \subseteq Orphans \cup A, failures' = failures + 1
        PROVE  /\ IsFiniteSet(Orphans')
               /\ Cardinality(Orphans') <= failures' * Concurrency
    <2> DEFINE S == Orphans
               T == Orphans'
               m == failures * Concurrency
    <2>1. T \subseteq S \cup A /\ IsFiniteSet(S) /\ Cardinality(S) <= m /\ m \in Nat
      BY <1>4, <1>5
    <2>2. (failures + 1) * Concurrency = m + Concurrency
      BY <1>4
    <2> HIDE DEF S, T, m
    <2>3. IsFiniteSet(T) /\ Cardinality(T) <= m + Concurrency
      BY <1>4, <1>5, <2>1, AddedFew
    <2> QED
      BY <1>5, <2>2, <2>3 DEF T
  <1>6. ASSUME NEW p \in Process, Crash(p)
        PROVE  /\ IsFiniteSet(Orphans')
               /\ Cardinality(Orphans') <= failures' * Concurrency
    <2> DEFINE f == [s \in Running(p) |-> NewHead(tx[<<p, s>>], s)]
               A == {f[s] : s \in Running(p)}
    <2>1. f \in Surjection(Running(p), A)
      BY DEF Surjection
    <2>2. IsFiniteSet(Running(p)) /\ Cardinality(Running(p)) <= Concurrency
      BY DEF AnchorInv
    <2> DEFINE R == Running(p)
    <2> HIDE DEF f, A, R
    <2>3. IsFiniteSet(A) /\ Cardinality(A) <= Cardinality(R) /\ IsFiniteSet(R)
      BY <2>1, <2>2, FS_Surjection DEF R
    <2>4. Cardinality(A) \in Nat /\ Cardinality(R) \in Nat
      BY <2>3, FS_CardinalityType
    <2>5. Cardinality(A) <= Concurrency
      BY <1>4, <2>2, <2>3, <2>4 DEF R
    <2>6. ASSUME NEW h \in Orphans', h \notin Orphans
          PROVE  h \in A
      <3>1. \A w \in Worker : w[1] # p => tx'[w] = tx[w]
        BY <1>6 DEF Crash
      <3>2. PICK w \in Worker : /\ Active(w) /\ tx'[w] = NoTx
                                /\ h = NewHead(tx[w], w[2])
        <4>1. CASE \E w \in Worker : SealFails(w) /\ h = NewHead(tx[w], w[2])
          BY <1>1, <4>1 DEF SealFails, TypeOK
        <4>2. CASE \E q \in Process : \E s \in Running(q) :
                      Crash(q) /\ h = NewHead(tx[<<q, s>>], s)
          <5>1. PICK q \in Process : \E s \in Running(q) :
                      Crash(q) /\ h = NewHead(tx[<<q, s>>], s)
            BY <4>2
          <5>2. PICK s \in Running(q) : Crash(q) /\ h = NewHead(tx[<<q, s>>], s)
            BY <5>1
          <5>3. <<q, s>> \in Worker /\ Active(<<q, s>>) /\ tx'[<<q, s>>] = NoTx
            BY <5>2 DEF Running, Worker, Crash
          <5> QED
            BY <5>2, <5>3
        <4> QED
          BY <1>1, <2>6, <4>1, <4>2, GivenUp
      <3>3. w[1] = p
        BY <3>1, <3>2 DEF Active, NoTx
      <3>4. w = <<p, w[2]>> /\ w[2] \in Running(p)
        BY <3>2, <3>3 DEF Worker, Running
      <3> QED
        BY <3>2, <3>4 DEF A, f
    <2>7. Orphans' \subseteq Orphans \cup A
      BY <2>6
    <2>8. failures' = failures + 1
      BY <1>6 DEF Crash
    <2> QED
      BY <1>5, <2>3, <2>5, <2>7, <2>8
  <1>7. ASSUME NEW w \in Worker, SealFails(w), ~ \E p \in Process : Crash(p)
        PROVE  /\ IsFiniteSet(Orphans')
               /\ Cardinality(Orphans') <= failures' * Concurrency
    <2> DEFINE g == NewHead(tx[w], w[2])
    <2>1. ASSUME NEW h \in Orphans', h \notin Orphans
          PROVE  h = g
      <3>1. PICK v \in Worker : SealFails(v) /\ h = NewHead(tx[v], v[2])
        BY <1>1, <1>7, <2>1, GivenUp
      <3>2. tx'[v] = NoTx /\ tx[v] # NoTx
        BY <1>1, <3>1 DEF SealFails, TypeOK, Active, NoTx
      <3>3. \A u \in Worker : u # w => tx'[u] = tx[u]
        BY <1>1, <1>7 DEF SealFails, TypeOK
      <3> QED
        BY <3>1, <3>2, <3>3
    <2> HIDE DEF g
    <2>2. Orphans' \subseteq Orphans \cup {g}
      BY <2>1
    <2>3. IsFiniteSet({g}) /\ Cardinality({g}) = 1
      BY FS_Singleton
    <2>4. failures' = failures + 1
      BY <1>7 DEF SealFails
    <2> QED
      BY <1>4, <1>5, <2>2, <2>3, <2>4
  <1>8. ASSUME ~ \E w \in Worker : SealFails(w), ~ \E p \in Process : Crash(p)
        PROVE  /\ IsFiniteSet(Orphans')
               /\ Cardinality(Orphans') <= failures' * Concurrency
    <2>1. Orphans' \subseteq Orphans
      BY <1>1, <1>8, GivenUp
    <2>2. failures' = failures
      BY <1>8 DEF Next, vars, tableVars, acceptVars, InsertPendingEvent,
         PendingVisible, ListShardsWithPending, TickIdle, BeginSeal, SealShard,
         EnsureShardChain, LockShardChain, SkipLockedShard, DrainPendingForShard,
         DrainNothing, ExistingExternalEventIDs, DropDuplicate, ChainRow,
         CommitAllDuplicates, CopyEvents, PublishCheckpoint, CommitSeal
    <2> DEFINE S == Orphans
               T == Orphans'
    <2>3. T \in SUBSET S /\ IsFiniteSet(S)
      BY <1>4, <2>1
    <2> HIDE DEF S, T
    <2>4. IsFiniteSet(T) /\ Cardinality(T) <= Cardinality(S)
      BY <2>3, FS_Subset
    <2>5. Cardinality(T) \in Nat /\ Cardinality(S) \in Nat
      BY <2>3, <2>4, FS_CardinalityType
    <2> QED
      BY <1>4, <2>2, <2>4, <2>5 DEF S, T
  <1>9. /\ IsFiniteSet(Orphans')
        /\ Cardinality(Orphans') <= failures' * Concurrency
    BY <1>6, <1>7, <1>8
  <1> QED
    BY <1>2, <1>3, <1>9 DEF AnchorInv

(***************************************************************************)
(* A published head the journal never reached is the work of an error or   *)
(* a crash, for any number of processes, shards and failures: one failure  *)
(* leaves at most Concurrency of them behind.                              *)
(***************************************************************************)
THEOREM OnlyFailuresOrphan == Spec => []AnchoredUnlessFailed
  <1>1. Init => ChainInv /\ AnchorInv
    BY ChainInvInit, AnchorInit
  <1>2. ChainInv /\ AnchorInv /\ [Next]_vars => (ChainInv /\ AnchorInv)'
    BY ChainInvStep, AnchorStep
  <1>3. AnchorInv => AnchoredUnlessFailed
    BY DEF AnchorInv, AnchoredUnlessFailed, Orphans
  <1> QED
    BY <1>1, <1>2, <1>3, PTL DEF Spec

-----------------------------------------------------------------------------
(***************************************************************************)
(* The rows that pass through the sealer: nothing accepted is lost, nothing*)
(* is sealed twice, the COPY never collides with the unique index, a       *)
(* client's order is kept in its chain, and the pipeline implements the    *)
(* abstract journal.                                                       *)
(***************************************************************************)
\* Events with one external id are on one shard: routing makes the sealer's
\* per-shard lookup complete for the whole environment.
LEMMA SameExtSameShard ==
    ASSUME RowLifecycle, NEW d \in Event, NEW e \in Event,
           acceptedAt[d] # 0, acceptedAt[e] # 0,
           ExtOf[d] # Nil, ExtOf[d] = ExtOf[e]
    PROVE  shardOf[d] = shardOf[e]
  <1>1. ShardChoices(d) = {IndexFor[ExtOf[d]]} /\ ShardChoices(e) = ShardChoices(d)
    BY DEF ShardChoices, ShardKey
  <1> QED
    BY <1>1 DEF RowLifecycle

LEMMA NoTxSound ==
    ASSUME NEW s
    PROVE  BatchSound(NoTx, s) /\ BatchSound(NoTx, s)'
  <1>1. /\ NoTx.step = "idle" /\ NoTx.batch = << >> /\ NoTx.rows = << >>
        /\ NoTx.next = 1 /\ NoTx.taken = {}
    BY DEF NoTx
  <1>2. ToSet(NoTx.batch) = {} /\ ExtsOfRows(NoTx.rows) = {}
    BY <1>1 DEF ToSet, ExtsOfRows
  <1> QED
    BY <1>1, <1>2 DEF BatchSound, BatchDrained, RowsFromBatch, RowsFresh,
                      PassedRepresented

(***************************************************************************)
(* A step that changes one transaction and no row need only leave a sound  *)
(* transaction behind.                                                     *)
(***************************************************************************)
LEMMA RowsUntouched ==
    ASSUME SealInv, UNCHANGED <<acceptVars, pending, journal>>
    PROVE  /\ RowLifecycle' /\ SealedOnce' /\ NothingLost'
           /\ \A t, s : BatchSound(t, s) => BatchSound(t, s)'
  <1>1. /\ SealedIds' = SealedIds /\ SealedExts' = SealedExts
        /\ \A s : PendingOf(s)' = PendingOf(s)
        /\ Acked' = Acked
        /\ \A e : Represented(e)' = Represented(e)
    BY DEF acceptVars, SealedIds, SealedExts, PendingOf, Acked, Represented
  <1>2. RowLifecycle' /\ SealedOnce' /\ NothingLost'
    BY <1>1 DEF SealInv, acceptVars, RowLifecycle, SealedOnce, NothingLost
  <1>3. ASSUME NEW t, NEW s, BatchSound(t, s)
        PROVE  BatchSound(t, s)'
    BY <1>1, <1>3 DEF BatchSound, BatchDrained, RowsFromBatch, RowsFresh,
                      PassedRepresented
  <1> QED
    BY <1>2, <1>3

LEMMA OneBatchChanges ==
    ASSUME TypeOK, SealInv, UNCHANGED <<acceptVars, pending, journal>>,
           NEW w \in Worker, NEW t, tx' = [tx EXCEPT ![w] = t],
           BatchSound(t, w[2])
    PROVE  SealInv'
  <1>1. tx'[w] = t /\ \A v \in Worker : v # w => tx'[v] = tx[v]
    BY DEF TypeOK
  <1>2. \A v \in Worker : BatchSound(tx'[v], v[2])
    BY <1>1 DEF SealInv, BatchesSound
  <1> QED
    BY <1>2, RowsUntouched DEF SealInv, BatchesSound

-----------------------------------------------------------------------------
(***************************************************************************)
(* The local steps of a transaction, each as what it does to its record.   *)
(***************************************************************************)
LEMMA StepSound ==
    ASSUME NEW t \in Tx, NEW s, BatchSound(t, s), NEW u,
           u.batch = t.batch, u.rows = t.rows, u.next = t.next,
           u.taken = t.taken,
           u.step \in {"ensure", "lock", "drain"} =>
               t.batch = << >> /\ t.next = 1,
           u.step \in {"anchor", "commit"} => t.next > Len(t.batch),
           u.step \in {"ensure", "lock", "drain", "anchor", "commit"}
    PROVE  BatchSound(u, s)
  BY DEF BatchSound, BatchDrained, RowsFromBatch, RowsFresh, PassedRepresented

LEMMA DrainSound ==
    ASSUME NEW t \in Tx, NEW s, BatchSound(t, s), t.rows = << >>,
           t.step = "drain", NEW n \in Nat, NEW b \in [1 .. n -> PendingOf(s)],
           InDrainOrder(b), TypeOK
    PROVE  BatchSound([t EXCEPT !.step = "lookup", !.batch = b], s)
  <1> DEFINE u == [t EXCEPT !.step = "lookup", !.batch = b]
  <1>1. /\ u.step = "lookup" /\ u.batch = b /\ u.rows = << >> /\ u.next = 1
        /\ u.taken = t.taken
    BY DEF Tx, BatchSound, BatchDrained
  <1>2. Len(b) = n /\ ToSet(b) \subseteq PendingOf(s)
    BY DEF ToSet
  <1>3. \A i, j \in 1 .. n : b[i] = b[j] => i = j
    <2> SUFFICES ASSUME NEW i \in 1 .. n, NEW j \in 1 .. n, b[i] = b[j], i # j
                 PROVE  FALSE
      OBVIOUS
    <2>1. b[i] \in Event /\ acceptedAt[b[i]] \in Nat
      BY DEF PendingOf, TypeOK
    <2>2. i < j \/ j < i
      OBVIOUS
    <2>3. DOMAIN b = 1 .. n
      OBVIOUS
    <2> QED
      BY <2>1, <2>2, <2>3 DEF InDrainOrder
  <1> HIDE DEF u
  <1>4. BatchDrained(u, s)
    BY <1>1, <1>2, <1>3 DEF BatchDrained
  <1>5. RowsFromBatch(u)
    BY <1>1 DEF RowsFromBatch
  <1>6. ExtsOfRows(u.rows) = {} /\ u.taken \subseteq SealedExts
    BY <1>1 DEF ExtsOfRows, BatchSound, PassedRepresented
  <1>7. RowsFresh(u)
    BY <1>1, <1>6 DEF RowsFresh
  <1>8. PassedRepresented(u)
    BY <1>1, <1>2, <1>6 DEF PassedRepresented
  <1> QED
    BY <1>4, <1>5, <1>7, <1>8 DEF BatchSound, u

LEMMA LookupSound ==
    ASSUME NEW t \in Tx, NEW s, BatchSound(t, s), t.rows = << >>,
           t.step = "lookup"
    PROVE  BatchSound([t EXCEPT !.step = "build",
                                !.taken = SealedExts \cap
                                    {ExtOf[e] : e \in ToSet(t.batch)}], s)
  <1> DEFINE T == SealedExts \cap {ExtOf[e] : e \in ToSet(t.batch)}
             u == [t EXCEPT !.step = "build", !.taken = T]
  <1>1. /\ u.step = "build" /\ u.batch = t.batch /\ u.rows = << >>
        /\ u.next = 1 /\ u.taken = T
    BY DEF Tx, BatchSound, BatchDrained
  <1>2. ExtsOfRows(u.rows) = {}
    BY <1>1 DEF ExtsOfRows
  <1>3. T \subseteq SealedExts
        /\ \A e \in ToSet(t.batch) : ExtOf[e] \in SealedExts => ExtOf[e] \in T
    OBVIOUS
  <1>4. t.batch \in Seq(Event)
    BY DEF Tx
  <1> HIDE DEF u, T
  <1>5. BatchDrained(u, s) /\ RowsFromBatch(u)
    BY <1>1 DEF BatchSound, BatchDrained, RowsFromBatch
  <1>6. RowsFresh(u) /\ PassedRepresented(u)
    BY <1>1, <1>2, <1>3, <1>4 DEF RowsFresh, PassedRepresented
  <1> QED
    BY <1>5, <1>6 DEF BatchSound, u, T

LEMMA DropSound ==
    ASSUME NEW t \in Tx, NEW s, BatchSound(t, s), MoreRows(t),
           IsDuplicate(t, t.batch[t.next])
    PROVE  BatchSound([t EXCEPT !.next = @ + 1], s)
  <1> DEFINE u == [t EXCEPT !.next = @ + 1]
  <1>1. /\ u.step = t.step /\ u.batch = t.batch /\ u.rows = t.rows
        /\ u.next = t.next + 1 /\ u.taken = t.taken
        /\ t.next \in Nat /\ t.step = "build"
    BY DEF Tx, MoreRows
  <1>2. ExtOf[t.batch[t.next]] \in SealedExts \cup ExtsOfRows(t.rows)
    BY DEF IsDuplicate, BatchSound, PassedRepresented
  <1> HIDE DEF u
  <1>3. BatchDrained(u, s) /\ RowsFresh(u)
    BY <1>1 DEF BatchSound, BatchDrained, RowsFresh
  <1>4. RowsFromBatch(u)
    BY <1>1 DEF BatchSound, RowsFromBatch
  <1>5. PassedRepresented(u)
    <2> SUFFICES ASSUME NEW j \in 1 .. Len(t.batch), j < t.next + 1
                 PROVE  \/ \E i \in 1 .. Len(t.rows) : t.rows[i].id = t.batch[j]
                        \/ ExtOf[t.batch[j]] \in SealedExts \cup ExtsOfRows(t.rows)
      BY <1>1 DEF BatchSound, PassedRepresented
    <2>1. CASE j = t.next
      BY <1>2, <2>1
    <2>2. CASE j < t.next
      BY <2>2 DEF BatchSound, PassedRepresented
    <2> QED
      BY <1>1, <2>1, <2>2
  <1> QED
    BY <1>3, <1>4, <1>5 DEF BatchSound, u

LEMMA KeepSound ==
    ASSUME NEW t \in Tx, NEW s \in Shard, BatchSound(t, s), MoreRows(t),
           ~ IsDuplicate(t, t.batch[t.next])
    PROVE  BatchSound([t EXCEPT !.next = @ + 1,
                                !.taken = @ \cup TakenBy(t.batch[t.next]),
                                !.rows = Append(@, EventRow(t, t.batch[t.next], s))],
                      s)
  <1> DEFINE e == t.batch[t.next]
             r == EventRow(t, e, s)
             u == [t EXCEPT !.next = @ + 1, !.taken = @ \cup TakenBy(e),
                            !.rows = Append(@, r)]
             n == Len(t.rows)
  <1>1. /\ u.step = "build" /\ u.batch = t.batch /\ u.rows = Append(t.rows, r)
        /\ u.next = t.next + 1 /\ u.taken = t.taken \cup TakenBy(e)
        /\ t.next \in Nat \ {0} /\ t.step = "build" /\ t.next <= Len(t.batch)
    BY DEF Tx, MoreRows
  <1>2. e \in Event /\ t.rows \in Seq(Row) /\ n \in Nat /\ t.batch \in Seq(Event)
        /\ e \in ToSet(t.batch)
    BY <1>1 DEF Tx, ToSet
  <1>3. r.id = e /\ r \in Row
    BY <1>2, EventRowType DEF EventRow
  <1>4. ExtOf[e] \notin t.taken
    BY DEF IsDuplicate
  <1> HIDE DEF r, u, e
  <1>5. /\ Len(u.rows) = n + 1 /\ u.rows[n + 1] = r
        /\ \A i \in 1 .. n : u.rows[i] = t.rows[i]
    BY <1>1, <1>2, <1>3
  <1>ids. /\ u.rows[n + 1].id = e
          /\ \A i \in 1 .. n : u.rows[i].id = t.rows[i].id
          /\ \A i \in 1 .. n + 1 : i = n + 1 \/ i \in 1 .. n
    BY <1>2, <1>3, <1>5
  <1>6. ExtsOfRows(u.rows) = ExtsOfRows(t.rows) \cup TakenBy(e)
    <2>1. DOMAIN u.rows = 1 .. n + 1 /\ DOMAIN t.rows = 1 .. n
      BY <1>1, <1>2, <1>3
    <2>2. {ExtOf[u.rows[i].id] : i \in 1 .. n + 1}
             = {ExtOf[t.rows[i].id] : i \in 1 .. n} \cup {ExtOf[e]}
      <3>1. 1 .. n + 1 = (1 .. n) \cup {n + 1}
        BY <1>2
      <3> HIDE DEF n
      <3> QED
        BY <1>ids, <3>1
    <2> QED
      BY <2>1, <2>2 DEF ExtsOfRows, TakenBy
  <1>7. BatchDrained(u, s)
    BY <1>1 DEF BatchSound, BatchDrained
  <1>8. RowsFromBatch(u)
    <2>1. \A i \in 1 .. n : \E j \in 1 .. Len(t.batch) :
             j < t.next /\ t.rows[i].id = t.batch[j]
      BY DEF BatchSound, RowsFromBatch
    <2>2. \A i \in 1 .. n + 1 : \E j \in 1 .. Len(t.batch) :
             j < t.next + 1 /\ u.rows[i].id = t.batch[j]
      <3> TAKE i \in 1 .. n + 1
      <3>1. CASE i = n + 1
        BY <1>1, <1>3, <1>5, <3>1 DEF e
      <3>2. CASE i \in 1 .. n
        BY <1>1, <1>5, <2>1, <3>2
      <3> QED
        BY <1>2, <3>1, <3>2
    <2>3. \A i \in 1 .. n : t.rows[i].id # e
      <3> SUFFICES ASSUME NEW i \in 1 .. n, t.rows[i].id = e
                   PROVE  FALSE
        OBVIOUS
      <3>1. PICK j \in 1 .. Len(t.batch) : j < t.next /\ t.rows[i].id = t.batch[j]
        BY <2>1
      <3>2. t.batch[j] = t.batch[t.next] /\ t.next \in 1 .. Len(t.batch)
        BY <1>1, <1>2, <3>1 DEF e
      <3>3. j = t.next
        BY <3>1, <3>2 DEF BatchSound, BatchDrained
      <3> QED
        BY <1>1, <3>1, <3>3
    <2>4. \A i, j \in 1 .. n : t.rows[i].id = t.rows[j].id => i = j
      BY DEF BatchSound, RowsFromBatch
    <2>5. \A i, j \in 1 .. n + 1 : u.rows[i].id = u.rows[j].id => i = j
      <3> TAKE i, j \in 1 .. n + 1
      <3>1. CASE i \in 1 .. n /\ j \in 1 .. n
        BY <1>5, <2>4, <3>1
      <3>2. CASE i = n + 1 \/ j = n + 1
        BY <1>ids, <2>3, <3>2
      <3> QED
        BY <1>2, <3>1, <3>2
    <2>6. Len(u.rows) = n + 1 /\ u.batch = t.batch /\ u.next = t.next + 1
      BY <1>1, <1>5
    <2>7. /\ \A i \in 1 .. Len(u.rows) : \E j \in 1 .. Len(u.batch) :
                j < u.next /\ u.rows[i].id = u.batch[j]
          /\ \A i, j \in 1 .. Len(u.rows) : u.rows[i].id = u.rows[j].id => i = j
      <3> HIDE DEF n
      <3> QED
        BY <2>2, <2>5, <2>6
    <2> QED
      BY <2>7 DEF RowsFromBatch
  <1>9. RowsFresh(u)
    <2>1. \A i \in 1 .. n : ExtOf[t.rows[i].id] # Nil =>
             ExtOf[t.rows[i].id] # ExtOf[e]
      <3>1. \A i \in 1 .. n : ExtOf[t.rows[i].id] # Nil =>
               ExtOf[t.rows[i].id] \in ExtsOfRows(t.rows)
        BY <1>2 DEF ExtsOfRows
      <3> QED
        BY <1>4, <3>1 DEF BatchSound, RowsFresh
    <2>2. ASSUME NEW i \in 1 .. n + 1, NEW j \in 1 .. n + 1,
                 ExtOf[u.rows[i].id] # Nil,
                 ExtOf[u.rows[i].id] = ExtOf[u.rows[j].id]
          PROVE  i = j
      <3>1. CASE i \in 1 .. n /\ j \in 1 .. n
        BY <1>5, <2>2, <3>1 DEF BatchSound, RowsFresh
      <3>2. CASE i = n + 1 \/ j = n + 1
        BY <1>ids, <2>1, <2>2, <3>2
      <3> QED
        BY <1>2, <3>1, <3>2
    <2>3. ExtsOfRows(u.rows) \subseteq u.taken
      BY <1>1, <1>6 DEF BatchSound, RowsFresh
    <2>4. ExtsOfRows(u.rows) \cap SealedExts = {}
      <3>1. ExtOf[e] \notin SealedExts
        BY <1>1, <1>2, <1>4 DEF BatchSound, RowsFresh
      <3> QED
        BY <1>6, <3>1 DEF BatchSound, RowsFresh, TakenBy
    <2>5. \A d \in ToSet(u.batch) : ExtOf[d] \in SealedExts => ExtOf[d] \in u.taken
      BY <1>1 DEF BatchSound, RowsFresh
    <2> QED
      BY <1>5, <2>2, <2>3, <2>4, <2>5 DEF RowsFresh
  <1>10. PassedRepresented(u)
    <2>1. u.taken \subseteq SealedExts \cup ExtsOfRows(u.rows)
      BY <1>1, <1>6 DEF BatchSound, PassedRepresented
    <2>2. ASSUME NEW j \in 1 .. Len(t.batch), j < t.next + 1
          PROVE  \/ \E i \in 1 .. n + 1 : u.rows[i].id = t.batch[j]
                 \/ ExtOf[t.batch[j]] \in SealedExts \cup ExtsOfRows(u.rows)
      <3>1. CASE j = t.next
        BY <1>2, <1>3, <1>5, <3>1 DEF e
      <3>2. CASE j < t.next
        <4>1. \/ \E i \in 1 .. n : t.rows[i].id = t.batch[j]
              \/ ExtOf[t.batch[j]] \in SealedExts \cup ExtsOfRows(t.rows)
          BY <3>2 DEF BatchSound, PassedRepresented
        <4> QED
          BY <1>2, <1>5, <1>6, <4>1
      <3> QED
        BY <1>1, <2>2, <3>1, <3>2
    <2> QED
      BY <1>1, <1>5, <2>1, <2>2 DEF PassedRepresented
  <1> QED
    BY <1>7, <1>8, <1>9, <1>10 DEF BatchSound, u, r, e

-----------------------------------------------------------------------------
\* A commit leaves a transaction sound when it takes none of its rows and
\* seals none of its external ids.
LEMMA OtherSound ==
    ASSUME NEW u \in Tx, NEW s, NEW X, BatchSound(u, s),
           SealedExts' = SealedExts \cup X,
           ToSet(u.batch) \subseteq PendingOf(s)',
           \A e \in ToSet(u.batch) : ExtOf[e] \notin X
    PROVE  BatchSound(u, s)'
  <1>1. u.rows \in Seq(Row) /\ u.batch \in Seq(Event)
    BY DEF Tx
  <1>2. BatchDrained(u, s)' /\ RowsFromBatch(u)'
    BY DEF BatchSound, BatchDrained, RowsFromBatch
  <1>3. ExtsOfRows(u.rows) \subseteq {ExtOf[e] : e \in ToSet(u.batch)}
    <2>1. \A i \in 1 .. Len(u.rows) : u.rows[i].id \in ToSet(u.batch)
      BY <1>1 DEF BatchSound, RowsFromBatch, ToSet
    <2> QED
      BY <1>1, <2>1 DEF ExtsOfRows
  <1>4. ExtsOfRows(u.rows) \cap SealedExts' = {}
    BY <1>3 DEF BatchSound, RowsFresh
  <1>5. u.step = "build" => \A e \in ToSet(u.batch) :
           ExtOf[e] \in SealedExts' => ExtOf[e] \in u.taken
    BY DEF BatchSound, RowsFresh
  <1>6. RowsFresh(u)' /\ PassedRepresented(u)'
    BY <1>4, <1>5 DEF BatchSound, RowsFresh, PassedRepresented
  <1> QED
    BY <1>2, <1>6 DEF BatchSound

(***************************************************************************)
(* The two commits, as one: transaction w puts its rows (none, when the    *)
(* whole batch was duplicates) into the journal and deletes its batch.     *)
(***************************************************************************)
LEMMA CommitSound ==
    ASSUME ChainInv, SealInv, NEW w \in Worker,
           Holds(w), tx[w].next > Len(tx[w].batch),
           UNCHANGED acceptVars,
           journal' = journal \cup ToSet(tx[w].rows),
           pending' = pending \ DrainedRows(tx[w]),
           tx' = [tx EXCEPT ![w] = NoTx]
    PROVE  SealInv'
  <1> DEFINE t == tx[w]
             new == ToSet(t.rows)
             batch == ToSet(t.batch)
             n == Len(t.rows)
  <1>1. /\ t \in Tx /\ w[2] \in Shard /\ BatchSound(t, w[2])
        /\ RowsContinue(t, w[2]) /\ TypeOK /\ OneSealer
    BY DEF ChainInv, TypeOK, Worker, SealInv, BatchesSound, RowsContinueTip
  <1>2. /\ t.rows \in Seq(Row) /\ t.batch \in Seq(Event) /\ n \in Nat
        /\ t.next \in Nat
    BY <1>1 DEF Tx
  <1>3. /\ new = {t.rows[i] : i \in 1 .. n}
        /\ batch = {t.batch[j] : j \in 1 .. Len(t.batch)}
        /\ batch \subseteq PendingOf(w[2])
        /\ ExtsOfRows(t.rows) = {ExtOf[t.rows[i].id] : i \in 1 .. n} \ {Nil}
    <2>1. DOMAIN t.rows = 1 .. n /\ DOMAIN t.batch = 1 .. Len(t.batch)
      BY <1>2
    <2>2. batch \subseteq PendingOf(w[2])
      BY <1>1 DEF BatchSound, BatchDrained
    <2> QED
      BY <2>1, <2>2 DEF ToSet, ExtsOfRows
  <1>4. \A r \in new : r.id \in batch /\ r.shard = w[2] /\ r \in Row
    <2>1. ASSUME NEW i \in 1 .. n
          PROVE  t.rows[i].id \in batch /\ t.rows[i].shard = w[2] /\ t.rows[i] \in Row
      <3>1. t.rows[i] \in Row
        BY <1>2
      <3>2. t.rows[i].shard = w[2]
        BY <1>1 DEF RowsContinue, RowContinues
      <3>3. t.rows[i].id \in batch
        BY <1>1, <1>3 DEF BatchSound, RowsFromBatch
      <3> QED
        BY <3>1, <3>2, <3>3
    <2> QED
      BY <1>3, <2>1
  <1>5. /\ tx'[w] = NoTx
        /\ \A v \in Worker : v # w => tx'[v] = tx[v]
    BY <1>1 DEF TypeOK
  <1>6. /\ journal' = journal \cup new
        /\ pending' = pending \ batch
        /\ acceptedAt' = acceptedAt /\ shardOf' = shardOf /\ inserting' = inserting
    BY DEF DrainedRows, acceptVars
  <1>7. /\ SealedIds' = SealedIds \cup {r.id : r \in new}
        /\ SealedExts' = SealedExts \cup ExtsOfRows(t.rows)
    <2>1. SealedIds' = SealedIds \cup {r.id : r \in new}
      BY <1>6 DEF SealedIds
    <2>2. SealedExts' = SealedExts \cup ({ExtOf[r.id] : r \in new} \ {Nil})
      BY <1>6 DEF SealedExts
    <2>3. {ExtOf[r.id] : r \in new} = {ExtOf[t.rows[i].id] : i \in 1 .. n}
      BY <1>3
    <2> QED
      BY <1>3, <2>1, <2>2, <2>3
  <1>8. \A q, r \in new : q.id = r.id => q = r
    BY <1>1, <1>3 DEF BatchSound, RowsFromBatch
  <1> HIDE DEF t, new, batch, n
  <1>9. /\ RowLifecycle /\ BatchesSound /\ SealedOnce /\ NothingLost
        /\ batch \subseteq pending
        /\ \A e \in batch : shardOf[e] = w[2]
    BY <1>3 DEF SealInv, PendingOf
  <1>10. RowLifecycle'
    <2>1. inserting' \cap pending' = {} /\ inserting' \cap SealedIds' = {}
      BY <1>4, <1>6, <1>7, <1>9 DEF RowLifecycle
    <2>2. \A e \in inserting' \cup pending' \cup SealedIds' : acceptedAt'[e] # 0
      BY <1>4, <1>6, <1>7, <1>9 DEF RowLifecycle
    <2>3. \A e \in Event : acceptedAt'[e] # 0 => shardOf'[e] \in ShardChoices(e)
      BY <1>6, <1>9 DEF RowLifecycle
    <2>4. \A r \in journal' : r.shard = shardOf'[r.id]
      BY <1>4, <1>6, <1>9 DEF RowLifecycle
    <2> QED
      BY <2>1, <2>2, <2>3, <2>4 DEF RowLifecycle
  <1>11. SealedOnce'
    <2>1. \A q, r \in journal' : q.id = r.id => q = r
      <3> SUFFICES ASSUME NEW q \in journal', NEW r \in journal', q.id = r.id
                   PROVE  q = r
        OBVIOUS
      <3>1. \A a \in journal : a.id \in SealedIds
        BY DEF SealedIds
      <3>2. \A a \in new : a.id \notin SealedIds
        BY <1>4, <1>9 DEF SealedOnce
      <3> QED
        BY <1>6, <1>8, <1>9, <3>1, <3>2 DEF SealedOnce
    <2>2. pending' \cap SealedIds' = {}
      BY <1>4, <1>6, <1>7, <1>9 DEF SealedOnce
    <2> QED
      BY <2>1, <2>2 DEF SealedOnce
  <1>12. NothingLost'
    <2> SUFFICES ASSUME NEW e \in Acked'
                 PROVE  e \in pending' \/ Represented(e)'
      BY DEF NothingLost
    <2>1. e \in Acked /\ e \in Event
      BY <1>6 DEF Acked
    <2>2. CASE Represented(e)
      BY <1>6, <2>2 DEF Represented
    <2>3. CASE e \in pending \ batch
      BY <1>6, <2>3
    <2>4. CASE e \in batch
      <3>1. PICK j \in 1 .. Len(t.batch) : e = t.batch[j]
        BY <1>3, <2>4
      <3>2. j < t.next
        BY <1>2, <3>1 DEF t
      <3>3. \/ \E i \in 1 .. n : t.rows[i].id = e
            \/ ExtOf[e] \in SealedExts \cup ExtsOfRows(t.rows)
        BY <1>1, <3>1, <3>2 DEF BatchSound, PassedRepresented, n
      <3>4. CASE \E i \in 1 .. n : t.rows[i].id = e
        BY <1>3, <1>6, <3>4 DEF Represented
      <3>5. CASE ExtOf[e] \in SealedExts \cup ExtsOfRows(t.rows)
        <4>1. ExtOf[e] \in SealedExts'
          BY <1>7, <3>5
        <4>2. ExtOf[e] # Nil /\ \E r \in journal' : ExtOf[r.id] = ExtOf[e]
          BY <4>1 DEF SealedExts
        <4> QED
          BY <4>2 DEF Represented
      <3> QED
        BY <3>3, <3>4, <3>5
    <2> QED
      BY <1>9, <2>1, <2>2, <2>3, <2>4 DEF NothingLost
  \* The other transactions are on other shards, or have drained nothing.
  <1>13. ASSUME NEW v \in Worker, v # w, NEW u \in Tx, u = tx[v]
         PROVE  BatchSound(u, v[2])'
    <2>1. BatchSound(u, v[2]) /\ RowsContinue(u, v[2]) /\ v[2] \in Shard
          /\ u.batch \in Seq(Event)
      BY <1>9, <1>13 DEF BatchesSound, Worker, ChainInv, RowsContinueTip, Tx
    <2>2. /\ ToSet(u.batch) \subseteq PendingOf(v[2])'
          /\ \A e \in ToSet(u.batch) : ExtOf[e] \notin ExtsOfRows(tx[w].rows)
      <3>1. CASE ~ Holds(v)
        <4>1. u.batch = << >>
          BY <1>13, <2>1, <3>1 DEF Holds, Locking, BatchSound, BatchDrained
        <4>2. ToSet(u.batch) = {}
          BY <4>1 DEF ToSet
        <4> QED
          BY <4>2
      <3>2. CASE Holds(v)
        <4>1. v[2] # w[2]
          BY <1>1, <1>13, <3>2 DEF OneSealer
        <4>2. \A e \in ToSet(u.batch) :
                 e \in pending /\ e \notin batch /\ shardOf[e] = v[2]
          BY <1>9, <2>1, <4>1 DEF BatchSound, BatchDrained, PendingOf
        <4>3. ToSet(u.batch) \subseteq PendingOf(v[2])'
          BY <1>6, <4>2 DEF PendingOf
        <4>4. ASSUME NEW e \in ToSet(u.batch), NEW i \in 1 .. n,
                     ExtOf[e] = ExtOf[t.rows[i].id], ExtOf[e] # Nil
              PROVE  FALSE
          <5> DEFINE d == t.rows[i].id
          <5>1. d \in batch /\ d \in Event /\ e \in Event
            BY <1>1, <1>3, <1>4, <1>9, <4>2 DEF TypeOK
          <5>2. acceptedAt[d] # 0 /\ acceptedAt[e] # 0
            BY <1>9, <4>2, <5>1 DEF RowLifecycle
          <5>3. shardOf[d] = shardOf[e]
            BY <1>9, <4>4, <5>1, <5>2, SameExtSameShard
          <5> QED
            BY <1>9, <4>1, <4>2, <5>1, <5>3
        <4>5. \A e \in ToSet(u.batch) : ExtOf[e] \notin ExtsOfRows(t.rows)
          BY <1>3, <4>4
        <4> QED
          BY <4>3, <4>5 DEF t
      <3> QED
        BY <3>1, <3>2
    <2>3. SealedExts' = SealedExts \cup ExtsOfRows(tx[w].rows)
      BY <1>7 DEF t
    <2> QED
      BY <2>1, <2>2, <2>3, OtherSound
  <1>14. \A s : BatchSound(NoTx, s)'
    BY NoTxSound
  <1>15. \A v \in Worker : tx[v] \in Tx
    BY <1>1 DEF TypeOK
  <1> QED
    BY <1>5, <1>10, <1>11, <1>12, <1>13, <1>14, <1>15 DEF SealInv, BatchesSound

-----------------------------------------------------------------------------
LEMMA SealInvInit == Init => SealInv
  <1> SUFFICES ASSUME Init
               PROVE  SealInv
    OBVIOUS
  <1>1. /\ inserting = {} /\ pending = {} /\ journal = {}
        /\ acceptedAt = [e \in Event |-> 0] /\ tx = [w \in Worker |-> NoTx]
    BY DEF Init
  <1>2. SealedIds = {} /\ Acked = {}
    BY <1>1 DEF SealedIds, Acked
  <1>3. RowLifecycle /\ SealedOnce /\ NothingLost
    BY <1>1, <1>2 DEF RowLifecycle, SealedOnce, NothingLost
  <1>4. BatchesSound
    BY <1>1, NoTxSound DEF BatchesSound
  <1> QED
    BY <1>3, <1>4 DEF SealInv

\* The two steps of the accept path.
LEMMA AcceptKeepsRows ==
    ASSUME TypeOK, SealInv, NEW e \in Event,
           InsertPendingEvent(e) \/ PendingVisible(e)
    PROVE  SealInv'
  <1>1. /\ RowLifecycle /\ BatchesSound /\ SealedOnce /\ NothingLost
        /\ journal' = journal /\ tx' = tx
    BY DEF SealInv, InsertPendingEvent, PendingVisible, tableVars
  <1>2. /\ SealedIds' = SealedIds /\ SealedExts' = SealedExts
        /\ \A d : Represented(d)' = Represented(d)
    BY <1>1 DEF SealedIds, SealedExts, Represented
  <1>3. \A d \in pending : d \in pending' /\ shardOf'[d] = shardOf[d]
    BY <1>1 DEF RowLifecycle, InsertPendingEvent, PendingVisible, TypeOK
  <1>4. BatchesSound'
    <2>1. ASSUME NEW w \in Worker, NEW u \in Tx, u = tx[w]
          PROVE  BatchSound(u, w[2])'
      <3>1. BatchSound(u, w[2])
        BY <1>1, <2>1 DEF BatchesSound
      <3>2. ToSet(u.batch) \subseteq PendingOf(w[2])'
        BY <1>3, <3>1 DEF BatchSound, BatchDrained, PendingOf
      <3>3. /\ SealedExts' = SealedExts \cup {}
            /\ \A d \in ToSet(u.batch) : ExtOf[d] \notin {}
        BY <1>2
      <3> QED
        BY <3>1, <3>2, <3>3, OtherSound
    <2> QED
      BY <1>1, <2>1 DEF BatchesSound, TypeOK
  <1>5. SealedOnce'
    BY <1>1, <1>2 DEF SealedOnce, RowLifecycle, InsertPendingEvent, PendingVisible
  <1>6. CASE InsertPendingEvent(e)
    <2>1. PICK s \in ShardChoices(e) : shardOf' = [shardOf EXCEPT ![e] = s]
      BY <1>6 DEF InsertPendingEvent
    <2>2. /\ acceptedAt[e] = 0 /\ acceptedAt' = [acceptedAt EXCEPT ![e] = clock + 1]
          /\ inserting' = inserting \cup {e} /\ pending' = pending
          /\ clock + 1 # 0
      BY <1>6 DEF InsertPendingEvent, TypeOK
    <2>3. /\ acceptedAt'[e] # 0 /\ shardOf'[e] = s
          /\ \A d \in Event : d # e =>
                acceptedAt'[d] = acceptedAt[d] /\ shardOf'[d] = shardOf[d]
      BY <2>1, <2>2 DEF TypeOK
    <2>4. e \notin inserting \cup pending \cup SealedIds
      BY <1>1, <2>2 DEF RowLifecycle
    <2>5. \A r \in journal : r.id \in SealedIds /\ r.id \in Event
      BY DEF SealedIds, TypeOK, Row
    <2>6. SealedIds \subseteq Event
      BY <2>5 DEF SealedIds
    <2>7. /\ inserting' \cap pending' = {}
          /\ inserting' \cap SealedIds' = {}
      BY <1>1, <1>2, <2>2, <2>4 DEF RowLifecycle
    <2>8. \A d \in inserting' \cup pending' \cup SealedIds' : acceptedAt'[d] # 0
      BY <1>1, <1>2, <2>2, <2>3, <2>6 DEF RowLifecycle, TypeOK
    <2>9. \A d \in Event : acceptedAt'[d] # 0 => shardOf'[d] \in ShardChoices(d)
      BY <1>1, <2>3 DEF RowLifecycle
    <2>10. \A r \in journal' : r.shard = shardOf'[r.id]
      BY <1>1, <2>3, <2>4, <2>5 DEF RowLifecycle
    <2>11. Acked' \subseteq Acked
      BY <2>2, <2>3 DEF Acked
    <2>12. NothingLost'
      BY <1>1, <1>2, <2>2, <2>11 DEF NothingLost
    <2> QED
      BY <1>4, <1>5, <2>7, <2>8, <2>9, <2>10, <2>12 DEF SealInv, RowLifecycle
  <1>7. CASE PendingVisible(e)
    <2>1. /\ e \in inserting /\ inserting' = inserting \ {e}
          /\ pending' = pending \cup {e}
          /\ acceptedAt' = acceptedAt /\ shardOf' = shardOf
      BY <1>7 DEF PendingVisible
    <2>2. RowLifecycle'
      BY <1>1, <1>2, <2>1 DEF RowLifecycle
    <2>3. Acked' \subseteq Acked \cup {e}
      BY <2>1 DEF Acked
    <2>4. NothingLost'
      BY <1>1, <1>2, <2>1, <2>3 DEF NothingLost
    <2> QED
      BY <1>4, <1>5, <2>2, <2>4 DEF SealInv
  <1> QED
    BY <1>6, <1>7

\* The statements of SealShard.
LEMMA SealShardKeepsRows ==
    ASSUME ChainInv, SealInv, NEW w \in Worker, SealShard(w)
    PROVE  SealInv'
  <1> DEFINE t == tx[w]
             s == w[2]
  <1>1. /\ TypeOK /\ t \in Tx /\ s \in Shard
        /\ BatchSound(t, s) /\ RowsContinue(t, s)
    BY DEF ChainInv, TypeOK, Worker, SealInv, BatchesSound, RowsContinueTip
  <1>2. ASSUME NEW u, BatchSound(u, s), tx' = [tx EXCEPT ![w] = u],
               UNCHANGED <<acceptVars, pending, journal>>
        PROVE  SealInv'
    BY <1>1, <1>2, OneBatchChanges
  <1>3. ASSUME tx' = [tx EXCEPT ![w] = NoTx],
               UNCHANGED <<acceptVars, pending, journal>>
        PROVE  SealInv'
    BY <1>2, <1>3, NoTxSound
  <1>4. CASE EnsureShardChain(w)
    <2> DEFINE u == [t EXCEPT !.step = "lock", !.creates = s \notin chainRows]
    <2>1. /\ u.step = "lock" /\ u.batch = t.batch /\ u.rows = t.rows
          /\ u.next = t.next /\ u.taken = t.taken
      BY <1>1 DEF Tx
    <2>2. t.batch = << >> /\ t.next = 1
      BY <1>1, <1>4 DEF EnsureShardChain, BatchSound, BatchDrained
    <2>3. UNCHANGED <<acceptVars, pending, journal>> /\ tx' = [tx EXCEPT ![w] = u]
      BY <1>4 DEF EnsureShardChain, tableVars
    <2> HIDE DEF u, t, s
    <2>4. BatchSound(u, s)
      BY <1>1, <2>1, <2>2, StepSound
    <2> QED
      BY <1>2, <2>3, <2>4
  <1>5. CASE LockShardChain(w)
    <2> DEFINE u == [t EXCEPT !.step = "drain", !.tip = chains[s]]
    <2>1. /\ u.step = "drain" /\ u.batch = t.batch /\ u.rows = t.rows
          /\ u.next = t.next /\ u.taken = t.taken
      BY <1>1 DEF Tx
    <2>2. t.batch = << >> /\ t.next = 1
      BY <1>1, <1>5 DEF LockShardChain, BatchSound, BatchDrained
    <2>3. UNCHANGED <<acceptVars, pending, journal>> /\ tx' = [tx EXCEPT ![w] = u]
      BY <1>5 DEF LockShardChain, tableVars
    <2> HIDE DEF u, t, s
    <2>4. BatchSound(u, s)
      BY <1>1, <2>1, <2>2, StepSound
    <2> QED
      BY <1>2, <2>3, <2>4
  <1>6. CASE SkipLockedShard(w)
    BY <1>3, <1>6 DEF SkipLockedShard, tableVars
  <1>7. CASE DrainPendingForShard(w)
    <2>1. PICK n \in 1 .. BatchSize : \E b \in [1 .. n -> PendingOf(s)] :
             /\ OldestOf(b, PendingOf(s))
             /\ tx' = [tx EXCEPT ![w].step = "lookup", ![w].batch = b]
      BY <1>7 DEF DrainPendingForShard
    <2>2. PICK b \in [1 .. n -> PendingOf(s)] :
             /\ OldestOf(b, PendingOf(s))
             /\ tx' = [tx EXCEPT ![w].step = "lookup", ![w].batch = b]
      BY <2>1
    <2>3. n \in Nat /\ t.step = "drain" /\ t.rows = << >> /\ InDrainOrder(b)
      BY <1>1, <1>7, <2>2, SealerAssumption
         DEF DrainPendingForShard, RowsContinue, OldestOf
    <2>4. /\ UNCHANGED <<acceptVars, pending, journal>>
          /\ tx' = [tx EXCEPT ![w] = [t EXCEPT !.step = "lookup", !.batch = b]]
      BY <1>7, <2>2 DEF DrainPendingForShard, tableVars
    <2> HIDE DEF t, s
    <2>5. BatchSound([t EXCEPT !.step = "lookup", !.batch = b], s)
      BY <1>1, <2>3, DrainSound
    <2> QED
      BY <1>2, <2>4, <2>5
  <1>8. CASE DrainNothing(w)
    BY <1>3, <1>8 DEF DrainNothing
  <1>9. CASE ExistingExternalEventIDs(w)
    <2> DEFINE T == SealedExts \cap {ExtOf[e] : e \in ToSet(t.batch)}
    <2>1. t.step = "lookup" /\ t.rows = << >>
      BY <1>1, <1>9 DEF ExistingExternalEventIDs, RowsContinue
    <2>2. /\ UNCHANGED <<acceptVars, pending, journal>>
          /\ tx' = [tx EXCEPT ![w] = [t EXCEPT !.step = "build", !.taken = T]]
      BY <1>9 DEF ExistingExternalEventIDs, tableVars
    <2> HIDE DEF t, s
    <2>3. BatchSound([t EXCEPT !.step = "build", !.taken = T], s)
      BY <1>1, <2>1, LookupSound
    <2> QED
      BY <1>2, <2>2, <2>3
  <1>10. CASE DropDuplicate(w)
    <2>1. MoreRows(t) /\ IsDuplicate(t, t.batch[t.next])
      BY <1>10 DEF DropDuplicate
    <2>2. /\ UNCHANGED <<acceptVars, pending, journal>>
          /\ tx' = [tx EXCEPT ![w] = [t EXCEPT !.next = @ + 1]]
      BY <1>10 DEF DropDuplicate, tableVars
    <2> HIDE DEF t, s
    <2>3. BatchSound([t EXCEPT !.next = @ + 1], s)
      BY <1>1, <2>1, DropSound
    <2> QED
      BY <1>2, <2>2, <2>3
  <1>11. CASE ChainRow(w)
    <2> DEFINE u == [t EXCEPT !.next = @ + 1,
                              !.taken = @ \cup TakenBy(t.batch[t.next]),
                              !.rows = Append(@, EventRow(t, t.batch[t.next], s))]
    <2>1. MoreRows(t) /\ ~ IsDuplicate(t, t.batch[t.next])
      BY <1>11 DEF ChainRow
    <2>2. UNCHANGED <<acceptVars, pending, journal>> /\ tx' = [tx EXCEPT ![w] = u]
      BY <1>11 DEF ChainRow, tableVars
    <2> HIDE DEF t, s
    <2>3. BatchSound(u, s)
      BY <1>1, <2>1, KeepSound
    <2> HIDE DEF u
    <2> QED
      BY <1>2, <2>2, <2>3
  <1>12. CASE CommitAllDuplicates(w)
    <2>1. /\ Holds(w) /\ t.next > Len(t.batch) /\ t.rows = << >>
          /\ UNCHANGED acceptVars /\ tx' = [tx EXCEPT ![w] = NoTx]
          /\ pending' = pending \ DrainedRows(t) /\ journal' = journal
      BY <1>12 DEF CommitAllDuplicates, BatchBuilt, Holds, Locking
    <2>2. ToSet(t.rows) = {}
      BY <2>1 DEF ToSet
    <2>3. journal' = journal \cup ToSet(t.rows)
      BY <2>1, <2>2
    <2> QED
      BY <2>1, <2>3, CommitSound
  <1>13. CASE CopyEvents(w)
    <2>1. CASE UniqueViolation(w)
      BY <1>3, <1>13, <2>1 DEF CopyEvents, tableVars
    <2>2. CASE ~ UniqueViolation(w)
      <3> DEFINE u == [t EXCEPT !.step = "anchor"]
      <3>1. /\ u.step = "anchor" /\ u.batch = t.batch /\ u.rows = t.rows
            /\ u.next = t.next /\ u.taken = t.taken
        BY <1>1 DEF Tx
      <3>2. t.next > Len(t.batch)
        BY <1>13 DEF CopyEvents, BatchBuilt
      <3>3. UNCHANGED <<acceptVars, pending, journal>> /\ tx' = [tx EXCEPT ![w] = u]
        BY <1>13, <2>2 DEF CopyEvents, tableVars
      <3> HIDE DEF u, t, s
      <3>4. BatchSound(u, s)
        BY <1>1, <3>1, <3>2, StepSound
      <3> QED
        BY <1>2, <3>3, <3>4
    <2> QED
      BY <2>1, <2>2
  <1>14. CASE PublishCheckpoint(w)
    <2> DEFINE u == [t EXCEPT !.step = "commit"]
    <2>1. /\ u.step = "commit" /\ u.batch = t.batch /\ u.rows = t.rows
          /\ u.next = t.next /\ u.taken = t.taken
      BY <1>1 DEF Tx
    <2>2. t.next > Len(t.batch)
      BY <1>1, <1>14 DEF PublishCheckpoint, BatchSound, BatchDrained
    <2>3. UNCHANGED <<acceptVars, pending, journal>> /\ tx' = [tx EXCEPT ![w] = u]
      BY <1>14 DEF PublishCheckpoint, tableVars
    <2> HIDE DEF u, t, s
    <2>4. BatchSound(u, s)
      BY <1>1, <2>1, <2>2, StepSound
    <2> QED
      BY <1>2, <2>3, <2>4
  <1>15. CASE CommitSeal(w)
    <2>1. Holds(w) /\ t.step = "commit"
      BY <1>15 DEF CommitSeal, Holds, Locking
    <2>2. t.next > Len(t.batch)
      BY <1>1, <2>1 DEF BatchSound, BatchDrained
    <2> QED
      BY <1>15, <2>1, <2>2, CommitSound DEF CommitSeal
  <1> QED
    BY <1>4, <1>5, <1>6, <1>7, <1>8, <1>9, <1>10, <1>11, <1>12, <1>13, <1>14,
       <1>15 DEF SealShard

LEMMA SealInvStep == ChainInv /\ SealInv /\ [Next]_vars => SealInv'
  <1> SUFFICES ASSUME ChainInv, SealInv, [Next]_vars
               PROVE  SealInv'
    OBVIOUS
  <1>1. TypeOK
    BY DEF ChainInv
  <1>2. ASSUME NEW p \in Process, ListShardsWithPending(p) \/ TickIdle(p)
        PROVE  UNCHANGED <<acceptVars, pending, journal, tx>>
    BY <1>2 DEF ListShardsWithPending, TickIdle, vars, tableVars
  <1>3. ASSUME UNCHANGED <<acceptVars, pending, journal, tx>>
        PROVE  SealInv'
    BY <1>3, RowsUntouched DEF SealInv, BatchesSound
  <1>4. ASSUME NEW p \in Process, NEW s \in Shard, BeginSeal(p, s)
        PROVE  SealInv'
    <2> DEFINE u == [NoTx EXCEPT !.step = "ensure"]
    <2>1. /\ u.step = "ensure" /\ u.batch = NoTx.batch /\ u.rows = NoTx.rows
          /\ u.next = NoTx.next /\ u.taken = NoTx.taken
          /\ NoTx.batch = << >> /\ NoTx.next = 1
      BY DEF NoTx
    <2>2. <<p, s>> \in Worker /\ <<p, s>>[2] = s
      BY DEF Worker
    <2>3. /\ UNCHANGED <<acceptVars, pending, journal>>
          /\ tx' = [tx EXCEPT ![<<p, s>>] = u]
      BY <1>4 DEF BeginSeal, tableVars
    <2> HIDE DEF u
    <2>4. BatchSound(u, s)
      BY <2>1, NoTxType, NoTxSound, StepSound
    <2> QED
      BY <1>1, <2>2, <2>3, <2>4, OneBatchChanges
  <1>5. ASSUME NEW w \in Worker, SealFails(w)
        PROVE  SealInv'
    <2>1. /\ UNCHANGED <<acceptVars, pending, journal>>
          /\ tx' = [tx EXCEPT ![w] = NoTx]
      BY <1>5 DEF SealFails, tableVars
    <2> QED
      BY <1>1, <2>1, NoTxSound, OneBatchChanges
  <1>6. ASSUME NEW p \in Process, Crash(p)
        PROVE  SealInv'
    <2>1. /\ UNCHANGED <<acceptVars, pending, journal>>
          /\ \A w \in Worker : tx'[w] = NoTx \/ tx'[w] = tx[w]
      BY <1>6 DEF Crash, tableVars
    <2> QED
      BY <2>1, NoTxSound, RowsUntouched DEF SealInv, BatchesSound
  <1>7. CASE UNCHANGED vars
    BY <1>3, <1>7 DEF vars, tableVars
  <1> QED
    BY <1>1, <1>2, <1>3, <1>4, <1>5, <1>6, <1>7, AcceptKeepsRows,
       SealShardKeepsRows DEF Next

LEMMA SealInvHolds == Spec => [](ChainInv /\ SealInv)
  BY ChainInvInit, ChainInvStep, SealInvInit, SealInvStep, PTL DEF Spec

(***************************************************************************)
(* Every row is followed soundly from its INSERT through the batches of    *)
(* SealShard to the journal, in every reachable state: what a transaction  *)
(* has drained is still pending, and what it passes over is represented.   *)
(***************************************************************************)
THEOREM RowsAlwaysSound == Spec => []SealInv
  BY SealInvHolds, PTL

(***************************************************************************)
(* An acknowledged row is pending, sealed, or dropped with another event   *)
(* of its external id in the journal, in every reachable state.            *)
(***************************************************************************)
THEOREM NothingEverLost == Spec => []NothingLost
  <1>1. SealInv => NothingLost
    BY DEF SealInv
  <1> QED
    BY <1>1, SealInvHolds, PTL

(***************************************************************************)
(* No event is sealed twice, and none is both sealed and pending.          *)
(***************************************************************************)
THEOREM AlwaysSealedOnce == Spec => []SealedOnce
  <1>1. SealInv => SealedOnce
    BY DEF SealInv
  <1> QED
    BY <1>1, SealInvHolds, PTL

(***************************************************************************)
(* What is acknowledged comes out of the pipeline exactly once, for any    *)
(* number of sealers, batch sizes, errors and crashes (SealShard).         *)
(***************************************************************************)
THEOREM AlwaysExactlyOnce == Spec => []ExactlyOnce
  BY NothingEverLost, AlwaysSealedOnce, PTL DEF ExactlyOnce

(***************************************************************************)
(* The COPY never waits for another transaction's and never fails on the   *)
(* unique index: routing by external id sends the rows that could collide  *)
(* to one shard, its lock to one transaction, and the lookup and the walk  *)
(* of that transaction drop all but one of them.                           *)
(***************************************************************************)
THEOREM CopyAlwaysClear == Spec => []CopyNeverCollides
  <1>1. ASSUME ChainInv, SealInv, NEW w \in Worker, tx[w].step = "build"
        PROVE  ~ UniqueViolation(w)
    <2>1. tx[w].rows \in Seq(Row) /\ RowsFresh(tx[w])
      BY <1>1 DEF ChainInv, TypeOK, Tx, SealInv, BatchesSound, BatchSound
    <2> QED
      BY <2>1 DEF UniqueViolation, RowsFresh
  <1>2. ASSUME ChainInv, SealInv, NEW w \in Worker, tx[w].step = "build",
               NEW v \in Worker \ {w}, Copied(v), NEW x,
               x \in ExtsOfRows(tx[v].rows), x \in ExtsOfRows(tx[w].rows)
        PROVE  FALSE
    <2>1. /\ tx[v] \in Tx /\ tx[w] \in Tx
          /\ BatchSound(tx[v], v[2]) /\ BatchSound(tx[w], w[2])
          /\ TypeOK /\ OneSealer /\ RowLifecycle
          /\ v[2] \in Shard /\ w[2] \in Shard
      BY <1>2 DEF ChainInv, TypeOK, SealInv, BatchesSound, Worker
    <2>2. \A u \in Tx, s \in Shard : BatchSound(u, s) =>
             \A y \in ExtsOfRows(u.rows) :
                y # Nil /\ \E e \in PendingOf(s) : ExtOf[e] = y
      <3> TAKE u \in Tx, s \in Shard
      <3> SUFFICES ASSUME BatchSound(u, s), NEW y \in ExtsOfRows(u.rows)
                   PROVE  y # Nil /\ \E e \in PendingOf(s) : ExtOf[e] = y
        OBVIOUS
      <3>1. u.rows \in Seq(Row) /\ u.batch \in Seq(Event)
        BY DEF Tx
      <3>2. PICK i \in 1 .. Len(u.rows) : y = ExtOf[u.rows[i].id] /\ y # Nil
        BY <3>1 DEF ExtsOfRows
      <3>3. u.rows[i].id \in ToSet(u.batch)
        BY <3>1 DEF BatchSound, RowsFromBatch, ToSet
      <3>4. u.rows[i].id \in PendingOf(s)
        BY <3>3 DEF BatchSound, BatchDrained
      <3> QED
        BY <3>2, <3>4
    <2>a. x # Nil /\ \E d \in PendingOf(v[2]) : ExtOf[d] = x
      BY <1>2, <2>1, <2>2
    <2>3. PICK d \in PendingOf(v[2]) : ExtOf[d] = x /\ x # Nil
      BY <2>a
    <2>4. PICK e \in PendingOf(w[2]) : ExtOf[e] = x
      BY <1>2, <2>1, <2>2
    <2>5. /\ d \in Event /\ e \in Event /\ d \in pending /\ e \in pending
          /\ shardOf[d] = v[2] /\ shardOf[e] = w[2]
      BY <2>1 DEF PendingOf, TypeOK
    <2>6. acceptedAt[d] # 0 /\ acceptedAt[e] # 0
      BY <2>1, <2>5 DEF RowLifecycle
    <2>7. v[2] = w[2]
      BY <2>1, <2>3, <2>4, <2>5, <2>6, SameExtSameShard
    <2>8. Holds(v) /\ Holds(w)
      BY <1>2 DEF Holds, Locking, Copied
    <2> QED
      BY <2>1, <2>7, <2>8 DEF OneSealer
  <1>3. ChainInv /\ SealInv => CopyNeverCollides
    BY <1>1, <1>2 DEF CopyNeverCollides, BlockedByCopy
  <1> QED
    BY <1>3, SealInvHolds, PTL

-----------------------------------------------------------------------------
(***************************************************************************)
(* Why the order of acceptance is kept.  What a client had been answered   *)
(* for is older; a batch in ORDER BY accepted_at therefore has every row   *)
(* of the shard that must come first, and earlier; and rows are chained in *)
(* the order of the batch.                                                 *)
(***************************************************************************)
AckedAreOlder ==
    /\ \A e \in Event : acceptedAt[e] <= clock
    /\ \A e \in Event : \A d \in ackedBefore[e] :
          acceptedAt[d] # 0 /\ d \notin inserting /\ acceptedAt[d] < acceptedAt[e]

BatchOrdered(t, s) ==
    /\ \A j \in 1 .. Len(t.batch) :
          \A d \in ackedBefore[t.batch[j]] \cap PendingOf(s) :
             \E i \in 1 .. Len(t.batch) : i < j /\ t.batch[i] = d
    /\ \A i, k \in 1 .. Len(t.rows) : \A a, b \in 1 .. Len(t.batch) :
          i < k /\ t.rows[i].id = t.batch[a] /\ t.rows[k].id = t.batch[b] => a < b

BatchesOrdered == \A w \in Worker : BatchOrdered(tx[w], w[2])

OrderInv == AckedAreOlder /\ BatchesOrdered /\ AcceptOrderKept

LEMMA NoTxOrdered ==
    ASSUME NEW s
    PROVE  BatchOrdered(NoTx, s) /\ BatchOrdered(NoTx, s)'
  BY DEF NoTx, BatchOrdered

LEMMA OrderInvInit == Init => OrderInv
  <1> SUFFICES ASSUME Init PROVE OrderInv
    OBVIOUS
  <1>1. BatchesOrdered
    BY NoTxOrdered DEF Init, BatchesOrdered
  <1> QED
    BY <1>1 DEF Init, OrderInv, AckedAreOlder, AcceptOrderKept

\* The batches drained before a step stay ordered: what becomes pending in it
\* was acknowledged before none of their rows.
LEMMA OrderedKept ==
    ASSUME NEW t, NEW s, BatchOrdered(t, s),
           \A j \in 1 .. Len(t.batch) :
              /\ ackedBefore'[t.batch[j]] = ackedBefore[t.batch[j]]
              /\ \A d \in PendingOf(s)' \cap ackedBefore[t.batch[j]] :
                    d \in PendingOf(s)
    PROVE  BatchOrdered(t, s)'
  BY DEF BatchOrdered

LEMMA OrderUntouched ==
    ASSUME OrderInv, UNCHANGED <<acceptVars, pending, journal>>
    PROVE  /\ AckedAreOlder' /\ AcceptOrderKept'
           /\ \A t, s : BatchOrdered(t, s) => BatchOrdered(t, s)'
  <1>1. \A s : PendingOf(s)' = PendingOf(s)
    BY DEF acceptVars, PendingOf
  <1>2. AckedAreOlder' /\ AcceptOrderKept'
    BY DEF OrderInv, acceptVars, AckedAreOlder, AcceptOrderKept
  <1>3. ASSUME NEW t, NEW s, BatchOrdered(t, s)
        PROVE  BatchOrdered(t, s)'
    BY <1>1, <1>3, OrderedKept DEF acceptVars
  <1> QED
    BY <1>2, <1>3

LEMMA OneOrderChanges ==
    ASSUME TypeOK, OrderInv, UNCHANGED <<acceptVars, pending, journal>>,
           NEW w \in Worker, NEW t, tx' = [tx EXCEPT ![w] = t],
           BatchOrdered(t, w[2])
    PROVE  OrderInv'
  <1>1. tx'[w] = t /\ \A v \in Worker : v # w => tx'[v] = tx[v]
    BY DEF TypeOK
  <1>2. \A v \in Worker : BatchOrdered(tx'[v], v[2])
    BY <1>1 DEF OrderInv, BatchesOrdered
  <1> QED
    BY <1>2, OrderUntouched DEF OrderInv, BatchesOrdered

\* ORDER BY accepted_at LIMIT BatchSize.
LEMMA DrainOrdered ==
    ASSUME TypeOK, AckedAreOlder, NEW s, NEW n \in Nat,
           NEW b \in [1 .. n -> PendingOf(s)], OldestOf(b, PendingOf(s)),
           NEW u, u.batch = b, u.rows = << >>
    PROVE  BatchOrdered(u, s)
  <1>1. Len(b) = n /\ DOMAIN b = 1 .. n /\ ToSet(b) = {b[i] : i \in 1 .. n}
    BY DEF ToSet
  <1>2. ASSUME NEW j \in 1 .. n, NEW d \in ackedBefore[b[j]] \cap PendingOf(s)
        PROVE  \E i \in 1 .. n : i < j /\ b[i] = d
    <2>1. /\ b[j] \in Event /\ d \in Event
          /\ acceptedAt[d] \in Nat /\ acceptedAt[b[j]] \in Nat
          /\ acceptedAt[d] < acceptedAt[b[j]]
      BY DEF PendingOf, TypeOK, AckedAreOlder
    <2>2. d \in ToSet(b)
      BY <1>1, <2>1 DEF OldestOf
    <2>3. PICK i \in 1 .. n : b[i] = d
      BY <1>1, <2>2
    <2>4. ~ (j < i) /\ i # j
      BY <1>1, <2>1, <2>3 DEF OldestOf, InDrainOrder
    <2> QED
      BY <2>3, <2>4
  <1> QED
    BY <1>1, <1>2 DEF BatchOrdered

\* A kept row is chained after the rows kept before it.
LEMMA KeepOrdered ==
    ASSUME NEW t \in Tx, NEW s \in Shard, BatchOrdered(t, s), BatchSound(t, s),
           MoreRows(t), NEW r, r.id = t.batch[t.next],
           NEW u, u.batch = t.batch, u.rows = Append(t.rows, r)
    PROVE  BatchOrdered(u, s)
  <1> DEFINE n == Len(t.rows)
  <1>1. /\ t.rows \in Seq(Row) /\ t.batch \in Seq(Event) /\ n \in Nat
        /\ t.next \in 1 .. Len(t.batch) /\ t.next \in Nat
    BY DEF Tx, MoreRows
  <1>2. /\ Len(u.rows) = n + 1 /\ u.rows[n + 1] = r
        /\ \A i \in 1 .. n : u.rows[i] = t.rows[i]
    BY <1>1
  <1>3. ASSUME NEW i \in 1 .. n + 1, NEW k \in 1 .. n + 1,
               NEW a \in 1 .. Len(t.batch), NEW b \in 1 .. Len(t.batch),
               i < k, u.rows[i].id = t.batch[a], u.rows[k].id = t.batch[b]
        PROVE  a < b
    <2>1. i \in 1 .. n /\ u.rows[i] = t.rows[i]
      BY <1>1, <1>2, <1>3
    <2>2. CASE k \in 1 .. n
      BY <1>2, <1>3, <2>1, <2>2 DEF BatchOrdered
    <2>3. CASE k = n + 1
      <3>1. b = t.next
        BY <1>1, <1>2, <1>3, <2>3 DEF BatchSound, BatchDrained
      <3>2. PICK c \in 1 .. Len(t.batch) : c < t.next /\ t.rows[i].id = t.batch[c]
        BY <2>1 DEF BatchSound, RowsFromBatch
      <3>3. a = c
        BY <1>3, <2>1, <3>2 DEF BatchSound, BatchDrained
      <3> QED
        BY <3>1, <3>2, <3>3
    <2> QED
      BY <1>1, <2>2, <2>3
  <1> HIDE DEF n
  <1> QED
    BY <1>2, <1>3 DEF BatchOrdered

(***************************************************************************)
(* The two commits: the rows of w (none, when all were duplicates) go to   *)
(* the end of the shard's chain, in the order of the batch.                *)
(***************************************************************************)
LEMMA CommitOrdered ==
    ASSUME ChainInv, SealInv, OrderInv, NEW w \in Worker, Holds(w),
           UNCHANGED acceptVars,
           journal' = journal \cup ToSet(tx[w].rows),
           pending' = pending \ DrainedRows(tx[w]),
           tx' = [tx EXCEPT ![w] = NoTx]
    PROVE  OrderInv'
  <1> DEFINE t == tx[w]
             s == w[2]
             n == Len(t.rows)
             m == Len(t.batch)
             old == chains[s].pos
             new == ToSet(t.rows)
  <1>1. /\ TypeOK /\ ChainIntact /\ RowLifecycle /\ SealedOnce
        /\ BatchSound(t, s) /\ RowsContinue(t, s) /\ BatchOrdered(t, s)
        /\ AckedAreOlder /\ AcceptOrderKept /\ s \in Shard
        /\ t.rows \in Seq(Row) /\ t.batch \in Seq(Event) /\ n \in Nat /\ m \in Nat
        /\ old \in Nat /\ t.tip = chains[s]
    <2>1. /\ t \in Tx /\ s \in Shard /\ chains[s] \in Tip
      BY DEF ChainInv, TypeOK, Worker
    <2>2. t.tip = chains[s] /\ RowsContinue(t, s)
      BY DEF ChainInv, TipCurrent, RowsContinueTip
    <2>3. BatchSound(t, s) /\ BatchOrdered(t, s)
      BY DEF SealInv, BatchesSound, OrderInv, BatchesOrdered
    <2> QED
      BY <2>1, <2>2, <2>3 DEF ChainInv, SealInv, OrderInv, Tx, Tip
  <1>2. /\ new = {t.rows[i] : i \in 1 .. n}
        /\ ToSet(t.batch) = {t.batch[j] : j \in 1 .. m}
        /\ \A j \in 1 .. m : t.batch[j] \in PendingOf(s)
    BY <1>1 DEF ToSet, BatchSound, BatchDrained
  <1>3. \A i \in 1 .. n :
           /\ t.rows[i].shard = s /\ t.rows[i].pos = old + i
           /\ \E j \in 1 .. m : t.rows[i].id = t.batch[j]
    BY <1>1 DEF RowsContinue, RowContinues, BatchSound, RowsFromBatch
  <1>4. /\ journal' = journal \cup new
        /\ pending' = pending \ ToSet(t.batch)
        /\ clock' = clock /\ acceptedAt' = acceptedAt /\ shardOf' = shardOf
        /\ inserting' = inserting /\ ackedBefore' = ackedBefore
    BY DEF DrainedRows, acceptVars
  <1>5. /\ tx'[w] = NoTx
        /\ \A v \in Worker : v # w => tx'[v] = tx[v]
    BY <1>1 DEF TypeOK
  <1>6. \A i, j \in 1 .. m : t.batch[i] = t.batch[j] => i = j
    BY <1>1 DEF BatchSound, BatchDrained
  <1>7. /\ \A j \in 1 .. m : \A d \in ackedBefore[t.batch[j]] \cap PendingOf(s) :
              \E i \in 1 .. m : i < j /\ t.batch[i] = d
        /\ \A i, k \in 1 .. n : \A a, b \in 1 .. m :
              i < k /\ t.rows[i].id = t.batch[a] /\ t.rows[k].id = t.batch[b]
              => a < b
    BY <1>1 DEF BatchOrdered
  <1>8. \A q \in journal : q.shard = s => q.pos <= old
    BY <1>1 DEF ChainIntact, ChainPositions, RowsOf
  <1>9. \A q \in journal : q.id \notin pending /\ q.shard = shardOf[q.id]
    BY <1>1 DEF SealedOnce, SealedIds, RowLifecycle
  <1>10. BatchesOrdered'
    <2> SUFFICES ASSUME NEW v \in Worker
                 PROVE  BatchOrdered(tx[v], v[2])'
      BY DEF BatchesOrdered
    <2>1. CASE v = w
      BY <1>5, <2>1 DEF NoTx, BatchOrdered
    <2>2. CASE v # w
      <3>1. PendingOf(v[2])' \subseteq PendingOf(v[2])
        BY <1>4 DEF PendingOf
      <3>2. BatchOrdered(tx[v], v[2])
        BY DEF OrderInv, BatchesOrdered
      <3> HIDE DEF t, s, n, m, old, new
      <3> QED
        BY <1>4, <1>5, <2>2, <3>1, <3>2 DEF BatchOrdered
    <2> QED
      BY <2>1, <2>2
  <1> HIDE DEF t, s, n, m, old, new
  <1>11. AcceptOrderKept'
    <2> SUFFICES ASSUME NEW r \in journal', NEW d \in ackedBefore[r.id],
                        shardOf[d] = r.shard
                 PROVE  /\ d \notin pending'
                        /\ \A q \in journal' : q.id = d => q.pos < r.pos
      BY <1>4 DEF AcceptOrderKept
    <2>1. CASE r \in journal
      <3>1. /\ d \notin pending
            /\ \A q \in journal : q.id = d => q.pos < r.pos
        BY <1>1, <2>1 DEF AcceptOrderKept
      <3>2. \A q \in new : q.id \in pending
        BY <1>2, <1>3 DEF PendingOf
      <3> QED
        BY <1>4, <3>1, <3>2
    <2>2. CASE r \in new
      <3>1. PICK k \in 1 .. n : r = t.rows[k]
        BY <1>2, <2>2
      <3>2. PICK b \in 1 .. m : r.id = t.batch[b]
        BY <1>3, <3>1
      <3>3. r.shard = s /\ r.pos = old + k
        BY <1>3, <3>1
      <3>4. d \in pending => \E a \in 1 .. m : a < b /\ t.batch[a] = d
        <4>1. d \in pending => d \in PendingOf(s)
          BY <3>3 DEF PendingOf
        <4> QED
          BY <1>7, <3>2, <4>1
      <3>5. d \notin pending'
        BY <1>2, <1>4, <3>4
      <3>6. ASSUME NEW q \in journal, q.id = d
            PROVE  q.pos < r.pos
        <4>1. q.shard = s
          BY <1>9, <3>3, <3>6
        <4>2. q.pos <= old /\ q.pos \in Nat
          BY <1>1, <1>8, <4>1 DEF TypeOK, Row
        <4> QED
          BY <1>1, <3>3, <4>2
      <3>7. ASSUME NEW q \in new, q.id = d
            PROVE  q.pos < r.pos
        <4>1. PICK i \in 1 .. n : q = t.rows[i]
          BY <1>2, <3>7
        <4>2. PICK c \in 1 .. m : q.id = t.batch[c]
          BY <1>3, <4>1
        <4>3. d \in pending
          BY <1>2, <3>7, <4>2 DEF PendingOf
        <4>4. PICK a \in 1 .. m : a < b /\ t.batch[a] = d
          BY <3>4, <4>3
        <4>5. c < b
          BY <1>6, <3>7, <4>2, <4>4
        <4>6. ~ (k < i) /\ i # k
          BY <1>6, <1>7, <3>1, <3>2, <4>1, <4>2, <4>5
        <4>7. i < k
          BY <1>1, <4>6
        <4> QED
          BY <1>1, <1>3, <3>3, <4>1, <4>7
      <3> QED
        BY <1>4, <3>5, <3>6, <3>7
    <2> QED
      BY <1>4, <2>1, <2>2
  <1>12. AckedAreOlder'
    BY <1>1, <1>4 DEF AckedAreOlder
  <1> QED
    BY <1>10, <1>11, <1>12 DEF OrderInv

LEMMA AcceptOrdered ==
    ASSUME ChainInv, SealInv, OrderInv, NEW e \in Event,
           InsertPendingEvent(e) \/ PendingVisible(e)
    PROVE  OrderInv'
  <1>1. /\ TypeOK /\ RowLifecycle /\ AckedAreOlder /\ AcceptOrderKept
        /\ journal' = journal /\ tx' = tx
    BY DEF ChainInv, SealInv, OrderInv, InsertPendingEvent, PendingVisible, tableVars
  <1>2. \A w \in Worker : /\ BatchOrdered(tx[w], w[2])
                          /\ \A j \in 1 .. Len(tx[w].batch) :
                                tx[w].batch[j] \in PendingOf(w[2])
    <2> TAKE w \in Worker
    <2>1. BatchOrdered(tx[w], w[2]) /\ BatchSound(tx[w], w[2])
      BY DEF OrderInv, BatchesOrdered, SealInv, BatchesSound
    <2>2. tx[w].batch \in Seq(Event)
      BY <1>1 DEF TypeOK, Tx
    <2> QED
      BY <2>1, <2>2 DEF BatchSound, BatchDrained, ToSet
  <1>3. \A r \in journal : r.id \in Event /\ acceptedAt[r.id] # 0
    BY <1>1 DEF TypeOK, Row, RowLifecycle, SealedIds
  <1>4. CASE InsertPendingEvent(e)
    <2>1. /\ acceptedAt[e] = 0 /\ clock' = clock + 1
          /\ inserting' = inserting \cup {e} /\ pending' = pending
          /\ acceptedAt'[e] = clock + 1 /\ ackedBefore'[e] = Acked
          /\ \A d \in Event \ {e} :
                /\ acceptedAt'[d] = acceptedAt[d] /\ shardOf'[d] = shardOf[d]
                /\ ackedBefore'[d] = ackedBefore[d]
          /\ clock \in Nat /\ acceptedAt \in [Event -> Nat]
      BY <1>1, <1>4 DEF InsertPendingEvent, TypeOK
    <2>2. \A d \in Event : ackedBefore[d] \subseteq Event \ {e}
      BY <1>1, <2>1 DEF AckedAreOlder, TypeOK
    <2>3. e \notin pending /\ \A d \in pending : d \in Event \ {e}
      BY <1>1, <2>1 DEF RowLifecycle, TypeOK
    <2>4. \A s : PendingOf(s)' = PendingOf(s)
      BY <2>1, <2>3 DEF PendingOf
    <2>5. AckedAreOlder'
      <3>1. \A d \in Event : acceptedAt'[d] <= clock'
        BY <1>1, <2>1 DEF AckedAreOlder
      <3>2. ASSUME NEW c \in Event, NEW d \in ackedBefore'[c]
            PROVE  /\ acceptedAt'[d] # 0 /\ d \notin inserting'
                   /\ acceptedAt'[d] < acceptedAt'[c]
        <4>1. CASE c = e
          <5>1. d \in Event /\ acceptedAt[d] # 0 /\ d \notin inserting
            BY <2>1, <3>2, <4>1 DEF Acked
          <5>2. d # e /\ acceptedAt[d] <= clock
            BY <1>1, <2>1, <5>1 DEF AckedAreOlder
          <5> QED
            BY <2>1, <4>1, <5>1, <5>2
        <4>2. CASE c # e
          <5>1. d \in ackedBefore[c] /\ d \in Event \ {e}
            BY <2>1, <2>2, <3>2, <4>2
          <5> QED
            BY <1>1, <2>1, <4>2, <5>1 DEF AckedAreOlder
        <4> QED
          BY <4>1, <4>2
      <3> QED
        BY <3>1, <3>2 DEF AckedAreOlder
    <2>6. BatchesOrdered'
      <3> SUFFICES ASSUME NEW w \in Worker
                   PROVE  BatchOrdered(tx[w], w[2])'
        BY <1>1 DEF BatchesOrdered
      <3>1. \A j \in 1 .. Len(tx[w].batch) : tx[w].batch[j] \in Event \ {e}
        BY <1>2, <2>3 DEF PendingOf
      <3>2. BatchOrdered(tx[w], w[2])
        BY <1>2
      <3> QED
        BY <1>1, <2>1, <2>4, <3>1, <3>2 DEF BatchOrdered
    <2>7. AcceptOrderKept'
      <3> SUFFICES ASSUME NEW r \in journal, NEW d \in ackedBefore'[r.id],
                          shardOf'[d] = r.shard
                   PROVE  /\ d \notin pending
                          /\ \A q \in journal : q.id = d => q.pos < r.pos
        BY <1>1, <2>1 DEF AcceptOrderKept
      <3>1. r.id \in Event \ {e}
        BY <1>3, <2>1
      <3>2. d \in ackedBefore[r.id] /\ shardOf[d] = r.shard
        BY <2>1, <2>2, <3>1
      <3> QED
        BY <1>1, <3>2 DEF AcceptOrderKept
    <2> QED
      BY <2>5, <2>6, <2>7 DEF OrderInv
  <1>5. CASE PendingVisible(e)
    <2>1. /\ e \in inserting /\ inserting' = inserting \ {e}
          /\ pending' = pending \cup {e} /\ clock' = clock
          /\ acceptedAt' = acceptedAt /\ shardOf' = shardOf
          /\ ackedBefore' = ackedBefore
      BY <1>5 DEF PendingVisible
    <2>2. \A c \in Event : e \notin ackedBefore[c]
      BY <1>1, <2>1 DEF AckedAreOlder
    <2>3. AckedAreOlder'
      BY <1>1, <2>1 DEF AckedAreOlder
    <2>4. BatchesOrdered'
      <3> SUFFICES ASSUME NEW w \in Worker
                   PROVE  BatchOrdered(tx[w], w[2])'
        BY <1>1 DEF BatchesOrdered
      <3>1. \A j \in 1 .. Len(tx[w].batch) : e \notin ackedBefore[tx[w].batch[j]]
        BY <1>1, <1>2, <2>2 DEF PendingOf, TypeOK
      <3>2. BatchOrdered(tx[w], w[2])
        BY <1>2
      <3>3. PendingOf(w[2])' \subseteq PendingOf(w[2]) \cup {e}
        BY <2>1 DEF PendingOf
      <3> QED
        BY <1>1, <2>1, <3>1, <3>2, <3>3 DEF BatchOrdered
    <2>5. AcceptOrderKept'
      BY <1>1, <1>3, <2>1, <2>2 DEF AcceptOrderKept
    <2> QED
      BY <2>3, <2>4, <2>5 DEF OrderInv
  <1> QED
    BY <1>4, <1>5

LEMMA SealShardOrdered ==
    ASSUME ChainInv, SealInv, OrderInv, NEW w \in Worker, SealShard(w)
    PROVE  OrderInv'
  <1> DEFINE t == tx[w]
             s == w[2]
  <1>1. /\ TypeOK /\ t \in Tx /\ s \in Shard /\ AckedAreOlder
        /\ BatchSound(t, s) /\ BatchOrdered(t, s) /\ RowsContinue(t, s)
    BY DEF ChainInv, TypeOK, Worker, SealInv, BatchesSound, RowsContinueTip,
           OrderInv, BatchesOrdered
  <1>2. ASSUME NEW u, tx' = [tx EXCEPT ![w] = u],
               u.batch = t.batch, u.rows = t.rows,
               UNCHANGED <<acceptVars, pending, journal>>
        PROVE  OrderInv'
    <2>1. BatchOrdered(u, s)
      BY <1>1, <1>2 DEF BatchOrdered
    <2> QED
      BY <1>1, <1>2, <2>1, OneOrderChanges
  <1>3. ASSUME tx' = [tx EXCEPT ![w] = NoTx],
               UNCHANGED <<acceptVars, pending, journal>>
        PROVE  OrderInv'
    BY <1>1, <1>3, NoTxOrdered, OneOrderChanges
  <1>4. CASE EnsureShardChain(w)
    <2> DEFINE u == [t EXCEPT !.step = "lock", !.creates = s \notin chainRows]
    <2>1. u.batch = t.batch /\ u.rows = t.rows
      BY <1>1 DEF Tx
    <2> HIDE DEF u
    <2> QED
      BY <1>2, <1>4, <2>1 DEF EnsureShardChain, tableVars, u
  <1>5. CASE LockShardChain(w)
    <2> DEFINE u == [t EXCEPT !.step = "drain", !.tip = chains[s]]
    <2>1. u.batch = t.batch /\ u.rows = t.rows
      BY <1>1 DEF Tx
    <2>2. tx' = [tx EXCEPT ![w] = u] /\ UNCHANGED <<acceptVars, pending, journal>>
      BY <1>5 DEF LockShardChain, tableVars
    <2> HIDE DEF u
    <2> QED
      BY <1>2, <2>1, <2>2
  <1>6. CASE SkipLockedShard(w) \/ DrainNothing(w)
    BY <1>3, <1>6 DEF SkipLockedShard, DrainNothing, tableVars
  <1>7. CASE DrainPendingForShard(w)
    <2>1. PICK n \in 1 .. BatchSize : \E b \in [1 .. n -> PendingOf(s)] :
             /\ OldestOf(b, PendingOf(s))
             /\ tx' = [tx EXCEPT ![w].step = "lookup", ![w].batch = b]
      BY <1>7 DEF DrainPendingForShard
    <2>2. PICK b \in [1 .. n -> PendingOf(s)] :
             /\ OldestOf(b, PendingOf(s))
             /\ tx' = [tx EXCEPT ![w].step = "lookup", ![w].batch = b]
      BY <2>1
    <2> DEFINE u == [t EXCEPT !.step = "lookup", !.batch = b]
    <2>3. n \in Nat /\ t.rows = << >>
      BY <1>1, <1>7, SealerAssumption DEF DrainPendingForShard, RowsContinue
    <2>4. u.batch = b /\ u.rows = << >>
      BY <1>1, <2>3 DEF Tx
    <2>5. tx' = [tx EXCEPT ![w] = u] /\ UNCHANGED <<acceptVars, pending, journal>>
      BY <1>7, <2>2 DEF DrainPendingForShard, tableVars
    <2> HIDE DEF u, t, s
    <2>6. BatchOrdered(u, s)
      BY <1>1, <2>2, <2>3, <2>4, DrainOrdered
    <2> QED
      BY <1>1, <2>5, <2>6, OneOrderChanges DEF s
  <1>8. CASE ExistingExternalEventIDs(w)
    <2> DEFINE T == SealedExts \cap {ExtOf[e] : e \in ToSet(t.batch)}
               u == [t EXCEPT !.step = "build", !.taken = T]
    <2> HIDE DEF T
    <2>1. u.batch = t.batch /\ u.rows = t.rows
      BY <1>1 DEF Tx
    <2>2. tx' = [tx EXCEPT ![w] = u] /\ UNCHANGED <<acceptVars, pending, journal>>
      BY <1>8 DEF ExistingExternalEventIDs, tableVars, T
    <2> HIDE DEF u
    <2> QED
      BY <1>2, <2>1, <2>2
  <1>9. CASE DropDuplicate(w)
    <2> DEFINE u == [t EXCEPT !.next = @ + 1]
    <2>1. u.batch = t.batch /\ u.rows = t.rows
      BY <1>1 DEF Tx
    <2>2. tx' = [tx EXCEPT ![w] = u] /\ UNCHANGED <<acceptVars, pending, journal>>
      BY <1>9 DEF DropDuplicate, tableVars
    <2> HIDE DEF u
    <2> QED
      BY <1>2, <2>1, <2>2
  <1>10. CASE ChainRow(w)
    <2> DEFINE r == EventRow(t, t.batch[t.next], s)
               T == TakenBy(t.batch[t.next])
               u == [t EXCEPT !.next = @ + 1, !.taken = @ \cup T,
                              !.rows = Append(@, r)]
    <2>1. MoreRows(t) /\ r.id = t.batch[t.next]
      BY <1>10 DEF ChainRow, EventRow
    <2>2. tx' = [tx EXCEPT ![w] = u] /\ UNCHANGED <<acceptVars, pending, journal>>
      BY <1>10 DEF ChainRow, tableVars
    <2> HIDE DEF r, T
    <2>3. u.batch = t.batch /\ u.rows = Append(t.rows, r)
      BY <1>1 DEF Tx
    <2> HIDE DEF u, t, s
    <2>4. BatchOrdered(u, s)
      BY <1>1, <2>1, <2>3, KeepOrdered
    <2> QED
      BY <1>1, <2>2, <2>4, OneOrderChanges DEF s
  <1>11. CASE CommitAllDuplicates(w)
    <2>1. /\ Holds(w) /\ t.rows = << >>
          /\ UNCHANGED acceptVars /\ tx' = [tx EXCEPT ![w] = NoTx]
          /\ pending' = pending \ DrainedRows(t) /\ journal' = journal
      BY <1>11 DEF CommitAllDuplicates, BatchBuilt, Holds, Locking
    <2>2. ToSet(t.rows) = {}
      BY <2>1 DEF ToSet
    <2>3. journal' = journal \cup ToSet(t.rows)
      BY <2>1, <2>2
    <2> QED
      BY <2>1, <2>3, CommitOrdered
  <1>12. CASE CopyEvents(w)
    <2>1. CASE UniqueViolation(w)
      BY <1>3, <1>12, <2>1 DEF CopyEvents, tableVars
    <2>2. CASE ~ UniqueViolation(w)
      <3> DEFINE u == [t EXCEPT !.step = "anchor"]
      <3>1. u.batch = t.batch /\ u.rows = t.rows
        BY <1>1 DEF Tx
      <3>2. tx' = [tx EXCEPT ![w] = u] /\ UNCHANGED <<acceptVars, pending, journal>>
        BY <1>12, <2>2 DEF CopyEvents, tableVars
      <3> HIDE DEF u
      <3> QED
        BY <1>2, <3>1, <3>2
    <2> QED
      BY <2>1, <2>2
  <1>13. CASE PublishCheckpoint(w)
    <2> DEFINE u == [t EXCEPT !.step = "commit"]
    <2>1. u.batch = t.batch /\ u.rows = t.rows
      BY <1>1 DEF Tx
    <2>2. tx' = [tx EXCEPT ![w] = u] /\ UNCHANGED <<acceptVars, pending, journal>>
      BY <1>13 DEF PublishCheckpoint, tableVars
    <2> HIDE DEF u
    <2> QED
      BY <1>2, <2>1, <2>2
  <1>14. CASE CommitSeal(w)
    <2>1. Holds(w)
      BY <1>14 DEF CommitSeal, Holds, Locking
    <2> QED
      BY <1>14, <2>1, CommitOrdered DEF CommitSeal
  <1> QED
    BY <1>4, <1>5, <1>6, <1>7, <1>8, <1>9, <1>10, <1>11, <1>12, <1>13, <1>14
       DEF SealShard

LEMMA OrderInvStep == ChainInv /\ SealInv /\ OrderInv /\ [Next]_vars => OrderInv'
  <1> SUFFICES ASSUME ChainInv, SealInv, OrderInv, [Next]_vars
               PROVE  OrderInv'
    OBVIOUS
  <1>1. TypeOK
    BY DEF ChainInv
  <1>2. ASSUME UNCHANGED <<acceptVars, pending, journal, tx>>
        PROVE  OrderInv'
    BY <1>2, OrderUntouched DEF OrderInv, BatchesOrdered
  <1>3. ASSUME NEW w \in Worker, NEW t, tx' = [tx EXCEPT ![w] = t],
               t.batch = << >>, t.rows = << >>,
               UNCHANGED <<acceptVars, pending, journal>>
        PROVE  OrderInv'
    <2>1. BatchOrdered(t, w[2])
      BY <1>3 DEF BatchOrdered
    <2> QED
      BY <1>1, <1>3, <2>1, OneOrderChanges
  <1>4. ASSUME NEW p \in Process, ListShardsWithPending(p) \/ TickIdle(p)
        PROVE  UNCHANGED <<acceptVars, pending, journal, tx>>
    BY <1>4 DEF ListShardsWithPending, TickIdle, vars, tableVars
  <1>5. ASSUME NEW p \in Process, NEW s \in Shard, BeginSeal(p, s)
        PROVE  OrderInv'
    <2> DEFINE u == [NoTx EXCEPT !.step = "ensure"]
    <2>1. u.batch = << >> /\ u.rows = << >> /\ <<p, s>> \in Worker
      BY DEF NoTx, Worker
    <2>2. /\ tx' = [tx EXCEPT ![<<p, s>>] = u]
          /\ UNCHANGED <<acceptVars, pending, journal>>
      BY <1>5 DEF BeginSeal, tableVars
    <2> HIDE DEF u
    <2> QED
      BY <1>3, <2>1, <2>2
  <1>6. ASSUME NEW w \in Worker, SealFails(w)
        PROVE  OrderInv'
    <2>1. /\ tx' = [tx EXCEPT ![w] = NoTx]
          /\ UNCHANGED <<acceptVars, pending, journal>>
      BY <1>6 DEF SealFails, tableVars
    <2>2. NoTx.batch = << >> /\ NoTx.rows = << >>
      BY DEF NoTx
    <2> QED
      BY <1>3, <2>1, <2>2
  <1>7. ASSUME NEW p \in Process, Crash(p)
        PROVE  OrderInv'
    <2>1. /\ UNCHANGED <<acceptVars, pending, journal>>
          /\ \A w \in Worker : tx'[w] = NoTx \/ tx'[w] = tx[w]
      BY <1>7 DEF Crash, tableVars
    <2>2. \A w \in Worker : BatchOrdered(tx[w], w[2])'
      BY <2>1, NoTxOrdered, OrderUntouched DEF OrderInv, BatchesOrdered
    <2> QED
      BY <2>1, <2>2, OrderUntouched DEF OrderInv, BatchesOrdered
  <1>8. CASE UNCHANGED vars
    BY <1>2, <1>8 DEF vars, tableVars
  <1> QED
    BY <1>2, <1>4, <1>5, <1>6, <1>7, <1>8, AcceptOrdered, SealShardOrdered DEF Next

(***************************************************************************)
(* In every reachable state, what a client was answered for before it sent *)
(* another event of the shard is settled first, and stands earlier in the  *)
(* chain (pending.sql, ORDER BY accepted_at; sealer.go, SealShard).        *)
(***************************************************************************)
THEOREM AcceptOrderAlwaysKept == Spec => []AcceptOrderKept
  <1>1. OrderInv => AcceptOrderKept
    BY DEF OrderInv
  <1> QED
    BY <1>1, SealInvHolds, OrderInvInit, OrderInvStep, PTL DEF Spec

-----------------------------------------------------------------------------
(***************************************************************************)
(* The log of a shard, as a function of the rows alone.                    *)
(***************************************************************************)
LEMMA ChosenRow ==
    ASSUME NEW J, NEW s, NEW i, NEW r \in J, r.shard = s, r.pos = i,
           \A q \in J : q.shard = s /\ q.pos = i => q = r
    PROVE  (CHOOSE q \in J : q.shard = s /\ q.pos = i) = r
  OBVIOUS

\* J has one row for shard s at each position 1 to n, and no others.
RowsTile(J, s, n) ==
    /\ \A r \in J : r.shard = s => r.pos \in 1 .. n
    /\ \A i \in 1 .. n : \E r \in J : r.shard = s /\ r.pos = i
    /\ \A q, r \in J : q.shard = s /\ r.shard = s /\ q.pos = r.pos => q = r

\* The rows of a batch take the positions after n.
RowsFollow(rows, s, n) ==
    \A i \in 1 .. Len(rows) : rows[i].shard = s /\ rows[i].pos = n + i

\* The ids of the rows J has for shard s at the positions 1 to n.
RowsLog(J, s, n) ==
    [i \in 1 .. n |-> (CHOOSE r \in J : r.shard = s /\ r.pos = i).id]

LEMMA LogAppend ==
    ASSUME NEW J, NEW s, NEW n \in Nat, NEW rows \in Seq(Row),
           RowsTile(J, s, n), RowsFollow(rows, s, n)
    PROVE  RowsLog(J \cup ToSet(rows), s, n + Len(rows))
              = RowsLog(J, s, n) \o [i \in 1 .. Len(rows) |-> rows[i].id]
  <1> DEFINE m == Len(rows)
             K == J \cup ToSet(rows)
             at(i) == CHOOSE r \in J : r.shard = s /\ r.pos = i
             then(i) == CHOOSE r \in K : r.shard = s /\ r.pos = i
  <1> USE DEF RowsTile, RowsFollow
  <1>1. m \in Nat /\ ToSet(rows) = {rows[i] : i \in 1 .. m}
    BY DEF ToSet
  <1>2. ASSUME NEW i \in 1 .. n
        PROVE  then(i) = at(i)
    <2>1. PICK r \in J : r.shard = s /\ r.pos = i
      OBVIOUS
    <2>2. at(i) = r
      BY <2>1, ChosenRow
    <2>3. \A q \in ToSet(rows) : q.pos # i
      BY <1>1
    <2>4. then(i) = r
      BY <2>1, <2>3, ChosenRow
    <2> QED
      BY <2>2, <2>4
  <1>3. ASSUME NEW j \in 1 .. m
        PROVE  then(n + j) = rows[j]
    <2>1. rows[j] \in K /\ rows[j].shard = s /\ rows[j].pos = n + j
      BY <1>1
    <2>2. \A q \in J : q.shard = s => q.pos # n + j
      BY <1>1
    <2>3. \A i \in 1 .. m : rows[i].pos = n + j => i = j
      BY <1>1
    <2>4. \A q \in K : q.shard = s /\ q.pos = n + j => q = rows[j]
      BY <1>1, <2>2, <2>3
    <2> HIDE DEF K
    <2> QED
      BY <2>1, <2>4, ChosenRow
  <1> HIDE DEF m, K, at, then
  <1>4. [i \in 1 .. n + m |-> then(i).id]
           = [i \in 1 .. n |-> at(i).id] \o [i \in 1 .. m |-> rows[i].id]
    <2> DEFINE f == [i \in 1 .. n |-> at(i).id]
               g == [i \in 1 .. m |-> rows[i].id]
               h == [i \in 1 .. n + m |-> then(i).id]
    <2>1. /\ Len(f) = n /\ Len(g) = m
          /\ DOMAIN h = 1 .. n + m
      BY <1>1
    <2>2. f \o g = [i \in 1 .. n + m |-> IF i <= n THEN f[i] ELSE g[i - n]]
      BY <1>1, <2>1
    <2>3. ASSUME NEW i \in 1 .. n + m
          PROVE  h[i] = IF i <= n THEN f[i] ELSE g[i - n]
      <3>1. CASE i <= n
        BY <1>2, <3>1
      <3>2. CASE ~ (i <= n)
        <4>1. i - n \in 1 .. m /\ n + (i - n) = i
          BY <1>1, <3>2
        <4> QED
          BY <1>3, <3>2, <4>1
      <3> QED
        BY <3>1, <3>2
    <2>4. h = [i \in 1 .. n + m |-> h[i]]
      BY <2>1
    <2>5. h = [i \in 1 .. n + m |-> IF i <= n THEN f[i] ELSE g[i - n]]
      <3> HIDE DEF f, g, h
      <3> QED
        BY <2>3, <2>4, Zenon
    <2>6. h = f \o g
      <3> HIDE DEF f, g, h
      <3> QED
        BY <2>2, <2>5
    <2> QED
      BY <2>6
  <1> QED
    BY <1>4 DEF m, K, at, then, RowsLog

LEMMA LogKept ==
    ASSUME NEW J, NEW K, NEW s, NEW n \in Nat, RowsTile(J, s, n),
           \A r : r.shard = s => (r \in J <=> r \in K)
    PROVE  RowsLog(K, s, n) = RowsLog(J, s, n)
  <1> DEFINE at(i) == CHOOSE r \in J : r.shard = s /\ r.pos = i
             then(i) == CHOOSE r \in K : r.shard = s /\ r.pos = i
  <1>1. ASSUME NEW i \in 1 .. n
        PROVE  then(i) = at(i)
    <2>1. PICK r \in J : r.shard = s /\ r.pos = i
      BY DEF RowsTile
    <2>2. at(i) = r
      BY <2>1, ChosenRow DEF RowsTile
    <2>3. then(i) = r
      BY <2>1, ChosenRow DEF RowsTile
    <2> QED
      BY <2>2, <2>3
  <1>2. /\ RowsLog(K, s, n) = [i \in 1 .. n |-> then(i).id]
        /\ RowsLog(J, s, n) = [i \in 1 .. n |-> at(i).id]
    BY DEF RowsLog
  <1> HIDE DEF at, then
  <1> QED
    BY <1>1, <1>2

\* The log of a shard holds the ids of its rows, and no others.
LEMMA LoggedIds ==
    ASSUME TypeOK, ChainIntact
    PROVE  UNION {ToSet(LogOf(s)) : s \in Shard} = SealedIds
  <1>1. ASSUME NEW s \in Shard
        PROVE  /\ \A r \in RowsOf(s) : r.id \in ToSet(LogOf(s))
               /\ \A x \in ToSet(LogOf(s)) : \E r \in journal : r.id = x
    <2> DEFINE n == chains[s].pos
    <2>1. /\ n \in Nat
          /\ DOMAIN LogOf(s) = 1 .. n
          /\ ToSet(LogOf(s)) = {LogOf(s)[i] : i \in 1 .. n}
      BY DEF TypeOK, Tip, LogOf, ToSet
    <2>2. ASSUME NEW r \in RowsOf(s)
          PROVE  r.pos \in 1 .. n /\ LogOf(s)[r.pos] = r.id
      <3>1. r \in journal /\ r.shard = s /\ r.pos \in 1 .. n
        BY DEF RowsOf, ChainIntact, ChainPositions
      <3>2. \A q \in journal : q.shard = s /\ q.pos = r.pos => q = r
        BY <3>1 DEF RowsOf, ChainIntact, ChainPositions
      <3>3. (CHOOSE q \in journal : q.shard = s /\ q.pos = r.pos) = r
        BY <3>1, <3>2, ChosenRow
      <3> QED
        BY <3>1, <3>3 DEF LogOf
    <2>3. ASSUME NEW i \in 1 .. n
          PROVE  \E r \in journal : r.id = LogOf(s)[i]
      <3>1. PICK r \in RowsOf(s) : r.pos = i
        BY DEF ChainIntact, ChainPositions
      <3> QED
        BY <2>2, <3>1 DEF RowsOf
    <2> QED
      BY <2>1, <2>2, <2>3
  <1>2. \A r \in journal : r.shard \in Shard /\ r \in RowsOf(r.shard)
    BY DEF TypeOK, Row, RowsOf
  <1>3. \A x \in SealedIds : \E s \in Shard : x \in ToSet(LogOf(s))
    BY <1>1, <1>2 DEF SealedIds
  <1>4. \A s \in Shard : \A x \in ToSet(LogOf(s)) : x \in SealedIds
    BY <1>1 DEF SealedIds
  <1> QED
    BY <1>3, <1>4

\* The abstract journal's helpers, in the terms of the sealer.
LEMMA AbstractTerms ==
    /\ \A S : Abstract!ToSet(S) = ToSet(S)
    /\ \A S : Abstract!Cardinality(S) = Cardinality(S)
    /\ \A S : Abstract!ExtsIn(S) = {ExtOf[e] : e \in S} \ {Nil}
  BY Zenon DEF Abstract!ToSet, ToSet, Abstract!Cardinality, Cardinality,
               Abstract!ExtsIn

LEMMA AbstractLogged ==
    ASSUME TypeOK, ChainIntact
    PROVE  /\ Abstract!Logged = SealedIds
           /\ Abstract!ExtsIn(Abstract!Logged) = SealedExts
  <1> DEFINE logs == [s \in Shard |-> LogOf(s)]
  <1>1. Abstract!Logged = UNION {ToSet(logs[s]) : s \in Shard}
    BY AbstractTerms DEF Abstract!Logged
  <1>2. \A s \in Shard : logs[s] = LogOf(s)
    OBVIOUS
  <1>3. Abstract!Logged = UNION {ToSet(LogOf(s)) : s \in Shard}
    <2> HIDE DEF logs
    <2> QED
      BY <1>1, <1>2
  <1>4. Abstract!Logged = SealedIds
    BY <1>3, LoggedIds
  <1>5. {ExtOf[e] : e \in SealedIds} = {ExtOf[r.id] : r \in journal}
    BY DEF SealedIds
  <1> QED
    BY <1>4, <1>5, AbstractTerms DEF SealedExts

\* The events of a sequence of rows with distinct ids, in its order.
LEMMA OrderOfRows ==
    ASSUME NEW rows \in Seq(Row),
           \A i, j \in 1 .. Len(rows) : rows[i].id = rows[j].id => i = j
    PROVE  LET ids   == {rows[i].id : i \in 1 .. Len(rows)}
               order == [i \in 1 .. Len(rows) |-> rows[i].id]
           IN  /\ Cardinality(ids) = Len(rows)
               /\ order \in [1 .. Cardinality(ids) -> ids]
               /\ ToSet(order) = ids
  <1> DEFINE n == Len(rows)
             ids == {rows[i].id : i \in 1 .. n}
             order == [i \in 1 .. n |-> rows[i].id]
  <1>1. n \in Nat
    OBVIOUS
  <1> HIDE DEF n
  <1>2. order \in Bijection(1 .. n, ids)
    BY DEF n, Bijection, Injection, Surjection, IsInjective
  <1>3. Cardinality(ids) = n
    <2> HIDE DEF ids
    <2> QED
      BY <1>1, <1>2, FS_CountingElements DEF ExistsBijection
  <1>4. order \in [1 .. n -> ids] /\ ToSet(order) = ids
    BY <1>1 DEF ToSet
  <1> HIDE DEF ids, order
  <1> QED
    BY <1>3, <1>4 DEF n, ids, order

(***************************************************************************)
(* A commit, with or without rows to seal, is one Settle of what it drained.*)
(***************************************************************************)
LEMMA CommitSettles ==
    ASSUME ChainInv, SealInv, NEW w \in Worker, tx[w].next > Len(tx[w].batch),
           tx[w].batch # << >>,
           pending' = pending \ DrainedRows(tx[w]), Acked' = Acked,
           [s \in Shard |-> LogOf(s)]'
              = [[s \in Shard |-> LogOf(s)] EXCEPT
                    ![w[2]] = @ \o [i \in 1 .. Len(tx[w].rows) |->
                                        tx[w].rows[i].id]]
    PROVE  Abstract!Next
  <1> DEFINE t == tx[w]
             n == Len(t.rows)
             batch == ToSet(t.batch)
             ids == {t.rows[i].id : i \in 1 .. n}
             dups == batch \ ids
             order == [i \in 1 .. n |-> t.rows[i].id]
             exts == ExtsOfRows(t.rows)
  <1>1. /\ TypeOK /\ ChainIntact /\ BatchSound(t, w[2]) /\ w[2] \in Shard
        /\ t.rows \in Seq(Row) /\ t.batch \in Seq(Event) /\ n \in Nat
        /\ t.next \in Nat
    BY DEF ChainInv, TypeOK, Worker, SealInv, BatchesSound, Tx
  <1>2. /\ batch = {t.batch[j] : j \in 1 .. Len(t.batch)}
        /\ batch \subseteq pending
        /\ exts = {ExtOf[e] : e \in ids} \ {Nil}
    <2>1. DOMAIN t.batch = 1 .. Len(t.batch) /\ DOMAIN t.rows = 1 .. n
      BY <1>1
    <2>2. batch = {t.batch[j] : j \in 1 .. Len(t.batch)}
      BY <2>1 DEF ToSet
    <2>3. batch \subseteq pending
      BY <1>1 DEF BatchSound, BatchDrained, PendingOf
    <2>4. exts = {ExtOf[e] : e \in ids} \ {Nil}
      <3>1. exts = {ExtOf[t.rows[i].id] : i \in 1 .. n} \ {Nil}
        BY <2>1 DEF ExtsOfRows
      <3>2. {ExtOf[t.rows[i].id] : i \in 1 .. n} = {ExtOf[e] : e \in ids}
        <4>1. \A i \in 1 .. n : t.rows[i].id \in ids
          OBVIOUS
        <4>2. \A e \in ids : \E i \in 1 .. n : e = t.rows[i].id
          OBVIOUS
        <4> HIDE DEF t, n, ids
        <4> QED
          BY <4>1, <4>2
      <3> QED
        BY <3>1, <3>2
    <2> QED
      BY <2>2, <2>3, <2>4
  <1>3. batch # {}
    <2>1. Len(t.batch) \in Nat /\ Len(t.batch) # 0
      BY <1>1
    <2>2. 1 \in 1 .. Len(t.batch)
      BY <2>1
    <2>3. t.batch[1] \in batch
      BY <1>2, <2>2
    <2> QED
      BY <2>3
  <1>4. ids \subseteq batch
    <2>1. \A i \in 1 .. n : \E j \in 1 .. Len(t.batch) : t.rows[i].id = t.batch[j]
      BY <1>1 DEF BatchSound, RowsFromBatch
    <2>2. \A i \in 1 .. n : t.rows[i].id \in batch
      <3> HIDE DEF t, n, batch
      <3> QED
        BY <1>2, <2>1
    <2> QED
      BY <2>2
  <1>5. /\ exts \cap SealedExts = {}
        /\ \A d, e \in ids : ExtOf[d] = ExtOf[e] /\ ExtOf[d] # Nil => d = e
    <2>1. /\ exts \cap SealedExts = {}
          /\ \A i, j \in 1 .. n : /\ ExtOf[t.rows[i].id] # Nil
                                  /\ ExtOf[t.rows[i].id] = ExtOf[t.rows[j].id]
                                  => i = j
      BY <1>1 DEF BatchSound, RowsFresh
    <2>2. ASSUME NEW i \in 1 .. n, NEW j \in 1 .. n,
                 ExtOf[t.rows[i].id] = ExtOf[t.rows[j].id], ExtOf[t.rows[i].id] # Nil
          PROVE  t.rows[i].id = t.rows[j].id
      <3> HIDE DEF t, n
      <3>1. i = j
        BY <2>1, <2>2
      <3> QED
        BY <3>1
    <2>3. ASSUME NEW d \in ids, NEW e \in ids, ExtOf[d] = ExtOf[e], ExtOf[d] # Nil
          PROVE  d = e
      <3>1. PICK i \in 1 .. n : d = t.rows[i].id
        OBVIOUS
      <3>2. PICK j \in 1 .. n : e = t.rows[j].id
        OBVIOUS
      <3> HIDE DEF t, n, ids
      <3> QED
        BY <2>2, <2>3, <3>1, <3>2
    <2> QED
      BY <2>1, <2>3
  <1>6. \A e \in dups : ExtOf[e] \in SealedExts \cup exts /\ ExtOf[e] # Nil
    <2>1. ASSUME NEW j \in 1 .. Len(t.batch), t.batch[j] \notin ids
          PROVE  ExtOf[t.batch[j]] \in SealedExts \cup exts
      <3>1. j < t.next
        BY <1>1
      <3>2. \/ \E i \in 1 .. n : t.rows[i].id = t.batch[j]
            \/ ExtOf[t.batch[j]] \in SealedExts \cup exts
        BY <1>1, <3>1 DEF BatchSound, PassedRepresented
      <3>3. ~ \E i \in 1 .. n : t.rows[i].id = t.batch[j]
        BY <2>1
      <3> QED
        BY <3>2, <3>3
    <2>2. Nil \notin SealedExts /\ Nil \notin exts
      BY <1>2 DEF SealedExts
    <2>3. \A e \in batch : \E j \in 1 .. Len(t.batch) : e = t.batch[j]
      BY <1>2
    <2>4. \A e \in dups : ExtOf[e] \in SealedExts \cup exts
      <3> HIDE DEF t, batch, ids, exts
      <3> QED
        BY <2>1, <2>3
    <2> HIDE DEF dups, exts
    <2> QED
      BY <2>2, <2>4
  <1>7. /\ order \in [1 .. Cardinality(ids) -> ids]
        /\ ToSet(order) = ids
    BY <1>1, OrderOfRows DEF BatchSound, RowsFromBatch
  <1>8. /\ pending' = pending \ batch
        /\ [s \in Shard |-> LogOf(s)]'
              = [[s \in Shard |-> LogOf(s)] EXCEPT ![w[2]] = @ \o order]
    BY DEF DrainedRows
  <1>9. /\ Abstract!ExtsIn(ids) = exts
        /\ Abstract!ExtsIn(dups) = {ExtOf[e] : e \in dups} \ {Nil}
        /\ Abstract!ExtsIn(Abstract!Logged) = SealedExts
        /\ Abstract!Logged = SealedIds
    BY <1>1, <1>2, AbstractTerms, AbstractLogged
  <1>10. Abstract!ExtsIn(ids \cup Abstract!Logged) = exts \cup SealedExts
    <2>1. {ExtOf[e] : e \in ids \cup SealedIds} \ {Nil}
             = exts \cup ({ExtOf[e] : e \in SealedIds} \ {Nil})
      BY <1>2
    <2>2. {ExtOf[e] : e \in SealedIds} \ {Nil} = SealedExts
      BY <1>9, AbstractTerms
    <2> QED
      BY <1>9, <2>1, <2>2, AbstractTerms
  <1> HIDE DEF t, n, batch, ids, order, exts
  <1>11. Abstract!FreshIds(ids)
    BY <1>5, <1>9 DEF Abstract!FreshIds
  <1>12. Abstract!ExtsIn(dups) \subseteq Abstract!ExtsIn(ids \cup Abstract!Logged)
    BY <1>6, <1>9, <1>10
  <1>13. Abstract!Settle(w[2], ids, dups)
    <2>1. ids \cup dups # {} /\ ids \cap dups = {} /\ ids \cup dups = batch
      BY <1>3, <1>4
    <2>2. \A e \in dups : ExtOf[e] # Nil
      BY <1>6
    <2>3. \E o \in [1 .. Abstract!Cardinality(ids) -> ids] :
             /\ Abstract!ToSet(o) = ids
             /\ [s \in Shard |-> LogOf(s)]'
                   = [[s \in Shard |-> LogOf(s)] EXCEPT ![w[2]] = @ \o o]
      BY <1>7, <1>8, AbstractTerms
    <2> HIDE DEF dups
    <2> QED
      BY <1>8, <1>11, <1>12, <2>1, <2>2, <2>3 DEF Abstract!Settle
  <1>14. ids \in SUBSET pending /\ dups \in SUBSET (pending \ ids)
    BY <1>2, <1>4
  <1> HIDE DEF dups
  <1> QED
    BY <1>1, <1>13, <1>14 DEF Abstract!Next

LEMMA AppendNothing ==
    ASSUME NEW n \in Nat, NEW f, f = [i \in 1 .. n |-> f[i]]
    PROVE  f \o << >> = f
  <1> DEFINE V == {f[i] : i \in 1 .. n}
  <1>1. f \in [1 .. n -> V]
    OBVIOUS
  <1> HIDE DEF V
  <1>2. f \in Seq(V)
    BY <1>1
  <1> QED
    BY <1>2

\* What CommitSeal does to the logs.
LEMMA CommitExtendsLog ==
    ASSUME ChainInv, NEW w \in Worker, CommitSeal(w)
    PROVE  [s \in Shard |-> LogOf(s)]'
              = [[s \in Shard |-> LogOf(s)] EXCEPT
                    ![w[2]] = @ \o [i \in 1 .. Len(tx[w].rows) |->
                                        tx[w].rows[i].id]]
  <1> DEFINE t == tx[w]
             s == w[2]
             n == chains[s].pos
             order == [i \in 1 .. Len(t.rows) |-> t.rows[i].id]
  <1>1. /\ TypeOK /\ ChainIntact /\ RowsContinue(t, s) /\ s \in Shard
        /\ t.rows \in Seq(Row) /\ n \in Nat /\ t.tip = chains[s]
        /\ t.rows # << >>
    <2>1. t \in Tx /\ s \in Shard /\ chains[s] \in Tip /\ Holds(w)
      BY DEF ChainInv, TypeOK, Worker, CommitSeal, Holds, Locking
    <2>2. TypeOK /\ ChainIntact /\ RowsContinue(t, s) /\ t.tip = chains[s]
      BY <2>1 DEF ChainInv, RowsContinueTip, TipCurrent
    <2>3. t.rows # << >>
      BY <2>2 DEF CommitSeal, RowsContinue
    <2> QED
      BY <2>1, <2>2, <2>3 DEF Tx, Tip
  <1>2. RowsFollow(t.rows, s, n)
    BY <1>1 DEF RowsContinue, RowContinues, RowsFollow
  <1>3. /\ journal' = journal \cup ToSet(t.rows)
        /\ chains' = [chains EXCEPT ![s] = NewTip(t)]
    BY DEF CommitSeal
  <1>4. NewTip(t).pos = n + Len(t.rows)
    BY <1>1 DEF NewTip, NextPosition
  <1>5. \A z \in Shard : RowsTile(journal, z, chains[z].pos)
    BY <1>1 DEF ChainIntact, ChainPositions, RowsOf, RowsTile
  <1> HIDE DEF t, n
  <1>6. LogOf(s)' = LogOf(s) \o order
    <2>1. chains'[s].pos = n + Len(t.rows)
      BY <1>1, <1>3, <1>4 DEF TypeOK
    <2>2. LogOf(s)' = RowsLog(journal \cup ToSet(t.rows), s, n + Len(t.rows))
      BY <1>3, <2>1 DEF LogOf, RowsLog
    <2>3. LogOf(s) = RowsLog(journal, s, n)
      BY DEF LogOf, RowsLog, n
    <2>4. RowsLog(journal \cup ToSet(t.rows), s, n + Len(t.rows))
             = RowsLog(journal, s, n) \o order
      BY <1>1, <1>2, <1>5, LogAppend DEF n
    <2> QED
      BY <2>2, <2>3, <2>4
  <1>7. ASSUME NEW z \in Shard, z # s
        PROVE  LogOf(z)' = LogOf(z)
    <2>1. chains'[z] = chains[z] /\ chains[z].pos \in Nat
      BY <1>1, <1>3, <1>7 DEF TypeOK, Tip
    <2>2. \A r : r.shard = z => (r \in journal <=> r \in journal')
      <3>1. \A r \in ToSet(t.rows) : r.shard = s
        BY <1>1, <1>2 DEF ToSet, RowsFollow
      <3> QED
        BY <1>3, <1>7, <3>1
    <2>3. LogOf(z)' = RowsLog(journal', z, chains[z].pos)
      BY <2>1 DEF LogOf, RowsLog
    <2>4. LogOf(z) = RowsLog(journal, z, chains[z].pos)
      BY DEF LogOf, RowsLog
    <2> QED
      BY <1>5, <2>1, <2>2, <2>3, <2>4, LogKept
  <1> HIDE DEF s, order
  <1>8. [z \in Shard |-> LogOf(z)]'
           = [[z \in Shard |-> LogOf(z)] EXCEPT ![s] = @ \o order]
    BY <1>1, <1>6, <1>7
  <1> QED
    BY <1>8 DEF s, order, t

\* A step of the sealer is a step of the abstract journal, or changes nothing
\* that the abstract journal sees.
LEMMA JournalUnseen ==
    ASSUME UNCHANGED <<pending, chains, journal>>, Acked' = Acked
    PROVE  UNCHANGED Abstract!vars
  BY DEF Abstract!vars, LogOf

LEMMA JournalInit == Init => Abstract!Init
  <1> SUFFICES ASSUME Init PROVE Abstract!Init
    OBVIOUS
  <1>1. Acked = {}
    BY DEF Init, Acked
  <1>2. \A s \in Shard : LogOf(s) = << >>
    BY DEF Init, LogOf, EmptyTip
  <1> QED
    BY <1>1, <1>2 DEF Init, Abstract!Init

LEMMA JournalStep ==
    ASSUME ChainInv, SealInv, [Next]_vars
    PROVE  [Abstract!Next]_(Abstract!vars)
  <1>1. TypeOK
    BY DEF ChainInv
  <1>2. ASSUME UNCHANGED acceptVars
        PROVE  Acked' = Acked
    BY <1>2 DEF acceptVars, Acked
  <1>3. ASSUME UNCHANGED <<acceptVars, pending, chains, journal>>
        PROVE  UNCHANGED Abstract!vars
    BY <1>2, <1>3, JournalUnseen
  <1>4. ASSUME NEW e \in Event, InsertPendingEvent(e)
        PROVE  UNCHANGED Abstract!vars
    <2>1. /\ acceptedAt[e] = 0 /\ inserting' = inserting \cup {e}
          /\ \A d \in Event : d # e => acceptedAt'[d] = acceptedAt[d]
      BY <1>1, <1>4 DEF InsertPendingEvent, TypeOK
    <2>2. Acked' = Acked
      BY <2>1 DEF Acked
    <2> QED
      BY <1>4, <2>2, JournalUnseen DEF InsertPendingEvent, tableVars
  <1>5. ASSUME NEW e \in Event, PendingVisible(e)
        PROVE  Abstract!Next
    <2>1. /\ e \in inserting /\ inserting' = inserting \ {e}
          /\ pending' = pending \cup {e} /\ acceptedAt' = acceptedAt
          /\ journal' = journal /\ chains' = chains
      BY <1>5 DEF PendingVisible, tableVars
    <2>2. acceptedAt[e] # 0
      BY <2>1 DEF SealInv, RowLifecycle
    <2>3. Acked' = Acked \cup {e} /\ e \notin Acked
      BY <2>1, <2>2 DEF Acked
    <2>4. [s \in Shard |-> LogOf(s)]' = [s \in Shard |-> LogOf(s)]
      BY <2>1 DEF LogOf
    <2>5. Abstract!Accept(e)
      BY <2>1, <2>3, <2>4 DEF Abstract!Accept
    <2> QED
      BY <2>5 DEF Abstract!Next
  <1>6. ASSUME NEW w \in Worker, CommitAllDuplicates(w)
        PROVE  [Abstract!Next]_(Abstract!vars)
    <2>1. /\ pending' = pending \ DrainedRows(tx[w])
          /\ tx[w].next > Len(tx[w].batch) /\ tx[w].rows = << >>
          /\ journal' = journal /\ chains' = chains /\ Acked' = Acked
      BY <1>2, <1>6 DEF CommitAllDuplicates, BatchBuilt
    <2>2. CASE tx[w].batch = << >>
      <3>1. pending' = pending
        BY <2>1, <2>2 DEF DrainedRows, ToSet
      <3> QED
        BY <2>1, <3>1, JournalUnseen
    <2>3. CASE tx[w].batch # << >>
      <3> DEFINE logs == [s \in Shard |-> LogOf(s)]
                 none == [i \in 1 .. Len(tx[w].rows) |-> tx[w].rows[i].id]
      <3>1. none = << >> /\ w[2] \in Shard
        BY <2>1 DEF Worker
      <3>2. logs[w[2]] \o << >> = logs[w[2]]
        <4>1. chains[w[2]].pos \in Nat
          BY <1>1, <3>1 DEF TypeOK, Tip
        <4>2. LogOf(w[2]) = [i \in 1 .. chains[w[2]].pos |-> LogOf(w[2])[i]]
          BY DEF LogOf
        <4> QED
          BY <3>1, <4>1, <4>2, AppendNothing
      <3>3. logs' = logs
        BY <2>1 DEF LogOf
      <3>4. logs' = [logs EXCEPT ![w[2]] = @ \o none]
        <4>1. logs = [s \in Shard |-> logs[s]]
          OBVIOUS
        <4> HIDE DEF logs, none
        <4> QED
          BY <3>1, <3>2, <3>3, <4>1
      <3> QED
        BY <2>1, <2>3, <3>4, CommitSettles
    <2> QED
      BY <2>2, <2>3
  <1>7. ASSUME NEW w \in Worker, CommitSeal(w)
        PROVE  Abstract!Next
    <2>1. /\ pending' = pending \ DrainedRows(tx[w])
          /\ tx[w].step = "commit" /\ Acked' = Acked
      BY <1>2, <1>7 DEF CommitSeal
    <2>2. /\ BatchSound(tx[w], w[2]) /\ RowsContinue(tx[w], w[2])
          /\ tx[w].rows \in Seq(Row)
      BY <1>1 DEF SealInv, BatchesSound, ChainInv, RowsContinueTip, TypeOK, Tx
    <2>3. tx[w].next > Len(tx[w].batch) /\ tx[w].rows # << >>
      BY <2>1, <2>2 DEF BatchSound, BatchDrained, RowsContinue
    <2>4. tx[w].batch # << >>
      <3>1. 1 \in 1 .. Len(tx[w].rows)
        BY <2>2, <2>3
      <3> QED
        BY <2>2, <3>1 DEF BatchSound, RowsFromBatch
    <2> QED
      BY <1>7, <2>1, <2>3, <2>4, CommitExtendsLog, CommitSettles
  <1>8. ASSUME NEW w \in Worker, SealShard(w)
        PROVE  [Abstract!Next]_(Abstract!vars)
    <2>1. CASE CommitAllDuplicates(w)
      BY <1>6, <2>1
    <2>2. CASE CommitSeal(w)
      BY <1>7, <2>2
    <2>3. CASE ~ CommitAllDuplicates(w) /\ ~ CommitSeal(w)
      <3>1. UNCHANGED <<acceptVars, pending, chains, journal>>
        BY <1>8, <2>3 DEF SealShard, EnsureShardChain, LockShardChain,
           SkipLockedShard, DrainPendingForShard, DrainNothing,
           ExistingExternalEventIDs, DropDuplicate, ChainRow, CopyEvents,
           PublishCheckpoint, tableVars
      <3> QED
        BY <1>3, <3>1
    <2> QED
      BY <2>1, <2>2, <2>3
  <1>9. ASSUME NEW p \in Process,
               \/ ListShardsWithPending(p) \/ TickIdle(p) \/ Crash(p)
               \/ \E s \in Shard : BeginSeal(p, s)
        PROVE  UNCHANGED <<acceptVars, pending, chains, journal>>
    BY <1>9 DEF ListShardsWithPending, TickIdle, Crash, BeginSeal, vars, tableVars
  <1>10. ASSUME NEW w \in Worker, SealFails(w)
         PROVE  UNCHANGED <<acceptVars, pending, chains, journal>>
    BY <1>10 DEF SealFails, tableVars
  <1>11. CASE UNCHANGED vars
    <2>1. UNCHANGED <<acceptVars, pending, chains, journal>>
      BY <1>11 DEF vars, tableVars
    <2> QED
      BY <1>3, <2>1
  <1> QED
    BY <1>3, <1>4, <1>5, <1>8, <1>9, <1>10, <1>11 DEF Next

(***************************************************************************)
(* The pipeline implements the abstract journal: whatever sealers, errors  *)
(* and crashes come between, an accepted event waits until one atomic step *)
(* appends it to a log or sets it aside as a duplicate, and a log only     *)
(* grows at its end (SealShard, pending.sql, chains.sql).                  *)
(***************************************************************************)
THEOREM SealerImplementsJournal == Spec => ImplementsJournal
  BY SealInvHolds, JournalInit, JournalStep, PTL
     DEF Spec, ImplementsJournal, Abstract!Spec

-----------------------------------------------------------------------------
(***************************************************************************)
(* What a row's hash says of the chain before it.                          *)
(***************************************************************************)
HoldsRows(r) ==
    /\ Len(r.hash) = r.pos
    /\ \A q \in RowsOf(r.shard) :
          q.pos <= r.pos => r.hash[q.pos] = <<q.payload, q.pos>>

LEMMA JournalHolds ==
    ASSUME ChainInv, NEW s \in Shard
    PROVE  \A r \in RowsOf(s) : HoldsRows(r)
  <1> DEFINE n == chains[s].pos
             Off == {i \in 1 .. n : \E r \in RowsOf(s) : r.pos = i /\ ~ HoldsRows(r)}
  <1>1. /\ n \in Nat
        /\ \A r \in RowsOf(s) : /\ r.pos \in 1 .. n /\ r.payload \in Payload
                                /\ r.hash \in Hash /\ r.prev \in Hash
                                /\ r.shard = s
    <2>1. TypeOK /\ ChainPositions(s)
      BY DEF ChainInv, ChainIntact
    <2>2. \A r \in RowsOf(s) : r \in Row
      BY <2>1 DEF TypeOK, RowsOf
    <2> QED
      BY <2>1, <2>2 DEF TypeOK, Tip, ChainPositions, RowsOf, Row
  <1>2. /\ \A i \in 1 .. n : \E r \in RowsOf(s) : r.pos = i
        /\ \A q, r \in RowsOf(s) : q.pos = r.pos => q = r
    BY DEF ChainInv, ChainIntact, ChainPositions
  <1>3. \A r \in RowsOf(s) :
           /\ r.hash = EventHash(r.prev, r.payload, r.pos)
           /\ r.pos = 1 => r.prev = Genesis
           /\ \A q \in RowsOf(s) : r.pos = q.pos + 1 => r.prev = q.hash
    BY DEF ChainInv, ChainIntact, ChainLinks
  <1> HIDE DEF n
  <1> SUFFICES ASSUME Off # {} PROVE FALSE
    BY <1>1
  <1>4. PICK m \in Off : \A k \in Off : m <= k
    <2>1. Off \in SUBSET Nat
      BY <1>1
    <2> HIDE DEF Off
    <2> QED
      BY <2>1, LeastNatural
  <1>5. PICK r \in RowsOf(s) : r.pos = m /\ ~ HoldsRows(r)
    BY <1>4
  <1>6. m \in 1 .. n
    BY <1>4
  <1>7. /\ Len(r.prev) = m - 1
        /\ \A q \in RowsOf(s) : q.pos <= m - 1 => r.prev[q.pos] = <<q.payload, q.pos>>
    <2>1. CASE m = 1
      <3>1. Len(r.prev) = 0
        BY <1>3, <1>5, <2>1 DEF Genesis
      <3> QED
        BY <1>1, <2>1, <3>1
    <2>2. CASE m # 1
      <3>1. m - 1 \in 1 .. n /\ ~ (m <= m - 1) /\ m = (m - 1) + 1
        BY <1>1, <1>6, <2>2
      <3>2. PICK q \in RowsOf(s) : q.pos = m - 1
        BY <1>2, <3>1
      <3>3. HoldsRows(q)
        BY <1>4, <3>1, <3>2
      <3>4. r.prev = q.hash
        BY <1>3, <1>5, <3>1, <3>2
      <3> QED
        BY <1>1, <3>2, <3>3, <3>4 DEF HoldsRows
    <2> QED
      BY <2>1, <2>2
  <1>8. /\ Len(r.hash) = m /\ r.hash[m] = <<r.payload, r.pos>>
        /\ \A k \in 1 .. m - 1 : r.hash[k] = r.prev[k]
    <2> DEFINE h == r.prev
               p == r.payload
               k == r.pos
    <2>1. h \in Hash /\ p \in Payload /\ k \in Nat /\ m \in Nat /\ k = m
      BY <1>1, <1>5, <1>6
    <2>2. r.hash = EventHash(h, p, k)
      BY <1>3
    <2>3. Len(h) = m - 1
      BY <1>7
    <2> HIDE DEF h, p, k
    <2>4. /\ Len(EventHash(h, p, k)) = Len(h) + 1
          /\ EventHash(h, p, k)[Len(h) + 1] = <<p, k>>
          /\ \A j \in 1 .. Len(h) : EventHash(h, p, k)[j] = h[j]
      BY <2>1, HashAppends
    <2>5. Len(h) + 1 = m
      BY <2>1, <2>3
    <2> QED
      BY <2>2, <2>3, <2>4, <2>5 DEF h, p, k
  <1>9. ASSUME NEW q \in RowsOf(s), q.pos <= m
        PROVE  r.hash[q.pos] = <<q.payload, q.pos>>
    <2>1. CASE q.pos = m
      BY <1>2, <1>5, <1>8, <2>1
    <2>2. CASE q.pos # m
      <3>1. q.pos \in 1 .. m - 1
        BY <1>1, <1>6, <1>9, <2>2
      <3>2. q.pos <= m - 1
        BY <3>1
      <3> QED
        BY <1>7, <1>8, <3>1, <3>2
    <2> QED
      BY <2>1, <2>2
  <1> QED
    BY <1>1, <1>5, <1>8, <1>9 DEF HoldsRows

(***************************************************************************)
(* The head of a chain pins all of it: whoever presents records that       *)
(* verify and end in the hash of a row, of a checkpoint, or of an anchored *)
(* head that the journal has reached, presents the chain up to there, row  *)
(* by row, with nothing left out, added, moved or changed (core/verify.go; *)
(* chains.sql 30-32; SHA-256 taken as injective).                          *)
(***************************************************************************)
EndsIn(records, h) == records # << >> /\ records[Len(records)].hash = h

IsChainUpTo(records, s, n) ==
    /\ Len(records) = n
    /\ \A i \in 1 .. n : \E q \in RowsOf(s) :
          /\ records[i].pos = q.pos /\ q.pos = i
          /\ records[i].payload = q.payload
          /\ records[i].hash = q.hash

HeadPinsChain ==
    \A records \in Seq(Record) :
        VerifyChain(records).valid =>
            /\ \A r \in journal :
                  EndsIn(records, r.hash) => IsChainUpTo(records, r.shard, r.pos)
            /\ \A c \in checkpoints :
                  EndsIn(records, c.root) => IsChainUpTo(records, c.shard, c.to)
            /\ \A h \in anchored :
                  Reached(h) /\ EndsIn(records, h.root)
                     => IsChainUpTo(records, h.shard, h.to)

LEMMA RowPins ==
    ASSUME ChainInv, NEW r \in journal, NEW records \in Seq(Record),
           VerifyChain(records).valid, EndsIn(records, r.hash)
    PROVE  IsChainUpTo(records, r.shard, r.pos)
  <1> DEFINE s == r.shard
             n == r.pos
  <1>1. s \in Shard /\ r \in RowsOf(s)
    BY DEF ChainInv, TypeOK, Row, RowsOf
  <1>2. HoldsRows(r)
    BY <1>1, JournalHolds
  <1>3. \A i \in 1 .. Len(records) : HoldsPairs(records, i)
    BY VerifiedHoldsPairs
  <1>4. Len(records) \in 1 .. Len(records)
    BY EmptySeq DEF EndsIn
  <1>5. /\ records[Len(records)].hash = r.hash
        /\ Len(records) = n
    BY <1>2, <1>3, <1>4 DEF HoldsRows, HoldsPairs, EndsIn
  <1>6. /\ \A i \in 1 .. chains[s].pos : \E q \in RowsOf(s) : q.pos = i
        /\ n \in 1 .. chains[s].pos /\ chains[s].pos \in Nat
        /\ \A q \in RowsOf(s) : q.hash \in Hash /\ q.shard = s
    <2>1. ChainPositions(s) /\ TypeOK
      BY <1>1 DEF ChainInv, ChainIntact
    <2>2. \A q \in RowsOf(s) : q \in Row /\ q.shard = s
      BY <2>1 DEF TypeOK, RowsOf
    <2> QED
      BY <1>1, <2>1, <2>2 DEF ChainPositions, TypeOK, Tip, Row
  <1>7. ASSUME NEW i \in 1 .. n, NEW q \in RowsOf(s), q.pos = i
        PROVE  records[i].payload = q.payload /\ records[i].pos = q.pos
    <2>1. i <= n
      OBVIOUS
    <2>2. r.hash[i] = <<q.payload, q.pos>>
      BY <1>2, <1>7, <2>1 DEF HoldsRows
    <2>3. r.hash[i] = <<records[i].payload, records[i].pos>>
      BY <1>3, <1>4, <1>5 DEF HoldsPairs
    <2> QED
      BY <2>2, <2>3
  <1>8. \A i \in 1 .. n : \E q \in RowsOf(s) : q.pos = i
    BY <1>6
  <1>9. ASSUME NEW i \in 1 .. n, NEW q \in RowsOf(s), q.pos = i
        PROVE  records[i].hash = q.hash
    <2>1. /\ records[i].hash \in Hash /\ Len(records[i].hash) = i
          /\ \A k \in 1 .. i :
                records[i].hash[k] = <<records[k].payload, records[k].pos>>
      BY <1>3, <1>5 DEF HoldsPairs
    <2>2. HoldsRows(q) /\ q.shard = s /\ q.hash \in Hash
      BY <1>1, <1>6, JournalHolds
    <2>3. Len(q.hash) = i
      BY <1>9, <2>2 DEF HoldsRows
    <2>4. ASSUME NEW k \in 1 .. i
          PROVE  records[i].hash[k] = q.hash[k]
      <3>1. k \in 1 .. n /\ k <= i
        BY <1>6
      <3>2. PICK p \in RowsOf(s) : p.pos = k
        BY <1>8, <3>1
      <3>3. q.hash[k] = <<p.payload, p.pos>>
        BY <1>9, <2>2, <3>1, <3>2 DEF HoldsRows
      <3>4. records[k].payload = p.payload /\ records[k].pos = p.pos
        BY <1>7, <3>1, <3>2
      <3> QED
        BY <2>1, <3>3, <3>4
    <2> QED
      BY <2>1, <2>2, <2>3, <2>4, SameHash
  <1> HIDE DEF s, n
  <1>10. IsChainUpTo(records, s, n)
    BY <1>5, <1>7, <1>8, <1>9 DEF IsChainUpTo
  <1> QED
    BY <1>10 DEF s, n

\* A list of records that VerifyChain accepts under a hash the sealer has
\* sealed, or put into a checkpoint, is the chain up to it (core/verify.go).
THEOREM HeadAlwaysPins == Spec => []HeadPinsChain
  <1>1. ChainInv /\ CheckpointsTile => HeadPinsChain
    <2> SUFFICES ASSUME ChainInv, CheckpointsTile,
                        NEW records \in Seq(Record), VerifyChain(records).valid
                 PROVE  /\ \A r \in journal : EndsIn(records, r.hash)
                              => IsChainUpTo(records, r.shard, r.pos)
                        /\ \A c \in checkpoints : EndsIn(records, c.root)
                              => IsChainUpTo(records, c.shard, c.to)
                        /\ \A h \in anchored : Reached(h) /\ EndsIn(records, h.root)
                              => IsChainUpTo(records, h.shard, h.to)
      BY DEF HeadPinsChain
    <2>1. \A r \in journal : EndsIn(records, r.hash)
                                => IsChainUpTo(records, r.shard, r.pos)
      BY RowPins
    <2>2. ASSUME NEW c \in checkpoints
          PROVE  \E r \in journal : r.shard = c.shard /\ r.pos = c.to /\ r.hash = c.root
      <3>1. c.shard \in Shard /\ c \in CheckpointsOf(c.shard)
        BY DEF ChainInv, TypeOK, Checkpoint, CheckpointsOf
      <3> QED
        BY <3>1 DEF CheckpointsTile, RowsOf
    <2>3. \A h : Reached(h) =>
             \E r \in journal : r.shard = h.shard /\ r.pos = h.to /\ r.hash = h.root
      BY DEF Reached, RowsOf
    <2> QED
      BY <2>1, <2>2, <2>3
  <1> QED
    BY <1>1, ChainInvInit, ChainInvStep, TileInit, TileStep, PTL DEF Spec

-----------------------------------------------------------------------------
(***************************************************************************)
(* A row of chains is committed with the first rows of its chain.  Two     *)
(* commits of SealShard write no event: a shard on the work list may turn  *)
(* out empty, and a batch may consist of duplicates.  Both come upon a     *)
(* chain that has rows: the shard had pending rows when it was listed, and *)
(* only a commit takes them away; a duplicate's external id is sealed, and *)
(* routed to the same shard.                                               *)
(***************************************************************************)
Sought(p, s) == s \in todo[p] \/ Active(<<p, s>>)

SoughtForRows ==
    \A p \in Process, s \in Shard :
        Sought(p, s) => PendingOf(s) # {} \/ chains[s].pos > 0

BatchThere(t) == t.step \in {"lookup", "build"} => t.batch # << >>

ChainHasRows == \A s \in Shard : s \in chainRows <=> chains[s].pos > 0

HasRowsInv ==
    SoughtForRows /\ (\A w \in Worker : BatchThere(tx[w])) /\ ChainHasRows

\* A step keeps a chain and its pending rows, or leaves a chain with rows.
LEMMA HasRowsKept ==
    ASSUME HasRowsInv,
           \A s \in Shard :
              \/ /\ chains'[s] = chains[s]
                 /\ s \in chainRows' <=> s \in chainRows
                 /\ PendingOf(s) \subseteq PendingOf(s)'
              \/ chains'[s].pos > 0 /\ s \in chainRows',
           \A p \in Process, s \in Shard :
              Sought(p, s)' => Sought(p, s) \/ PendingOf(s)' # {},
           \A w \in Worker : BatchThere(tx'[w])
    PROVE  HasRowsInv'
  <1>1. ASSUME NEW p \in Process, NEW s \in Shard, Sought(p, s)'
        PROVE  PendingOf(s)' # {} \/ chains'[s].pos > 0
    <2>1. Sought(p, s) \/ PendingOf(s)' # {}
      BY <1>1
    <2>2. CASE Sought(p, s)
      BY <2>2 DEF HasRowsInv, SoughtForRows
    <2> QED
      BY <2>1, <2>2
  <1>2. ChainHasRows'
    BY DEF HasRowsInv, ChainHasRows
  <1>3. SoughtForRows'
    BY <1>1 DEF SoughtForRows
  <1>4. (\A w \in Worker : BatchThere(tx[w]))'
    BY DEF BatchThere
  <1> QED
    BY <1>2, <1>3, <1>4 DEF HasRowsInv

\* A batch of duplicates is drained from a chain that has rows.
LEMMA DuplicatesHaveRows ==
    ASSUME ChainInv, SealInv, HasRowsInv, NEW w \in Worker, CommitAllDuplicates(w)
    PROVE  chains[w[2]].pos > 0
  <1> DEFINE t == tx[w]
             s == w[2]
             e == t.batch[1]
  <1>1. t \in Tx /\ s \in Shard /\ t.batch \in Seq(Event) /\ t.next \in Nat
    BY DEF ChainInv, TypeOK, Worker, Tx
  <1>2. t.step = "build" /\ t.next > Len(t.batch) /\ t.rows = << >>
    BY DEF CommitAllDuplicates, BatchBuilt
  <1>3. t.batch # << >>
    BY <1>2 DEF HasRowsInv, BatchThere
  <1>4. BatchSound(t, s) /\ RowLifecycle
    BY DEF SealInv, BatchesSound
  <1> HIDE DEF t, s
  <1>5. 1 \in 1 .. Len(t.batch) /\ 1 < t.next /\ e \in Event /\ e \in ToSet(t.batch)
    BY <1>1, <1>2, <1>3 DEF ToSet
  <1>6. ExtsOfRows(t.rows) = {}
    BY <1>2 DEF ExtsOfRows
  <1>7. ExtOf[e] \in SealedExts
    <2>1. \/ \E i \in 1 .. Len(t.rows) : t.rows[i].id = e
          \/ ExtOf[e] \in SealedExts \cup ExtsOfRows(t.rows)
      BY <1>4, <1>5 DEF BatchSound, PassedRepresented
    <2>2. Len(t.rows) = 0
      BY <1>2
    <2> QED
      BY <1>6, <2>1, <2>2
  <1>8. PICK r \in journal : ExtOf[r.id] = ExtOf[e] /\ ExtOf[e] # Nil
    BY <1>7 DEF SealedExts
  <1>9. r.id \in Event /\ r.id \in SealedIds
    BY DEF ChainInv, TypeOK, Row, SealedIds
  <1>10. e \in pending /\ shardOf[e] = s
    BY <1>4, <1>5 DEF BatchSound, BatchDrained, PendingOf
  <1>11. acceptedAt[r.id] # 0 /\ acceptedAt[e] # 0
    BY <1>4, <1>9, <1>10 DEF RowLifecycle
  <1>12. shardOf[r.id] = s
    BY <1>4, <1>5, <1>8, <1>9, <1>10, <1>11, SameExtSameShard
  <1>13. r \in RowsOf(s)
    BY <1>4, <1>12 DEF RowLifecycle, RowsOf
  <1>14. r.pos \in 1 .. chains[s].pos /\ chains[s].pos \in Nat
    BY <1>1, <1>13 DEF ChainInv, ChainIntact, ChainPositions, TypeOK, Tip
  <1>15. chains[s].pos > 0
    BY <1>14
  <1> QED
    BY <1>15 DEF s

\* What a commit deletes is of its own shard.
LEMMA OthersStayPending ==
    ASSUME ChainInv, SealInv, NEW w \in Worker, NEW s \in Shard, s # w[2],
           pending' = pending \ DrainedRows(tx[w]), shardOf' = shardOf
    PROVE  PendingOf(s) \subseteq PendingOf(s)'
  <1>1. DrainedRows(tx[w]) \subseteq PendingOf(w[2])
    BY DEF SealInv, BatchesSound, BatchSound, BatchDrained, DrainedRows
  <1> QED
    BY <1>1 DEF PendingOf

\* A step of one transaction that commits nothing.
LEMMA OneTxHasRows ==
    ASSUME TypeOK, HasRowsInv, NEW w \in Worker, NEW u,
           tx' = [tx EXCEPT ![w] = u], BatchThere(u),
           u.step # "idle" => Active(w),
           UNCHANGED <<shardOf, pending, chainRows, chains, todo>>
    PROVE  HasRowsInv'
  <1>1. tx'[w] = u /\ \A v \in Worker : v # w => tx'[v] = tx[v]
    BY DEF TypeOK
  <1>2. \A s \in Shard : PendingOf(s)' = PendingOf(s)
    BY DEF PendingOf
  <1>3. \A v \in Worker : Active(v)' => Active(v)
    BY <1>1 DEF Active
  <1>4. \A p \in Process, s \in Shard : Sought(p, s)' => Sought(p, s)
    BY <1>3 DEF Sought, Worker
  <1>5. \A v \in Worker : BatchThere(tx'[v])
    BY <1>1 DEF HasRowsInv
  <1> QED
    BY <1>2, <1>4, <1>5, HasRowsKept

LEMMA SealShardHasRows ==
    ASSUME ChainInv, SealInv, HasRowsInv, NEW w \in Worker, SealShard(w)
    PROVE  HasRowsInv'
  <1> DEFINE t == tx[w]
             s == w[2]
  <1>1. TypeOK /\ t \in Tx /\ s \in Shard /\ w[1] \in Process /\ w = <<w[1], s>>
    BY DEF ChainInv, TypeOK, Worker
  <1>2. NoTx.step = "idle" /\ BatchThere(NoTx)
    BY DEF NoTx, BatchThere
  <1>3. t.step \in {"lookup", "build"} => t.batch # << >>
    BY DEF HasRowsInv, BatchThere
  <1>4. ASSUME t.step # "idle"
        PROVE  PendingOf(s) # {} \/ chains[s].pos > 0
    <2>1. Sought(w[1], s)
      BY <1>1, <1>4 DEF Sought, Active
    <2> QED
      BY <1>1, <2>1 DEF HasRowsInv, SoughtForRows
  <1>5. ASSUME NEW u \in Tx, tx' = [tx EXCEPT ![w] = u], BatchThere(u),
               t.step # "idle",
               UNCHANGED <<shardOf, pending, chainRows, chains, todo>>
        PROVE  HasRowsInv'
    BY <1>1, <1>5, OneTxHasRows DEF Active
  <1>6. ASSUME tx' = [tx EXCEPT ![w] = NoTx], t.step # "idle",
               UNCHANGED <<shardOf, pending, chainRows, chains, todo>>
        PROVE  HasRowsInv'
    BY <1>2, <1>5, <1>6, NoTxType
  <1>7. ASSUME tx' = [tx EXCEPT ![w] = NoTx], UNCHANGED <<shardOf, todo>>,
               pending' \in {pending, pending \ DrainedRows(t)},
               chainRows' = chainRows \cup {s},
               chains'[s].pos > 0,
               \A q \in Shard : q # s => chains'[q] = chains[q]
        PROVE  HasRowsInv'
    <2>1. tx'[w] = NoTx /\ \A v \in Worker : v # w => tx'[v] = tx[v]
      BY <1>1, <1>7 DEF TypeOK
    <2>2. ASSUME NEW q \in Shard, q # s
          PROVE  /\ PendingOf(q) \subseteq PendingOf(q)'
                 /\ q \in chainRows' <=> q \in chainRows
      <3>1. CASE pending' = pending
        BY <1>7, <2>2, <3>1 DEF PendingOf
      <3>2. CASE pending' = pending \ DrainedRows(t)
        BY <1>7, <2>2, <3>2, OthersStayPending
      <3> QED
        BY <1>7, <2>2, <3>1, <3>2
    <2>3. s \in chainRows'
      BY <1>7
    <2>4. \A v \in Worker : Active(v)' => Active(v)
      BY <1>2, <2>1 DEF Active
    <2>5. \A p \in Process, q \in Shard : Sought(p, q)' => Sought(p, q)
      BY <1>7, <2>4 DEF Sought, Worker
    <2>6. \A v \in Worker : BatchThere(tx'[v])
      BY <1>2, <2>1 DEF HasRowsInv
    <2> HIDE DEF s, t
    <2> QED
      BY <1>7, <2>2, <2>3, <2>5, <2>6, HasRowsKept
  <1>8. CASE EnsureShardChain(w)
    <2> DEFINE u == [t EXCEPT !.step = "lock", !.creates = s \notin chainRows]
    <2>1. u \in Tx /\ u.step = "lock"
      BY <1>1 DEF Tx, Step
    <2>2. /\ tx' = [tx EXCEPT ![w] = u] /\ t.step # "idle"
          /\ UNCHANGED <<shardOf, pending, chainRows, chains, todo>>
      BY <1>8 DEF EnsureShardChain, acceptVars, tableVars
    <2> HIDE DEF u
    <2> QED
      BY <1>5, <2>1, <2>2 DEF BatchThere
  <1>9. CASE LockShardChain(w)
    <2> DEFINE u == [t EXCEPT !.step = "drain", !.tip = chains[s]]
    <2>1. u \in Tx /\ u.step = "drain"
      BY <1>1 DEF Tx, Step, TypeOK
    <2>2. /\ tx' = [tx EXCEPT ![w] = u] /\ t.step # "idle"
          /\ UNCHANGED <<shardOf, pending, chainRows, chains, todo>>
      BY <1>9 DEF LockShardChain, acceptVars, tableVars
    <2> HIDE DEF u
    <2> QED
      BY <1>5, <2>1, <2>2 DEF BatchThere
  <1>10. CASE SkipLockedShard(w)
    BY <1>6, <1>10 DEF SkipLockedShard, acceptVars, tableVars
  <1>11. CASE DrainPendingForShard(w)
    <2>1. PICK n \in 1 .. BatchSize : \E b \in [1 .. n -> PendingOf(s)] :
             tx' = [tx EXCEPT ![w].step = "lookup", ![w].batch = b]
      BY <1>11 DEF DrainPendingForShard
    <2>2. PICK b \in [1 .. n -> PendingOf(s)] :
             tx' = [tx EXCEPT ![w].step = "lookup", ![w].batch = b]
      BY <2>1
    <2>3. b \in Seq(Event) /\ b # << >>
      <3>1. n \in Nat /\ n >= 1 /\ PendingOf(s) \subseteq Event
        BY <1>1, SealerAssumption DEF PendingOf, TypeOK
      <3>2. b \in Seq(Event) /\ Len(b) = n
        BY <3>1
      <3> QED
        BY <3>1, <3>2
    <2> DEFINE u == [t EXCEPT !.step = "lookup", !.batch = b]
    <2>4. u \in Tx /\ u.batch = b
      BY <1>1, <2>3 DEF Tx, Step
    <2>5. /\ tx' = [tx EXCEPT ![w] = u] /\ t.step # "idle"
          /\ UNCHANGED <<shardOf, pending, chainRows, chains, todo>>
      BY <1>11, <2>2 DEF DrainPendingForShard, acceptVars, tableVars
    <2> HIDE DEF u
    <2> QED
      BY <1>5, <2>3, <2>4, <2>5 DEF BatchThere
  <1>12. CASE DrainNothing(w)
    <2>1. /\ tx' = [tx EXCEPT ![w] = NoTx] /\ t.step = "drain" /\ PendingOf(s) = {}
          /\ UNCHANGED <<shardOf, pending, chains, todo>>
          /\ chainRows' = chainRows \cup {s}
      BY <1>12 DEF DrainNothing, acceptVars
    <2>2. chains[s].pos > 0
      BY <1>4, <2>1
    <2> QED
      BY <1>7, <2>1, <2>2
  <1>13. CASE ExistingExternalEventIDs(w)
    <2> DEFINE T == SealedExts \cap {ExtOf[e] : e \in ToSet(t.batch)}
               u == [t EXCEPT !.step = "build", !.taken = T]
    <2>1. T \in SUBSET Ext
      BY <1>1, SealerAssumption DEF SealedExts, Row, TypeOK
    <2> HIDE DEF T
    <2>2. u \in Tx /\ u.batch = t.batch
      BY <1>1, <2>1 DEF Tx, Step
    <2>3. /\ tx' = [tx EXCEPT ![w] = u] /\ t.step = "lookup"
          /\ UNCHANGED <<shardOf, pending, chainRows, chains, todo>>
      BY <1>13 DEF ExistingExternalEventIDs, acceptVars, tableVars, T
    <2> HIDE DEF u
    <2> QED
      BY <1>3, <1>5, <2>2, <2>3 DEF BatchThere
  <1>14. CASE DropDuplicate(w)
    <2> DEFINE u == [t EXCEPT !.next = @ + 1]
    <2>1. u \in Tx /\ u.batch = t.batch
      BY <1>1, PassRowType DEF Tx
    <2>2. /\ tx' = [tx EXCEPT ![w] = u] /\ t.step = "build"
          /\ UNCHANGED <<shardOf, pending, chainRows, chains, todo>>
      BY <1>14 DEF DropDuplicate, MoreRows, acceptVars, tableVars
    <2> HIDE DEF u
    <2> QED
      BY <1>3, <1>5, <2>1, <2>2 DEF BatchThere
  <1>15. CASE ChainRow(w)
    <2> DEFINE e == t.batch[t.next]
               u == [t EXCEPT !.next = @ + 1,
                              !.taken = @ \cup TakenBy(e),
                              !.rows = Append(@, EventRow(t, e, s))]
    <2>1. e \in Event
      BY <1>1, <1>15 DEF ChainRow, MoreRows, Tx
    <2>2. TakenBy(e) \subseteq Ext /\ EventRow(t, e, s) \in Row
      BY <1>1, <2>1, SealerAssumption, EventRowType DEF TakenBy
    <2>3. u \in Tx
      BY <1>1, <2>2, KeepRowType
    <2>4. u.batch = t.batch
      BY <1>1 DEF Tx
    <2>5. /\ tx' = [tx EXCEPT ![w] = u] /\ t.step = "build"
          /\ UNCHANGED <<shardOf, pending, chainRows, chains, todo>>
      BY <1>15 DEF ChainRow, MoreRows, acceptVars, tableVars
    <2> HIDE DEF u
    <2> QED
      BY <1>3, <1>5, <2>3, <2>4, <2>5 DEF BatchThere
  <1>16. CASE CommitAllDuplicates(w)
    <2>1. /\ tx' = [tx EXCEPT ![w] = NoTx] /\ UNCHANGED <<shardOf, chains, todo>>
          /\ pending' = pending \ DrainedRows(t)
          /\ chainRows' = chainRows \cup {s}
      BY <1>16 DEF CommitAllDuplicates, acceptVars
    <2>2. chains[s].pos > 0
      BY <1>16, DuplicatesHaveRows
    <2> QED
      BY <1>7, <2>1, <2>2
  <1>17. CASE CopyEvents(w)
    <2>1. /\ t.step = "build"
          /\ UNCHANGED <<shardOf, pending, chainRows, chains, todo>>
      BY <1>17 DEF CopyEvents, BatchBuilt, acceptVars, tableVars
    <2>2. CASE UniqueViolation(w)
      BY <1>6, <1>17, <2>1, <2>2 DEF CopyEvents
    <2>3. CASE ~ UniqueViolation(w)
      <3> DEFINE u == [t EXCEPT !.step = "anchor"]
      <3>1. u \in Tx /\ u.step = "anchor"
        BY <1>1 DEF Tx, Step
      <3>2. tx' = [tx EXCEPT ![w] = u]
        BY <1>17, <2>3 DEF CopyEvents
      <3> HIDE DEF u
      <3> QED
        BY <1>5, <2>1, <3>1, <3>2 DEF BatchThere
    <2> QED
      BY <2>2, <2>3
  <1>18. CASE PublishCheckpoint(w)
    <2> DEFINE u == [t EXCEPT !.step = "commit"]
    <2>1. u \in Tx /\ u.step = "commit"
      BY <1>1 DEF Tx, Step
    <2>2. /\ tx' = [tx EXCEPT ![w] = u] /\ t.step # "idle"
          /\ UNCHANGED <<shardOf, pending, chainRows, chains, todo>>
      BY <1>18 DEF PublishCheckpoint, acceptVars, tableVars
    <2> HIDE DEF u
    <2> QED
      BY <1>5, <2>1, <2>2 DEF BatchThere
  <1>19. CASE CommitSeal(w)
    <2>1. /\ tx' = [tx EXCEPT ![w] = NoTx] /\ UNCHANGED <<shardOf, todo>>
          /\ t.step = "commit"
          /\ pending' = pending \ DrainedRows(t)
          /\ chainRows' = chainRows \cup {s}
          /\ chains' = [chains EXCEPT ![s] = NewTip(t)]
      BY <1>19 DEF CommitSeal, acceptVars
    <2>2. /\ chains'[s] = NewTip(t)
          /\ \A q \in Shard : q # s => chains'[q] = chains[q]
      BY <1>1, <2>1 DEF TypeOK
    <2>3. t.rows # << >>
      BY <2>1 DEF ChainInv, RowsContinueTip, RowsContinue
    <2>4. /\ NewTip(t).pos = t.tip.pos + Len(t.rows) + 1 - 1
          /\ t.rows \in Seq(Row) /\ t.tip.pos \in Nat
      BY <1>1 DEF NewTip, NextPosition, Tx, Tip
    <2>5. Len(t.rows) \in Nat /\ Len(t.rows) # 0
      BY <2>3, <2>4
    <2>6. chains'[s].pos > 0
      BY <2>2, <2>4, <2>5
    <2> QED
      BY <1>7, <2>1, <2>2, <2>6
  <1> QED
    BY <1>8, <1>9, <1>10, <1>11, <1>12, <1>13, <1>14, <1>15, <1>16, <1>17, <1>18,
       <1>19 DEF SealShard

LEMMA HasRowsStep ==
    ASSUME ChainInv, SealInv, HasRowsInv, [Next]_vars
    PROVE  HasRowsInv'
  <1>1. TypeOK /\ RowLifecycle
    BY DEF ChainInv, SealInv
  <1>2. NoTx.step = "idle" /\ BatchThere(NoTx)
    BY DEF NoTx, BatchThere
  <1>3. ASSUME UNCHANGED <<shardOf, chainRows, chains, todo, tx>>,
               pending \subseteq pending'
        PROVE  HasRowsInv'
    <2>1. \A s \in Shard : PendingOf(s) \subseteq PendingOf(s)'
      BY <1>3 DEF PendingOf
    <2>2. \A p \in Process, s \in Shard : Sought(p, s)' <=> Sought(p, s)
      BY <1>3 DEF Sought, Active
    <2>3. \A w \in Worker : BatchThere(tx'[w])
      BY <1>3 DEF HasRowsInv
    <2> QED
      BY <1>3, <2>1, <2>2, <2>3, HasRowsKept
  <1>4. ASSUME NEW e \in Event, InsertPendingEvent(e)
        PROVE  HasRowsInv'
    <2>1. /\ UNCHANGED <<pending, chainRows, chains, todo, tx>>
          /\ \A d \in Event : d # e => shardOf'[d] = shardOf[d]
      BY <1>1, <1>4 DEF InsertPendingEvent, tableVars, TypeOK
    <2>2. e \notin pending
      BY <1>1, <1>4 DEF RowLifecycle, InsertPendingEvent
    <2>3. \A s \in Shard : PendingOf(s) \subseteq PendingOf(s)'
      BY <1>1, <2>1, <2>2 DEF PendingOf, TypeOK
    <2>4. \A p \in Process, s \in Shard : Sought(p, s)' <=> Sought(p, s)
      BY <2>1 DEF Sought, Active
    <2>5. \A w \in Worker : BatchThere(tx'[w])
      BY <2>1 DEF HasRowsInv
    <2> QED
      BY <2>1, <2>3, <2>4, <2>5, HasRowsKept
  <1>5. ASSUME NEW e \in Event, PendingVisible(e)
        PROVE  HasRowsInv'
    BY <1>3, <1>5 DEF PendingVisible, tableVars
  <1>6. ASSUME NEW p \in Process, ListShardsWithPending(p)
        PROVE  HasRowsInv'
    <2>1. PICK W \in WorkLists : todo' = [todo EXCEPT ![p] = W]
      BY <1>6 DEF ListShardsWithPending
    <2>2. /\ UNCHANGED <<shardOf, pending, chainRows, chains, tx>>
          /\ \A q \in Process : q # p => todo'[q] = todo[q]
          /\ todo'[p] = W
      BY <1>1, <1>6, <2>1 DEF ListShardsWithPending, acceptVars, tableVars, TypeOK
    <2>3. \A s \in Shard : PendingOf(s)' = PendingOf(s)
      BY <2>2 DEF PendingOf
    <2>4. \A s \in W : PendingOf(s) # {}
      BY DEF WorkLists
    <2>5. \A q \in Process, s \in Shard :
             Sought(q, s)' => Sought(q, s) \/ PendingOf(s)' # {}
      BY <2>2, <2>3, <2>4 DEF Sought, Active
    <2>6. \A w \in Worker : BatchThere(tx'[w])
      BY <2>2 DEF HasRowsInv
    <2> QED
      BY <2>2, <2>3, <2>5, <2>6, HasRowsKept
  <1>7. ASSUME NEW p \in Process, NEW s \in Shard, BeginSeal(p, s)
        PROVE  HasRowsInv'
    <2> DEFINE u == [NoTx EXCEPT !.step = "ensure"]
    <2>1. /\ UNCHANGED <<shardOf, pending, chainRows, chains>>
          /\ tx' = [tx EXCEPT ![<<p, s>>] = u] /\ s \in todo[p]
          /\ todo' = [todo EXCEPT ![p] = todo[p] \ {s}]
      BY <1>7 DEF BeginSeal, acceptVars, tableVars
    <2>2. u.step = "ensure"
      BY DEF NoTx
    <2> HIDE DEF u
    <2>3. /\ \A v \in Worker : v # <<p, s>> => tx'[v] = tx[v]
          /\ tx'[<<p, s>>] = u
      BY <1>1, <2>1 DEF TypeOK, Worker
    <2>4. \A q \in Shard : PendingOf(q)' = PendingOf(q)
      BY <2>1 DEF PendingOf
    <2>5. \A q \in Process : todo'[q] \subseteq todo[q]
      BY <1>1, <2>1 DEF TypeOK
    <2>6. ASSUME NEW q \in Process, NEW z \in Shard, Sought(q, z)'
          PROVE  Sought(q, z)
      <3>1. CASE <<q, z>> = <<p, s>>
        <4>1. q = p /\ z = s
          BY <3>1
        <4> QED
          BY <2>1, <4>1 DEF Sought
      <3>2. CASE <<q, z>> # <<p, s>>
        <4>1. tx'[<<q, z>>] = tx[<<q, z>>]
          BY <2>3, <3>2 DEF Worker
        <4> QED
          BY <2>5, <2>6, <4>1 DEF Sought, Active
      <3> QED
        BY <3>1, <3>2
    <2>7. \A v \in Worker : BatchThere(tx'[v])
      BY <2>2, <2>3 DEF HasRowsInv, BatchThere
    <2> QED
      BY <2>1, <2>4, <2>6, <2>7, HasRowsKept
  <1>8. ASSUME NEW w \in Worker, SealShard(w)
        PROVE  HasRowsInv'
    BY <1>8, SealShardHasRows
  <1>9. ASSUME \/ \E w \in Worker : SealFails(w)
               \/ \E p \in Process : Crash(p)
        PROVE  HasRowsInv'
    <2>1. /\ \A v \in Worker : tx'[v] = tx[v] \/ tx'[v] = NoTx
          /\ \A p \in Process : todo'[p] \subseteq todo[p]
          /\ UNCHANGED <<shardOf, pending, chainRows, chains>>
      BY <1>1, <1>9 DEF SealFails, Crash, TypeOK, acceptVars, tableVars
    <2>2. \A s \in Shard : PendingOf(s)' = PendingOf(s)
      BY <2>1 DEF PendingOf
    <2>3. \A p \in Process, s \in Shard : Sought(p, s)' => Sought(p, s)
      BY <1>2, <2>1 DEF Sought, Active, Worker
    <2>4. \A w \in Worker : BatchThere(tx'[w])
      BY <1>2, <2>1 DEF HasRowsInv
    <2> QED
      BY <2>1, <2>2, <2>3, <2>4, HasRowsKept
  <1>10. ASSUME \/ \E p \in Process : TickIdle(p)
                \/ UNCHANGED vars
         PROVE  HasRowsInv'
    BY <1>3, <1>10 DEF TickIdle, vars, acceptVars, tableVars
  <1> QED
    BY <1>4, <1>5, <1>6, <1>7, <1>8, <1>9, <1>10 DEF Next

LEMMA HasRowsInit == Init => HasRowsInv
  <1> SUFFICES ASSUME Init PROVE HasRowsInv
    OBVIOUS
  <1>1. NoTx.step = "idle"
    BY DEF NoTx
  <1>2. \A w \in Worker : tx[w] = NoTx
    BY DEF Init
  <1>3. SoughtForRows
    BY <1>1, <1>2 DEF Init, SoughtForRows, Sought, Active, Worker
  <1>4. ChainHasRows
    BY DEF Init, ChainHasRows, EmptyTip
  <1> QED
    BY <1>1, <1>2, <1>3, <1>4 DEF HasRowsInv, BatchThere

(***************************************************************************)
(* A row of chains that others can see has rows of events: whatever        *)
(* sealers race for a shard, whatever they drop and wherever they fail, no *)
(* commit leaves a row at position 0, and none leaves events without one.  *)
(***************************************************************************)
THEOREM ChainAlwaysHasRows == Spec => []ChainHasRows
  <1>1. ChainInv /\ SealInv /\ HasRowsInv /\ [Next]_vars => HasRowsInv'
    BY HasRowsStep
  <1>2. HasRowsInv => ChainHasRows
    BY DEF HasRowsInv
  <1> QED
    BY <1>1, <1>2, HasRowsInit, SealInvHolds, PTL DEF Spec

-----------------------------------------------------------------------------
(***************************************************************************)
(* The readers' view.  ReadPath and Export stand on a journal of which     *)
(* JournalRows gives the rows of each log: those are the rows the sealer   *)
(* writes, with a NULL for the predecessor of a first row.  Of a log       *)
(* without events there is no row of chains, as ReadPath has it; the row   *)
(* JournalRows gives for it is the one the sealer starts from.             *)
(***************************************************************************)
Read == INSTANCE JournalRows

OrNull(h) == IF h = Genesis THEN Nil ELSE h

ReadersSeeRows ==
    \A s \in Shard :
        /\ s \in chainRows <=> LogOf(s) # << >>
        /\ Read!ChainRow(LogOf(s))
              = [pos |-> chains[s].pos, hash |-> OrNull(chains[s].hash)]
        /\ \A r \in RowsOf(s) :
              Read!EventAt(LogOf(s), r.pos)
                 = [id |-> r.id, payload |-> r.payload, pos |-> r.pos,
                    hash |-> r.hash, prev |-> OrNull(r.prev)]

LEMMA LoggedAt ==
    ASSUME ChainInv, NEW s \in Shard, NEW r \in RowsOf(s)
    PROVE  /\ r.pos \in 1 .. chains[s].pos /\ LogOf(s)[r.pos] = r.id
           /\ Len(LogOf(s)) = chains[s].pos
  <1>1. /\ r \in journal /\ r.shard = s /\ r.pos \in 1 .. chains[s].pos
        /\ chains[s].pos \in Nat
    BY DEF ChainInv, TypeOK, Tip, RowsOf, ChainIntact, ChainPositions
  <1>2. \A q \in journal : q.shard = s /\ q.pos = r.pos => q = r
    BY <1>1 DEF ChainInv, RowsOf, ChainIntact, ChainPositions
  <1>3. (CHOOSE q \in journal : q.shard = s /\ q.pos = r.pos) = r
    BY <1>1, <1>2, ChosenRow
  <1>4. Len(LogOf(s)) = chains[s].pos
    BY <1>1 DEF LogOf
  <1> QED
    BY <1>1, <1>3, <1>4 DEF LogOf

\* The hash of a row is the one its log gives for its position.
LEMMA HashOfLog ==
    ASSUME ChainInv, PayloadsKept, NEW s \in Shard, NEW r \in RowsOf(s)
    PROVE  Read!HashAt(LogOf(s), r.pos) = r.hash
  <1> DEFINE l == LogOf(s)
             n == r.pos
             h == [j \in 1 .. n |-> <<PayloadOf[l[j]], j>>]
  <1>1. /\ HoldsRows(r) /\ r.shard = s /\ r.hash \in Hash
        /\ n \in Nat /\ n \in 1 .. chains[s].pos /\ chains[s].pos \in Nat
    <2>1. r \in Row /\ r.shard = s
      BY DEF ChainInv, TypeOK, RowsOf
    <2> QED
      BY <2>1, JournalHolds, LoggedAt DEF Row, ChainInv, TypeOK, Tip
  <1>2. ASSUME NEW j \in 1 .. n
        PROVE  /\ PayloadOf[l[j]] \in Payload
               /\ r.hash[j] = <<PayloadOf[l[j]], j>>
    <2>1. j \in 1 .. chains[s].pos /\ j <= n
      BY <1>1
    <2>2. PICK q \in RowsOf(s) : q.pos = j
      BY <2>1 DEF ChainInv, ChainIntact, ChainPositions
    <2>3. l[j] = q.id
      BY <2>2, LoggedAt
    <2>4. q \in journal /\ q \in Row /\ q.payload = PayloadOf[q.id]
      BY DEF ChainInv, TypeOK, RowsOf, PayloadsKept
    <2>5. r.hash[j] = <<q.payload, q.pos>>
      BY <1>1, <2>1, <2>2 DEF HoldsRows
    <2> QED
      BY <2>2, <2>3, <2>4, <2>5 DEF Row
  <1> HIDE DEF l
  <1>3. h \in Hash /\ Len(h) = n
    <2> DEFINE P == Payload \X Nat
    <2>1. \A j \in 1 .. n : <<PayloadOf[l[j]], j>> \in P
      BY <1>1, <1>2
    <2> HIDE DEF P
    <2>2. h \in [1 .. n -> P] /\ DOMAIN h = 1 .. n
      BY <2>1
    <2> HIDE DEF h
    <2>3. h \in Seq(P)
      BY <1>1, <2>2
    <2>4. Len(h) = n
      BY <1>1, <2>2, <2>3
    <2> QED
      BY <2>3, <2>4 DEF Hash, P
  <1>4. \A j \in 1 .. n : h[j] = r.hash[j]
    BY <1>2
  <1>5. Len(r.hash) = n
    BY <1>1 DEF HoldsRows
  <1>6. h = r.hash
    <2> HIDE DEF h
    <2> QED
      BY <1>1, <1>3, <1>4, <1>5, SameHash
  <1> QED
    BY <1>6 DEF Read!HashAt, l

LEMMA RowsRead ==
    ASSUME ChainInv, PayloadsKept, NEW s \in Shard, NEW r \in RowsOf(s)
    PROVE  Read!EventAt(LogOf(s), r.pos)
              = [id |-> r.id, payload |-> r.payload, pos |-> r.pos,
                 hash |-> r.hash, prev |-> OrNull(r.prev)]
  <1>1. /\ r \in Row /\ r \in journal /\ r.payload = PayloadOf[r.id]
        /\ r.pos \in Nat /\ r.pos \in 1 .. chains[s].pos /\ chains[s].pos \in Nat
    <2>1. r \in Row /\ r \in journal
      BY DEF ChainInv, TypeOK, RowsOf
    <2> QED
      BY <2>1, LoggedAt DEF Row, PayloadsKept, ChainInv, TypeOK, Tip
  <1>2. LogOf(s)[r.pos] = r.id /\ Read!HashAt(LogOf(s), r.pos) = r.hash
    BY LoggedAt, HashOfLog
  <1>3. (IF r.pos = 1 THEN Nil ELSE Read!HashAt(LogOf(s), r.pos - 1))
           = OrNull(r.prev)
    <2>1. CASE r.pos = 1
      <3>1. r.prev = Genesis
        BY <2>1 DEF ChainInv, ChainIntact, ChainLinks
      <3> QED
        BY <2>1, <3>1 DEF OrNull
    <2>2. CASE r.pos # 1
      <3>1. r.pos - 1 \in 1 .. chains[s].pos /\ r.pos = (r.pos - 1) + 1
        BY <1>1, <2>2
      <3>2. PICK q \in RowsOf(s) : q.pos = r.pos - 1
        BY <3>1 DEF ChainInv, ChainIntact, ChainPositions
      <3>3. r.prev = q.hash
        BY <3>1, <3>2 DEF ChainInv, ChainIntact, ChainLinks
      <3>4. Read!HashAt(LogOf(s), r.pos - 1) = q.hash
        BY <3>2, HashOfLog
      <3>5. Len(q.hash) = r.pos - 1 /\ r.pos - 1 # 0
        BY <1>1, <2>2, <3>2, JournalHolds DEF HoldsRows
      <3>6. q.hash # Genesis
        BY <3>5 DEF Genesis
      <3> QED
        BY <2>2, <3>3, <3>4, <3>6 DEF OrNull
    <2> QED
      BY <2>1, <2>2
  <1> QED
    BY <1>1, <1>2, <1>3 DEF Read!EventAt

LEMMA TipRead ==
    ASSUME ChainInv, PayloadsKept, NEW s \in Shard
    PROVE  Read!ChainRow(LogOf(s))
              = [pos |-> chains[s].pos, hash |-> OrNull(chains[s].hash)]
  <1> DEFINE n == chains[s].pos
             l == LogOf(s)
  <1>1. n \in Nat /\ Len(l) = n /\ DOMAIN l = 1 .. n
    BY DEF ChainInv, TypeOK, Tip, LogOf
  <1>2. Read!TipHash(l) = OrNull(chains[s].hash)
    <2>1. CASE n = 0
      <3>1. l = << >>
        BY <2>1 DEF LogOf
      <3>2. chains[s].hash = Genesis
        BY <2>1 DEF ChainInv, ChainIntact, ChainTip
      <3> QED
        BY <3>1, <3>2 DEF Read!TipHash, OrNull
    <2>2. CASE n # 0
      <3>1. n \in 1 .. n
        BY <1>1, <2>2
      <3>2. PICK r \in RowsOf(s) : r.pos = n
        BY <3>1 DEF ChainInv, ChainIntact, ChainPositions
      <3>3. chains[s].hash = r.hash
        BY <3>2 DEF ChainInv, ChainIntact, ChainTip
      <3>4. Read!HashAt(l, n) = r.hash
        BY <3>2, HashOfLog
      <3>5. Len(r.hash) = n
        BY <3>2, JournalHolds DEF HoldsRows
      <3>6. r.hash # Genesis
        BY <2>2, <3>5 DEF Genesis
      <3>7. l # << >>
        BY <1>1, <2>2
      <3> HIDE DEF l, n
      <3> QED
        BY <1>1, <3>3, <3>4, <3>6, <3>7 DEF Read!TipHash, OrNull
    <2> QED
      BY <2>1, <2>2
  <1> HIDE DEF l, n
  <1>3. Read!ChainRow(l) = [pos |-> n, hash |-> OrNull(chains[s].hash)]
    BY <1>1, <1>2 DEF Read!ChainRow
  <1> QED
    BY <1>3 DEF l, n

LEMMA RowIffLog ==
    ASSUME TypeOK, ChainHasRows, NEW s \in Shard
    PROVE  s \in chainRows <=> LogOf(s) # << >>
  <1>1. chains[s].pos \in Nat
    BY DEF TypeOK, Tip
  <1>2. s \in chainRows <=> chains[s].pos > 0
    BY DEF ChainHasRows
  <1>3. CASE chains[s].pos = 0
    <2>1. LogOf(s) = << >>
      BY <1>3 DEF LogOf
    <2> QED
      BY <1>2, <1>3, <2>1
  <1>4. CASE chains[s].pos # 0
    <2>1. DOMAIN LogOf(s) = 1 .. chains[s].pos
      BY DEF LogOf
    <2>2. 1 \in DOMAIN LogOf(s)
      BY <1>1, <1>4, <2>1
    <2>3. LogOf(s) # << >>
      BY <2>2
    <2> QED
      BY <1>1, <1>2, <1>4, <2>3
  <1> QED
    BY <1>3, <1>4

(***************************************************************************)
(* The rows of events and chains as the readers' models derive them from a *)
(* log are those that SealShard has written, and the row of chains is      *)
(* there for others to see exactly when the log has events.                *)
(***************************************************************************)
THEOREM JournalIsRead == Spec => []ReadersSeeRows
  <1>1. ChainInv /\ PayloadsKept /\ ChainHasRows => ReadersSeeRows
    BY RowIffLog, RowsRead, TipRead DEF ReadersSeeRows, ChainInv
  <1>2. Spec => [](ChainInv /\ PayloadsKept)
    BY ChainInvInit, ChainInvStep, PayloadsInit, PayloadsStep, PTL DEF Spec
  <1> QED
    BY <1>1, <1>2, ChainAlwaysHasRows, PTL

-----------------------------------------------------------------------------
(***************************************************************************)
(* An external id is sealed once in an environment: two rows of the        *)
(* journal, of one shard or of two, never have the same one.  The lookup,  *)
(* the walk and the routing see to it: nothing here leans on the unique    *)
(* index of events.                                                        *)
(***************************************************************************)
ExtsSealedOnce ==
    \A q, r \in journal :
        ExtOf[q.id] # Nil /\ ExtOf[q.id] = ExtOf[r.id] => q = r

LEMMA ExtsOnceStep ==
    ASSUME ChainInv, SealInv, ExtsSealedOnce, [Next]_vars
    PROVE  ExtsSealedOnce'
  <1>1. CASE ~ \E w \in Worker : CommitSeal(w)
    BY <1>1, OnlyCommitsWrite DEF ExtsSealedOnce
  <1>2. ASSUME NEW w \in Worker, CommitSeal(w)
        PROVE  ExtsSealedOnce'
    <2> DEFINE rows == tx[w].rows
               new == {rows[i] : i \in 1 .. Len(rows)}
    <2>1. rows \in Seq(Row) /\ RowsFresh(tx[w])
      BY DEF ChainInv, TypeOK, Tx, SealInv, BatchesSound, BatchSound
    <2>2. journal' = journal \cup new
      BY <1>2, <2>1 DEF CommitSeal, ToSet
    <2>3. \A q, r \in new :
             ExtOf[q.id] # Nil /\ ExtOf[q.id] = ExtOf[r.id] => q = r
      BY <2>1 DEF RowsFresh
    <2>4. \A q \in journal, r \in new :
             ExtOf[r.id] # Nil => ExtOf[q.id] # ExtOf[r.id]
      <3>1. \A r \in new : ExtOf[r.id] # Nil => ExtOf[r.id] \notin SealedExts
        BY <2>1 DEF RowsFresh, ExtsOfRows
      <3> HIDE DEF new
      <3> QED
        BY <3>1 DEF SealedExts
    <2> HIDE DEF new
    <2> QED
      BY <2>2, <2>3, <2>4 DEF ExtsSealedOnce
  <1> QED
    BY <1>1, <1>2

\* No external id is sealed twice, by dedupePending and the routing alone.
THEOREM ExtsAlwaysSealedOnce == Spec => []ExtsSealedOnce
  <1>1. Init => ExtsSealedOnce
    BY DEF Init, ExtsSealedOnce
  <1>2. ChainInv /\ SealInv /\ ExtsSealedOnce /\ [Next]_vars => ExtsSealedOnce'
    BY ExtsOnceStep
  <1> QED
    BY <1>1, <1>2, SealInvHolds, PTL DEF Spec

-----------------------------------------------------------------------------
(***************************************************************************)
(* What a step may never do.                                               *)
(***************************************************************************)

(***************************************************************************)
(* A chain only grows, and at its end: no step of any sealer moves a tip   *)
(* back, changes the hash of a tip without new rows, or changes what the   *)
(* log holds at a position it has filled.                                  *)
(***************************************************************************)
OnlyGrow ==
    \A s \in Shard :
        /\ chains'[s] # chains[s] => chains'[s].pos > chains[s].pos
        /\ \A i \in 1 .. chains[s].pos :
              i \in 1 .. chains'[s].pos /\ LogOf(s)'[i] = LogOf(s)[i]

ChainsOnlyGrow == [][OnlyGrow]_vars

LEMMA GrowStep ==
    ASSUME ChainInv, [Next]_vars
    PROVE  OnlyGrow
  <1>1. CASE ~ \E w \in Worker : CommitSeal(w)
    <2>1. chains' = chains /\ journal' = journal
      BY <1>1, OnlyCommitsWrite
    <2> QED
      BY <2>1 DEF OnlyGrow, LogOf
  <1>2. ASSUME NEW w \in Worker, CommitSeal(w), NEW s \in Shard
        PROVE  /\ chains'[s] # chains[s] => chains'[s].pos > chains[s].pos
               /\ \A i \in 1 .. chains[s].pos :
                     i \in 1 .. chains'[s].pos /\ LogOf(s)'[i] = LogOf(s)[i]
    <2> DEFINE t == tx[w]
               n == chains[s].pos
               m == Len(t.rows)
               logs == [z \in Shard |-> LogOf(z)]
               new == [i \in 1 .. m |-> t.rows[i].id]
    <2>1. /\ t \in Tx /\ w[2] \in Shard /\ chains \in [Shard -> Tip]
          /\ n \in Nat /\ m \in Nat /\ t.rows \in Seq(Row)
      BY DEF ChainInv, TypeOK, Worker, Tx, Tip
    <2>2. t.rows # << >> /\ t.tip = chains[w[2]]
      BY <1>2, <2>1 DEF ChainInv, RowsContinueTip, RowsContinue, TipCurrent,
         CommitSeal, Holds, Locking
    <2>3. m > 0
      BY <2>1, <2>2, EmptySeq
    <2>4. chains' = [chains EXCEPT ![w[2]] = NewTip(t)]
      BY <1>2 DEF CommitSeal
    <2>5. logs' = [logs EXCEPT ![w[2]] = @ \o new]
      BY <1>2, CommitExtendsLog
    <2>6. Len(LogOf(s)) = n /\ DOMAIN LogOf(s) = 1 .. n
      BY <2>1 DEF LogOf
    <2>7. CASE s # w[2]
      <3>1. chains'[s] = chains[s] /\ logs'[s] = logs[s]
        BY <2>1, <2>4, <2>5, <2>7
      <3>2. LogOf(s)' = LogOf(s)
        BY <3>1
      <3> QED
        BY <3>1, <3>2
    <2>8. CASE s = w[2]
      <3>1. chains'[s] = NewTip(t) /\ logs'[s] = logs[s] \o new
        BY <2>1, <2>4, <2>5, <2>8
      <3>2. NewTip(t).pos = n + m
        BY <2>1, <2>2, <2>8 DEF NewTip, NextPosition
      <3>3. LogOf(s)' = LogOf(s) \o new
        BY <3>1
      <3>4. \A i \in 1 .. n : (LogOf(s) \o new)[i] = LogOf(s)[i]
        <4>1. Len(new) = m
          BY <2>1
        <4> DEFINE l == LogOf(s)
        <4> HIDE DEF l, new
        <4>2. Len(l) = n
          BY <2>6 DEF l
        <4>3. \A i \in 1 .. n : (l \o new)[i] = l[i]
          BY <2>1, <4>1, <4>2
        <4> QED
          BY <4>3 DEF l
      <3>5. chains'[s].pos = n + m
        BY <3>1, <3>2
      <3>6. \A i \in 1 .. n : LogOf(s)'[i] = LogOf(s)[i]
        BY <3>3, <3>4
      <3> HIDE DEF m, new, logs, t
      <3>7. n + m > n /\ \A i \in 1 .. n : i \in 1 .. n + m
        BY <2>1, <2>3
      <3> QED
        BY <3>5, <3>6, <3>7
    <2> QED
      BY <2>7, <2>8
  <1> QED
    BY <1>1, <1>2 DEF OnlyGrow

\* A chain changes only at its end, and its tip only forwards (SealShard).
THEOREM ChainsAlwaysGrow == Spec => ChainsOnlyGrow
  BY ChainInvInit, ChainInvStep, GrowStep, PTL DEF Spec, ChainsOnlyGrow

(***************************************************************************)
(* A row leaves pending_events only when it is represented in the journal, *)
(* by itself or by a row with its external id, and an acknowledged row     *)
(* that has left never comes back: a client that retries after an answer   *)
(* is not what could seal it again.                                        *)
(***************************************************************************)
OnlySettle ==
    /\ \A e \in pending \ pending' : Represented(e)'
    /\ \A e \in Acked \ pending : e \in Acked' \ pending'

RowsOnlySettle == [][OnlySettle]_vars

LEMMA SettleStep ==
    ASSUME ChainInv, SealInv, [Next]_vars
    PROVE  OnlySettle
  <1>1. SealInv' /\ TypeOK /\ TypeOK'
    BY SealInvStep, ChainInvStep DEF ChainInv
  <1>2. \A e \in Acked : e \in Acked'
    <2>1. CASE UNCHANGED acceptVars
      BY <2>1 DEF acceptVars, Acked
    <2>2. ASSUME NEW d \in Event, InsertPendingEvent(d)
          PROVE  Acked \subseteq Acked'
      <3>1. /\ acceptedAt[d] = 0 /\ inserting' = inserting \cup {d}
            /\ \A e \in Event : e # d => acceptedAt'[e] = acceptedAt[e]
        BY <1>1, <2>2 DEF InsertPendingEvent, TypeOK
      <3> QED
        BY <3>1 DEF Acked
    <2>3. ASSUME NEW d \in Event, PendingVisible(d)
          PROVE  Acked \subseteq Acked'
      BY <2>3 DEF PendingVisible, Acked
    <2>4. ASSUME NEW w \in Worker, SealShard(w) \/ SealFails(w)
          PROVE  UNCHANGED acceptVars
      BY <2>4 DEF SealShard, EnsureShardChain, LockShardChain,
         SkipLockedShard, DrainPendingForShard, DrainNothing,
         ExistingExternalEventIDs, DropDuplicate, ChainRow, CommitSeal,
         CommitAllDuplicates, CopyEvents, PublishCheckpoint, SealFails
    <2>5. ASSUME NEW p \in Process,
                 \/ ListShardsWithPending(p) \/ TickIdle(p) \/ Crash(p)
                 \/ \E s \in Shard : BeginSeal(p, s)
          PROVE  UNCHANGED acceptVars
      BY <2>5 DEF ListShardsWithPending, TickIdle, Crash, BeginSeal, vars
    <2> QED
      BY <2>1, <2>2, <2>3, <2>4, <2>5 DEF Next, vars
  <1>3. \A e \in pending : e \in Acked
    BY <1>1 DEF SealInv, RowLifecycle, Acked, TypeOK
  <1>4. \A e \in pending \ pending' : Represented(e)'
    <2>1. \A e \in Acked' : e \in pending' \/ Represented(e)'
      BY <1>1 DEF SealInv, NothingLost
    <2> QED
      BY <1>2, <1>3, <2>1
  <1>5. \A e \in Acked : e \in pending' => e \in pending
    <2>1. CASE \E d \in Event : PendingVisible(d)
      BY <2>1 DEF PendingVisible, Acked
    <2>2. CASE ~ \E d \in Event : PendingVisible(d)
      <3>1. ASSUME NEW w \in Worker, SealShard(w) \/ SealFails(w)
            PROVE  pending' \subseteq pending
        BY <3>1 DEF SealShard, EnsureShardChain, LockShardChain,
           SkipLockedShard, DrainPendingForShard, DrainNothing,
           ExistingExternalEventIDs, DropDuplicate, ChainRow, CommitSeal,
           CommitAllDuplicates, CopyEvents, PublishCheckpoint, SealFails
      <3>2. ASSUME NEW p \in Process,
                   \/ ListShardsWithPending(p) \/ TickIdle(p) \/ Crash(p)
                   \/ \E s \in Shard : BeginSeal(p, s)
            PROVE  pending' = pending
        BY <3>2 DEF ListShardsWithPending, TickIdle, Crash, BeginSeal, vars
      <3>3. ASSUME NEW d \in Event, InsertPendingEvent(d)
            PROVE  pending' = pending
        BY <3>3 DEF InsertPendingEvent
      <3>4. pending' \subseteq pending
        BY <2>2, <3>1, <3>2, <3>3 DEF Next, vars
      <3> QED
        BY <3>4
    <2> QED
      BY <2>1, <2>2
  <1> QED
    BY <1>2, <1>4, <1>5 DEF OnlySettle

\* A pending row goes only when it is sealed or represented by a sealed one,
\* and does not come back (SealShard's DELETE of the batch).
THEOREM RowsAlwaysSettle == Spec => RowsOnlySettle
  <1>1. ChainInv /\ SealInv /\ [Next]_vars => OnlySettle
    BY SettleStep
  <1> QED
    BY <1>1, SealInvHolds, PTL DEF Spec, RowsOnlySettle

-----------------------------------------------------------------------------
(***************************************************************************)
(* The row of chains a transaction locks.  SealShard reads "no row" from   *)
(* its FOR UPDATE SKIP LOCKED as "another sealer is at this shard": right  *)
(* only if the row is there whenever the statement runs, committed or      *)
(* inserted by the transaction itself, and commits an empty transaction    *)
(* then: right only if that transaction has inserted nothing.              *)
(***************************************************************************)
PastEnsure(w) == tx[w].step \notin {"idle", "ensure"}

ChainRowThere ==
    \A w \in Worker :
        /\ PastEnsure(w) => tx[w].creates \/ w[2] \in chainRows
        /\ tx[w].creates =>
              /\ PastEnsure(w)
              /\ \A v \in Worker : v[2] = w[2] /\ PastEnsure(v) => v = w

\* A step that leaves creates alone, or ends the transaction.
LEMMA RowStays ==
    ASSUME TypeOK, ChainRowThere, chainRows \subseteq chainRows',
           \A v \in Worker :
              \/ /\ tx'[v].creates = tx[v].creates
                 /\ PastEnsure(v)' <=> PastEnsure(v)
              \/ ~ tx'[v].creates /\ ~ PastEnsure(v)'
    PROVE  ChainRowThere'
  BY DEF ChainRowThere

LEMMA RowThereStep ==
    ASSUME TypeOK, ChainRowThere, [Next]_vars
    PROVE  ChainRowThere'
  <1>1. ~ NoTx.creates /\ NoTx.step = "idle"
    BY DEF NoTx
  <1>2. ASSUME tx' = tx, chainRows' = chainRows
        PROVE  ChainRowThere'
    BY <1>2, RowStays DEF PastEnsure
  <1>3. ASSUME NEW w \in Worker, EnsureShardChain(w)
        PROVE  ChainRowThere'
    <2> DEFINE s == w[2]
               u == [tx[w] EXCEPT !.step = "lock", !.creates = s \notin chainRows]
    <2>1. tx' = [tx EXCEPT ![w] = u] /\ chainRows' = chainRows
      BY <1>3 DEF EnsureShardChain, tableVars
    <2>2. u.step = "lock" /\ u.creates = (s \notin chainRows)
      BY DEF TypeOK, Tx
    <2> HIDE DEF u
    <2>3. /\ tx'[w] = u
          /\ \A v \in Worker : v # w => tx'[v] = tx[v]
      BY <2>1 DEF TypeOK
    <2>4. ~ PastEnsure(w) /\ PastEnsure(w)'
      BY <1>3, <2>2, <2>3 DEF EnsureShardChain, PastEnsure
    <2>5. \A v \in Worker : v[2] = s => ~ tx[v].creates
      BY <1>3 DEF EnsureShardChain
    <2>6. \A v \in Worker : v[2] = s /\ PastEnsure(v) => s \in chainRows
      BY <2>5 DEF ChainRowThere
    <2>7. \A v \in Worker : v # w => (PastEnsure(v)' <=> PastEnsure(v))
      BY <2>3 DEF PastEnsure
    <2>8. ASSUME NEW v \in Worker
          PROVE  PastEnsure(v)' => tx'[v].creates \/ v[2] \in chainRows'
      BY <2>1, <2>2, <2>3, <2>7 DEF ChainRowThere
    <2>9. ASSUME NEW x \in Worker, tx'[x].creates, NEW v \in Worker,
                 v[2] = x[2], PastEnsure(v)'
          PROVE  v = x
      <3>1. CASE x = w
        BY <2>2, <2>3, <2>6, <2>7, <2>9, <3>1
      <3>2. CASE x # w
        <4>1. tx[x].creates /\ x[2] # s
          BY <2>3, <2>5, <2>9, <3>2
        <4>2. v # w /\ PastEnsure(v)
          BY <2>7, <2>9, <4>1
        <4> QED
          BY <2>9, <4>1, <4>2 DEF ChainRowThere
      <3> QED
        BY <3>1, <3>2
    <2>10. ASSUME NEW x \in Worker, tx'[x].creates
           PROVE  PastEnsure(x)'
      BY <2>3, <2>4, <2>7, <2>10 DEF ChainRowThere
    <2> QED
      BY <2>8, <2>9, <2>10 DEF ChainRowThere
  <1>4. ASSUME NEW w \in Worker, SealShard(w), ~ EnsureShardChain(w)
        PROVE  ChainRowThere'
    <2>1. chainRows \subseteq chainRows'
      BY <1>4 DEF SealShard, LockShardChain, SkipLockedShard,
         DrainPendingForShard, DrainNothing, ExistingExternalEventIDs,
         DropDuplicate, ChainRow, CommitAllDuplicates, CopyEvents,
         PublishCheckpoint, CommitSeal, tableVars
    <2>2. \A v \in Worker : v # w => tx'[v] = tx[v]
      BY <1>4 DEF SealShard, LockShardChain, SkipLockedShard,
         DrainPendingForShard, DrainNothing, ExistingExternalEventIDs,
         DropDuplicate, ChainRow, CommitAllDuplicates, CopyEvents,
         PublishCheckpoint, CommitSeal, TypeOK
    <2>3. tx[w] \in Tx /\ w \in DOMAIN tx
      BY DEF TypeOK
    <2>4. CASE SkipLockedShard(w) \/ DrainNothing(w) \/ CommitAllDuplicates(w)
               \/ CommitSeal(w)
      <3>1. tx'[w] = NoTx
        BY <2>3, <2>4 DEF SkipLockedShard, DrainNothing, CommitAllDuplicates,
           CommitSeal
      <3> QED
        BY <1>1, <2>1, <2>2, <3>1, RowStays DEF PastEnsure
    <2>5. CASE LockShardChain(w)
      <3>1. tx'[w].creates = tx[w].creates /\ tx'[w].step = "drain"
        BY <2>3, <2>5 DEF LockShardChain, Tx
      <3>2. tx[w].step = "lock"
        BY <2>5 DEF LockShardChain
      <3> QED
        BY <2>1, <2>2, <3>1, <3>2, RowStays DEF PastEnsure
    <2>6. CASE DrainPendingForShard(w)
      <3>1. tx'[w].creates = tx[w].creates /\ tx'[w].step = "lookup"
        BY <2>3, <2>6 DEF DrainPendingForShard, Tx
      <3>2. tx[w].step = "drain"
        BY <2>6 DEF DrainPendingForShard
      <3> QED
        BY <2>1, <2>2, <3>1, <3>2, RowStays DEF PastEnsure
    <2>7. CASE ExistingExternalEventIDs(w)
      <3>1. tx'[w].creates = tx[w].creates /\ tx'[w].step = "build"
        BY <2>3, <2>7 DEF ExistingExternalEventIDs, Tx
      <3>2. tx[w].step = "lookup"
        BY <2>7 DEF ExistingExternalEventIDs
      <3> QED
        BY <2>1, <2>2, <3>1, <3>2, RowStays DEF PastEnsure
    <2>8. CASE DropDuplicate(w) \/ ChainRow(w)
      <3>1. tx'[w].creates = tx[w].creates /\ tx'[w].step = tx[w].step
        BY <2>3, <2>8 DEF DropDuplicate, ChainRow, Tx
      <3> QED
        BY <2>1, <2>2, <3>1, RowStays DEF PastEnsure
    <2>9. CASE CopyEvents(w)
      <3>1. tx'[w] = NoTx \/ tx'[w] = [tx[w] EXCEPT !.step = "anchor"]
        BY <2>3, <2>9 DEF CopyEvents
      <3>2. tx[w].step = "build"
        BY <2>9 DEF CopyEvents, BatchBuilt
      <3>3. \/ ~ tx'[w].creates /\ tx'[w].step = "idle"
            \/ tx'[w].creates = tx[w].creates /\ tx'[w].step = "anchor"
        BY <1>1, <2>3, <3>1 DEF Tx
      <3> QED
        BY <2>1, <2>2, <3>2, <3>3, RowStays DEF PastEnsure
    <2>10. CASE PublishCheckpoint(w)
      <3>1. tx'[w].creates = tx[w].creates /\ tx'[w].step = "commit"
        BY <2>3, <2>10 DEF PublishCheckpoint, Tx
      <3>2. tx[w].step = "anchor"
        BY <2>10 DEF PublishCheckpoint
      <3> QED
        BY <2>1, <2>2, <3>1, <3>2, RowStays DEF PastEnsure
    <2> QED
      BY <1>4, <2>4, <2>5, <2>6, <2>7, <2>8, <2>9, <2>10 DEF SealShard
  <1>5. ASSUME NEW p \in Process, NEW s \in Shard, BeginSeal(p, s)
        PROVE  ChainRowThere'
    <2> DEFINE u == [NoTx EXCEPT !.step = "ensure"]
    <2>1. tx' = [tx EXCEPT ![<<p, s>>] = u] /\ chainRows' = chainRows
      BY <1>5 DEF BeginSeal, tableVars
    <2>2. u.step = "ensure" /\ ~ u.creates
      BY DEF NoTx
    <2> HIDE DEF u
    <2>3. \A v \in Worker : tx'[v] = tx[v] \/ tx'[v] = u
      BY <2>1 DEF TypeOK
    <2> QED
      BY <2>1, <2>2, <2>3, RowStays DEF PastEnsure
  <1>6. ASSUME \/ \E w \in Worker : SealFails(w)
               \/ \E p \in Process : Crash(p)
        PROVE  ChainRowThere'
    <2>1. \A v \in Worker : tx'[v] = tx[v] \/ tx'[v] = NoTx
      BY <1>6 DEF SealFails, Crash, TypeOK
    <2>2. chainRows' = chainRows
      BY <1>6 DEF SealFails, Crash, tableVars
    <2> QED
      BY <1>1, <2>1, <2>2, RowStays DEF PastEnsure
  <1>7. ASSUME \/ \E e \in Event : InsertPendingEvent(e) \/ PendingVisible(e)
               \/ \E p \in Process : ListShardsWithPending(p) \/ TickIdle(p)
               \/ UNCHANGED vars
        PROVE  ChainRowThere'
    BY <1>2, <1>7 DEF InsertPendingEvent, PendingVisible,
       ListShardsWithPending, TickIdle, vars, tableVars
  <1> QED
    BY <1>3, <1>4, <1>5, <1>6, <1>7 DEF Next

LEMMA RowThereHolds == Spec => [](ChainInv /\ ChainRowThere)
  <1>1. Init => ChainRowThere
    BY DEF Init, ChainRowThere, PastEnsure, NoTx
  <1>2. ChainInv /\ ChainRowThere /\ [Next]_vars => ChainRowThere'
    BY RowThereStep DEF ChainInv
  <1> QED
    BY <1>1, <1>2, ChainInvInit, ChainInvStep, PTL DEF Spec

(***************************************************************************)
(* Whoever reaches LockShardChain has a row of chains to lock, and at most *)
(* one transaction ever has one of its own that others cannot see.         *)
(***************************************************************************)
THEOREM ChainRowAlwaysThere == Spec => []ChainRowThere
  BY RowThereHolds, PTL

(***************************************************************************)
(* A shard skipped as locked is one that another goroutine is sealing, its *)
(* row is committed, and the empty commit of the skip drops no row of      *)
(* chains the transaction had inserted.                                    *)
(***************************************************************************)
SkipIsSafe ==
    \A w \in Worker : SkipLockedShard(w) =>
        /\ w[2] \in chainRows /\ ~ tx[w].creates
        /\ \E v \in Worker \ {w} : v[2] = w[2] /\ Holds(v)

SkipsOnlyLocked == [][SkipIsSafe]_vars

LEMMA SkipStep == ChainInv /\ ChainRowThere => SkipIsSafe
  <1> SUFFICES ASSUME ChainRowThere, NEW w \in Worker, SkipLockedShard(w)
               PROVE  /\ w[2] \in chainRows /\ ~ tx[w].creates
                      /\ \E v \in Worker \ {w} : v[2] = w[2] /\ Holds(v)
    BY DEF SkipIsSafe
  <1>1. tx[w].step = "lock" /\ PastEnsure(w) /\ ~ Holds(w)
    BY DEF SkipLockedShard, PastEnsure, Holds, Locking
  <1>2. PICK v \in Worker : v[2] = w[2] /\ Holds(v)
    BY DEF SkipLockedShard, LockFree
  <1>3. v # w /\ PastEnsure(v)
    BY <1>1, <1>2 DEF Holds, Locking, PastEnsure
  <1>4. ~ tx[w].creates
    BY <1>2, <1>3 DEF ChainRowThere
  <1> QED
    BY <1>1, <1>2, <1>3, <1>4 DEF ChainRowThere

\* The early return of SealShard on a locked chain row loses nothing.
THEOREM SkipsAlwaysLocked == Spec => SkipsOnlyLocked
  BY RowThereHolds, SkipStep, PTL DEF Spec, SkipsOnlyLocked

(***************************************************************************)
(* Two statements can wait for another transaction: the INSERT INTO chains *)
(* for an uncommitted row of its shard, and the COPY for uncommitted rows  *)
(* with its external ids.  Nobody who is waited for waits, so no two       *)
(* transactions, and no longer circle of them, can wait for one another:   *)
(* PostgreSQL never finds a deadlock among the sealers.                    *)
(***************************************************************************)
WaitsToInsert(v, w) ==
    v # w /\ tx[v].step = "ensure" /\ v[2] = w[2] /\ tx[w].creates

WaitsToCopy(v, w) ==
    /\ v # w /\ BatchBuilt(tx[v]) /\ Copied(w)
    /\ ExtsOfRows(tx[v].rows) \cap ExtsOfRows(tx[w].rows) # {}

WaitsFor(v, w) == WaitsToInsert(v, w) \/ WaitsToCopy(v, w)

NoWaitChain ==
    \A u, v, w \in Worker : ~ (WaitsFor(u, v) /\ WaitsFor(v, w))

\* No sealer waits for one that waits, so none waits for itself.
THEOREM NeverWaitInChain == Spec => []NoWaitChain
  <1>1. ASSUME CopyNeverCollides, NEW v \in Worker, NEW w \in Worker,
               WaitsToCopy(v, w)
        PROVE  FALSE
    <2>1. tx[v].step = "build" /\ w \in Worker \ {v}
      BY <1>1 DEF WaitsToCopy, BatchBuilt
    <2>2. BlockedByCopy(v)
      BY <1>1, <2>1 DEF WaitsToCopy, BlockedByCopy
    <2> QED
      BY <1>1, <2>1, <2>2 DEF CopyNeverCollides
  <1>2. ASSUME ChainRowThere, NEW u \in Worker, NEW v \in Worker, NEW w \in Worker,
               WaitsToInsert(u, v), WaitsToInsert(v, w)
        PROVE  FALSE
    BY <1>2 DEF ChainRowThere, WaitsToInsert, PastEnsure
  <1>3. ChainRowThere /\ CopyNeverCollides => NoWaitChain
    BY <1>1, <1>2 DEF NoWaitChain, WaitsFor
  <1> QED
    BY <1>3, ChainRowAlwaysThere, CopyAlwaysClear, PTL

-----------------------------------------------------------------------------
(***************************************************************************)
(* The work list of a tick.                                                *)
(***************************************************************************)
LEMMA SubsetOfSize ==
    ASSUME NEW S, IsFiniteSet(S), NEW k \in Nat, k <= Cardinality(S)
    PROVE  \E W \in SUBSET S : IsFiniteSet(W) /\ Cardinality(W) = k
  <1>1. PICK n \in Nat : ExistsBijection(1 .. n, S)
    BY FS_NatBijection
  <1>2. Cardinality(S) = n
    BY <1>1, FS_CountingElements
  <1>3. PICK f : f \in Bijection(1 .. n, S)
    BY <1>1 DEF ExistsBijection
  <1>4. /\ f \in [1 .. n -> S]
        /\ \A i, j \in 1 .. n : f[i] = f[j] => i = j
    BY <1>3 DEF Bijection, Injection, Surjection, IsInjective
  <1> DEFINE W == {f[i] : i \in 1 .. k}
             g == [i \in 1 .. k |-> f[i]]
  <1>5. \A i \in 1 .. k : i \in 1 .. n
    BY <1>2
  <1>6. g \in Bijection(1 .. k, W)
    BY <1>4, <1>5 DEF Bijection, Injection, Surjection, IsInjective
  <1>7. W \in SUBSET S
    BY <1>4, <1>5
  <1> HIDE DEF W, g
  <1>8. ExistsBijection(1 .. k, W)
    BY <1>6 DEF ExistsBijection
  <1>9. IsFiniteSet(W) /\ Cardinality(W) = k
    BY <1>8, FS_CountingElements, FS_NatBijection
  <1> QED
    BY <1>7, <1>9

FewPending == IsFiniteSet(pending)

LEMMA PendingFinite == Spec => []FewPending
  <1>1. Init => FewPending
    BY FS_EmptySet DEF Init, FewPending
  <1>2. FewPending /\ [Next]_vars => FewPending'
    <2> USE DEF FewPending
    <2> SUFFICES ASSUME IsFiniteSet(pending), [Next]_vars
                 PROVE  IsFiniteSet(pending')
      OBVIOUS
    <2>1. ASSUME NEW e \in Event, PendingVisible(e)
          PROVE  IsFiniteSet(pending')
      BY <2>1, FS_AddElement DEF PendingVisible
    <2>2. ASSUME pending' \subseteq pending
          PROVE  IsFiniteSet(pending')
      BY <2>2, FS_Subset
    <2>3. ASSUME NEW w \in Worker, SealShard(w) \/ SealFails(w)
          PROVE  pending' \subseteq pending
      BY <2>3 DEF SealShard, EnsureShardChain, LockShardChain,
         SkipLockedShard, DrainPendingForShard, DrainNothing,
         ExistingExternalEventIDs, DropDuplicate, ChainRow, CommitSeal,
         CommitAllDuplicates, CopyEvents, PublishCheckpoint, SealFails
    <2>4. ASSUME NEW p \in Process,
                 \/ ListShardsWithPending(p) \/ TickIdle(p) \/ Crash(p)
                 \/ \E s \in Shard : BeginSeal(p, s)
          PROVE  pending' = pending
      BY <2>4 DEF ListShardsWithPending, TickIdle, Crash, BeginSeal, vars
    <2>5. ASSUME NEW d \in Event, InsertPendingEvent(d)
          PROVE  pending' = pending
      BY <2>5 DEF InsertPendingEvent
    <2> QED
      BY <2>1, <2>2, <2>3, <2>4, <2>5 DEF Next, vars
  <1> QED
    BY <1>1, <1>2, PTL DEF Spec

(***************************************************************************)
(* A tick that finds rows pending always has a list to work on, of at most *)
(* MaxWork shards, and never an empty one: the cut of the list can choose  *)
(* badly, but it cannot make a tick do nothing (ListShardsWithPending).    *)
(***************************************************************************)
TickFindsWork ==
    pending # {} =>
        /\ \A W \in WorkLists : W # {}
        /\ \E W \in WorkLists : Cardinality(W) <= MaxWork

\* The work list of a tick is empty only if nothing is pending (pending.sql).
THEOREM TickAlwaysFindsWork == Spec => []TickFindsWork
  <1>1. ASSUME ChainInv, SealInv, IsFiniteSet(pending), pending # {}
        PROVE  /\ \A W \in WorkLists : W # {}
               /\ \E W \in WorkLists : Cardinality(W) <= MaxWork
    <2> DEFINE dirty == {s \in Shard : PendingOf(s) # {}}
    <2>1. \A e \in pending : shardOf[e] \in Shard
      <3> TAKE e \in pending
      <3>1. e \in Event /\ shardOf[e] \in ShardChoices(e)
        BY <1>1 DEF SealInv, RowLifecycle, ChainInv, TypeOK
      <3>2. ShardChoices(e) \subseteq Shard
        BY <3>1, SealerAssumption DEF ShardChoices, ShardKey
      <3> QED
        BY <3>1, <3>2
    <2>2. dirty # {}
      BY <1>1, <2>1 DEF PendingOf
    <2>3. IsFiniteSet(dirty)
      <3> DEFINE f == [e \in pending |-> shardOf[e]]
      <3>1. /\ f \in [pending -> dirty]
            /\ \A s \in dirty : \E e \in pending : f[e] = s
        BY <2>1 DEF PendingOf
      <3> HIDE DEF dirty, f
      <3>2. f \in Surjection(pending, dirty)
        BY <3>1 DEF Surjection
      <3> QED
        BY <1>1, <3>2, FS_Surjection
    <2>4. MaxWork \in Nat /\ MaxWork # 0 /\ Cardinality(dirty) \in Nat
      BY <2>3, FS_CardinalityType, SealerAssumption
    <2>5. \A W \in WorkLists : W = dirty \/ Cardinality(W) = MaxWork
      BY DEF WorkLists
    <2>6. \A W \in WorkLists : W # {}
      BY <2>2, <2>4, <2>5, FS_EmptySet
    <2>7. \E W \in WorkLists : Cardinality(W) <= MaxWork
      <3>1. CASE Cardinality(dirty) <= MaxWork
        <4>1. dirty \in WorkLists
          BY DEF WorkLists
        <4> QED
          BY <3>1, <4>1
      <3>2. CASE ~ (Cardinality(dirty) <= MaxWork)
        <4>1. PICK W \in SUBSET dirty : IsFiniteSet(W) /\ Cardinality(W) = MaxWork
          <5>1. MaxWork <= Cardinality(dirty)
            BY <2>4, <3>2
          <5> HIDE DEF dirty
          <5> QED
            BY <2>3, <2>4, <5>1, SubsetOfSize
        <4>2. W \in WorkLists
          BY <3>2, <4>1, <2>4 DEF WorkLists
        <4> QED
          BY <2>4, <4>1, <4>2
      <3> QED
        BY <3>1, <3>2
    <2> QED
      BY <2>6, <2>7
  <1>2. ChainInv /\ SealInv /\ FewPending => TickFindsWork
    BY <1>1 DEF TickFindsWork, FewPending
  <1> QED
    BY <1>2, SealInvHolds, PendingFinite, PTL
=============================================================================
