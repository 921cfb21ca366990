------------------------------- MODULE Sealer -------------------------------
(***************************************************************************)
(* The sealing pipeline of one environment: rows accepted into             *)
(* pending_events are drained, shard by shard, into the hash-chained       *)
(* events journal (server/internal/sealer/sealer.go, the queries it runs   *)
(* and the routing of ingest/accept.go).                                   *)
(*                                                                         *)
(* One action is one SQL statement, or the local computation between two.  *)
(* Every SealShard call is a READ COMMITTED transaction: what it wrote is  *)
(* kept in its own record of `tx` and reaches the tables when it commits;  *)
(* an error or a crash drops the record, which is the rollback.            *)
(***************************************************************************)
EXTENDS Chain, SequencesExt

CONSTANTS
    Event,          \* ids of the requests accepted (the uuids of their rows)
    Ext,            \* external event ids
    Actor,          \* actor ids
    ExtOf,          \* the external id of an event, or Nil
    ActorOf,        \* the actor id of an event, or Nil
    PayloadOf,      \* the payload hash of an event
    Shard,          \* the shards of the environment
    IndexFor,       \* the shard a routing key hashes to
    Process,        \* sealer processes
    BatchSize,      \* rows drained by one transaction
    MaxWork,        \* shards on the work list of one tick
    Concurrency,    \* shards sealed in parallel by one process
    Anchoring,      \* processes with an external Anchorer
    MaxFailures     \* bound: errors and crashes in a behaviour

ASSUME SealerAssumption ==
    /\ Nil \notin Ext /\ Nil \notin Actor /\ Nil \notin Shard
    /\ ExtOf \in [Event -> Ext \cup {Nil}]
    /\ ActorOf \in [Event -> Actor \cup {Nil}]
    /\ PayloadOf \in [Event -> Payload]
    /\ IndexFor \in [Ext \cup Actor -> Shard]
    /\ BatchSize \in Nat \ {0}
    /\ MaxWork \in Nat \ {0}
    /\ Concurrency \in Nat \ {0}
    /\ Anchoring \subseteq Process
    /\ MaxFailures \in Nat

VARIABLES
    \* The accept path, seen from the database.
    clock,          \* the database's now(), in INSERTs begun
    acceptedAt,     \* accepted_at of a row, 0 before its INSERT begins
    shardOf,        \* shard_index of a row, Nil before its INSERT begins
    inserting,      \* rows whose INSERT has begun and is not visible yet
    pending,        \* the visible rows of pending_events
    ackedBefore,    \* history: rows acknowledged before this one's INSERT
    \* The tables the sealer writes.
    chainRows,      \* shards with a committed row in chains
    chains,         \* latest_position and latest_event_hash of that row
    journal,        \* the rows of events
    checkpoints,    \* the rows of chain_checkpoints
    anchored,       \* checkpoints published to the external anchor
    \* The sealer processes.
    todo,           \* the rest of the work list of the current tick
    tx,             \* the transaction of each goroutine
    failures        \* errors and crashes so far

acceptVars == <<clock, acceptedAt, shardOf, inserting, ackedBefore>>
tableVars  == <<chainRows, chains, journal, checkpoints>>
vars == <<acceptVars, pending, tableVars, anchored, todo, tx, failures>>

-----------------------------------------------------------------------------
Tip == [pos: Nat, hash: Hash]

\* A row of events.  previous_event_hash is NULL exactly when it is Genesis.
Row == [id: Event, shard: Shard, pos: Nat, payload: Payload,
        prev: Hash, hash: Hash]

Checkpoint == [shard: Shard, from: Nat, to: Nat, root: Hash, count: Nat]

Anchor == [shard: Shard, to: Nat, root: Hash]

\* A goroutine of a process seals one shard of the process's work list.
Worker == Process \X Shard

Step == {"idle", "ensure", "lock", "drain", "lookup", "build", "anchor",
         "commit"}

Tx == [step: Step,           \* the next statement
       creates: BOOLEAN,     \* its INSERT INTO chains is uncommitted
       tip: Tip,             \* the chain row as it was locked
       batch: Seq(Event),    \* the rows drained
       next: Nat \ {0},      \* the row of the batch to build next
       taken: SUBSET Ext,    \* external ids sealed, or kept in this batch
       rows: Seq(Row)]       \* the rows built for COPY

\* Mutant: the column default of latest_position is one off.
EmptyTipOffByOne == [pos |-> -1, hash |-> Genesis]

EmptyTip == [pos |-> 0, hash |-> Genesis]

NoTx == [step |-> "idle", creates |-> FALSE, tip |-> EmptyTip, batch |-> << >>,
         next |-> 1, taken |-> {}, rows |-> << >>]

-----------------------------------------------------------------------------
\* Mutant: the actor routes first, as shard.go documents it.
ShardKeyActorFirst(e) == IF ActorOf[e] # Nil THEN ActorOf[e] ELSE ExtOf[e]

\* Events with an external id are routed by it, others by their actor, and
\* events with neither to a random shard.
ShardKey(e) == IF ExtOf[e] # Nil THEN ExtOf[e] ELSE ActorOf[e]

ShardChoices(e) == IF ShardKey(e) = Nil THEN Shard ELSE {IndexFor[ShardKey(e)]}

\* Mutant: a query that forgets its shard_index condition.
PendingOfAnyShard(s) == {e \in pending : shardOf[e] \in Shard}

PendingOf(s) == {e \in pending : shardOf[e] = s}

SealedIds == {r.id : r \in journal}

\* The external ids of the environment's journal.
SealedExts == {ExtOf[r.id] : r \in journal} \ {Nil}

RowsOf(s) == {r \in journal : r.shard = s}

\* A row whose accept was acknowledged to the client.
Acked == {e \in Event : acceptedAt[e] # 0 /\ e \notin inserting}

\* The goroutine has been given a shard and its transaction is open.
Active(w) == tx[w].step # "idle"

\* The goroutine holds the FOR UPDATE lock on its shard's chain row.
Locking == {"drain", "lookup", "build", "anchor", "commit"}

Holds(w) == tx[w].step \in Locking

\* The goroutine's COPY has run, uncommitted.
Copied(w) == tx[w].step \in {"anchor", "commit"}

ExtsOfRows(rows) == {ExtOf[rows[i].id] : i \in DOMAIN rows} \ {Nil}

-----------------------------------------------------------------------------
Init ==
    /\ clock = 0
    /\ acceptedAt = [e \in Event |-> 0]
    /\ shardOf = [e \in Event |-> Nil]
    /\ inserting = {}
    /\ pending = {}
    /\ ackedBefore = [e \in Event |-> {}]
    /\ chainRows = {}
    /\ chains = [s \in Shard |-> EmptyTip]
    /\ journal = {}
    /\ checkpoints = {}
    /\ anchored = {}
    /\ todo = [p \in Process |-> {}]
    /\ tx = [w \in Worker |-> NoTx]
    /\ failures = 0

-----------------------------------------------------------------------------
(***************************************************************************)
(* Accept, as far as the database sees it: one autocommitted INSERT of the *)
(* pending row.  accepted_at is DEFAULT now(), the time the statement      *)
(* starts, so rows may become visible in another order than accepted_at.   *)
(* Every INSERT that begins is one tick of the clock.                      *)
(***************************************************************************)
InsertPendingEvent(e) ==
    /\ acceptedAt[e] = 0
    /\ \E s \in ShardChoices(e) : shardOf' = [shardOf EXCEPT ![e] = s]
    /\ clock' = clock + 1
    /\ acceptedAt' = [acceptedAt EXCEPT ![e] = clock + 1]
    /\ inserting' = inserting \cup {e}
    /\ ackedBefore' = [ackedBefore EXCEPT ![e] = Acked]
    /\ UNCHANGED <<pending, tableVars, anchored, todo, tx, failures>>

PendingVisible(e) ==
    /\ e \in inserting
    /\ inserting' = inserting \ {e}
    /\ pending' = pending \cup {e}
    /\ UNCHANGED <<clock, acceptedAt, shardOf, ackedBefore, tableVars, anchored,
                   todo, tx, failures>>

-----------------------------------------------------------------------------
(***************************************************************************)
(* A tick: list the shards with pending rows, seal each in a goroutine,    *)
(* never more than Concurrency at a time, and wait for all of them.  The   *)
(* list is a snapshot: a shard on it may be empty when it is sealed.       *)
(***************************************************************************)
Idle(p) == todo[p] = {} /\ \A s \in Shard : ~ Active(<<p, s>>)

\* SELECT DISTINCT ... LIMIT MaxWork, in no particular order.
WorkLists ==
    LET dirty == {s \in Shard : PendingOf(s) # {}}
    IN  {W \in SUBSET dirty :
            W = dirty \/ (W # dirty /\ Cardinality(W) = MaxWork)}

ListShardsWithPending(p) ==
    /\ Idle(p)
    /\ pending # {}
    /\ \E W \in WorkLists :
          /\ Cardinality(W) <= MaxWork
          /\ todo' = [todo EXCEPT ![p] = W]
    /\ UNCHANGED <<acceptVars, pending, tableVars, anchored, tx, failures>>

\* Nothing is pending: the tick returns and the next one looks again.
TickIdle(p) ==
    /\ Idle(p)
    /\ pending = {}
    /\ UNCHANGED vars

SemaphoreFree(p) ==
    Cardinality({s \in Shard : Active(<<p, s>>)}) < Concurrency

BeginSeal(p, s) ==
    /\ s \in todo[p]
    /\ SemaphoreFree(p)
    /\ todo' = [todo EXCEPT ![p] = @ \ {s}]
    /\ tx' = [tx EXCEPT ![<<p, s>>] = [NoTx EXCEPT !.step = "ensure"]]
    /\ UNCHANGED <<acceptVars, pending, tableVars, anchored, failures>>

-----------------------------------------------------------------------------
(***************************************************************************)
(* SealShard, statement by statement.  w = <<p, s>> seals shard s.         *)
(***************************************************************************)

\* INSERT ... ON CONFLICT DO NOTHING: waits for the outcome of another
\* transaction's uncommitted insert of the same key, and inserts only if no
\* committed row is there.
EnsureShardChain(w) ==
    LET s == w[2] IN
    /\ tx[w].step = "ensure"
    /\ \A v \in Worker : v[2] = s => ~ tx[v].creates
    /\ tx' = [tx EXCEPT ![w].step = "lock", ![w].creates = s \notin chainRows]
    /\ UNCHANGED <<acceptVars, pending, tableVars, anchored, todo, failures>>

\* Mutant: a plain SELECT, without FOR UPDATE SKIP LOCKED.
LockFreeAlways(w) == w \in Worker

\* The FOR UPDATE lock of the shard's chain row is free.
LockFree(w) == \A v \in Worker : v[2] = w[2] => ~ Holds(v)

\* SELECT ... FOR UPDATE SKIP LOCKED returns the latest row version.
LockShardChain(w) ==
    LET s == w[2] IN
    /\ tx[w].step = "lock"
    /\ LockFree(w)
    /\ tx' = [tx EXCEPT ![w].step = "drain", ![w].tip = chains[s]]
    /\ UNCHANGED <<acceptVars, pending, tableVars, anchored, todo, failures>>

\* The row is locked by another sealer: commit the empty transaction.
SkipLockedShard(w) ==
    /\ tx[w].step = "lock"
    /\ ~ LockFree(w)
    /\ tx' = [tx EXCEPT ![w] = NoTx]
    /\ UNCHANGED <<acceptVars, pending, tableVars, anchored, todo, failures>>

\* ORDER BY accepted_at LIMIT BatchSize: b is in order, and every row left
\* out comes after a full batch.
InDrainOrder(b) ==
    \A i, j \in DOMAIN b : i < j => acceptedAt[b[i]] < acceptedAt[b[j]]

\* Mutant: the query has lost its ORDER BY.
AnyOf(b, rows) ==
    /\ \A i, j \in DOMAIN b : i # j => b[i] # b[j]
    /\ rows \ ToSet(b) # {} => Len(b) = BatchSize

OldestOf(b, rows) ==
    /\ InDrainOrder(b)
    /\ \A e \in rows \ ToSet(b) :
          /\ Len(b) = BatchSize
          /\ \A i \in DOMAIN b : acceptedAt[b[i]] < acceptedAt[e]

DrainPendingForShard(w) ==
    LET s == w[2] IN
    /\ tx[w].step = "drain"
    /\ \E n \in 1 .. BatchSize : \E b \in [1 .. n -> PendingOf(s)] :
          /\ OldestOf(b, PendingOf(s))
          /\ tx' = [tx EXCEPT ![w].step = "lookup", ![w].batch = b]
    /\ UNCHANGED <<acceptVars, pending, tableVars, anchored, todo, failures>>

\* Nothing to drain: commit, which keeps a chain row this call created.
DrainNothing(w) ==
    LET s == w[2] IN
    /\ tx[w].step = "drain"
    /\ PendingOf(s) = {}
    /\ chainRows' = chainRows \cup {s}
    /\ tx' = [tx EXCEPT ![w] = NoTx]
    /\ UNCHANGED <<acceptVars, pending, chains, journal, checkpoints, anchored,
                   todo, failures>>

\* Which of the batch's external ids the journal already holds.
ExistingExternalEventIDs(w) ==
    /\ tx[w].step = "lookup"
    /\ tx' = [tx EXCEPT ![w].step = "build",
                        ![w].taken = SealedExts \cap
                            {ExtOf[e] : e \in ToSet(tx[w].batch)}]
    /\ UNCHANGED <<acceptVars, pending, tableVars, anchored, todo, failures>>


-----------------------------------------------------------------------------
(***************************************************************************)
(* The batch, row by row.  The code first walks it to decide which rows to *)
(* keep and then walks the kept rows to chain them; both walks are local,  *)
(* so the model takes a row through both at once.                          *)
(***************************************************************************)
IsDuplicate(t, e) == ExtOf[e] \in t.taken

\* Mutant: the kept external ids are not remembered.
TakenByNone(e) == {}

\* The external id a kept row adds to seenInBatch.
TakenBy(e) == {ExtOf[e]} \ {Nil}

NextPosition(t) == t.tip.pos + Len(t.rows) + 1

\* Mutant: prevHash is not carried from row to row.
PrevHashOfTip(t) == t.tip.hash

PrevHash(t) == IF t.rows = << >> THEN t.tip.hash ELSE t.rows[Len(t.rows)].hash

EventRow(t, e, s) ==
    [id |-> e, shard |-> s, pos |-> NextPosition(t), payload |-> PayloadOf[e],
     prev |-> PrevHash(t),
     hash |-> EventHash(PrevHash(t), PayloadOf[e], NextPosition(t))]

MoreRows(t) == t.step = "build" /\ t.next <= Len(t.batch)

\* A row whose external id is sealed, or kept earlier in the batch, is
\* dropped from the COPY; its pending row is deleted with the others.
DropDuplicate(w) ==
    LET t == tx[w] IN
    /\ MoreRows(t)
    /\ IsDuplicate(t, t.batch[t.next])
    /\ tx' = [tx EXCEPT ![w].next = @ + 1]
    /\ UNCHANGED <<acceptVars, pending, tableVars, anchored, todo, failures>>

ChainRow(w) ==
    LET t == tx[w]
        e == t.batch[t.next]
    IN
    /\ MoreRows(t)
    /\ ~ IsDuplicate(t, e)
    /\ tx' = [tx EXCEPT ![w].next = @ + 1,
                        ![w].taken = @ \cup TakenBy(e),
                        ![w].rows = Append(@, EventRow(t, e, w[2]))]
    /\ UNCHANGED <<acceptVars, pending, tableVars, anchored, todo, failures>>

BatchBuilt(t) == t.step = "build" /\ t.next > Len(t.batch)

\* Mutant: only the dropped rows are deleted.
DroppedRows(t) == ToSet(t.batch) \ {t.rows[i].id : i \in DOMAIN t.rows}

\* Every drained row, kept or dropped.
DrainedRows(t) == ToSet(t.batch)

\* Everything was a duplicate: delete the drained rows and commit.
CommitAllDuplicates(w) ==
    LET t == tx[w] IN
    /\ BatchBuilt(t)
    /\ t.rows = << >>
    /\ pending' = pending \ DrainedRows(t)
    /\ chainRows' = chainRows \cup {w[2]}
    /\ tx' = [tx EXCEPT ![w] = NoTx]
    /\ UNCHANGED <<acceptVars, chains, journal, checkpoints, anchored, todo,
                   failures>>

-----------------------------------------------------------------------------
(***************************************************************************)
(* COPY into events, the tip update and the checkpoint, all uncommitted.   *)
(* The unique index on (environment, external id) makes the COPY wait for  *)
(* another transaction's uncommitted copy of the same external id, and     *)
(* fail, with the whole batch, on a committed one or on a repetition.      *)
(***************************************************************************)
BlockedByCopy(w) ==
    \E v \in Worker \ {w} :
        /\ Copied(v)
        /\ ExtsOfRows(tx[v].rows) \cap ExtsOfRows(tx[w].rows) # {}

UniqueViolation(w) ==
    LET rows == tx[w].rows IN
    \/ ExtsOfRows(rows) \cap SealedExts # {}
    \/ \E i, j \in DOMAIN rows : /\ i # j
                                 /\ ExtOf[rows[i].id] # Nil
                                 /\ ExtOf[rows[i].id] = ExtOf[rows[j].id]

CopyEvents(w) ==
    LET t == tx[w] IN
    /\ BatchBuilt(t)
    /\ t.rows # << >>
    /\ ~ BlockedByCopy(w)
    /\ tx' = [tx EXCEPT ![w] = IF UniqueViolation(w)
                               THEN NoTx
                               ELSE [t EXCEPT !.step = "anchor"]]
    /\ UNCHANGED <<acceptVars, pending, tableVars, anchored, todo, failures>>

NewTip(t) == [pos |-> NextPosition(t) - 1, hash |-> PrevHash(t)]

\* Mutant: the range starts at the tip before the batch.
CheckpointFromOldTip(t, s) ==
    [shard |-> s, from |-> t.tip.pos, to |-> NewTip(t).pos,
     root |-> NewTip(t).hash, count |-> Len(t.rows)]

NewCheckpoint(t, s) ==
    [shard |-> s, from |-> t.tip.pos + 1, to |-> NewTip(t).pos,
     root |-> NewTip(t).hash, count |-> Len(t.rows)]

\* Mutant: the hash published is the one of the tip that was locked.
LockedHead(t, s) == [shard |-> s, to |-> NewTip(t).pos, root |-> t.tip.hash]

NewHead(t, s) == [shard |-> s, to |-> NewTip(t).pos, root |-> NewTip(t).hash]

\* Anchorer.PublishCheckpoint, when the process has one, is best effort: it
\* may publish the new head or fail unnoticed.
PublishCheckpoint(w) ==
    LET t == tx[w] IN
    /\ t.step = "anchor"
    /\ tx' = [tx EXCEPT ![w].step = "commit"]
    /\ \/ /\ w[1] \in Anchoring
          /\ anchored' = anchored \cup {NewHead(t, w[2])}
       \/ anchored' = anchored
    /\ UNCHANGED <<acceptVars, pending, tableVars, todo, failures>>

\* DELETE of the drained rows, then COMMIT: everything becomes visible.
CommitSeal(w) ==
    LET t == tx[w]
        s == w[2]
    IN
    /\ t.step = "commit"
    /\ journal' = journal \cup ToSet(t.rows)
    /\ chainRows' = chainRows \cup {s}
    /\ chains' = [chains EXCEPT ![s] = NewTip(t)]
    /\ checkpoints' = checkpoints \cup {NewCheckpoint(t, s)}
    /\ pending' = pending \ DrainedRows(t)
    /\ tx' = [tx EXCEPT ![w] = NoTx]
    /\ UNCHANGED <<acceptVars, anchored, todo, failures>>

-----------------------------------------------------------------------------
\* A statement fails: SealShard returns and its transaction rolls back.
SealFails(w) ==
    /\ Active(w)
    /\ failures < MaxFailures
    /\ failures' = failures + 1
    /\ tx' = [tx EXCEPT ![w] = NoTx]
    /\ UNCHANGED <<acceptVars, pending, tableVars, anchored, todo>>

\* A sealer process dies, or is shut down, and restarts: its open
\* transactions roll back and its work list is gone.
Crash(p) ==
    /\ ~ Idle(p)
    /\ failures < MaxFailures
    /\ failures' = failures + 1
    /\ todo' = [todo EXCEPT ![p] = {}]
    /\ tx' = [w \in Worker |-> IF w[1] = p THEN NoTx ELSE tx[w]]
    /\ UNCHANGED <<acceptVars, pending, tableVars, anchored>>

-----------------------------------------------------------------------------
SealShard(w) ==
    \/ EnsureShardChain(w)
    \/ LockShardChain(w)
    \/ SkipLockedShard(w)
    \/ DrainPendingForShard(w)
    \/ DrainNothing(w)
    \/ ExistingExternalEventIDs(w)
    \/ DropDuplicate(w)
    \/ ChainRow(w)
    \/ CommitAllDuplicates(w)
    \/ CopyEvents(w)
    \/ PublishCheckpoint(w)
    \/ CommitSeal(w)

Next ==
    \/ \E e \in Event : InsertPendingEvent(e) \/ PendingVisible(e)
    \/ \E p \in Process : ListShardsWithPending(p) \/ TickIdle(p)
    \/ \E p \in Process, s \in Shard : BeginSeal(p, s)
    \/ \E w \in Worker : SealShard(w)
    \/ \E w \in Worker : SealFails(w)
    \/ \E p \in Process : Crash(p)

Spec == Init /\ [][Next]_vars

(***************************************************************************)
(* A started INSERT finishes, every process keeps ticking and every        *)
(* goroutine runs on; requests need not come, and errors are bounded.      *)
(***************************************************************************)
Fairness ==
    /\ \A e \in Event : WF_vars(PendingVisible(e))
    /\ \A p \in Process : /\ WF_vars(ListShardsWithPending(p))
                          /\ WF_vars(\E s \in Shard : BeginSeal(p, s))
    /\ \A w \in Worker : WF_vars(SealShard(w))

FairSpec == Spec /\ Fairness

-----------------------------------------------------------------------------
(***************************************************************************)
(* Properties                                                              *)
(***************************************************************************)
TypeOK ==
    /\ clock \in Nat
    /\ acceptedAt \in [Event -> Nat]
    /\ shardOf \in [Event -> Shard \cup {Nil}]
    /\ inserting \subseteq Event
    /\ pending \subseteq Event
    /\ ackedBefore \in [Event -> SUBSET Event]
    /\ chainRows \subseteq Shard
    /\ chains \in [Shard -> Tip]
    /\ journal \subseteq Row
    /\ checkpoints \subseteq Checkpoint
    /\ anchored \subseteq Anchor
    /\ todo \in [Process -> SUBSET Shard]
    /\ tx \in [Worker -> Tx]
    /\ failures \in 0 .. MaxFailures

(***************************************************************************)
(* The chain of every shard is intact: its rows stand at the positions 1   *)
(* to latest_position, one each, every row's hash is chained to the row    *)
(* before it, and latest_event_hash is the hash of the last row.  There is *)
(* no unique index on (chain_id, chain_position): only the chain row's     *)
(* lock stands between two sealers and two rows at one position.           *)
(***************************************************************************)
ChainPositions(s) ==
    /\ \A r \in RowsOf(s) : r.pos \in 1 .. chains[s].pos
    /\ \A i \in 1 .. chains[s].pos : \E r \in RowsOf(s) : r.pos = i
    /\ \A q, r \in RowsOf(s) : q.pos = r.pos => q = r

ChainLinks(s) ==
    \A r \in RowsOf(s) :
        /\ r.hash = EventHash(r.prev, r.payload, r.pos)
        /\ r.pos = 1 => r.prev = Genesis
        /\ \A q \in RowsOf(s) : r.pos = q.pos + 1 => r.prev = q.hash

ChainTip(s) ==
    /\ chains[s].pos = 0 => chains[s].hash = Genesis
    /\ \A r \in RowsOf(s) : r.pos = chains[s].pos => r.hash = chains[s].hash

ChainIntact ==
    \A s \in Shard : ChainPositions(s) /\ ChainLinks(s) /\ ChainTip(s)

(***************************************************************************)
(* Why ChainIntact holds, as an invariant that implies itself: at most one *)
(* goroutine holds a shard's chain row, so the tip it read under the lock  *)
(* is still the chain's tip, and the rows it builds continue that tip, in  *)
(* every state up to its commit.                                           *)
(***************************************************************************)
OneSealer ==
    \A v, w \in Worker : v[2] = w[2] /\ Holds(v) /\ Holds(w) => v = w

TipCurrent == \A w \in Worker : Holds(w) => tx[w].tip = chains[w[2]]

RowContinues(t, s, i) ==
    LET r == t.rows[i] IN
    /\ r.shard = s
    /\ r.pos = t.tip.pos + i
    /\ r.prev = IF i = 1 THEN t.tip.hash ELSE t.rows[i - 1].hash
    /\ r.hash = EventHash(r.prev, r.payload, r.pos)

RowsContinue(t, s) ==
    /\ t.step \notin {"build", "anchor", "commit"} => t.rows = << >>
    /\ t.step \in {"anchor", "commit"} => t.rows # << >>
    /\ \A i \in 1 .. Len(t.rows) : RowContinues(t, s, i)

RowsContinueTip == \A w \in Worker : RowsContinue(tx[w], w[2])

ChainInv ==
    TypeOK /\ OneSealer /\ TipCurrent /\ RowsContinueTip /\ ChainIntact

(***************************************************************************)
(* The journal, read in chain order and handed to VerifyChain, verifies,   *)
(* and so does each of its rows by itself: what the sealer writes is what  *)
(* core/verify.go accepts.                                                 *)
(***************************************************************************)
RecordOf(r) ==
    [prev |-> IF r.prev = Genesis THEN Nil ELSE r.prev, payload |-> r.payload,
     hash |-> r.hash, pos |-> r.pos, content |-> PayloadOf[r.id]]

\* ORDER BY chain_position.
InWalkOrder(walk) ==
    \A i, j \in DOMAIN walk : i < j => walk[i].pos <= walk[j].pos

WalkChain(s) ==
    CHOOSE walk \in [1 .. Cardinality(RowsOf(s)) -> RowsOf(s)] :
        IsInjective(walk) /\ InWalkOrder(walk)

JournalVerifies ==
    \A s \in Shard :
        LET walk    == WalkChain(s)
            records == [i \in DOMAIN walk |-> RecordOf(walk[i])]
        IN  /\ VerifyChain(records).valid
            /\ \A i \in DOMAIN records : VerifyEvent(records[i])

(***************************************************************************)
(* Nothing accepted is lost: a row acknowledged to a client is pending, or *)
(* in the journal, or was dropped as a duplicate and another event with    *)
(* its external id is in the journal.                                      *)
(***************************************************************************)
Represented(e) ==
    \E r \in journal : r.id = e \/ (ExtOf[e] # Nil /\ ExtOf[r.id] = ExtOf[e])

NothingLost == \A e \in Acked : e \in pending \/ Represented(e)

(***************************************************************************)
(* No event is sealed twice: a row is at one place of one chain, and it is *)
(* never pending and sealed at once, so no later batch can seal it again.  *)
(***************************************************************************)
SealedOnce ==
    /\ \A q, r \in journal : q.id = r.id => q = r
    /\ pending \cap SealedIds = {}

(***************************************************************************)
(* Exactly once: what is acknowledged comes out of the pipeline, or is     *)
(* represented by an event with its external id, and never comes out twice *)
(* although sealers stop in the middle of batches that others seal again.  *)
(***************************************************************************)
ExactlyOnce == NothingLost /\ SealedOnce

(***************************************************************************)
(* The COPY never meets the unique index: by the time a batch is built no  *)
(* external id of it is in the journal, in the batch twice, or in another  *)
(* open transaction's rows.  A collision would fail the whole batch, and   *)
(* fail it again on every later tick (sealer.go, "wedges forever").        *)
(***************************************************************************)
CopyNeverCollides ==
    \A w \in Worker :
        tx[w].step = "build" => ~ UniqueViolation(w) /\ ~ BlockedByCopy(w)

(***************************************************************************)
(* Why nothing is lost, sealed twice or colliding, as an invariant that,   *)
(* with ChainInv, implies itself.  The life of a row: inserting, pending,  *)
(* then sealed or dropped, on the shard its routing key chose.             *)
(***************************************************************************)
RowLifecycle ==
    /\ inserting \cap pending = {}
    /\ inserting \cap SealedIds = {}
    /\ \A e \in inserting \cup pending \cup SealedIds : acceptedAt[e] # 0
    /\ \A e \in Event : acceptedAt[e] # 0 => shardOf[e] \in ShardChoices(e)
    /\ \A r \in journal : r.shard = shardOf[r.id]

\* What a transaction has drained is still pending, and on its shard; the
\* rows built so far come from it, one each, with fresh external ids; and
\* every row it has passed over is represented by a sealed or a built row.
BatchDrained(t, s) ==
    /\ t.step \notin {"lookup", "build", "anchor", "commit"} => t.batch = << >>
    /\ t.step \notin {"build", "anchor", "commit"} => t.next = 1
    /\ t.step \in {"anchor", "commit"} => t.next > Len(t.batch)
    /\ ToSet(t.batch) \subseteq PendingOf(s)
    /\ \A i, j \in 1 .. Len(t.batch) : t.batch[i] = t.batch[j] => i = j

RowsFromBatch(t) ==
    /\ \A i \in 1 .. Len(t.rows) :
          \E j \in 1 .. Len(t.batch) : j < t.next /\ t.rows[i].id = t.batch[j]
    /\ \A i, j \in 1 .. Len(t.rows) : t.rows[i].id = t.rows[j].id => i = j

RowsFresh(t) ==
    /\ \A i, j \in 1 .. Len(t.rows) :
          /\ ExtOf[t.rows[i].id] # Nil
          /\ ExtOf[t.rows[i].id] = ExtOf[t.rows[j].id]
          => i = j
    /\ ExtsOfRows(t.rows) \subseteq t.taken
    /\ ExtsOfRows(t.rows) \cap SealedExts = {}
    /\ t.step = "build" =>
          \A e \in ToSet(t.batch) : ExtOf[e] \in SealedExts => ExtOf[e] \in t.taken

PassedRepresented(t) ==
    /\ t.taken \subseteq SealedExts \cup ExtsOfRows(t.rows)
    /\ \A j \in 1 .. Len(t.batch) : j < t.next =>
          \/ \E i \in 1 .. Len(t.rows) : t.rows[i].id = t.batch[j]
          \/ ExtOf[t.batch[j]] \in SealedExts \cup ExtsOfRows(t.rows)

BatchSound(t, s) ==
    /\ BatchDrained(t, s)
    /\ RowsFromBatch(t)
    /\ RowsFresh(t)
    /\ PassedRepresented(t)

BatchesSound == \A w \in Worker : BatchSound(tx[w], w[2])

SealInv == RowLifecycle /\ BatchesSound /\ SealedOnce /\ NothingLost

(***************************************************************************)
(* The checkpoints of a chain tile it: each names the hash its last row    *)
(* has in the journal, counts the rows it spans, and their ranges cover    *)
(* every position up to the tip exactly once.                              *)
(***************************************************************************)
CheckpointsOf(s) == {c \in checkpoints : c.shard = s}

CheckpointsTile ==
    \A s \in Shard :
        /\ \A c \in CheckpointsOf(s) :
              /\ c.count = c.to - c.from + 1
              /\ \E r \in RowsOf(s) : r.pos = c.to /\ r.hash = c.root
        /\ \A i \in 1 .. chains[s].pos :
              Cardinality({c \in CheckpointsOf(s) : i \in c.from .. c.to}) = 1
        /\ \A c \in CheckpointsOf(s) : c.from >= 1 /\ c.to <= chains[s].pos

(***************************************************************************)
(* Order is kept: when a client had the answer for d before it sent e and  *)
(* both went to one shard, d is never after e in the chain, and is not     *)
(* still pending when e is sealed -- whatever batches, failures and other  *)
(* sealers came between.  Rows of one actor without external ids are the   *)
(* case the router means ("intra-actor ordering").                         *)
(***************************************************************************)
AcceptOrderKept ==
    \A r \in journal : \A d \in ackedBefore[r.id] :
        shardOf[d] = r.shard =>
            /\ d \notin pending
            /\ \A q \in journal : q.id = d => q.pos < r.pos

(***************************************************************************)
(* Every accepted row leaves pending_events: sealed, or dropped as a       *)
(* duplicate of an event that is.                                          *)
(***************************************************************************)
EventuallySealed ==
    \A e \in Event : (e \in pending) ~> (e \notin pending /\ Represented(e))

(***************************************************************************)
(* The pipeline implements the abstract journal: a row is accepted when    *)
(* its INSERT is visible, and the log of a shard is its rows by position.  *)
(* Every commit is one atomic Settle, everything else changes nothing the  *)
(* abstract journal sees.                                                  *)
(***************************************************************************)
LogOf(s) ==
    [i \in 1 .. chains[s].pos |->
        (CHOOSE r \in journal : r.shard = s /\ r.pos = i).id]

Abstract == INSTANCE Journal WITH
    accepted <- Acked,
    waiting  <- pending,
    log      <- [s \in Shard |-> LogOf(s)]

ImplementsJournal == Abstract!Spec

(***************************************************************************)
(* A head handed to the external anchor is proof that the chain reached it *)
(* (chains.sql 30-32), but it is published before the commit: what keeps a *)
(* published head out of the journal is an error or a crash of the         *)
(* transaction that published it, and nothing else.  A failure ends one    *)
(* transaction, a crash as many as its process runs.                       *)
(***************************************************************************)
Sealing(h) ==
    \E w \in Worker : tx[w].step = "commit" /\ NewHead(tx[w], w[2]) = h

Reached(h) == \E r \in RowsOf(h.shard) : r.pos = h.to /\ r.hash = h.root

AnchoredUnlessFailed ==
    Cardinality({h \in anchored : ~ Sealing(h) /\ ~ Reached(h)})
        <= failures * Concurrency

=============================================================================
