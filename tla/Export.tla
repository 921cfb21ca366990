------------------------------- MODULE Export -------------------------------
(***************************************************************************)
(* Evidence exports: workers take the oldest export in processing, build a *)
(* bundle of the events of its period and of the chains' heads, and store  *)
(* it (server/internal/workers/generate_export.go); whoever receives the   *)
(* bundle verifies it offline (cmd/verify).                                *)
(*                                                                         *)
(* processOne is one READ COMMITTED transaction, one action a statement:   *)
(* its two reads see different states of the pipeline, represented by      *)
(* Journal.  An error of a statement aborts the transaction, in which no   *)
(* later statement has an effect.                                          *)
(***************************************************************************)
EXTENDS JournalRows

CONSTANTS
    Ext, ExtOf, Shard,          \* as in Journal
    Job,                        \* exports
    InPeriod,                   \* the events received in an export's period
    Worker,
    MaxFailures                 \* bound: errors and crashes

\* What a bundle holds.  Its member "then" is history: the chains when the
\* events were read.
Bundle == [events: [Shard -> Seq(EventRow)],
           then: [Shard -> Seq(Event)],
           tips: [Shard -> [pos: Nat, hash: Hash \cup {Nil}]]]

ASSUME ExportAssumption ==
    /\ Nil \notin Event /\ Nil \notin Job /\ Nil \notin Bundle
    /\ PayloadOf \in [Event -> Payload]
    /\ InPeriod \in [Job -> SUBSET Event]
    /\ MaxFailures \in Nat

VARIABLES
    accepted, waiting, log,     \* the pipeline, as in Journal
    queue,          \* the exports requested, by created_at
    status,         \* evidence_exports.status
    bundle,         \* evidence_exports.bundle, or Nil
    tx,             \* the transaction of a worker
    notBuilt,       \* history: exports whose build has returned an error
    failures

J == INSTANCE Journal

pipeline == <<accepted, waiting, log>>
vars == <<pipeline, queue, status, bundle, tx, notBuilt, failures>>

-----------------------------------------------------------------------------
Tx(step, job, b) == [step |-> step, job |-> job, bundle |-> b]

NoTx == Tx("idle", Nil, Nil)

Active(w) == tx[w].step # "idle"

\* Mutant: a plain SELECT, without FOR UPDATE SKIP LOCKED.
UnlockedAlways(j) == j \in Job

Unlocked(j) == \A w \in Worker : tx[w].job # j

\* Mutant: the WHERE clause is lost.
AnyStatus(j) == status[j] \in {"processing", "completed", "failed"}

Processing(j) == status[j] = "processing"

Claimable == {i \in DOMAIN queue : Processing(queue[i]) /\ Unlocked(queue[i])}

\* The positions of a chain whose events are in the period.
Picked(l, j) == {i \in DOMAIN l : l[i] \in InPeriod[j]}

\* ORDER BY: the one sequence of the members of P that increases.
Increasing(P) ==
    {f \in [1 .. Cardinality(P) -> P] : \A a, b \in DOMAIN f : a < b => f[a] < f[b]}

\* The events of the period, as rows by chain and position.
EventsForExport(j) ==
    [s \in Shard |->
        LET picked == CHOOSE f \in Increasing(Picked(log[s], j)) : TRUE
        IN  [k \in DOMAIN picked |-> EventAt(log[s], picked[k])]]

Init ==
    /\ J!Init
    /\ queue = << >>
    /\ status = [j \in Job |-> "none"]
    /\ bundle = [j \in Job |-> Nil]
    /\ tx = [w \in Worker |-> NoTx]
    /\ notBuilt = {}
    /\ failures = 0

-----------------------------------------------------------------------------
\* An export is requested: a row in processing, the column's default.
RequestExport(j) ==
    /\ status[j] = "none"
    /\ status' = [status EXCEPT ![j] = "processing"]
    /\ queue' = Append(queue, j)
    /\ UNCHANGED <<pipeline, bundle, tx, notBuilt, failures>>

\* ORDER BY created_at FOR UPDATE SKIP LOCKED LIMIT 1.
ClaimPendingExport(w) ==
    /\ ~ Active(w)
    /\ Claimable # {}
    /\ tx' = [tx EXCEPT ![w] = Tx("events", queue[Min(Claimable)], Nil)]
    /\ UNCHANGED <<pipeline, queue, status, bundle, notBuilt, failures>>

ListEventsForExport(w) ==
    /\ tx[w].step = "events"
    /\ LET b == [events |-> EventsForExport(tx[w].job), then |-> log]
       IN  tx' = [tx EXCEPT ![w] = Tx("chains", tx[w].job, b)]
    /\ UNCHANGED <<pipeline, queue, status, bundle, notBuilt, failures>>

\* The heads of the chains, and with them everything the bundle holds.  The
\* head of a chain without events is of no row; ChainsIn never takes it up.
ListChainSummariesForOrg(w) ==
    /\ tx[w].step = "chains"
    /\ LET b == [events |-> tx[w].bundle.events, then |-> tx[w].bundle.then,
                 tips   |-> [s \in Shard |-> ChainRow(log[s])]]
       IN  tx' = [tx EXCEPT ![w] = Tx("complete", tx[w].job, b)]
    /\ UNCHANGED <<pipeline, queue, status, bundle, notBuilt, failures>>

\* Mutant: the update does not set the bundle.
MarkWithoutBundle(w) ==
    /\ tx[w].step = "complete"
    /\ tx' = [tx EXCEPT ![w] = Tx("commit", tx[w].job, Nil)]
    /\ UNCHANGED <<pipeline, queue, status, bundle, notBuilt, failures>>

MarkExportCompleted(w) ==
    /\ tx[w].step = "complete"
    /\ tx' = [tx EXCEPT ![w] = Tx("commit", tx[w].job, tx[w].bundle)]
    /\ UNCHANGED <<pipeline, queue, status, bundle, notBuilt, failures>>

CommitExport(w) ==
    LET t == tx[w] IN
    /\ t.step = "commit"
    /\ status' = [status EXCEPT ![t.job] = "completed"]
    /\ bundle' = [bundle EXCEPT ![t.job] = t.bundle]
    /\ tx' = [tx EXCEPT ![w] = NoTx]
    /\ UNCHANGED <<pipeline, queue, notBuilt, failures>>

-----------------------------------------------------------------------------
Fails(w) ==
    /\ Active(w)
    /\ failures < MaxFailures
    /\ failures' = failures + 1
    /\ tx' = [tx EXCEPT ![w] = NoTx]
    /\ UNCHANGED <<pipeline, queue, bundle>>

\* A statement of buildAndCommit fails.  MarkExportFailed then fails in the
\* aborted transaction, and the commit rolls it back.
BuildStatementFails(w) ==
    /\ tx[w].step \in {"events", "chains", "complete"}
    /\ Fails(w)
    /\ notBuilt' = notBuilt \cup {tx[w].job}
    /\ UNCHANGED status

\* The bundle does not canonicalize: MarkExportFailed, commit.
CanonicalizeFails(w) ==
    /\ tx[w].step = "complete"
    /\ Fails(w)
    /\ notBuilt' = notBuilt \cup {tx[w].job}
    /\ status' = [status EXCEPT ![tx[w].job] = "failed"]

\* The process stops, or the commit fails: the transaction rolls back.
RollsBack(w) ==
    /\ Fails(w)
    /\ UNCHANGED <<status, notBuilt>>

-----------------------------------------------------------------------------
ProcessOne(w) ==
    \/ ClaimPendingExport(w)
    \/ ListEventsForExport(w)
    \/ ListChainSummariesForOrg(w)
    \/ MarkExportCompleted(w)
    \/ CommitExport(w)

Pipeline ==
    /\ J!Next
    /\ UNCHANGED <<queue, status, bundle, tx, notBuilt, failures>>

\* Every worker polls an empty queue.
Rest ==
    /\ \A j \in Job : status[j] \notin {"none", "processing"}
    /\ UNCHANGED vars

Next ==
    \/ Pipeline
    \/ \E j \in Job : RequestExport(j)
    \/ \E w \in Worker : \/ ProcessOne(w)
                         \/ BuildStatementFails(w)
                         \/ CanonicalizeFails(w)
                         \/ RollsBack(w)
    \/ Rest

Spec == Init /\ [][Next]_vars

\* The workers keep polling, and a running transaction goes on.
FairSpec == Spec /\ \A w \in Worker : WF_vars(ProcessOne(w))

-----------------------------------------------------------------------------
(***************************************************************************)
(* verifyBundle: the events of each chain, by position, through VerifyChain*)
(* without predecessor hashes or content, and the last against the tip.    *)
(***************************************************************************)
BundleRecord(r) ==
    [prev |-> Nil, payload |-> r.payload, hash |-> r.hash, pos |-> r.pos,
     content |-> Nil]

\* Mutant: a published tip is enough.
TipPresent(tip, rows) == tip.hash # Nil /\ rows # << >>

TipMatches(tip, rows) == tip.hash = Last(rows).hash

ChainVerifies(b, s) ==
    LET rows == b.events[s] IN
    /\ VerifyChain([i \in DOMAIN rows |-> BundleRecord(rows[i])]).valid
    /\ TipMatches(b.tips[s], rows)

\* Chains without an event in the bundle are not looked at.
ChainsIn(b) == {s \in Shard : b.events[s] # << >>}

VerifyBundle(b) == \A s \in ChainsIn(b) : ChainVerifies(b, s)

Bundles == {bundle[j] : j \in {i \in Job : status[i] = "completed"}}

-----------------------------------------------------------------------------
(***************************************************************************)
(* Properties                                                              *)
(***************************************************************************)
TypeOK ==
    /\ accepted \subseteq Event /\ waiting \subseteq accepted
    /\ log \in [Shard -> Seq(Event)]
    /\ queue \in Seq(Job)
    /\ status \in [Job -> {"none", "processing", "completed", "failed"}]
    /\ \A w \in Worker :
          /\ tx[w].step \in {"idle", "events", "chains", "complete", "commit"}
          /\ tx[w].job \in Job \cup {Nil}
          /\ Active(w) <=> tx[w].job # Nil
          /\ tx[w].step \in {"complete", "commit"} => tx[w].bundle \in Bundle
    /\ bundle \in [Job -> Bundle \cup {Nil}]
    /\ \A j \in Job : status[j] = "completed" <=> bundle[j] # Nil
    /\ notBuilt \subseteq Job
    /\ failures \in 0 .. MaxFailures

(***************************************************************************)
(* An export that is completed or failed keeps its status and its bundle,  *)
(* although several workers poll the same rows and an export is retried    *)
(* after a rollback: the bundle handed out is never replaced.              *)
(***************************************************************************)
ExportsFinal ==
    [][\A j \in Job : status[j] \in {"completed", "failed"} =>
          status'[j] = status[j] /\ bundle'[j] = bundle[j]]_vars

(***************************************************************************)
(* What a verified bundle proves: of every chain it has an event of, it    *)
(* has all events up to the head it publishes, in the order they have in   *)
(* the journal.  No period and no race can make a partial chain verify.    *)
(***************************************************************************)
VerifiedBundleWhole ==
    \A b \in Bundles : VerifyBundle(b) =>
        \A s \in ChainsIn(b) :
            /\ Len(b.events[s]) = b.tips[s].pos
            /\ \A i \in DOMAIN b.events[s] : b.events[s][i] = EventAt(log[s], i)

(***************************************************************************)
(* A bundle that does not verify has one of two reasons: the period leaves *)
(* out an event of a chain it has events of, or a chain has grown between  *)
(* the read of the events and the read of the heads.                       *)
(***************************************************************************)
BundleFailureExplained ==
    \A j \in Job : status[j] = "completed" /\ ~ VerifyBundle(bundle[j]) =>
        LET b == bundle[j] IN
        \E s \in ChainsIn(b) :
            \/ ~ (ToSet(b.then[s]) \subseteq InPeriod[j])
            \/ Len(b.then[s]) < b.tips[s].pos

(***************************************************************************)
(* Every requested export is completed or failed in the end, also after    *)
(* rollbacks, while workers compete for it.                                *)
(***************************************************************************)
EveryExportSettles ==
    \A j \in Job : status[j] = "processing" ~> status[j] \in {"completed", "failed"}

(***************************************************************************)
(* What generate_export.go 68 says: the failure is written in the same     *)
(* transaction, so that the row reflects it.                               *)
(***************************************************************************)
FailureRecorded ==
    \A j \in notBuilt : Unlocked(j) => status[j] # "processing"

=============================================================================
