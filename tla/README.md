# Stonewrit: models, model checking and proofs

Stonewrit is an evidence journal.  Clients post events; the server answers `202`
with an id, keeps the event in `pending_events`, and a sealer moves it, in
batches, into `events`, where every row is hash-chained to the row before it.
Anyone can then check an event, a chain or an exported bundle by recomputing
the hashes.  This directory holds TLA+ modules of that system, TLC
configurations that check them on small instances, and proofs that TLAPS checks
for every instance.

## 1. The system

All state is in PostgreSQL; every process (server, sealer loop inside it, export
worker) is stateless between two statements.  Statements run READ COMMITTED.

| component (source) | state it keeps | operations | what is hard |
|---|---|---|---|
| `core` (chain, verify, payload, jcs, time) | none | PayloadHash, EventHash, BuildContentPayload, VerifyEvent, VerifyChain | positions, genesis, optional content; the payload built at accept must be the payload rebuilt at verification |
| `spec`, `classify` | none | EventInput, Classify, Compute (control mapping), Matches | pure; what JSON tags drop, rule order, the first rule's reason |
| `server/internal/ingest`, `shard` | `pending_events`, `idempotency_keys` | Accept (route, hash, classify, scope check, claim the key, insert), PostOne, PostBatch | two autocommitted statements, concurrent requests with one key, crash between claim and insert; catalog and agents change under a request |
| `server/internal/sealer` | `chains`, `events`, `chain_checkpoints`, deletes from `pending_events` | Run, tick, SealShard, dedupePending | several processes, row locks with SKIP LOCKED, unique index, rollback at any statement, crash, order |
| `server/internal/routes` (events_read, chains, evidence), `verify` | none | Get, VerifyEvent, Neighbors, chain Verify, Summary | several statements per request without a common snapshot, racing the sealer |
| `server/internal/workers` (export), `cmd/verify` | `evidence_exports` | claim, build, complete, fail; verifyBundle offline | SKIP LOCKED claim, an aborted transaction, a window of a chain |
| `server/internal/migrate` | `schema_migrations`, and the tables themselves | Load, Up, Down, Status | several runners on a stale read, locks taken in opposite orders, a script that fails half-way |
| `server/internal/bootstrap`, `auth`, `middleware`, `router`, `cmd/server`, `cmd/stonewrit` | `projects`, `environments`, `api_keys`, catalog | SeedCatalog, EnsureDefaultTenant, project / environment / key create, key revoke, Require, boot and stop | boots broken off, key used while revoked, which tenant a row is hashed, sealed and read under |
| config, db, httperror, logger, health, testkit, the other generated queries | none | wiring and I/O | none of their own |

How they interact: `Accept` hands rows to the sealer only through
`pending_events`; the sealer hands rows to readers only through its commit;
readers and the export worker never lock what the sealer writes.  So every
interaction is an interleaving of SQL statements and commits, which is the
granularity of the modules.  There is no table of organizations: an organization
is an id in a flag of `key create`, in the rows of environments, and in the rows
written under a key.

What makes each part correct, in a sentence: a chain is gapless, linked and
agrees with its tip; nothing acknowledged is lost and nothing is sealed twice;
one idempotency key means one event and one answer; a read says what the
journal says, or is wrong for a reason that can be named; a bundle that
verifies holds its chains whole; a finished export is final; what
`schema_migrations` records is so; a request that must be refused writes nothing,
and what is written is sealed, verified and read under one tenant.

## 2. The modules

| module | models | used by |
|---|---|---|
| `Chain` | `core/chain.go`, `core/verify.go`: `EventHash`, `VerifyEvent`, `VerifyChain` as operators | `Sealer`, `JournalRows` |
| `ChainProofs` | theorems about `Chain`: what a list of records that verifies says | `SealerProofs`, `ExportProofs`, `ReadPathProofs` |
| `Journal` | no code: what the pipeline promises, without transactions, locks or sealers | `Sealer` implements it; `ReadPath` and `Export` stand on it |
| `Sealer` | `sealer.go`, its SQL, routing, the unique index, row locks | `MCSealer`, proofs |
| `SealerProofs` | theorems about `Sealer` | |
| `Ingest` | `PostOne`, `PostBatch`, `Accept`, `idempotency_keys` | `MCIngest`, `IngestProofs` |
| `IngestProofs` | theorems about `Ingest` | |
| `JournalRows` | the rows of `events` and `chains` that a log of `Journal` stands for | `ReadPath`, `Export` |
| `ReadPath` | `events_read.go`, `verify.go` (lookup), `chains.go` (Verify) | `MCReadPath`, `ReadPathProofs` |
| `ReadPathProofs` | theorems about `ReadPath` | |
| `Export` | `generate_export.go`, `cmd/verify` (`verifyBundle`) | `MCExport`, `ExportProofs` |
| `ExportProofs` | theorems about `Export` | |
| `Content` | `payload.go`, `spec/event.go`, `classify`, `scope_check.go`, `buildEventRow`, the hash checks of `verify.go`, as operators | `Evidence` |
| `Evidence` | boot, accept, seal, verification and evidence summary of one server, over the contents of `Content` | `MCEvidence`, `EvidenceProofs` |
| `EvidenceProofs` | theorems about `Content` and `Evidence` | |
| `Migrate` | `migrate.go`, `stonewrit migrate up` and `down`, the scripts of `server/migrations` | `MCMigrate`, `MigrateProofs` |
| `MigrateProofs` | theorems about `Migrate` | |
| `Tenancy` | boot and stop of the servers, `EnsureDefaultTenant`, the management commands, the auth gate, and the tenant of a request, its rows and its chain | `MCTenancy`, `TenancyProofs` |
| `TenancyProofs` | theorems about `Tenancy` | |

`MC*` modules give the constants their values; each `.cfg` is one instance.
Definitions marked "Mutant" are plausible bugs of the definition that follows
them; a property is kept only if some mutant violates it.

### Chain

SHA-256 is idealised as injective: a hash *is* the sequence of
`<<payload, position>>` pairs it commits to.  The literal `"genesis"` that
`EventHash` uses for an empty predecessor is the empty sequence.  `Nil` is a nil
pointer or SQL NULL.  A payload is one value here: how it is built from an event
and rebuilt from its row is in `Content`.

### Sealer

| state | in the program |
|---|---|
| `acceptedAt`, `shardOf`, `inserting`, `pending` | the columns of `pending_events`; `inserting` holds rows whose INSERT has taken `now()` and is not yet visible |
| `chainRows`, `chains`, `journal`, `checkpoints` | `chains`, `events`, `chain_checkpoints`: committed rows only |
| `anchored` | what the external `Anchorer` has been given |
| `todo[p]` | the rest of the shards listed by the current tick of process `p` |
| `tx[<<p, s>>]` | the goroutine of `p` that runs `SealShard` for `s`: next statement, locked tip, drained batch, rows built |
| `ackedBefore`, `failures` | history and bound |

An action is one SQL statement or the local work between two of them, in the
order of the code: `EnsureShardChain` (waits for another transaction's insert
of the same row), `LockShardChain` or `SkipLockedShard`, `DrainPendingForShard`
or `DrainNothing`, `ExistingExternalEventIDs`, `DropDuplicate` / `ChainRow` row by
row, `CommitAllDuplicates` or `CopyEvents`, `PublishCheckpoint`, `CommitSeal`.
`SealFails` is an error of any statement, `Crash` the end of a process: both
drop the transaction, which is the rollback.  READ COMMITTED means that a
statement reads the committed tables, and a lock taken returns the latest
version of the row.  `CopyEvents` blocks on, or fails at, the partial unique index
of `events` as PostgreSQL does; `CopyNeverCollides` says that neither happens.

### Ingest

One action is one autocommitted statement of `Accept`.  `keys[k]` is the id in
the cached response of a key; the status and the other fields of the response are
functions of the id.  A request is one POST with the ids `Accept` draws for its
events; a retry is another request with the same key.  An error may be returned
after the statement has taken effect (`ClaimFails`, `InsertFails`), and the server
may die between two statements (`Lost`).  The scope check has no action: its
error is swallowed and its result does not influence the rest.

### ReadPath and Export

Both read tables that only the sealer writes, so the sealer appears in them as
`Journal` (whose every step is one commit), and a row of a chain is what
`JournalRows` computes from the log.  This is justified by `ImplementsJournal`
and `ChainIntact` of `Sealer`.  A request reads and changes nothing, so one request
at a time stands for all of them.  A chain has a row in `chains` exactly when something
was sealed in it (`ChainAlwaysHasRows`), so `VerifyStored` answers 404 while its log is
empty; in `Export` the heads of such chains are carried along and never looked at,
because a bundle names the chains of its events.  In `Export`, `tx[w]` is the one transaction of a
worker; `notBuilt` remembers exports whose build has returned an error.  Nothing in
this repository inserts an export: `RequestExport` is external.

### Content and Evidence

`Sealer` and `Ingest` treat an event as a token; these two modules open it.  In
`Content` an event type is a pair of its family and the rest (the rules look at
nothing else), a list of classes, scopes or controls is a set, a control
reference is a pair, or a single text when it has no colon.  `Stored` is a trip
through `json.Marshal` and `json.Unmarshal`, which the event makes twice: into
`event_data` at accept and into `raw_payload` at the seal.  `source` and the parts
of actor, action and resource that no rule looks at are in no record: they
travel with the fields beside them.

| state of `Evidence` | in the program |
|---|---|
| `now` | `time.Now()` in ticks; `TicksPerMs` ticks are a millisecond, to which `HashTime` truncates |
| `agents` | the table `agents`, maintained elsewhere (`ChangeAgent` is external) |
| `catalog`, `booted` | `frameworks` and `controls`; the upserts this boot has done |
| `req[e]` | the call of `Accept` for `e`: next statement, input, `receivedAt`, hash, mappings, verdict |
| `pending`, `events` | the rows by event, `events` with its classification and mappings |
| `reader`, `answer` | the read in progress; the answer given by the last step, if it gave one |
| `seen` | history: the rows the event's agent had during its request |

`Receive`, `ResolveControlReferences`, `GetAgentByExternalID` and
`InsertPendingEvent` are `Accept` without an idempotency key, cut where it runs a
statement; `AcceptFails` and `AgentLookupFails` are their errors, the second of
which is swallowed.  `SeedCatalog` is one upsert.  `Seal` is the commit of one
event: a batch is several in a row, since nothing here depends on positions.
`VerifyEvent` / `VerifyPendingEvent` are the two lookups of a verification,
`RunQuery` is one query of the `errgroup` of `Summary`, in any order.  `Watched`
says which queries of a summary are followed together: the queries do not
influence one another, so each count is followed alone, and only
`GetEvidenceCountsPerControl` and the catalog, which one answer joins, together.
Everything happens in one tenant.

### Migrate

| state | in the program |
|---|---|
| `recorded`, `tables` | the committed rows of `schema_migrations`; the committed tables |
| `run[r]` | one invocation of `Up` or `Down` (`Goal`): where it is, `done` as `appliedVersions` returned it, `applied` as it will report, and its transaction: the script's next line, the tables it has created, dropped and locked, whether it has written a row of `schema_migrations` |
| `since`, `clash` | history: what others have committed since `r` has read; whether an `Up` has committed upon a read that a `Down` had made stale, or a `Down` upon one that an `Up` had |

A script is a sequence of statements, cut at its semicolons: `RunStatement` runs
one, `RecordVersion` the INSERT or DELETE of the version, `CommitTx` the commit, after
which `Up` goes on (`NextUp`) and `Down` returns.  A statement waits (`WaitsFor`)
for the transactions whose locks PostgreSQL makes it wait for, and `IF [NOT] EXISTS`
looks at what is visible to it.  A wait ends when those it is for end.  Otherwise
only an error ends it: `DeadlockDetected`, which PostgreSQL raises in a circle of waits
and nowhere else (`Deadlocked`), and `SameNameFails`, when two transactions create one
table and the other commits.  `Fails` is any other error or the end of the process,
`CommitUnknown` a commit whose answer is lost.

### Tenancy

| state | in the program |
|---|---|
| `projects`, `environments`, `keys` | `projects`; the organization and project of each row of `environments`; scopes and `revoked_at` of each row of `api_keys` |
| `at`, `guarded` | how far a boot or a `key create` is; servers with `APIKEY_AUTH=true` |
| `req[r]` | a POST: its server, the `auth.Context` it was given, and the id it was told |
| `idempotency`, `pending`, `events` | the columns of these tables that carry a tenant; `hash` is the tenant the payload hash was made over |
| `refusable` | history: requests that no key in force allowed when they arrived |

`Boot` decides the mode; `EnsureDefaultProject` and `EnsureDefaultEnvironment` are the two
upserts, run by servers and by `key create` without a target.  `Arrive`,
`LookupApiKeyByHash`, `ClaimIdempotencyKey`, `GetIdempotentResponse` and
`InsertPendingEvent` are the gate and the statements of `Accept` that carry a tenant.
`SealShard` is the commit of one row, with the tenant of the chain, which is that
of the environment.  `Stop` is the signal, after which running handlers may go
on until `Exit`; `Crash` ends a process at any statement.

## 3. What is checked

Passing runs (states and time on two cores):

| run | instance | properties |
|---|---|---|
| `sealer_one_shard` | 2 processes, 1 shard, 4 events (2 with one external id), batches of 2, one failure or crash; 1.9 M states, 70 s | `TypeOK`, `ChainIntact`, `JournalVerifies`, `ExactlyOnce`, `CheckpointsTile`, `AcceptOrderKept` |
| `sealer_two_shards` | 2 processes (one with an anchorer), 2 shards, 3 events, work lists of 1, one failure or crash; 0.45 M states, 150 s | `CopyNeverCollides`, `AnchoredUnlessFailed`, `ImplementsJournal`, `EventuallySealed` |
| `ingest` | 3 POSTs with one key, 1 with another, a batch of 2, two failures; 0.15 M states, 6 s | `TypeOK`, `OncePerKey`, `AcceptedStored` |
| `read_path` | 4 events, 2 shards, in-line limit 2; 0.11 M states, 5 s | `TypeOK`, `NotFoundExplained`, `NeighborsLinked`, `VerdictExplained` |
| `evidence` | 2 events with 2 and 3 possible bodies, 1 agent that changes once, 3 rules, 3 upserts, one crash or error; 1.3 M states, 90 s | `TypeOK`, `VerifyMatchesUnlessEmptyMap`, `InScopeWasAuthorized`, `MappingsFaithful`, `SummaryWithin`, `EvidenceCountedOnce`, `RiskCoversCounts`, `SnapshotKept` |
| `export` | 2 workers, 2 exports (all events, all but one), 2 events, 2 shards, one failure; 0.09 M states, 11 s | `TypeOK`, `VerifiedBundleWhole`, `BundleFailureExplained`, `ExportsFinal`, `EveryExportSettles` |
| `migrate` | 2 `Up`s, 2 `Down`s, 2 migrations of 6 and 1 statements, one failure; 0.18 M states, 130 s | `TypeOK`, `RecordedSound`, `ReportsSound`, `EveryRunEnds` |
| `tenancy` | 1 server, 2 keys, 2 organizations, projects and environments, 3 POSTs with one idempotency key and external id, one stop or crash; 0.48 M states, 45 s | `TypeOK`, `RefusedWritesNothing`, `EnvironmentExists`, `VerifiesUnlessStray`, `ToldIsOwn`, `DropRepresented` |

`ExactlyOnce`, `OncePerKey`, `VerdictExplained`, `RecordedSound` and `ReportsSound`
are conjunctions of two or three named properties, each with its comment.

Runs that end in a violation, each of something the repository says of itself:

| run | property | what happens |
|---|---|---|
| `key_without_event` | `KeyedPostsCollapse` | the key is claimed in one commit and the event inserted in another; after an error between them every retry is answered 202 for an event that does not exist (`accept.go:177-222`) |
| `chain_verify_race` | `IntactChainVerifies` | the tip is read before the rows; a seal in between makes an intact chain `valid: false` (`chains.go:105-197`) |
| `empty_metadata` | `VerifyMatches` | an event posted with `"metadata": {}` is hashed with the empty map (`payload.go:56`) and stored without it (`spec/event.go:20`): it never verifies |
| `export_failure` | `FailureRecorded` | `MarkExportFailed` runs in the transaction that the failed statement has aborted, so nothing is recorded (`generate_export.go:67-75`) |

More is stated from the other side, as the only exceptions a passing
property leaves.  Reads: a 404 for an accepted event that is sealed
between the two lookups, when the second lookup fails, or because it was dropped
as a duplicate (`NotFoundExplained`; `spec/event.go:83-85` promises every id),
and a bundle of intact chains that does not verify because a batch was sealed
between its two reads, or because its period leaves out an event of a chain
(`BundleFailureExplained`).  Anchoring: the head is published before the commit
(`sealer.go:325-344`), so an external anchor may hold a head that no chain ever
reaches, but no more of them than goroutines have failed (`AnchoredUnlessFailed`).
Migrations (`clash` in `RecordedSound`): an `Up` that has read its versions before a
`Down` commits may skip a table by `IF NOT EXISTS` that the `Down` then drops, and record
a version without it; and a `Down` that has read them before an `Up` commits rolls back
what is no longer the highest, although no command fails (`migrate.go:134` promises the most
recently applied migration): the recorded version above it stays, with a gap below.  A `Down`
upon a read that only other `Down`s have made stale is no exception.  Tenants: nothing ties
the `--org` and `--project` of `key create` to the environment; with a stray project the sealed row has another
project than the one hashed, and no longer verifies (`StrayProject`); with a stray
organization two organizations share an environment, and an event of one is
dropped as the duplicate of one of the other's, which its sender cannot read
(`StrayOrg`).  The routing comment in `shard.go:3-6` (events of one
actor stay in one shard) disagrees with `accept.go:64-74`, where an external id
goes first; `ShardKey` follows the code.

### Bounds, and why they are enough

- Two processes: a lock, an index or a row is contended by two; a third one waits
  for one of them as the second does.  Within one process the shards are sealed
  one after the other (`Concurrency = 1`): its goroutines share nothing but the work
  list and the crash, so two goroutines differ from two processes only in that.
- Three or four events: two with one external id and different actors, one
  routed by its actor, one without a key.  With batches of two a chain takes
  several batches, a duplicate may be in the batch of its original, in a later
  one, alone in a batch, or in another process's batch.
- `MaxFailures` of 1 or 2 bounds errors and crashes together.  A failed attempt
  leaves nothing but what it committed, so a second failure starts from a state
  the first could have left; in `Ingest`, where a failed claim leaves a key, two
  are allowed.
- `ChainVerifySyncLimit` is 2, so that chains below, at and above it occur.
- `clock` counts inserts and needs no bound of its own.
- `Evidence`: the five bodies meet every class, count, optional field, an absent,
  an empty and a filled `metadata`, a declared control that a rule contributes
  too, one outside the catalog and one without a colon.  Two events are enough to
  tell a count of rows from a count of events and to seal one between two queries.
  `MaxTime = 2` with two ticks a millisecond has times that truncation changes,
  and periods that end on an event, before and after it.  One change of the agent
  can fall before, inside or after each request.
- `sealer_two_shards` lists one shard a tick (`MaxWork`), so that a shard is left for
  a later tick or another process.  `Anchoring` gives one process an anchorer there, and
  none in `sealer_one_shard`.
- `Migrate`: two `Up`s meet on one stale read, a third would find the rows of one of
  them; two `Down`s meet on one row.  The first script has a table of each kind of
  0001 (referenced, referencing, indexed), the second stands for a later migration.
  An invocation runs once: a repeated one is another runner that starts later.
- `Tenancy`: `ka` is for an environment of any organization and project (its
  `--project` strays if the environment is made in the other one), `kb` for the default
  environment under another organization.  So requests meet in one environment
  or two, of one organization or two, with the same idempotency key and
  external id.  One server is enough: servers share only the tables, and the one
  may boot again in the other mode.

Deadlock is checked in every run.  Where nothing is left to do, an action says so
(`TickIdle`, `Quiet`, `Rest`: the loop that polls and finds nothing).

### Fairness

`EventuallySealed` assumes that a started INSERT ends, that every process keeps
listing shards (`Run` is a ticker loop which ends only with the process, and a
process that ends is restarted) and that a running goroutine executes its next
statement.  All of it is weak fairness.  A skipped lock needs no strong fairness:
the row is left in `pending_events`, and is listed again.
`EveryExportSettles` assumes that every worker keeps polling and runs on.  Errors
are finitely many, which is all the code can promise: an export or a batch
that fails every time is retried for ever, at the head of its queue.
`EveryRunEnds` assumes that a statement which waits for nobody returns, and that
PostgreSQL finds deadlocks: of a circle of waits, one is cancelled.  A wait that is
not part of a circle is not helped along: it must end because the transactions it is for
end, and the run shows that it does.  The other errors (`SameNameFails`, `Fails`) may
come and need not.

## 4. What is proved

For all values of the constants under `NilAssumption`, `SealerAssumption`,
`IngestAssumption`, `ContentAssumption`, `EvidenceAssumption`, `PackAssumption`,
`ReadPathAssumption`, `ExportAssumption`, `MigrateAssumption` and `TenancyAssumption`:
any number of events, shards, processes, batch sizes, rules, bodies, limits, periods,
migrations, keys, tenants, failures.  Each assumption is what the code or the schema
ensures, or only keeps `Nil` and the kinds of ids apart; TLC evaluates it in the runs.

| theorem | property |
|---|---|
| `ChainProofs!TamperEvident` | two lists of records that verify and end in one hash are the same |
| `ChainProofs!VerifiedIsLongest` | the verified count is that of the longest prefix that verifies |
| `SealerProofs!TypeCorrect` | `TypeOK` |
| `SealerProofs!ChainAlwaysIntact` | `ChainIntact` |
| `SealerProofs!LockedTipCurrent` | `ChainInv`, the inductive invariant of the chains |
| `SealerProofs!CheckpointsAlwaysTile` | `CheckpointsTile` |
| `SealerProofs!JournalAlwaysVerifies` | `JournalVerifies` |
| `SealerProofs!OnlyFailuresOrphan` | `AnchoredUnlessFailed` |
| `SealerProofs!AlwaysExactlyOnce` | `ExactlyOnce` |
| `SealerProofs!CopyAlwaysClear` | `CopyNeverCollides` |
| `SealerProofs!RowsAlwaysSound` | `SealInv`, the inductive invariant of the rows |
| `SealerProofs!AcceptOrderAlwaysKept` | `AcceptOrderKept` |
| `SealerProofs!SealerImplementsJournal` | `ImplementsJournal`, the refinement of `Journal` |
| `SealerProofs!HeadAlwaysPins` | `HeadPinsChain`: what verifies under a head is the chain |
| `SealerProofs!ChainAlwaysHasRows` | `ChainHasRows`: a committed row of `chains` has events |
| `SealerProofs!JournalIsRead` | `ReadersSeeRows`: the readers' rows are the sealer's |
| `SealerProofs!ExtsAlwaysSealedOnce` | `ExtsSealedOnce`: no external id twice, without the unique index |
| `SealerProofs!ChainsAlwaysGrow` | `ChainsOnlyGrow`, an action property |
| `SealerProofs!RowsAlwaysSettle` | `RowsOnlySettle`, an action property |
| `SealerProofs!ChainRowAlwaysThere` | `ChainRowThere`, the inductive invariant of the rows of `chains` |
| `SealerProofs!SkipsAlwaysLocked` | `SkipsOnlyLocked`, an action property |
| `SealerProofs!NeverWaitInChain` | `NoWaitChain`: no deadlock among sealers |
| `SealerProofs!TickAlwaysFindsWork` | `TickFindsWork` |
| `IngestProofs!IngestTypeCorrect` | `TypeOK` |
| `IngestProofs!KeyedPostsAreOne` | `OncePerKey` |
| `IngestProofs!AcceptedAlwaysStored` | `AcceptedStored` |
| `IngestProofs!KeyInvHolds` | `KeyInv`, the inductive invariant of the keys |
| `IngestProofs!ResultsAlwaysMatch` | `ResultsMatchBody`: one result per event, in order, of its own id |
| `IngestProofs!KeysAlwaysFinal` | `KeysFinal`, an action property |
| `ReadPathProofs!TypeCorrect` | `TypeOK` |
| `ReadPathProofs!NotFoundAlwaysExplained` | `NotFoundExplained` |
| `ReadPathProofs!NeighborsAlwaysLinked` | `NeighborsLinked` |
| `ReadPathProofs!VerdictAlwaysExplained` | `VerdictExplained` |
| `ExportProofs!TypeCorrect` | `TypeOK` |
| `ExportProofs!SettledStays` | `ExportsFinal` |
| `ExportProofs!VerifiedMeansWhole` | `VerifiedBundleWhole` |
| `ExportProofs!FailureExplained` | `BundleFailureExplained` |
| `ExportProofs!HeadsAlwaysDecide` | `HeadsDecide`: no other events verify under a bundle's heads |
| `ExportProofs!ExportsAlwaysExclusive` | `JobsExclusive` |
| `EvidenceProofs!TypeCorrect` | `TypeOK` |
| `EvidenceProofs!HashAlwaysVerifies` | `VerifyMatchesUnlessEmptyMap` |
| `EvidenceProofs!ScopeWasAuthorized` | `InScopeWasAuthorized` |
| `EvidenceProofs!MappingsAlwaysFaithful` | `MappingsFaithful` |
| `EvidenceProofs!SnapshotAlwaysKept` | `SnapshotKept` |
| `EvidenceProofs!RiskAlwaysCovers` | `RiskCoversCounts` |
| `EvidenceProofs!SummaryAlwaysWithin` | `SummaryWithin` |
| `EvidenceProofs!EvidenceAlwaysOnce` | `EvidenceCountedOnce` |
| `MigrateProofs!TypeCorrect` | `TypeOK` |
| `MigrateProofs!RecordedAlwaysSound` | `RecordedSound` |
| `MigrateProofs!ReportsAlwaysSound` | `ReportsSound` |
| `TenancyProofs!TypeCorrect` | `TypeOK` |
| `TenancyProofs!RefusedWrites` | `RefusedWritesNothing` |
| `TenancyProofs!StoredSealable` | `EnvironmentExists` |
| `TenancyProofs!EventsVerify` | `VerifiesUnlessStray` |
| `TenancyProofs!AnswersOwn` | `ToldIsOwn` |
| `TenancyProofs!DropsOwn` | `DropRepresented` |
| `TenancyProofs!TenantsAlwaysSettled` | `TenantsSettled`, an action property |

**The chain.**  `ChainIntact` says nothing of open transactions, so it is not
inductive: a commit could add anything.  `ChainInv` adds that one goroutine holds
a chain's lock (`OneSealer`), that the tip it locked is still the tip
(`TipCurrent`), and that the rows it has built continue that tip
(`RowsContinueTip`).  The lock gives the first, the first the second, the loop of
`SealShard` the third, and the commit turns the third into `ChainIntact`.

**The rows.**  `SealInv` follows every row from INSERT to journal: what a
transaction has drained is still pending, because only the lock's holder
deletes; its rows have external ids that are fresh and distinct; and a row it
passes over is represented by one sealed or built.  That the ids are fresh needs
that one external id is always on one shard (`SameExtSameShard`), since the
lookup of one shard's batch cannot see another's uncommitted rows: this is
what the routing of `accept.go` is for.  The step is proved under `ChainInv`.

**External ids.**  `ExtsSealedOnce` follows from the same two facts, that the rows a
commit adds have external ids that are fresh and distinct.  The unique index of
`events` is nowhere used: it is the second line of defence, and never has to act.

**Waiting and skipping.**  `ChainRowThere` says that who has passed
`EnsureShardChain` has a row of `chains` to lock, committed or its own, and that a row
of its own is seen by nobody else until its commit.  So `SkipLockedShard`, which the
code takes for "another sealer has it" and which commits, is taken only when that is so
and has nothing to commit (`SkipsOnlyLocked`).  With `CopyNeverCollides` it also gives
`NoWaitChain`: a transaction that waits at the INSERT INTO `chains` has no row of its
own, nobody waits at the COPY, so who is waited for does not wait.

**Work.**  Only finitely many rows are ever pending, so a choice of at most `MaxWork`
of their shards exists, and it is empty only if nothing is pending (`TickFindsWork`).
This does not say that every shard is chosen in the end: that is `EventuallySealed`.

**Order.**  `OrderInv` extends `SealInv`: a row acknowledged before another's INSERT
has a smaller `accepted_at`, a batch is in that order and holds the oldest pending
rows of its shard, and the rows built from it are in its order.  So a row sealed
now has nothing older pending on its shard outside its own batch.

**Checkpoints and anchors.**  A commit adds the positions behind the old tip and a
checkpoint of exactly these, so the tiling goes on.  For the anchors, a published
head that is neither being committed nor in the journal (`Orphans`) can only come
from a transaction that was about to commit and failed or crashed (`GivenUp`); a
process has at most `Concurrency` of them at once (`RunningStep`), because the work
list holds no shard that is being sealed (`TodoIdle`).

**The verifier.**  `PayloadsKept` carries the payload hash of an event into its row;
with `ChainIntact` the rows read by position are exactly what `VerifyChain` expects
of each next record.

**The head.**  A hash is the sequence of pairs it commits to, so a list of records that
`VerifyChain` accepts holds, at every place, the pairs of its last hash
(`VerifiedHoldsPairs`; by the least place where it does not).  Two lists under one hash
are therefore one list (`TamperEvident`), and a list under the hash of a sealed row, of
a checkpoint or of an anchored head that the journal has reached is the chain up to
it (`HeadPinsChain`).  `HeadsDecide` is the same for `cmd/verify`, over every bundle and not
only the stored ones; it covers payload hashes, positions and event hashes, but not
the ids of rows, to which no hash commits.

**From the sealer to the readers.**  `ReadPath` and `Export` stand on `Journal`, whose
log holds ids; `JournalRows` derives rows from a log.  `ReadersSeeRows` closes the
gap: under `ChainInv` and `PayloadsKept` these are the rows that the sealer has
written, with NULL for an empty predecessor, and a row of `chains` is there for others
to see exactly when the log has events.  The second half is `ChainHasRows`.  Two commits
write no event, an empty drain and a batch of duplicates; but a shard had pending rows
when it was listed, which only a commit takes away (`SoughtForRows`), and a duplicate's
external id is sealed, and so in the same shard (`DuplicatesHaveRows`).  Both therefore
come upon a chain that has rows.

**The refinement.**  Under `ChainInv` and `SealInv` every commit is one `Settle` of
the batch: its new rows extend the log (`CommitExtendsLog`), its dropped rows are
duplicates of a logged or new id (`CommitSettles`); every other step is a stutter
or an `Accept` (`JournalUnseen`, `JournalStep`).

**The keys.**  `KeyInv` says that a key keeps the id of the request that won it,
that only this request reaches the insert under it, and that every answer given
under the key has that id.  `AlignedInv` adds that the id of a key is that of a request
with the key, and follows the loop of `PostBatch`: `StatementMoves` says what one
statement does to a handler's results, which gives `ResultsMatchBody` and `KeysFinal`.

**The contents.**  The heart is a lemma without state, `RebuiltPayload`: the
payload built from an event after its trip through JSON is the payload built from
the event itself, if and only if its metadata are not an empty map; `StoredOnce`
says that the second trip changes nothing.  `EvidenceInv` carries it: a request
keeps the hash of its own time and input, a pending row has them through one trip,
a sealed row through two.  The same invariant carries the verdict of the scope check
with the agent rows that held during the request (`seen`).  `MappingInv` adds
that a request in progress implies a server that has seeded its catalog, so that
the controls of the rules survive `ResolveAgainstCatalog`; that `Compute` keeps
every control, whichever rule is first, is `ComputedRefs`, which rests on the
least-number principle.

**The summary.**  `RowMoves` says what one step can do to the row of one event: leave
it, insert it, seal it.  `ClassInv` ties the columns of the row to the body, which
makes each WHERE clause of `evidence.sql` lie between what must and what may be
counted (`CountedWithin`); `OnceInv` keeps a control once per event, which makes the
mapping rows of a control as many as its events (`RowsAreEvents`, a bijection).  A
result once read stays within its bounds, since sealed events keep what is counted
and only become more (`CountInv`, `ControlInv`).

**The reads.**  `ReadInv` and `ExportInv` rest on one fact about the pipeline: a log
only grows at its end (`LogGrows`), so what a first statement has read stays a true
account of a prefix of the log, and the rows of the prefix are its rows
(`PrefixRows`).  A hash has the length of its position, so a tip that
equals the hash of the last row read is the tip of exactly these rows, which gives
`ValidMeansWhole` and `VerifiedBundleWhole`; that a row's hash continues the one
before it gives that no walk reports a break.  For a 404, `ReadInv` adds that an
event not found by the first lookup was waiting then or has been set aside, and
that what has been set aside stays so; a chain that is walked had events when its
row was read.

**The migrations.**  `MigrateInv` says of every `Up` what it may rely on as long as no
`Down` is committed after its read: its versions are recorded, and the lines it has
run have left their tables committed or its own (`Built`).  A `Down`, as long as no `Up` is
committed after its read, has read every recorded version, so that the one it takes
is the highest or is already gone.  Two transactions never
hold one row of `schema_migrations` (`RowsExclusive`).  A commit then keeps
`RecordedComplete` because scripts of different versions share no table.

**The tenants.**  `TenancyInv` says that the default environment exists before a
server without authentication is ready and the environment of a key before the key
(`EnvironmentsKept`, by the foreign keys of `api_keys`); that a request which must be
refused stays without a context (`RefusalsKept`); that an idempotency key of an
organization belongs to a request of that organization (`SlotsKept`); and that a row
has the tenant of its request's context (`RowsKept`).  `Moves` says what one step can do
to each part of the state, and gives `TenantsSettled` at once.

So every safety and action property of a passing run, and the refinement, is proved.
Only model-checked, because the prover does not reason about fairness and ENABLED: the
liveness properties `EventuallySealed`, `EveryExportSettles` and `EveryRunEnds`.

The theorems of the table whose property no run names are proved only: the inductive
invariants `ChainInv` and `ChainRowThere`, what is said of all lists of records or all
bundles (`TamperEvident`, `VerifiedIsLongest`, `HeadPinsChain`, `HeadsDecide`), which TLC
could enumerate only for a handful, and properties that follow from an invariant
proved anyway (`SealInv`, `KeyInv`, `ExportInv`, `TenancyInv`).

## 5. Assumptions of the models

PostgreSQL is taken at its documentation: READ COMMITTED, row locks with SKIP
LOCKED, ON CONFLICT DO NOTHING waiting for a concurrent insert of the same key, a
unique index that blocks on uncommitted rows, an error that aborts its
transaction.  `now()` of one database does not decrease between the start of an
INSERT that follows the acknowledgement of another.  Rows are never changed
outside the modelled statements, except the agents, which are.

The rules of the packs are any sequence of rules whose controls are
`FRAMEWORK:CONTROL` references that the seeds contain (`PackAssumption`): this is
what `packs_test.go` asks of the packs.  A server serves and seals only after
`SeedCatalog` has returned without an error (`server/main.go:46-96`).  SHA-256 over
canonical JSON is injective.  All invocations of the migration command embed the same
files, whose scripts do not share tables, and whose down scripts drop tables of
their own up script (`MigrateAssumption`).  New ids are drawn without repetition.

## 6. Not modelled

List endpoints and reads of one statement, the count of open exceptions (nothing
here writes that table), `migrate status`, the scopes of the read endpoints
(they pass the same gate as the write endpoints), how tokens are drawn and
hashed, configuration, logging, HTTP envelopes and rendering, length limits of
fields, the load generator and the end-to-end test programs.  `PROJECT.json`
lists each with its reason.

## 7. Reading order

`Chain`, `Journal`, `Sealer`; then `Ingest`, `JournalRows`, `ReadPath`, `Export`,
`Content`, `Evidence`, `Tenancy`, `Migrate`; the proofs last.

## 8. Plan

Done, in the order of importance: the sealing pipeline with its abstract
journal, the accept path, the read path, the exports, the contents of events with
the evidence made of them, the migrations, tenants and keys, and the theorems above.

Next: a work list that is cut under endless load, by an assumption on the order in
which the database lists shards, with `EventuallySealed` under it.
