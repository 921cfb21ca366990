------------------------------- MODULE Migrate -------------------------------
(***************************************************************************)
(* The migration runner (server/internal/migrate/migrate.go, the `migrate` *)
(* command of cmd/stonewrit and the scripts of server/migrations).         *)
(*                                                                         *)
(* Up and Down read schema_migrations once, without a lock, and then run a *)
(* script and record its version in one READ COMMITTED transaction.  DDL   *)
(* is transactional, but IF NOT EXISTS and IF EXISTS look at what is       *)
(* visible to the statement.  One action is one statement.                 *)
(***************************************************************************)
EXTENDS Integers, Sequences, FiniteSets

CONSTANTS
    Version,        \* the versions of the embedded files
    Table,          \* the tables their scripts create
    UpSQL,          \* the up script of a version, a sequence of statements
    DownSQL,        \* its down script, or the empty one without a down file
    Runner,         \* invocations of Up and Down, repeated ones included
    Goal,           \* "up" or "down", for a runner
    MaxFailures     \* bound: statement errors and dead processes

\* CREATE TABLE IF NOT EXISTS with the tables it references, CREATE INDEX IF
\* NOT EXISTS, which needs its own table, and DROP TABLE IF EXISTS.
Statement ==
    {s \in [op: {"table", "index", "drop"}, on: Table, needs: SUBSET Table] :
        /\ s.op = "index" => s.needs = {s.on}
        /\ s.op = "drop" => s.needs = {}}

TablesOf(v) == {UpSQL[v][i].on : i \in DOMAIN UpSQL[v]}

\* Load refuses a version without an up file.  A down script drops tables
\* of its own version only.
ASSUME MigrateAssumption ==
    /\ Version \subseteq Nat /\ IsFiniteSet(Version)
    /\ UpSQL \in [Version -> Seq(Statement)]
    /\ DownSQL \in [Version -> Seq(Statement)]
    /\ \A v \in Version : UpSQL[v] # << >>
    /\ \A v \in Version : \A i \in DOMAIN UpSQL[v] : UpSQL[v][i].op # "drop"
    /\ \A v \in Version : \A i \in DOMAIN DownSQL[v] :
          DownSQL[v][i].op = "drop" /\ DownSQL[v][i].on \in TablesOf(v)
    /\ \A u, v \in Version : u # v => TablesOf(u) \cap TablesOf(v) = {}
    /\ Goal \in [Runner -> {"up", "down"}]
    /\ MaxFailures \in Nat

VARIABLES
    recorded,   \* the committed rows of schema_migrations
    tables,     \* the committed tables
    run,        \* the local state and the transaction of each runner
    since,      \* history: what others have committed since a runner's read
    clash,      \* history: a commit upon a read the other direction made stale
    failures    \* errors and dead processes so far

vars == <<recorded, tables, run, since, clash, failures>>

-----------------------------------------------------------------------------
Run == [at: {"new", "read", "next", "script", "commit", "ok", "error"},
        done: SUBSET Version,       \* appliedVersions, as it was read
        applied: SUBSET Version,    \* what Up has applied, Down rolled back
        v: Version \cup {0},        \* the migration of the transaction
        line: Nat,                  \* the next statement of its script
        creates: SUBSET Table,      \* uncommitted tables
        drops: SUBSET Table,        \* uncommitted drops
        shares: SUBSET Table,       \* tables it has locked against a drop
        row: BOOLEAN]               \* it has inserted or deleted a version

\* Mutant: a runner starts with a version applied that is in no file.
NilRun == [at |-> "new", done |-> {}, applied |-> {-1}, v |-> 0, line |-> 1,
           creates |-> {}, drops |-> {}, shares |-> {}, row |-> FALSE]

NewRun == [at |-> "new", done |-> {}, applied |-> {}, v |-> 0, line |-> 1,
           creates |-> {}, drops |-> {}, shares |-> {}, row |-> FALSE]

\* The end of a transaction: its locks and uncommitted changes are gone.
Ended(x, at) == [x EXCEPT !.at = at, !.line = 1, !.creates = {}, !.drops = {},
                          !.shares = {}, !.row = FALSE]

Script(r) == IF Goal[r] = "up" THEN UpSQL[run[r].v] ELSE DownSQL[run[r].v]

Current(r) == Script(r)[run[r].line]

\* Mutant: the last statement is forgotten.
LastLine(r) == run[r].line >= Len(Script(r))

ScriptDone(r) == run[r].line > Len(Script(r))

\* What the catalog shows a runner's statement.
Visible(r) == (tables \ run[r].drops) \cup run[r].creates

Init ==
    /\ recorded = {}
    /\ tables = {}
    /\ run = [r \in Runner |-> NewRun]
    /\ since = [r \in Runner |-> {}]
    /\ clash = FALSE
    /\ failures = 0

-----------------------------------------------------------------------------
\* CREATE TABLE IF NOT EXISTS schema_migrations, autocommitted.
EnsureTable(r) ==
    /\ run[r].at = "new"
    /\ run' = [run EXCEPT ![r].at = "read"]
    /\ UNCHANGED <<recorded, tables, since, clash, failures>>

AppliedVersions(r) ==
    /\ run[r].at = "read"
    /\ run' = [run EXCEPT ![r].at = "next", ![r].done = recorded]
    /\ UNCHANGED <<recorded, tables, since, clash, failures>>

\* Up takes the pending versions in order, each once, Down the highest.
NextUp(r, v) ==
    LET pending == Version \ (run[r].done \cup run[r].applied)
    IN  v \in pending /\ \A u \in pending : v <= u

NextDown(r, v) ==
    v \in run[r].done /\ \A u \in run[r].done : u <= v

NextOf(r, v) == IF Goal[r] = "up" THEN NextUp(r, v) ELSE NextDown(r, v)

BeginTx(r) ==
    /\ run[r].at = "next"
    /\ \E v \in Version :
          /\ NextOf(r, v)
          /\ run' = [run EXCEPT
                ![r].v = v,
                ![r].at = IF Goal[r] = "down" /\ DownSQL[v] = << >>
                          THEN "error"
                          ELSE "script"]
    /\ UNCHANGED <<recorded, tables, since, clash, failures>>

\* Nothing is left to do: "already up to date", or the versions applied.
Return(r) ==
    /\ run[r].at = "next"
    /\ \A v \in Version : ~ NextOf(r, v)
    /\ run' = [run EXCEPT ![r].at = "ok"]
    /\ UNCHANGED <<recorded, tables, since, clash, failures>>

-----------------------------------------------------------------------------
\* Mutant: an error is retried until it goes away.
TryAgain(r) == Ended(run[r], "next")

\* Mutant: an error is logged, and Up goes on to the next migration.
GoesOn(r) == [Ended(run[r], "next") EXCEPT !.applied = @ \cup {run[r].v}]

\* Up and Down return at the first error, and the transaction rolls back.
Aborted(r) == Ended(run[r], "error")

\* CREATE TABLE skips a visible table without locking it; a new table waits
\* for another transaction that creates it, or drops what it references.
\* CREATE INDEX locks its table before it looks for the index, and a drop
\* waits for every lock on its table.
WaitsForTable(r) ==
    LET s == Current(r) IN
    {q \in Runner \ {r} :
        CASE s.op = "table" -> /\ s.on \notin Visible(r)
                               /\ \/ s.on \in run[q].creates
                                  \/ s.needs \cap run[q].drops # {}
          [] s.op = "index" -> s.on \in run[q].drops
          [] s.op = "drop"  -> /\ s.on \in Visible(r)
                               /\ s.on \in run[q].drops \cup run[q].shares}

\* The INSERT of a version waits for an uncommitted INSERT or DELETE of it,
\* its DELETE for another DELETE.
WaitsForRow(r) ==
    {q \in Runner \ {r} : /\ run[q].row
                          /\ run[q].v = run[r].v
                          /\ Goal[r] = "up" \/ Goal[q] = "down"}

\* The transactions a runner's statement has to wait for.
WaitsFor(r) ==
    CASE run[r].at # "script" -> {}
      [] ScriptDone(r)        -> WaitsForRow(r)
      [] OTHER                -> WaitsForTable(r)

StatementFails(r) ==
    LET s == Current(r) IN
    /\ s.op # "drop"
    /\ ~ s.needs \subseteq Visible(r)
    /\ s.op = "table" => s.on \notin Visible(r)

AfterStatement(r) ==
    LET x     == run[r]
        s     == Current(r)
        seen  == {s.on} \cap Visible(r)
        fresh == {s.on} \ Visible(r)
    IN  CASE s.op = "table" ->
                [x EXCEPT !.line = @ + 1, !.creates = @ \cup fresh,
                          !.shares = IF fresh = {} THEN @ ELSE @ \cup s.needs]
          [] s.op = "index" -> [x EXCEPT !.line = @ + 1, !.shares = @ \cup s.needs]
          [] s.op = "drop"  -> [x EXCEPT !.line = @ + 1, !.drops = @ \cup seen]

RunStatement(r) ==
    /\ run[r].at = "script"
    /\ ~ ScriptDone(r)
    /\ WaitsFor(r) = {}
    /\ run' = [run EXCEPT ![r] = IF StatementFails(r) THEN Aborted(r)
                                                     ELSE AfterStatement(r)]
    /\ UNCHANGED <<recorded, tables, since, clash, failures>>

\* The primary key refuses a version that is there.
Refused(r) == Goal[r] = "up" /\ run[r].v \in recorded

\* Nothing looks at how many rows the DELETE has found.
RecordVersion(r) ==
    /\ run[r].at = "script"
    /\ ScriptDone(r)
    /\ WaitsFor(r) = {}
    /\ run' = [run EXCEPT
          ![r] = IF Refused(r)
                 THEN Aborted(r)
                 ELSE [@ EXCEPT !.at = "commit",
                                !.row = Goal[r] = "up" \/ run[r].v \in recorded]]
    /\ UNCHANGED <<recorded, tables, since, clash, failures>>

-----------------------------------------------------------------------------
HasRead(q) == run[q].at \notin {"new", "read"}

\* A runner of the other direction has committed since its read: a Down for
\* an Up, an Up for a Down.
Stale(r) == since[r] \ {Goal[r]} # {}

\* What COMMIT makes visible.
Commits(r) ==
    LET x == run[r] IN
    /\ x.at = "commit"
    /\ tables' = (tables \ x.drops) \cup x.creates
    /\ recorded' = CASE Goal[r] = "up" -> recorded \cup {x.v}
                     [] Goal[r] = "down" /\ x.row -> recorded \ {x.v}
                     [] OTHER -> recorded
    /\ since' = [q \in Runner |-> IF q # r /\ HasRead(q)
                                  THEN since[q] \cup {Goal[r]}
                                  ELSE since[q]]
    /\ clash' = (clash \/ Stale(r))

CommitTx(r) ==
    /\ Commits(r)
    /\ LET x == Ended(run[r], IF Goal[r] = "up" THEN "next" ELSE "ok")
       IN  run' = [run EXCEPT ![r] = [x EXCEPT !.applied = @ \cup {x.v}]]
    /\ UNCHANGED failures

-----------------------------------------------------------------------------
\* A runner that waits, through others perhaps, for itself: it is in every
\* set that holds those it waits for and, with each, those that one waits for.
Deadlocked(r) ==
    \A S \in SUBSET Runner :
        WaitsFor(r) \subseteq S /\ (\A q \in S : WaitsFor(q) \subseteq S) => r \in S

\* PostgreSQL cancels a statement in a circle of waits, and only there.
DeadlockDetected(r) ==
    /\ Deadlocked(r)
    /\ run' = [run EXCEPT ![r] = Aborted(r)]
    /\ UNCHANGED <<recorded, tables, since, clash, failures>>

\* A CREATE TABLE that waits for another of the same name fails, in spite of
\* IF NOT EXISTS, if the other commits.
SameNameFails(r) ==
    /\ run[r].at = "script" /\ ~ ScriptDone(r)
    /\ Current(r).op = "table"
    /\ \E q \in WaitsFor(r) : Current(r).on \in run[q].creates
    /\ run' = [run EXCEPT ![r] = Aborted(r)]
    /\ UNCHANGED <<recorded, tables, since, clash, failures>>

\* A statement fails or the process dies.
Fails(r) ==
    /\ run[r].at \in {"new", "read", "script", "commit"}
    /\ failures < MaxFailures
    /\ failures' = failures + 1
    /\ run' = [run EXCEPT ![r] = Aborted(r)]
    /\ UNCHANGED <<recorded, tables, since, clash>>

\* COMMIT takes effect and its answer is lost.
CommitUnknown(r) ==
    /\ Commits(r)
    /\ failures < MaxFailures
    /\ failures' = failures + 1
    /\ run' = [run EXCEPT ![r] = Aborted(r)]

Step(r) ==
    \/ AppliedVersions(r)
    \/ BeginTx(r)
    \/ Return(r)
    \/ RunStatement(r)
    \/ RecordVersion(r)
    \/ CommitTx(r)
    \/ DeadlockDetected(r)

Over(r) == run[r].at \in {"ok", "error"}

Quiet == (\A r \in Runner : Over(r)) /\ UNCHANGED vars

Next ==
    \/ \E r \in Runner : EnsureTable(r) \/ Step(r)
    \/ \E r \in Runner : SameNameFails(r) \/ Fails(r) \/ CommitUnknown(r)
    \/ Quiet

Spec == Init /\ [][Next]_vars

\* A statement that waits for nobody returns, and PostgreSQL finds deadlocks.
\* Nothing else ends a wait but the transaction it is for.
FairSpec == Spec /\ \A r \in Runner : WF_vars(Step(r))

-----------------------------------------------------------------------------
(***************************************************************************)
(* Properties                                                              *)
(***************************************************************************)
TypeOK ==
    /\ recorded \subseteq Version
    /\ tables \subseteq Table
    /\ run \in [Runner -> Run]
    /\ since \in [Runner -> SUBSET {"up", "down"}]
    /\ clash \in BOOLEAN
    /\ failures \in 0 .. MaxFailures

(***************************************************************************)
(* A recorded migration is a complete one: every table of its script is    *)
(* there, whatever runners worked at once and wherever they failed.  There *)
(* are two exceptions: an Up committed upon a read that a rollback has     *)
(* made stale, whose IF NOT EXISTS skipped a table the rollback drops, and *)
(* a rollback upon a read that an Up has made stale, which can drop tables *)
(* an Up of the same version has found there and skipped.                  *)
(***************************************************************************)
RecordedComplete ==
    ~ clash => \A v \in recorded : TablesOf(v) \subseteq tables

(***************************************************************************)
(* The recorded versions are the lowest ones, as "in order" (migrate.go    *)
(* 107) and "the most recently applied" (migrate.go 134) mean it.  The     *)
(* exceptions are the same two: an Up goes on above a version that was     *)
(* rolled back since its read, and a rollback removes the version that was *)
(* the highest at its read below one recorded since.  Rollbacks alone, of  *)
(* any number of runners, make no gap.                                     *)
(***************************************************************************)
RecordedPrefix ==
    ~ clash => \A v \in recorded, u \in Version : u < v => u \in recorded

(***************************************************************************)
(* What schema_migrations says is so: versions without a gap, each of them *)
(* applied completely.                                                     *)
(***************************************************************************)
RecordedSound == RecordedComplete /\ RecordedPrefix

(***************************************************************************)
(* What Up reports is so: as long as no rollback is committed after its    *)
(* read, the versions it names are recorded, and when it returns without   *)
(* an error there is no version left, also if other runners took part.     *)
(***************************************************************************)
UpTruthful ==
    \A r \in Runner :
        Goal[r] = "up" /\ "down" \notin since[r] =>
            /\ run[r].applied \subseteq recorded
            /\ run[r].at = "ok" => recorded = Version

(***************************************************************************)
(* Of several runners that find a version pending, one applies it: no two  *)
(* report the same version, unless it was rolled back in between.          *)
(***************************************************************************)
ReportedOnce ==
    \A q, r \in Runner :
        /\ q # r /\ Goal[q] = "up" /\ Goal[r] = "up"
        /\ "down" \notin since[q] /\ "down" \notin since[r]
        => run[q].applied \cap run[r].applied = {}

(***************************************************************************)
(* What the runners report is so, each of itself and all together.         *)
(***************************************************************************)
ReportsSound == UpTruthful /\ ReportedOnce

(***************************************************************************)
(* Every run ends, although up and down scripts lock the same tables in    *)
(* opposite orders and runners wait for one another's rows: a wait that is *)
(* not part of a circle ends by itself, and breaking the circles suffices. *)
(***************************************************************************)
EveryRunEnds == \A r \in Runner : (run[r].at = "read") ~> Over(r)

=============================================================================
