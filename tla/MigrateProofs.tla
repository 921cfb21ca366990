---------------------------- MODULE MigrateProofs ----------------------------
(***************************************************************************)
(* Theorems about Migrate, for any versions, scripts and invocations of Up *)
(* and Down, and any failures.                                             *)
(***************************************************************************)
EXTENDS Migrate, WellFoundedInduction, TLAPS

InTx(r) == run[r].at \in {"script", "commit"}

\* Every runner: outside its transaction nothing of one is left, and before
\* it has read it has applied nothing.
RunSound(r) ==
    LET x == run[r] IN
    /\ ~ InTx(r) => /\ x.line = 1 /\ x.creates = {} /\ x.drops = {}
                    /\ x.shares = {}
    /\ x.at \in {"new", "read"} => x.done = {} /\ x.applied = {}
    /\ InTx(r) => x.v \in Version /\ x.line >= 1
    /\ x.at = "commit" => ScriptDone(r)
    /\ x.row => x.at = "commit"

\* Its lines so far: their tables are there, or are its own.
Built(r) ==
    \A i \in DOMAIN UpSQL[run[r].v] :
        i < run[r].line => UpSQL[run[r].v][i].on \in tables \cup run[r].creates

UpSound(r) ==
    LET x == run[r] IN
    Goal[r] = "up" =>
        /\ x.drops = {}
        /\ InTx(r) => \A u \in Version : u < x.v => u \in x.done \cup x.applied
        /\ x.at = "ok" => Version \subseteq x.done \cup x.applied
        /\ x.at = "commit" => x.row /\ x.v \notin recorded
        /\ "down" \notin since[r] => /\ x.done \cup x.applied \subseteq recorded
                                     /\ InTx(r) => Built(r)

DownSound(r) ==
    LET x == run[r] IN
    Goal[r] = "down" =>
        /\ InTx(r) => /\ x.drops \subseteq TablesOf(x.v)
                      /\ x.v \in x.done
                      /\ \A u \in x.done : u <= x.v
        /\ x.row => x.v \in recorded
        /\ "up" \notin since[r] =>
              /\ x.at \in {"next", "script", "commit"} => recorded \subseteq x.done
              /\ x.at = "commit" => x.row \/ x.v \notin recorded

\* No two transactions insert or delete one row of schema_migrations.
RowsExclusive ==
    \A q, r \in Runner : q # r /\ run[q].row /\ run[r].row => run[q].v # run[r].v

MigrateInv ==
    /\ TypeOK
    /\ \A r \in Runner : RunSound(r) /\ UpSound(r) /\ DownSound(r)
    /\ RowsExclusive
    /\ RecordedComplete
    /\ RecordedPrefix
    /\ ReportedOnce

LEMMA InvInit == Init => MigrateInv
  <1> SUFFICES ASSUME Init PROVE MigrateInv
    OBVIOUS
  <1> USE DEF Init, NewRun
  <1>1. TypeOK
    <2>1. NewRun \in Run
      BY DEF Run
    <2>2. run \in [Runner -> Run]
      BY <2>1
    <2>3. MaxFailures \in Nat
      BY MigrateAssumption
    <2>4. since \in [Runner -> SUBSET {"up", "down"}] /\ clash \in BOOLEAN
      OBVIOUS
    <2> QED
      BY <2>2, <2>3, <2>4 DEF TypeOK
  <1>2. ASSUME NEW r \in Runner
        PROVE  RunSound(r) /\ UpSound(r) /\ DownSound(r)
    BY <1>2 DEF RunSound, UpSound, DownSound, InTx
  <1>3. RowsExclusive /\ RecordedComplete /\ RecordedPrefix /\ ReportedOnce
    BY DEF RowsExclusive, RecordedComplete, RecordedPrefix, ReportedOnce
  <1> QED
    BY <1>1, <1>2, <1>3 DEF MigrateInv

-----------------------------------------------------------------------------
(***************************************************************************)
(* The steps of one runner inside its transaction, or outside of one.      *)
(***************************************************************************)
At == {"new", "read", "next", "script", "commit", "ok", "error"}

Local(r) ==
    \/ EnsureTable(r) \/ AppliedVersions(r) \/ BeginTx(r) \/ Return(r)
    \/ RunStatement(r) \/ RecordVersion(r)
    \/ DeadlockDetected(r) \/ SameNameFails(r) \/ Fails(r)

\* The types and the soundness of the runner r that has moved.
Moved(r) ==
    /\ run' = [run EXCEPT ![r] = run'[r]]
    /\ run'[r] \in Run
    /\ RunSound(r)' /\ UpSound(r)' /\ DownSound(r)'

LEMMA EndedType ==
    ASSUME NEW x \in Run, NEW at \in At
    PROVE  /\ Ended(x, at) \in Run
           /\ Ended(x, at).at = at
           /\ Ended(x, at).line = 1
           /\ Ended(x, at).creates = {} /\ Ended(x, at).drops = {}
           /\ Ended(x, at).shares = {} /\ ~ Ended(x, at).row
           /\ Ended(x, at).done = x.done /\ Ended(x, at).applied = x.applied
           /\ Ended(x, at).v = x.v
  BY DEF Ended, Run, At

LEMMA AbortedMoves ==
    ASSUME MigrateInv, NEW r \in Runner, UNCHANGED <<recorded, tables, since>>,
           run' = [run EXCEPT ![r] = Aborted(r)]
    PROVE  Moved(r) /\ ~ run'[r].row /\ run'[r].applied = run[r].applied
  <1>1. run \in [Runner -> Run] /\ run[r] \in Run
    BY DEF MigrateInv, TypeOK
  <1>2. /\ run'[r] = Ended(run[r], "error")
        /\ run' = [run EXCEPT ![r] = run'[r]]
    BY <1>1 DEF Aborted
  <1>3. /\ run'[r] \in Run
        /\ run'[r].at = "error"
        /\ run'[r].line = 1
        /\ run'[r].creates = {} /\ run'[r].drops = {}
        /\ run'[r].shares = {} /\ ~ run'[r].row
        /\ run'[r].done = run[r].done /\ run'[r].applied = run[r].applied
    BY <1>1, <1>2, EndedType DEF At
  <1>4. UpSound(r)
    BY DEF MigrateInv
  <1>5. RunSound(r)' /\ DownSound(r)'
    BY <1>3 DEF RunSound, DownSound, InTx
  <1>6. UpSound(r)'
    BY <1>3, <1>4 DEF UpSound, InTx
  <1> QED
    BY <1>2, <1>3, <1>5, <1>6 DEF Moved

LEMMA EntersMoves ==
    ASSUME MigrateInv, NEW r \in Runner, EnsureTable(r) \/ AppliedVersions(r)
    PROVE  Moved(r) /\ ~ run'[r].row /\ run'[r].applied = run[r].applied
  <1>1. run \in [Runner -> Run] /\ run[r] \in Run /\ recorded \subseteq Version
    BY DEF MigrateInv, TypeOK
  <1>2. RunSound(r)
    BY DEF MigrateInv
  <1>3. CASE EnsureTable(r)
    <2>1. run'[r] = [run[r] EXCEPT !.at = "read"] /\ run' = [run EXCEPT ![r] = run'[r]]
      BY <1>1, <1>3 DEF EnsureTable
    <2>2. run'[r] \in Run
      BY <1>1, <2>1 DEF Run
    <2>3. RunSound(r)' /\ UpSound(r)' /\ DownSound(r)' /\ ~ run'[r].row
      BY <1>1, <1>2, <1>3, <2>1 DEF EnsureTable, RunSound, UpSound, DownSound, InTx, Run
    <2> QED
      BY <1>1, <2>1, <2>2, <2>3 DEF Moved, Run
  <1>4. CASE AppliedVersions(r)
    <2>1. /\ run'[r] = [run[r] EXCEPT !.at = "next", !.done = recorded]
          /\ run' = [run EXCEPT ![r] = run'[r]]
      BY <1>1, <1>4 DEF AppliedVersions
    <2>2. run'[r] \in Run
      BY <1>1, <2>1 DEF Run
    <2>3. RunSound(r)' /\ UpSound(r)' /\ DownSound(r)' /\ ~ run'[r].row
      BY <1>1, <1>2, <1>4, <2>1 DEF AppliedVersions, RunSound, UpSound, DownSound, InTx, Run
    <2> QED
      BY <1>1, <2>1, <2>2, <2>3 DEF Moved, Run
  <1> QED
    BY <1>3, <1>4

LEMMA LeastVersion ==
    ASSUME NEW T \in SUBSET Version, T # {}
    PROVE  \E n \in T : \A k \in T : n <= k
  <1> DEFINE Less == {p \in Nat \X Nat : p[1] < p[2]}
  <1>0. T \subseteq Nat
    BY MigrateAssumption
  <1>1. IsWellFoundedOn(Less, Nat)
    BY NatLessThanWellFounded DEF OpToRel
  <1>2. PICK n \in T : \A k \in T : ~ (<<k, n>> \in Less)
    <2> HIDE DEF Less
    <2> QED
      BY <1>0, <1>1, WFMin
  <1>3. \A k \in T : ~ (k < n)
    BY <1>0, <1>2
  <1> QED
    BY <1>0, <1>3

LEMMA BeginTxMoves ==
    ASSUME MigrateInv, NEW r \in Runner, BeginTx(r)
    PROVE  Moved(r) /\ ~ run'[r].row /\ run'[r].applied = run[r].applied
  <1> DEFINE x == run[r]
  <1>1. /\ run \in [Runner -> Run] /\ x \in Run
        /\ Version \subseteq Nat
        /\ Goal[r] \in {"up", "down"}
    BY MigrateAssumption DEF MigrateInv, TypeOK
  <1>2. RunSound(r) /\ UpSound(r) /\ DownSound(r)
    BY DEF MigrateInv
  <1>3. PICK v \in Version :
          /\ NextOf(r, v)
          /\ run' = [run EXCEPT
                ![r].v = v,
                ![r].at = IF Goal[r] = "down" /\ DownSQL[v] = << >>
                          THEN "error"
                          ELSE "script"]
    BY DEF BeginTx
  <1>4. PICK at \in {"error", "script"} :
          /\ run'[r] = [x EXCEPT !.v = v, !.at = at]
          /\ run' = [run EXCEPT ![r] = run'[r]]
    BY <1>1, <1>3
  <1>5. run'[r] \in Run /\ run'[r].applied = x.applied
    BY <1>1, <1>4 DEF Run
  <1>6. /\ x.at = "next" /\ x.line = 1 /\ x.creates = {} /\ x.drops = {}
        /\ x.shares = {} /\ ~ x.row
    BY <1>2 DEF BeginTx, RunSound, InTx
  <1>7. /\ run'[r].v = v /\ run'[r].at = at /\ run'[r].line = 1
        /\ run'[r].creates = {} /\ run'[r].drops = {} /\ run'[r].shares = {}
        /\ ~ run'[r].row /\ run'[r].done = x.done
        /\ UNCHANGED <<recorded, tables, since>>
    BY <1>1, <1>4, <1>6 DEF Run, BeginTx
  <1>8. RunSound(r)'
    BY <1>7 DEF RunSound, InTx
  <1>9. UpSound(r)'
    <2> SUFFICES ASSUME Goal[r] = "up" PROVE UpSound(r)'
      BY DEF UpSound
    <2>1. \A u \in Version : u < v => u \in x.done \cup x.applied
      BY <1>1, <1>3 DEF NextOf, NextUp
    <2>2. Built(r)'
      <3>1. \A i \in DOMAIN UpSQL[v] : i >= 1
        <4>1. UpSQL[v] \in Seq(Statement)
          BY MigrateAssumption
        <4> QED
          BY <4>1
      <3>2. \A i \in DOMAIN UpSQL[v] : i \in Nat
        <4>1. UpSQL[v] \in Seq(Statement)
          BY MigrateAssumption
        <4> QED
          BY <4>1
      <3> QED
        BY <1>7, <3>1, <3>2 DEF Built
    <2> QED
      BY <1>2, <1>5, <1>7, <2>1, <2>2 DEF UpSound, InTx
  <1>10. DownSound(r)'
    <2> SUFFICES ASSUME Goal[r] = "down" PROVE DownSound(r)'
      BY DEF DownSound
    <2>1. v \in x.done /\ \A u \in x.done : u <= v
      BY <1>3 DEF NextOf, NextDown
    <2> QED
      BY <1>2, <1>6, <1>7, <2>1 DEF DownSound, InTx
  <1> QED
    BY <1>4, <1>5, <1>7, <1>8, <1>9, <1>10 DEF Moved

\* Up is through when every version was applied, at its read or since.
LEMMA ReturnMoves ==
    ASSUME MigrateInv, NEW r \in Runner, Return(r)
    PROVE  Moved(r) /\ ~ run'[r].row /\ run'[r].applied = run[r].applied
  <1> DEFINE x == run[r]
             left == Version \ (x.done \cup x.applied)
  <1>1. run \in [Runner -> Run] /\ x \in Run
    BY DEF MigrateInv, TypeOK
  <1>2. RunSound(r) /\ UpSound(r) /\ DownSound(r)
    BY DEF MigrateInv
  <1>3. /\ run'[r] = [x EXCEPT !.at = "ok"]
        /\ run' = [run EXCEPT ![r] = run'[r]]
    BY <1>1 DEF Return
  <1>4. run'[r] \in Run /\ run'[r].applied = x.applied
    BY <1>1, <1>3 DEF Run
  <1>5. /\ x.at = "next" /\ x.line = 1 /\ x.creates = {} /\ x.drops = {}
        /\ x.shares = {} /\ ~ x.row
    BY <1>2 DEF Return, RunSound, InTx
  <1>6. /\ run'[r].at = "ok" /\ run'[r].line = 1
        /\ run'[r].creates = {} /\ run'[r].drops = {} /\ run'[r].shares = {}
        /\ ~ run'[r].row /\ run'[r].done = x.done
        /\ UNCHANGED <<recorded, tables, since>>
    BY <1>1, <1>3, <1>5 DEF Run, Return
  <1>7. RunSound(r)' /\ DownSound(r)'
    BY <1>6 DEF RunSound, DownSound, InTx
  <1>8. UpSound(r)'
    <2> SUFFICES ASSUME Goal[r] = "up" PROVE UpSound(r)'
      BY DEF UpSound
    <2>1. left = {}
      <3> SUFFICES ASSUME left # {} PROVE FALSE
        OBVIOUS
      <3>1. PICK v \in left : \A u \in left : v <= u
        <4> HIDE DEF left
        <4>1. left \in SUBSET Version
          BY DEF left
        <4> QED
          BY <4>1, LeastVersion
      <3> QED
        BY <3>1 DEF Return, NextOf, NextUp
    <2> QED
      BY <1>2, <1>4, <1>6, <2>1 DEF UpSound, InTx
  <1> QED
    BY <1>3, <1>4, <1>6, <1>7, <1>8 DEF Moved

\* The statement a runner is about to run is one of its version's script.
LEMMA CurrentType ==
    ASSUME MigrateInv, NEW r \in Runner, run[r].at = "script", ~ ScriptDone(r)
    PROVE  /\ run[r].line \in DOMAIN Script(r)
           /\ Current(r) \in Statement
           /\ Goal[r] = "up" => /\ Current(r).op # "drop"
                                /\ Current(r) = UpSQL[run[r].v][run[r].line]
           /\ Goal[r] = "down" => /\ Current(r).op = "drop"
                                  /\ Current(r).on \in TablesOf(run[r].v)
  <1>1. /\ run[r] \in Run /\ run[r].v \in Version /\ run[r].line >= 1
        /\ Goal[r] \in {"up", "down"}
    BY MigrateAssumption DEF MigrateInv, TypeOK, RunSound, InTx
  <1>2. Script(r) \in Seq(Statement)
    BY <1>1, MigrateAssumption DEF Script
  <1>3. run[r].line \in DOMAIN Script(r)
    BY <1>1, <1>2 DEF ScriptDone, Run
  <1>4. Current(r) \in Statement
    BY <1>2, <1>3 DEF Current
  <1>5. CASE Goal[r] = "up"
    <2>1. Script(r) = UpSQL[run[r].v] /\ Current(r) = UpSQL[run[r].v][run[r].line]
      BY <1>5 DEF Script, Current
    <2>2. \A v \in Version : \A i \in DOMAIN UpSQL[v] : UpSQL[v][i].op # "drop"
      BY MigrateAssumption
    <2>3. Current(r).op # "drop"
      BY <1>1, <1>3, <2>1, <2>2
    <2> QED
      BY <1>3, <1>4, <1>5, <2>1, <2>3
  <1>6. CASE Goal[r] = "down"
    <2>1. Script(r) = DownSQL[run[r].v] /\ Current(r) = DownSQL[run[r].v][run[r].line]
      BY <1>6 DEF Script, Current
    <2>2. \A v \in Version : \A i \in DOMAIN DownSQL[v] :
             DownSQL[v][i].op = "drop" /\ DownSQL[v][i].on \in TablesOf(v)
      BY MigrateAssumption
    <2>3. Current(r).op = "drop" /\ Current(r).on \in TablesOf(run[r].v)
      BY <1>1, <1>3, <2>1, <2>2
    <2> QED
      BY <1>3, <1>4, <1>6, <2>1, <2>3
  <1> QED
    BY <1>1, <1>5, <1>6

LEMMA AfterStatementType ==
    ASSUME MigrateInv, NEW r \in Runner, run[r].at = "script", ~ ScriptDone(r)
    PROVE  LET x == run[r]
               y == AfterStatement(r)
               s == Current(r)
           IN  /\ y \in Run
               /\ y.at = "script" /\ y.v = x.v /\ y.line = x.line + 1
               /\ y.done = x.done /\ y.applied = x.applied /\ y.row = x.row
               /\ x.creates \subseteq y.creates
               /\ s.op # "drop" => y.drops = x.drops
               /\ s.op = "table" => s.on \in Visible(r) \cup y.creates
               /\ y.drops \subseteq x.drops \cup {s.on}
  <1> DEFINE x == run[r]
             s == Current(r)
  <1>1. x \in Run /\ tables \subseteq Table
    BY DEF MigrateInv, TypeOK
  <1>2. /\ s \in [op: {"table", "index", "drop"}, on: Table, needs: SUBSET Table]
    BY CurrentType DEF Statement
  <1> DEFINE y == AfterStatement(r)
             fresh == {s.on} \ Visible(r)
             seen == {s.on} \cap Visible(r)
             Stepped(creates, drops, shares) ==
                 [x EXCEPT !.line = @ + 1, !.creates = creates, !.drops = drops,
                           !.shares = shares]
  <1>3. /\ fresh \subseteq Table /\ seen \subseteq Table /\ s.needs \subseteq Table
        /\ fresh \subseteq {s.on} /\ seen \subseteq {s.on}
        /\ s.on \in Visible(r) \cup fresh
    BY <1>2
  <1>4. \E shares \in SUBSET Table :
          y = CASE s.op = "table" -> Stepped(x.creates \cup fresh, x.drops, shares)
                [] s.op = "index" -> Stepped(x.creates, x.drops, shares)
                [] s.op = "drop"  -> Stepped(x.creates, x.drops \cup seen, shares)
    <2>1. x.shares \subseteq Table
      BY <1>1 DEF Run
    <2>2. CASE s.op = "table"
      <3>1. y = Stepped(x.creates \cup fresh, x.drops,
                     IF fresh = {} THEN x.shares ELSE x.shares \cup s.needs)
        BY <1>1, <2>2 DEF AfterStatement, Run
      <3> QED
        BY <1>3, <2>1, <2>2, <3>1
    <2>3. CASE s.op = "index"
      <3>1. y = Stepped(x.creates, x.drops, x.shares \cup s.needs)
        BY <1>1, <2>3 DEF AfterStatement, Run
      <3> QED
        BY <1>3, <2>1, <2>3, <3>1
    <2>4. CASE s.op = "drop"
      <3>1. y = Stepped(x.creates, x.drops \cup seen, x.shares)
        BY <1>1, <2>4 DEF AfterStatement, Run
      <3> QED
        BY <1>3, <2>1, <2>4, <3>1
    <2> QED
      BY <1>2, <2>2, <2>3, <2>4
  <1>5. ASSUME NEW creates \in SUBSET Table, NEW drops \in SUBSET Table,
               NEW shares \in SUBSET Table
        PROVE  /\ Stepped(creates, drops, shares) \in Run
               /\ Stepped(creates, drops, shares).at = x.at
               /\ Stepped(creates, drops, shares).v = x.v
               /\ Stepped(creates, drops, shares).line = x.line + 1
               /\ Stepped(creates, drops, shares).done = x.done
               /\ Stepped(creates, drops, shares).applied = x.applied
               /\ Stepped(creates, drops, shares).row = x.row
               /\ Stepped(creates, drops, shares).creates = creates
               /\ Stepped(creates, drops, shares).drops = drops
    <2>1. Stepped(creates, drops, shares) \in Run
      <3>1. x.line + 1 \in Nat
        BY <1>1 DEF Run
      <3> QED
        BY <1>1, <3>1 DEF Run
    <2> QED
      BY <1>1, <2>1 DEF Run
  <1>6. x.creates \subseteq Table /\ x.drops \subseteq Table
    BY <1>1 DEF Run
  <1> QED
    <2> HIDE DEF Stepped, fresh, seen
    <2>1. CASE s.op = "table"
      <3>1. PICK shares \in SUBSET Table :
              y = Stepped(x.creates \cup fresh, x.drops, shares)
        BY <1>4, <2>1
      <3> QED
        BY <1>3, <1>5, <1>6, <2>1, <3>1
    <2>2. CASE s.op = "index"
      <3>1. PICK shares \in SUBSET Table : y = Stepped(x.creates, x.drops, shares)
        BY <1>4, <2>2
      <3> QED
        BY <1>5, <1>6, <2>2, <3>1
    <2>3. CASE s.op = "drop"
      <3>1. PICK shares \in SUBSET Table :
              y = Stepped(x.creates, x.drops \cup seen, shares)
        BY <1>4, <2>3
      <3> QED
        BY <1>3, <1>5, <1>6, <2>3, <3>1
    <2> QED
      BY <1>2, <2>1, <2>2, <2>3

LEMMA RunStatementMoves ==
    ASSUME MigrateInv, NEW r \in Runner, RunStatement(r)
    PROVE  Moved(r) /\ ~ run'[r].row /\ run'[r].applied = run[r].applied
  <1> DEFINE x == run[r]
             y == AfterStatement(r)
             s == Current(r)
  <1>1. /\ run \in [Runner -> Run] /\ x \in Run
        /\ Goal[r] \in {"up", "down"}
    BY MigrateAssumption DEF MigrateInv, TypeOK
  <1>2. RunSound(r) /\ UpSound(r) /\ DownSound(r)
    BY DEF MigrateInv
  <1>3. /\ x.at = "script" /\ ~ ScriptDone(r)
        /\ UNCHANGED <<recorded, tables, since>>
    BY DEF RunStatement
  <1>4. CASE StatementFails(r)
    BY <1>3, <1>4, AbortedMoves DEF RunStatement
  <1>5. CASE ~ StatementFails(r)
    <2>1. run' = [run EXCEPT ![r] = y]
      BY <1>5 DEF RunStatement
    <2>2. run'[r] = y /\ run' = [run EXCEPT ![r] = run'[r]]
      BY <1>1, <2>1
    <2>3. /\ y \in Run
          /\ y.at = "script" /\ y.v = x.v /\ y.line = x.line + 1
          /\ y.done = x.done /\ y.applied = x.applied /\ y.row = x.row
          /\ x.creates \subseteq y.creates
          /\ s.op # "drop" => y.drops = x.drops
          /\ s.op = "table" => s.on \in Visible(r) \cup y.creates
          /\ y.drops \subseteq x.drops \cup {s.on}
      BY <1>3, AfterStatementType
    <2>4. ~ x.row /\ x.v \in Version /\ x.line \in Nat /\ x.line >= 1
      BY <1>1, <1>2, <1>3 DEF RunSound, InTx, Run
    <2>5. RunSound(r)'
      BY <2>2, <2>3, <2>4 DEF RunSound, InTx
    <2>6. UpSound(r)'
      <3> SUFFICES ASSUME Goal[r] = "up" PROVE UpSound(r)'
        BY DEF UpSound
      <3>1. s.op # "drop" /\ s = UpSQL[x.v][x.line] /\ s \in Statement
        BY <1>3, CurrentType
      <3>2. x.drops = {} /\ y.drops = {}
        BY <1>2, <2>3, <3>1 DEF UpSound
      <3>3. s.on \in tables \cup y.creates
        <4>1. s.op = "index" => s.on \in Visible(r)
          BY <1>5, <3>1 DEF StatementFails, Statement
        <4>2. s.op \in {"table", "index"}
          BY <3>1 DEF Statement
        <4> QED
          BY <2>3, <3>2, <4>1, <4>2 DEF Visible
      <3>4. Built(r) => Built(r)'
        <4> SUFFICES ASSUME Built(r), NEW i \in DOMAIN UpSQL[x.v], i < x.line + 1
                     PROVE  UpSQL[x.v][i].on \in tables \cup y.creates
          BY <1>3, <2>2, <2>3 DEF Built
        <4>1. i \in Nat
          <5>1. UpSQL[x.v] \in Seq(Statement)
            BY <2>4, MigrateAssumption
          <5> QED
            BY <5>1
        <4>2. CASE i = x.line
          BY <3>1, <3>3, <4>2
        <4>3. CASE i # x.line
          BY <2>3, <2>4, <4>1, <4>3 DEF Built
        <4> QED
          BY <4>2, <4>3
      <3> QED
        BY <1>2, <1>3, <2>2, <2>3, <3>2, <3>4 DEF UpSound, InTx
    <2>7. DownSound(r)'
      <3> SUFFICES ASSUME Goal[r] = "down" PROVE DownSound(r)'
        BY DEF DownSound
      <3>1. s.on \in TablesOf(x.v)
        BY <1>3, CurrentType
      <3> QED
        BY <1>2, <1>3, <2>2, <2>3, <2>4, <3>1 DEF DownSound, InTx
    <2> QED
      BY <2>2, <2>3, <2>4, <2>5, <2>6, <2>7 DEF Moved
  <1> QED
    BY <1>4, <1>5

\* What a transaction has inserted or deleted nobody else has.
LEMMA RecordVersionMoves ==
    ASSUME MigrateInv, NEW r \in Runner, RecordVersion(r)
    PROVE  /\ Moved(r) /\ run'[r].applied = run[r].applied
           /\ run'[r].row => \A q \in Runner \ {r} :
                                ~ (run[q].row /\ run[q].v = run'[r].v)
  <1> DEFINE x == run[r]
  <1>1. /\ run \in [Runner -> Run] /\ x \in Run
        /\ Goal \in [Runner -> {"up", "down"}]
    BY MigrateAssumption DEF MigrateInv, TypeOK
  <1>2. RunSound(r) /\ UpSound(r) /\ DownSound(r)
    BY DEF MigrateInv
  <1>3. /\ x.at = "script" /\ ScriptDone(r) /\ WaitsFor(r) = {}
        /\ UNCHANGED <<recorded, tables, since>>
    BY DEF RecordVersion
  <1>4. CASE Refused(r)
    BY <1>3, <1>4, AbortedMoves DEF RecordVersion
  <1>5. CASE ~ Refused(r)
    <2> DEFINE y == [x EXCEPT !.at = "commit",
                              !.row = Goal[r] = "up" \/ x.v \in recorded]
    <2>1. run' = [run EXCEPT ![r] = y]
      BY <1>5 DEF RecordVersion
    <2>2. run'[r] = y /\ run' = [run EXCEPT ![r] = run'[r]]
      BY <1>1, <2>1
    <2>3. /\ y \in Run
          /\ y.at = "commit" /\ y.v = x.v /\ y.line = x.line
          /\ y.done = x.done /\ y.applied = x.applied
          /\ y.creates = x.creates /\ y.drops = x.drops
      BY <1>1 DEF Run
    <2>4. y.row <=> Goal[r] = "up" \/ x.v \in recorded
      BY <1>1 DEF Run
    <2>5. x.v \in Version /\ x.line \in Nat /\ x.line >= 1
      BY <1>1, <1>2, <1>3 DEF RunSound, InTx, Run
    <2>6. RunSound(r)'
      BY <1>3, <2>2, <2>3, <2>5 DEF RunSound, InTx, ScriptDone, Script
    <2>7. UpSound(r)'
      <3>1. Built(r) => Built(r)'
        BY <1>3, <2>2, <2>3 DEF Built
      <3> QED
        BY <1>2, <1>3, <1>5, <2>2, <2>3, <2>4, <3>1 DEF UpSound, InTx, Refused
    <2>8. DownSound(r)'
      BY <1>2, <1>3, <2>2, <2>3, <2>4 DEF DownSound, InTx
    <2>9. ASSUME y.row, NEW q \in Runner \ {r}, run[q].row, run[q].v = x.v
          PROVE  FALSE
      <3>1. ~ (Goal[r] = "up" \/ Goal[q] = "down")
        BY <1>3, <2>9 DEF WaitsFor, WaitsForRow
      <3>2. Goal[r] = "down" /\ Goal[q] = "up" /\ x.v \in recorded
        BY <1>1, <2>4, <2>9, <3>1
      <3>3. UpSound(q) /\ RunSound(q)
        BY DEF MigrateInv
      <3> QED
        BY <2>9, <3>2, <3>3 DEF UpSound, RunSound
    <2> QED
      BY <2>2, <2>3, <2>6, <2>7, <2>8, <2>9 DEF Moved
  <1> QED
    BY <1>4, <1>5

LEMMA LocalMoves ==
    ASSUME MigrateInv, NEW r \in Runner, Local(r)
    PROVE  /\ UNCHANGED <<recorded, tables, since, clash>>
           /\ failures' \in 0 .. MaxFailures
           /\ Moved(r) /\ run'[r].applied = run[r].applied
           /\ run'[r].row => \A q \in Runner \ {r} :
                                ~ (run[q].row /\ run[q].v = run'[r].v)
  <1>1. failures \in 0 .. MaxFailures /\ MaxFailures \in Nat
    BY MigrateAssumption DEF MigrateInv, TypeOK
  <1>2. CASE EnsureTable(r) \/ AppliedVersions(r)
    BY <1>1, <1>2, EntersMoves DEF EnsureTable, AppliedVersions
  <1>3. CASE BeginTx(r)
    BY <1>1, <1>3, BeginTxMoves DEF BeginTx
  <1>4. CASE Return(r)
    BY <1>1, <1>4, ReturnMoves DEF Return
  <1>5. CASE RunStatement(r)
    BY <1>1, <1>5, RunStatementMoves DEF RunStatement
  <1>6. CASE RecordVersion(r)
    BY <1>1, <1>6, RecordVersionMoves DEF RecordVersion
  <1>7. CASE DeadlockDetected(r) \/ SameNameFails(r)
    BY <1>1, <1>7, AbortedMoves DEF DeadlockDetected, SameNameFails
  <1>8. CASE Fails(r)
    <2>1. Moved(r) /\ ~ run'[r].row /\ run'[r].applied = run[r].applied
      BY <1>8, AbortedMoves DEF Fails
    <2>2. failures' = failures + 1 /\ failures < MaxFailures
      BY <1>8 DEF Fails
    <2> QED
      BY <1>1, <1>8, <2>1, <2>2 DEF Fails
  <1> QED
    BY <1>2, <1>3, <1>4, <1>5, <1>6, <1>7, <1>8 DEF Local

LEMMA LocalKeeps ==
    ASSUME MigrateInv, NEW r \in Runner, Local(r)
    PROVE  MigrateInv'
  <1>1. /\ UNCHANGED <<recorded, tables, since, clash>>
        /\ failures' \in 0 .. MaxFailures
        /\ Moved(r) /\ run'[r].applied = run[r].applied
        /\ run'[r].row => \A q \in Runner \ {r} :
                             ~ (run[q].row /\ run[q].v = run'[r].v)
    BY LocalMoves
  <1>2. TypeOK /\ run \in [Runner -> Run]
    BY DEF MigrateInv, TypeOK
  <1>3. \A q \in Runner \ {r} : run'[q] = run[q]
    BY <1>1, <1>2 DEF Moved
  <1>4. run' \in [Runner -> Run]
    BY <1>1, <1>2 DEF Moved
  <1>5. TypeOK'
    BY <1>1, <1>2, <1>4 DEF TypeOK
  <1>6. ASSUME NEW q \in Runner
        PROVE  RunSound(q)' /\ UpSound(q)' /\ DownSound(q)'
    <2>1. CASE q = r
      BY <1>1, <2>1 DEF Moved
    <2>2. CASE q # r
      <3>1. run'[q] = run[q]
        BY <1>3, <2>2
      <3>2. RunSound(q)'
        BY <3>1 DEF MigrateInv, RunSound, InTx, ScriptDone, Script
      <3>3. UpSound(q)'
        BY <1>1, <3>1 DEF MigrateInv, UpSound, InTx, Built
      <3>4. DownSound(q)'
        BY <1>1, <3>1 DEF MigrateInv, DownSound, InTx
      <3> QED
        BY <3>2, <3>3, <3>4
    <2> QED
      BY <2>1, <2>2
  <1>7. RowsExclusive'
    BY <1>1, <1>3 DEF MigrateInv, RowsExclusive
  <1>8. RecordedComplete' /\ RecordedPrefix'
    BY <1>1 DEF MigrateInv, RecordedComplete, RecordedPrefix
  <1>9. \A q \in Runner : run'[q].applied = run[q].applied
    BY <1>1, <1>3
  <1>10. ReportedOnce'
    BY <1>1, <1>9 DEF MigrateInv, ReportedOnce
  <1> QED
    BY <1>5, <1>6, <1>7, <1>8, <1>10 DEF MigrateInv

-----------------------------------------------------------------------------
(***************************************************************************)
(* A commit.                                                               *)
(***************************************************************************)
\* What is visible after it, and what it leaves of its runner.
LEMMA CommitsType ==
    ASSUME MigrateInv, NEW r \in Runner, CommitTx(r) \/ CommitUnknown(r)
    PROVE  /\ Commits(r) /\ run[r].at = "commit" /\ run[r].v \in Version
           /\ run' = [run EXCEPT ![r] = run'[r]] /\ run'[r] \in Run
           /\ failures' \in 0 .. MaxFailures
           /\ run'[r].at \in {"next", "ok", "error"}
           /\ Goal[r] = "up" => run'[r].at \in {"next", "error"}
           /\ Goal[r] = "down" => run'[r].at \in {"ok", "error"}
           /\ run'[r].line = 1 /\ run'[r].creates = {} /\ run'[r].drops = {}
           /\ run'[r].shares = {} /\ ~ run'[r].row
           /\ run'[r].done = run[r].done
           /\ run'[r].applied \in {run[r].applied, run[r].applied \cup {run[r].v}}
  <1> DEFINE x == run[r]
  <1>1. /\ run \in [Runner -> Run] /\ x \in Run
        /\ failures \in 0 .. MaxFailures /\ MaxFailures \in Nat
        /\ Goal[r] \in {"up", "down"}
    BY MigrateAssumption DEF MigrateInv, TypeOK
  <1>2. Commits(r) /\ x.at = "commit"
    BY DEF CommitTx, CommitUnknown, Commits
  <1>3. x.v \in Version
    BY <1>2 DEF MigrateInv, RunSound, InTx
  <1>4. CASE CommitTx(r)
    <2> DEFINE at == IF Goal[r] = "up" THEN "next" ELSE "ok"
               y == Ended(x, at)
    <2>1. run' = [run EXCEPT ![r] = [y EXCEPT !.applied = y.applied \cup {y.v}]]
      BY <1>4 DEF CommitTx
    <2>2. run'[r] = [y EXCEPT !.applied = y.applied \cup {y.v}]
      BY <1>1, <2>1
    <2>3. /\ y \in Run
          /\ y.at = at
          /\ y.line = 1
          /\ y.creates = {} /\ y.drops = {}
          /\ y.shares = {} /\ ~ y.row
          /\ y.done = x.done /\ y.applied = x.applied /\ y.v = x.v
      BY <1>1, EndedType DEF At
    <2>4. run'[r] \in Run
      <3>1. \A z \in Run, S \in SUBSET Version : [z EXCEPT !.applied = S] \in Run
        BY DEF Run
      <3>2. y.applied \cup {x.v} \in SUBSET Version
        <4>1. x.applied \in SUBSET Version
          BY <1>1 DEF Run
        <4> QED
          BY <1>3, <2>3, <4>1
      <3>3. run'[r] = [y EXCEPT !.applied = y.applied \cup {x.v}]
        BY <2>2, <2>3
      <3> HIDE DEF y
      <3> QED
        BY <2>3, <3>1, <3>2, <3>3
    <2>5. /\ run'[r].at = at
          /\ run'[r].line = 1 /\ run'[r].creates = {} /\ run'[r].drops = {}
          /\ run'[r].shares = {} /\ ~ run'[r].row
          /\ run'[r].done = x.done
          /\ run'[r].applied = x.applied \cup {x.v}
      <3> HIDE DEF y
      <3> QED
        BY <2>2, <2>3 DEF Run
    <2>6. failures' \in 0 .. MaxFailures
      BY <1>1, <1>4 DEF CommitTx
    <2> QED
      BY <1>1, <1>2, <1>3, <2>1, <2>2, <2>4, <2>5, <2>6
  <1>5. CASE CommitUnknown(r)
    <2>1. run' = [run EXCEPT ![r] = Ended(x, "error")] /\ run'[r] = Ended(x, "error")
      BY <1>1, <1>5 DEF CommitUnknown, Aborted
    <2>2. failures' \in 0 .. MaxFailures
      BY <1>1, <1>5 DEF CommitUnknown
    <2> QED
      BY <1>1, <1>2, <1>3, <2>1, <2>2, EndedType DEF At
  <1> QED
    BY <1>4, <1>5

\* What it makes visible, of an Up and of a Down.
LEMMA CommitsEffect ==
    ASSUME MigrateInv, NEW r \in Runner, Commits(r)
    PROVE  /\ tables' \subseteq Table /\ recorded' \subseteq Version
           /\ since' \in [Runner -> SUBSET {"up", "down"}] /\ clash' \in BOOLEAN
           /\ since'[r] = since[r]
           /\ \A q \in Runner \ {r} : IF HasRead(q)
                                      THEN since'[q] = since[q] \cup {Goal[r]}
                                      ELSE since'[q] = since[q]
           /\ Goal[r] = "up" => /\ tables' = tables \cup run[r].creates
                                /\ recorded' = recorded \cup {run[r].v}
                                /\ run[r].v \notin recorded /\ run[r].row
           /\ Goal[r] = "down" => /\ tables \ TablesOf(run[r].v) \subseteq tables'
                                  /\ recorded' = IF run[r].row
                                                 THEN recorded \ {run[r].v}
                                                 ELSE recorded
           /\ ~ clash' => /\ ~ clash
                          /\ Goal[r] = "up" => "down" \notin since[r]
                          /\ Goal[r] = "down" => "up" \notin since[r]
  <1> DEFINE x == run[r]
  <1>1. /\ x \in Run /\ tables \subseteq Table /\ recorded \subseteq Version
        /\ since \in [Runner -> SUBSET {"up", "down"}] /\ clash \in BOOLEAN
        /\ Goal \in [Runner -> {"up", "down"}]
    BY MigrateAssumption DEF MigrateInv, TypeOK
  <1>2. RunSound(r) /\ UpSound(r) /\ DownSound(r)
    BY DEF MigrateInv
  <1>3. /\ x.at = "commit" /\ x.v \in Version
        /\ tables' = (tables \ x.drops) \cup x.creates
    BY <1>2 DEF Commits, RunSound, InTx
  <1>4. tables' \subseteq Table
    BY <1>1, <1>3 DEF Run
  <1>5. since' = [q \in Runner |-> IF q # r /\ HasRead(q)
                                   THEN since[q] \cup {Goal[r]} ELSE since[q]]
    BY DEF Commits
  <1>6. since' \in [Runner -> SUBSET {"up", "down"}]
    BY <1>1, <1>5
  <1>7. Goal[r] = "up" => /\ tables' = tables \cup x.creates
                          /\ recorded' = recorded \cup {x.v}
                          /\ x.v \notin recorded /\ x.row
    BY <1>2, <1>3 DEF UpSound, Commits
  <1>8. Goal[r] = "down" => /\ tables \ TablesOf(x.v) \subseteq tables'
                            /\ recorded' = IF x.row THEN recorded \ {x.v} ELSE recorded
    <2> SUFFICES ASSUME Goal[r] = "down"
                 PROVE  /\ tables \ TablesOf(x.v) \subseteq tables'
                        /\ recorded' = IF x.row THEN recorded \ {x.v} ELSE recorded
      OBVIOUS
    <2>1. x.drops \subseteq TablesOf(x.v)
      BY <1>2, <1>3 DEF DownSound, InTx
    <2>2. x.row \in BOOLEAN
      BY <1>1 DEF Run
    <2> QED
      BY <1>3, <2>1, <2>2 DEF Commits
  <1>9. recorded' \subseteq Version
    BY <1>1, <1>3, <1>7, <1>8
  <1>10. clash' = (clash \/ Stale(r))
    BY DEF Commits
  <1>11. clash' \in BOOLEAN
    BY <1>1, <1>10
  <1>12. ~ clash' => /\ ~ clash
                     /\ Goal[r] = "up" => "down" \notin since[r]
                     /\ Goal[r] = "down" => "up" \notin since[r]
    <2>1. ~ Stale(r) => /\ Goal[r] = "up" => "down" \notin since[r]
                        /\ Goal[r] = "down" => "up" \notin since[r]
      BY DEF Stale
    <2>2. clash \in BOOLEAN
      BY <1>1
    <2> HIDE DEF x
    <2> QED
      BY <1>10, <2>1, <2>2
  <1> QED
    BY <1>1, <1>4, <1>5, <1>6, <1>7, <1>8, <1>9, <1>11, <1>12

LEMMA CommitKeeps ==
    ASSUME MigrateInv, NEW r \in Runner, CommitTx(r) \/ CommitUnknown(r)
    PROVE  MigrateInv'
  <1> DEFINE x == run[r]
  <1>1. /\ Commits(r) /\ x.at = "commit" /\ x.v \in Version
        /\ run' = [run EXCEPT ![r] = run'[r]] /\ run'[r] \in Run
        /\ failures' \in 0 .. MaxFailures
        /\ run'[r].at \in {"next", "ok", "error"}
        /\ Goal[r] = "up" => run'[r].at \in {"next", "error"}
        /\ Goal[r] = "down" => run'[r].at \in {"ok", "error"}
        /\ run'[r].line = 1 /\ run'[r].creates = {} /\ run'[r].drops = {}
        /\ run'[r].shares = {} /\ ~ run'[r].row
        /\ run'[r].done = x.done
        /\ run'[r].applied \in {x.applied, x.applied \cup {x.v}}
    BY CommitsType
  <1>2. /\ tables' \subseteq Table /\ recorded' \subseteq Version
        /\ since' \in [Runner -> SUBSET {"up", "down"}] /\ clash' \in BOOLEAN
        /\ since'[r] = since[r]
        /\ \A q \in Runner \ {r} : IF HasRead(q)
                                   THEN since'[q] = since[q] \cup {Goal[r]}
                                   ELSE since'[q] = since[q]
        /\ Goal[r] = "up" => /\ tables' = tables \cup x.creates
                             /\ recorded' = recorded \cup {x.v}
                             /\ x.v \notin recorded /\ x.row
        /\ Goal[r] = "down" => /\ tables \ TablesOf(x.v) \subseteq tables'
                               /\ recorded' = IF x.row THEN recorded \ {x.v} ELSE recorded
        /\ ~ clash' => /\ ~ clash
                       /\ Goal[r] = "up" => "down" \notin since[r]
                       /\ Goal[r] = "down" => "up" \notin since[r]
    BY <1>1, CommitsEffect
  <1>3. /\ run \in [Runner -> Run] /\ Goal \in [Runner -> {"up", "down"}]
        /\ since \in [Runner -> SUBSET {"up", "down"}]
        /\ \A q \in Runner : RunSound(q) /\ UpSound(q) /\ DownSound(q)
    BY MigrateAssumption DEF MigrateInv, TypeOK
  <1>4. \A q \in Runner \ {r} : run'[q] = run[q]
    BY <1>1, <1>3
  <1>5. TypeOK'
    BY <1>1, <1>2, <1>3 DEF TypeOK
  <1>6. \A q \in Runner \ {r} : HasRead(q) => Goal[r] \in since'[q]
    BY <1>2
  <1>7. ASSUME NEW q \in Runner
        PROVE  RunSound(q)' /\ UpSound(q)' /\ DownSound(q)'
    <2>1. CASE q = r
      <3>1. RunSound(q)'
        BY <1>1, <2>1 DEF RunSound, InTx
      <3>2. UpSound(q)'
        BY <1>1, <1>2, <1>3, <2>1 DEF UpSound, InTx
      <3>3. DownSound(q)'
        BY <1>1, <2>1 DEF DownSound, InTx
      <3> QED
        BY <3>1, <3>2, <3>3
    <2>2. CASE q # r
      <3>1. run'[q] = run[q]
        BY <1>4, <2>2
      <3>2. /\ "down" \notin since'[q] => "down" \notin since[q]
            /\ "up" \notin since'[q] => "up" \notin since[q]
        BY <1>2, <2>2
      <3>3. run[q].row => run[q].at = "commit"
        BY <1>3 DEF RunSound
      <3>4. RunSound(q)'
        BY <1>3, <3>1 DEF RunSound, InTx, ScriptDone, Script
      <3>5. UpSound(q)'
        <4> SUFFICES ASSUME Goal[q] = "up" PROVE UpSound(q)'
          BY DEF UpSound
        <4>1. run[q].at = "commit" => run[q].row /\ run[q].v \notin recorded'
          <5>1. run[q].at = "commit" => run[q].row /\ run[q].v \notin recorded
            BY <1>3 DEF UpSound
          <5>2. Goal[r] = "up" /\ run[q].row => run[q].v # x.v
            BY <1>2, <2>2 DEF MigrateInv, RowsExclusive
          <5> QED
            BY <1>2, <1>3, <5>1, <5>2
        <4>2. ASSUME "down" \notin since'[q]
              PROVE  /\ run[q].done \cup run[q].applied \subseteq recorded'
                     /\ InTx(q) => Built(q)'
          <5>1. CASE HasRead(q)
            <6>1. Goal[r] = "up"
              BY <1>3, <1>6, <2>2, <4>2, <5>1
            <6>2. recorded \subseteq recorded' /\ tables \subseteq tables'
              BY <1>2, <6>1
            <6> QED
              BY <1>3, <3>1, <3>2, <4>2, <6>2 DEF UpSound, Built
          <5>2. CASE ~ HasRead(q)
            BY <1>3, <5>2 DEF HasRead, RunSound, InTx
          <5> QED
            BY <5>1, <5>2
        <4> QED
          BY <1>3, <3>1, <4>1, <4>2 DEF UpSound, InTx
      <3>6. DownSound(q)'
        <4> SUFFICES ASSUME Goal[q] = "down" PROVE DownSound(q)'
          BY DEF DownSound
        <4>1. run[q].row => run[q].v \in recorded'
          <5>1. run[q].row => run[q].v \in recorded
            BY <1>3 DEF DownSound
          <5>2. x.row /\ run[q].row => run[q].v # x.v
            BY <2>2 DEF MigrateInv, RowsExclusive
          <5> QED
            BY <1>2, <1>3, <5>1, <5>2
        <4>2. ASSUME "up" \notin since'[q], HasRead(q)
              PROVE  recorded' \subseteq recorded
          BY <1>2, <1>3, <1>6, <2>2, <4>2
        <4> QED
          BY <1>3, <3>1, <3>2, <4>1, <4>2 DEF DownSound, InTx, HasRead
      <3> QED
        BY <3>4, <3>5, <3>6
    <2> QED
      BY <2>1, <2>2
  <1>8. RowsExclusive'
    BY <1>1, <1>4 DEF MigrateInv, RowsExclusive
  <1>9. RecordedComplete'
    <2> SUFFICES ASSUME ~ clash', NEW v \in recorded' PROVE TablesOf(v) \subseteq tables'
      BY DEF RecordedComplete, TablesOf
    <2>1. \A u \in recorded : TablesOf(u) \subseteq tables
      BY <1>2 DEF MigrateInv, RecordedComplete
    <2>2. CASE Goal[r] = "up"
      <3>1. CASE v = x.v
        <4>1. Built(r) /\ ScriptDone(r) /\ x.line \in Nat
          BY <1>1, <1>2, <1>3, <2>2 DEF UpSound, RunSound, InTx, Run
        <4>2. UpSQL[v] \in Seq(Statement)
          BY <1>2, MigrateAssumption
        <4>3. \A i \in DOMAIN UpSQL[v] : i < x.line
          BY <2>2, <3>1, <4>1, <4>2 DEF ScriptDone, Script
        <4> QED
          BY <1>2, <2>2, <3>1, <4>1, <4>3 DEF Built, TablesOf
      <3>2. CASE v # x.v
        BY <1>2, <2>1, <2>2, <3>2
      <3> QED
        BY <3>1, <3>2
    <2>3. CASE Goal[r] = "down"
      <3>1. x.row \/ x.v \notin recorded
        BY <1>1, <1>2, <1>3, <2>3 DEF DownSound
      <3>2. v \in recorded /\ v # x.v /\ v \in Version
        BY <1>2, <2>3, <3>1
      <3>3. TablesOf(v) \cap TablesOf(x.v) = {}
        BY <1>1, <3>2, MigrateAssumption
      <3> QED
        BY <1>2, <2>1, <2>3, <3>2, <3>3
    <2> QED
      BY <1>3, <2>2, <2>3
  <1>10. RecordedPrefix'
    <2> SUFFICES ASSUME ~ clash', NEW v \in recorded', NEW u \in Version, u < v
                 PROVE  u \in recorded'
      BY DEF RecordedPrefix
    <2>1. \A w \in recorded : \A t \in Version : t < w => t \in recorded
      BY <1>2 DEF MigrateInv, RecordedPrefix
    <2>2. CASE Goal[r] = "up"
      <3>1. \A t \in Version : t < x.v => t \in recorded
        BY <1>1, <1>2, <1>3, <2>2 DEF UpSound, InTx
      <3> QED
        BY <1>2, <2>1, <2>2, <3>1
    <2>3. CASE Goal[r] = "down"
      <3>1. /\ x.row \/ x.v \notin recorded
            /\ recorded \subseteq x.done /\ \A t \in x.done : t <= x.v
        BY <1>1, <1>2, <1>3, <2>3 DEF DownSound, InTx
      <3>2. recorded' = recorded \ {x.v}
        BY <1>2, <2>3, <3>1
      <3>3. u \in recorded /\ v \in recorded /\ v <= x.v
        BY <2>1, <3>1, <3>2
      <3>4. Version \subseteq Nat /\ v \in Version
        BY <1>2, MigrateAssumption
      <3>5. u # x.v
        BY <1>1, <3>3, <3>4
      <3> QED
        BY <3>2, <3>3, <3>5
    <2> QED
      BY <1>3, <2>2, <2>3
  <1>11. ReportedOnce'
    <2>1. \A q \in Runner : "down" \notin since'[q] => "down" \notin since[q]
      BY <1>2
    <2>2. Goal[r] = "up" => \A q \in Runner \ {r} :
             Goal[q] = "up" /\ "down" \notin since[q] => x.v \notin run[q].applied
      BY <1>2, <1>3 DEF UpSound
    <2>3. ASSUME NEW q \in Runner, NEW p \in Runner, q # p,
                 Goal[q] = "up", Goal[p] = "up",
                 "down" \notin since'[q], "down" \notin since'[p]
          PROVE  run'[q].applied \cap run'[p].applied = {}
      <3>1. run[q].applied \cap run[p].applied = {}
        BY <2>1, <2>3 DEF MigrateInv, ReportedOnce
      <3>2. CASE q = r
        BY <1>1, <1>4, <2>1, <2>2, <2>3, <3>1, <3>2
      <3>3. CASE p = r
        BY <1>1, <1>4, <2>1, <2>2, <2>3, <3>1, <3>3
      <3>4. CASE q # r /\ p # r
        BY <1>4, <3>1, <3>4
      <3> QED
        BY <3>2, <3>3, <3>4
    <2> QED
      BY <2>3 DEF ReportedOnce
  <1> QED
    BY <1>5, <1>7, <1>8, <1>9, <1>10, <1>11 DEF MigrateInv

-----------------------------------------------------------------------------
LEMMA InvStep == MigrateInv /\ [Next]_vars => MigrateInv'
  <1> SUFFICES ASSUME MigrateInv, [Next]_vars PROVE MigrateInv'
    OBVIOUS
  <1>1. CASE UNCHANGED vars
    BY <1>1 DEF vars, MigrateInv, TypeOK, RunSound, UpSound, DownSound, InTx,
       ScriptDone, Script, Built, RowsExclusive, RecordedComplete, RecordedPrefix,
       ReportedOnce
  <1>2. CASE Quiet
    BY <1>1, <1>2 DEF Quiet
  <1>3. ASSUME NEW r \in Runner, Local(r) PROVE MigrateInv'
    BY <1>3, LocalKeeps
  <1>4. ASSUME NEW r \in Runner, CommitTx(r) \/ CommitUnknown(r) PROVE MigrateInv'
    BY <1>4, CommitKeeps
  <1> QED
    BY <1>1, <1>2, <1>3, <1>4 DEF Next, Step, Local

LEMMA InvHolds == Spec => []MigrateInv
  BY InvInit, InvStep, PTL DEF Spec

(***************************************************************************)
(* Every variable of the migration runner keeps its type.                  *)
(***************************************************************************)
THEOREM TypeCorrect == Spec => []TypeOK
  BY InvHolds, PTL DEF MigrateInv

(***************************************************************************)
(* For any scripts that create and drop tables of their own, any number of *)
(* concurrent Ups and Downs and any failures, a recorded migration has all *)
(* its tables, unless an Up has committed upon a read that a rollback had  *)
(* made stale, or a rollback upon one that an Up had.                      *)
(***************************************************************************)
THEOREM AlwaysComplete == Spec => []RecordedComplete
  BY InvHolds, PTL DEF MigrateInv

(***************************************************************************)
(* Under the same two exceptions no version is recorded without every      *)
(* lower one: neither Ups alone nor Downs alone, of any number of runners, *)
(* leave a gap.                                                            *)
(***************************************************************************)
THEOREM AlwaysPrefix == Spec => []RecordedPrefix
  BY InvHolds, PTL DEF MigrateInv

(***************************************************************************)
(* Of several Ups one reports a version as applied, unless rollbacks came  *)
(* in between: the primary key of schema_migrations decides.               *)
(***************************************************************************)
THEOREM AppliedByOne == Spec => []ReportedOnce
  BY InvHolds, PTL DEF MigrateInv

(***************************************************************************)
(* As long as no rollback follows its read, what Up reports is recorded,   *)
(* and nothing is left pending when it returns without an error.           *)
(***************************************************************************)
THEOREM UpReportsTruth == Spec => []UpTruthful
  <1>1. MigrateInv => UpTruthful
    <2> SUFFICES ASSUME MigrateInv, NEW r \in Runner,
                        Goal[r] = "up", "down" \notin since[r]
                 PROVE  /\ run[r].applied \subseteq recorded
                        /\ run[r].at = "ok" => recorded = Version
      BY DEF UpTruthful
    <2>1. UpSound(r) /\ recorded \subseteq Version
      BY DEF MigrateInv, TypeOK
    <2> QED
      BY <2>1 DEF UpSound
  <1> QED
    BY <1>1, InvHolds, PTL

(***************************************************************************)
(* For any scripts and runners, schema_migrations has no gap and nothing   *)
(* that is only half applied, until an Up commits upon a read that a       *)
(* rollback has made stale, or a rollback upon one that an Up has.         *)
(***************************************************************************)
THEOREM RecordedAlwaysSound == Spec => []RecordedSound
  BY AlwaysComplete, AlwaysPrefix, PTL DEF RecordedSound

(***************************************************************************)
(* What several Ups report is so, of each and of all together.             *)
(***************************************************************************)
THEOREM ReportsAlwaysSound == Spec => []ReportsSound
  BY UpReportsTruth, AppliedByOne, PTL DEF ReportsSound

=============================================================================
