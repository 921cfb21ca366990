------------------------------ MODULE ReadPath ------------------------------
(***************************************************************************)
(* The read endpoints that run two statements: an event by id and its      *)
(* verification (routes/events_read.go, internal/verify/verify.go), its    *)
(* neighbours, and the verification of a chain (routes/chains.go).         *)
(*                                                                         *)
(* Every statement sees what is committed when it starts, and nothing ties *)
(* the two of a request together.  Between them the pipeline moves on; it  *)
(* is represented by Journal, which Sealer implements, and the rows of a   *)
(* chain are those the sealer writes (Sealer!ChainIntact).  Requests only  *)
(* read, so one request stands for any number of them.                     *)
(***************************************************************************)
EXTENDS JournalRows

CONSTANTS
    Ext, ExtOf, Shard,          \* as in Journal
    ReadsFail,                  \* whether a read of pending_events may fail
    ChainVerifySyncLimit        \* the longest chain verified in line

ASSUME ReadPathAssumption ==
    /\ ExtOf \in [Event -> Ext \cup {Nil}]
    /\ PayloadOf \in [Event -> Payload]
    /\ ReadsFail \in BOOLEAN
    /\ ChainVerifySyncLimit \in Nat \ {0}
    /\ Nil \notin Event /\ Nil \notin Ext /\ Nil \notin EventRow
    /\ Event \cap Shard = {}

VARIABLES
    accepted, waiting, log,     \* the pipeline, as in Journal
    step,       \* the request's next statement
    asked,      \* the event or the chain it asks for
    row,        \* the row its first statement has read
    reply,      \* its response
    then        \* history: the pipeline when the first statement ran

J == INSTANCE Journal

pipeline == <<accepted, waiting, log>>
vars == <<pipeline, step, asked, row, reply, then>>

-----------------------------------------------------------------------------
Sealed(e, l) == \E s \in Shard : e \in ToSet(l[s])

ShardOf(e, l) == CHOOSE s \in Shard : e \in ToSet(l[s])

PositionOf(e, l) == CHOOSE i \in DOMAIN l : l[i] = e

\* The event in its chain, as the journal has it.
Place(e) ==
    LET l == log[ShardOf(e, log)] IN EventAt(l, PositionOf(e, l))

-----------------------------------------------------------------------------
NoReply == [op |-> "none"]

Init ==
    /\ J!Init
    /\ step = "new"
    /\ asked = Nil
    /\ row = Nil
    /\ reply = NoReply
    /\ then = [accepted |-> {}, waiting |-> {}, log |-> log]

Begins(x, next) ==
    /\ step = "new"
    /\ step' = next
    /\ asked' = x
    /\ then' = [accepted |-> accepted, waiting |-> waiting, log |-> log]

Replies(r) ==
    /\ step' = "done"
    /\ reply' = r
    /\ UNCHANGED <<pipeline, asked, then>>

-----------------------------------------------------------------------------
(***************************************************************************)
(* GET /events/{id} and /events/{id}/verify, by a client that was given    *)
(* the id: events first, pending_events when it is not there.              *)
(***************************************************************************)

\* Mutant: the lookup is confined to one shard.
InOneShard(e) == e \in ToSet(log[CHOOSE s \in Shard : TRUE])

\* GetEventForOrg finds a row.
GetEventForOrg(e) == Sealed(e, log)

Get(e) ==
    /\ e \in accepted
    /\ IF GetEventForOrg(e)
       THEN /\ Begins(e, "done")
            /\ reply' = [op |-> "get", failed |-> FALSE, status |-> "sealed"]
       ELSE /\ Begins(e, "pending")
            /\ UNCHANGED reply
    /\ UNCHANGED <<pipeline, row>>

\* The answer is 404 as soon as this read returns no row, for any error.
GetPendingEventForOrg ==
    /\ step = "pending"
    /\ \E failed \in {FALSE, ReadsFail} :
          Replies([op |-> "get", failed |-> failed,
                   status |-> IF asked \in waiting /\ ~ failed THEN "pending"
                                                             ELSE "not_found"])
    /\ UNCHANGED row

-----------------------------------------------------------------------------
(***************************************************************************)
(* GET /events/{id}/chain: the row of the event, then the rows at the      *)
(* positions around it.                                                    *)
(***************************************************************************)
ChainNeighbors(e) ==
    /\ e \in accepted
    /\ IF GetEventForOrg(e)
       THEN /\ Begins(e, "neighbors")
            /\ row' = Place(e)
            /\ UNCHANGED reply
       ELSE /\ Begins(e, "done")
            /\ reply' = [op |-> "neighbors", status |-> "not_found"]
            /\ UNCHANGED row
    /\ UNCHANGED pipeline

\* Mutant: the positions of the slice, counted from 0.
PositionsFromZero(i) == {i - 2, i}

NeighborPositions(i) == {i - 1, i + 1}

GetEventNeighbors ==
    LET l     == log[ShardOf(asked, log)]
        found == {EventAt(l, i) : i \in NeighborPositions(row.pos) \cap DOMAIN l}
        at(i) == IF \E n \in found : n.pos = i
                 THEN CHOOSE n \in found : n.pos = i
                 ELSE Nil
    IN
    /\ step = "neighbors"
    /\ Replies([op |-> "neighbors", status |-> "found",
                previous |-> at(row.pos - 1), next |-> at(row.pos + 1)])
    /\ UNCHANGED row

-----------------------------------------------------------------------------
(***************************************************************************)
(* GET /chains/{id}/verify: the chain row, then the rows of the chain up   *)
(* to the limit, rehashed one after the other.                             *)
(***************************************************************************)

\* Mutant: the limit is one off.
TooLargeLate(tip) == tip.pos > ChainVerifySyncLimit + 1

TooLarge(tip) == tip.pos > ChainVerifySyncLimit

\* The row of a chain is committed with the first rows of the chain.
GetChainForOrg(s) == log[s] # << >>

\* Mutant: the handler has answered and does not return.
RefusesAndGoesOn(s, verdict) ==
    /\ Begins(s, "walk")
    /\ reply' = [op |-> "verify", verdict |-> verdict, walked |-> << >>]

\* The handler answers after its first statement.
Refuses(s, verdict) ==
    /\ Begins(s, "done")
    /\ reply' = [op |-> "verify", verdict |-> verdict, walked |-> << >>]

VerifyStored(s) ==
    LET tip == ChainRow(log[s]) IN
    /\ \/ /\ ~ GetChainForOrg(s)
          /\ Refuses(s, "not_found")
          /\ UNCHANGED row
       \/ /\ GetChainForOrg(s)
          /\ row' = tip
          /\ IF TooLarge(tip)
             THEN Refuses(s, "too_large")
             ELSE Begins(s, "walk") /\ UNCHANGED reply
    /\ UNCHANGED pipeline

\* ORDER BY chain_position LIMIT.
WalkChainForVerify(l) ==
    [i \in 1 .. Min({Len(l), ChainVerifySyncLimit}) |-> EventAt(l, i)]

StoredPrev(r) == IF r.prev = Nil THEN Genesis ELSE r.prev

WalkBreaks(rows) ==
    {i \in DOMAIN rows :
        \/ StoredPrev(rows[i]) # RunningTip(rows, i)
        \/ EventHash(RunningTip(rows, i), rows[i].payload, rows[i].pos)
              # rows[i].hash}

TipMatches(tip, rows) == rows # << >> /\ tip.hash = Last(rows).hash

EmptyChainConsistent(tip, rows) == rows = << >> /\ tip = [pos |-> 0, hash |-> Nil]

Verdict(tip, rows) ==
    IF WalkBreaks(rows) # {} THEN "broken"
    ELSE IF TipMatches(tip, rows) \/ EmptyChainConsistent(tip, rows)
         THEN "valid" ELSE "invalid"

Walk ==
    LET rows == WalkChainForVerify(log[asked]) IN
    /\ step = "walk"
    /\ Replies([op |-> "verify", verdict |-> Verdict(row, rows),
                walked |-> [i \in DOMAIN rows |-> rows[i].id]])
    /\ UNCHANGED row

-----------------------------------------------------------------------------
Pipeline == J!Next /\ UNCHANGED <<step, asked, row, reply, then>>

\* The pipeline has nothing to do.
Rest == waiting = {} /\ step = "done" /\ UNCHANGED vars

Next ==
    \/ Pipeline
    \/ \E e \in Event : Get(e) \/ ChainNeighbors(e)
    \/ GetPendingEventForOrg
    \/ GetEventNeighbors
    \/ \E s \in Shard : VerifyStored(s)
    \/ Walk
    \/ Rest

Spec == Init /\ [][Next]_vars

-----------------------------------------------------------------------------
(***************************************************************************)
(* Properties                                                              *)
(***************************************************************************)
TypeOK ==
    /\ accepted \subseteq Event /\ waiting \subseteq accepted
    /\ log \in [Shard -> Seq(Event)]
    /\ step \in {"new", "pending", "neighbors", "walk", "done"}
    /\ asked \in Event \cup Shard \cup {Nil}
    /\ row # Nil => row.pos \in Nat /\ row.hash \in Hash \cup {Nil}
    /\ step = "done" <=> reply.op \in {"get", "neighbors", "verify"}
    /\ step # "done" => reply = NoReply

Answered(op) == step = "done" /\ reply.op = op

(***************************************************************************)
(* A 404 for an id the client was given has one of three reasons: the      *)
(* event was set aside as a duplicate, it was sealed between the two reads *)
(* of the request, or the second read failed.  An event sealed before the  *)
(* request is never missed.                                                *)
(***************************************************************************)
NotFoundExplained ==
    Answered("get") /\ reply.status = "not_found" =>
        \/ asked \notin J!Logged /\ asked \notin waiting
        \/ asked \in then.waiting /\ asked \notin waiting
        \/ reply.failed

(***************************************************************************)
(* The neighbours of an event are the rows its hashes link it to, although *)
(* they are read later than the event: there is a previous row unless the  *)
(* event is the first, it carries the hash the event commits to, the next  *)
(* row commits to the event's hash, and it is missing only when the event  *)
(* was the last of its chain when the request began.                       *)
(***************************************************************************)
NeighborsLinked ==
    Answered("neighbors") /\ reply.status = "found" =>
        /\ reply.previous = Nil <=> row.pos = 1
        /\ reply.previous # Nil => reply.previous.hash = row.prev
        /\ reply.next # Nil => reply.next.prev = row.hash
        /\ reply.next = Nil =>
              row.pos = Len(then.log[ShardOf(asked, then.log)])

(***************************************************************************)
(* A verified chain is whole: the rows walked are exactly the events the   *)
(* chain held when its tip was read, although rows may have been added     *)
(* before they were walked.                                                *)
(***************************************************************************)
ValidMeansWhole ==
    Answered("verify") /\ reply.verdict = "valid" =>
        reply.walked = then.log[asked]

(***************************************************************************)
(* A walk over what the sealer wrote never reports a break, wherever it    *)
(* begins to race with a seal.                                             *)
(***************************************************************************)
NoFalseBreak == Answered("verify") => reply.verdict # "broken"

(***************************************************************************)
(* Without a seal in between, a chain within the limit verifies: a chain   *)
(* is only reported invalid when it has grown since its tip was read.      *)
(***************************************************************************)
InvalidMeansGrown ==
    Answered("verify") /\ reply.verdict = "invalid" =>
        Len(log[asked]) > Len(then.log[asked])

(***************************************************************************)
(* A chain is not found only if nothing was sealed in it at the request.   *)
(***************************************************************************)
NotFoundMeansUnsealed ==
    Answered("verify") =>
        (reply.verdict = "not_found" <=> then.log[asked] = << >>)

(***************************************************************************)
(* Every verdict over an intact chain is right, or wrong for one reason:   *)
(* valid means whole, broken never comes, invalid means that a batch was   *)
(* sealed between the two reads, and not found that there was no chain.    *)
(***************************************************************************)
VerdictExplained ==
    /\ ValidMeansWhole /\ NoFalseBreak /\ InvalidMeansGrown
    /\ NotFoundMeansUnsealed

(***************************************************************************)
(* What ARCHITECTURE.md 30-31 says: a chain produced by any server         *)
(* verifies.  No chain here is anything but intact.                        *)
(***************************************************************************)
IntactChainVerifies ==
    Answered("verify") => reply.verdict \in {"valid", "too_large", "not_found"}

=============================================================================
