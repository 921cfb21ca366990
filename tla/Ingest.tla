------------------------------- MODULE Ingest -------------------------------
(***************************************************************************)
(* The accept path: PostOne and PostBatch (server/internal/routes/         *)
(* events.go) and the Accept they call (server/internal/ingest/accept.go). *)
(*                                                                         *)
(* Accept runs one autocommitted statement after another, without a        *)
(* transaction around them.  One action is one statement.  A statement     *)
(* whose caller goes away (a cancelled request, a broken connection) may   *)
(* return an error after it has taken effect.                              *)
(***************************************************************************)
EXTENDS Integers, Sequences, FiniteSets

CONSTANTS
    Request,        \* the POSTs, retries included
    Event,          \* the ids Accept draws (uuid.New), one per call
    Key,            \* idempotency keys of the organization
    EventsOf,       \* the ids of a request's events, in body order
    KeyOf,          \* the Idempotency-Key of a request, or Nil
    Nil,
    MaxFailures     \* bound: statement errors and lost requests

\* uuid.New never repeats an id, and PostBatch passes no key to Accept.
ASSUME IngestAssumption ==
    /\ Nil \notin Key /\ Nil \notin Event
    /\ EventsOf \in [Request -> Seq(Event)]
    /\ \A r \in Request : EventsOf[r] # << >>
    /\ \A q, r \in Request : \A i \in DOMAIN EventsOf[q], j \in DOMAIN EventsOf[r] :
          EventsOf[q][i] = EventsOf[r][j] => q = r /\ i = j
    /\ KeyOf \in [Request -> Key \cup {Nil}]
    /\ \A r \in Request : KeyOf[r] # Nil => Len(EventsOf[r]) = 1
    /\ MaxFailures \in Nat

VARIABLES
    stored,     \* ids whose row has been inserted into pending_events
    keys,       \* idempotency_keys: the id in the response a key keeps
    at,         \* the next statement of a request's handler
    answers,    \* what a handler has to say of its events, so far
    failures    \* errors and lost requests so far

vars == <<stored, keys, at, answers, failures>>

-----------------------------------------------------------------------------
Statement == {"resolve", "claim", "replay", "insert"}

Answer == [status: {"accepted", "replayed", "rejected"}, id: Event]

Running(r) == at[r] \in Statement

\* The event Accept is called for: the first without an answer.
Current(r) == EventsOf[r][Len(answers[r]) + 1]

\* What the client has been told: a 202 with an id, or an accepted result.
Told(r) == {i \in DOMAIN answers[r] : answers[r][i].status # "rejected"}

Init ==
    /\ stored = {}
    /\ keys = [k \in Key |-> Nil]
    /\ at = [r \in Request |-> "new"]
    /\ answers = [r \in Request |-> << >>]
    /\ failures = 0

\* Mutant: the batch handler has no continue after an error.
StatusOfAny(outcome) == IF outcome = "failed" THEN "accepted" ELSE outcome

\* An error is a 500 from PostOne and a rejected result of PostBatch.
StatusOf(outcome) == IF outcome = "failed" THEN "rejected" ELSE outcome

\* Accept returns.  PostOne answers, PostBatch goes on to its next event,
\* also after an error.
Returns(r, outcome, id) ==
    /\ answers' = [answers EXCEPT
          ![r] = Append(@, [status |-> StatusOf(outcome), id |-> id])]
    /\ at' = [at EXCEPT ![r] = IF Len(answers[r]) + 1 = Len(EventsOf[r])
                               THEN "answered"
                               ELSE "resolve"]

-----------------------------------------------------------------------------
\* A request arrives; one that does not decode or validate is turned away.
Post(r) ==
    /\ at[r] = "new"
    /\ \E next \in {"resolve", "answered"} : at' = [at EXCEPT ![r] = next]
    /\ UNCHANGED <<stored, keys, answers, failures>>

\* The control catalog is read; the body is built, with the new id in it.
ResolveAgainstCatalog(r) ==
    /\ at[r] = "resolve"
    /\ at' = [at EXCEPT ![r] = IF KeyOf[r] # Nil THEN "claim" ELSE "insert"]
    /\ UNCHANGED <<stored, keys, answers, failures>>

\* Mutant: a SELECT before the INSERT, and an INSERT that overwrites.
KeyFreeAlways(k) == k \in Key

\* The unique constraint on (organization, key) lets the INSERT in.
KeyFree(k) == keys[k] = Nil

\* Mutant: two arguments of the INSERT have changed places.
KeyAsResponse(r) == KeyOf[r]

\* The id in the response the claim stores.
ClaimedResponse(r) == Current(r)

\* INSERT ... ON CONFLICT DO NOTHING RETURNING id: the winner goes on, and
\* the others get no row back.
ClaimIdempotencyKey(r) ==
    /\ at[r] = "claim"
    /\ IF KeyFree(KeyOf[r])
       THEN /\ keys' = [keys EXCEPT ![KeyOf[r]] = ClaimedResponse(r)]
            /\ at' = [at EXCEPT ![r] = "insert"]
       ELSE /\ at' = [at EXCEPT ![r] = "replay"]
            /\ UNCHANGED keys
    /\ UNCHANGED <<stored, answers, failures>>

\* Mutant: the loser answers with the body it has built itself.
ReplayedOwn(r) == Current(r)

\* The id in the cached response.
Replayed(r) == keys[KeyOf[r]]

GetIdempotentResponse(r) ==
    /\ at[r] = "replay"
    /\ Returns(r, "replayed", Replayed(r))
    /\ UNCHANGED <<stored, keys, failures>>

InsertPendingEvent(r) ==
    /\ at[r] = "insert"
    /\ stored' = stored \cup {Current(r)}
    /\ Returns(r, "accepted", Current(r))
    /\ UNCHANGED <<keys, failures>>

-----------------------------------------------------------------------------
Fails(r) ==
    /\ failures < MaxFailures
    /\ failures' = failures + 1
    /\ Returns(r, "failed", Current(r))

ReadFails(r) ==
    /\ at[r] \in {"resolve", "replay"}
    /\ Fails(r)
    /\ UNCHANGED <<stored, keys>>

\* The claim fails, with or without its effect.
ClaimFails(r) ==
    /\ at[r] = "claim"
    /\ Fails(r)
    /\ \/ UNCHANGED keys
       \/ /\ KeyFree(KeyOf[r])
          /\ keys' = [keys EXCEPT ![KeyOf[r]] = ClaimedResponse(r)]
    /\ UNCHANGED stored

\* The insert fails, with or without its effect.
InsertFails(r) ==
    /\ at[r] = "insert"
    /\ Fails(r)
    /\ \E new \in {{}, {Current(r)}} : stored' = stored \cup new
    /\ UNCHANGED keys

\* The server dies between two statements: the client gets no answer.
Lost(r) ==
    /\ Running(r)
    /\ failures < MaxFailures
    /\ failures' = failures + 1
    /\ at' = [at EXCEPT ![r] = "lost"]
    /\ UNCHANGED <<stored, keys, answers>>

-----------------------------------------------------------------------------
Accept(r) ==
    \/ ResolveAgainstCatalog(r)
    \/ ClaimIdempotencyKey(r)
    \/ GetIdempotentResponse(r)
    \/ InsertPendingEvent(r)
    \/ ReadFails(r)
    \/ ClaimFails(r)
    \/ InsertFails(r)

AllDone == \A r \in Request : at[r] \in {"answered", "lost"}

\* No request is left.
Quiet == AllDone /\ UNCHANGED vars

Next ==
    \/ \E r \in Request : Post(r) \/ Accept(r) \/ Lost(r)
    \/ Quiet

Spec == Init /\ [][Next]_vars

-----------------------------------------------------------------------------
(***************************************************************************)
(* Properties                                                              *)
(***************************************************************************)
TypeOK ==
    /\ stored \subseteq Event
    /\ keys \in [Key -> Event \cup {Nil}]
    /\ at \in [Request -> Statement \cup {"new", "answered", "lost"}]
    /\ answers \in [Request -> Seq(Answer)]
    /\ failures \in 0 .. MaxFailures

(***************************************************************************)
(* However many requests carry one idempotency key, at once or as retries, *)
(* and wherever they fail, at most one of their events gets into           *)
(* pending_events.                                                         *)
(***************************************************************************)
OneEventPerKey ==
    \A q, r \in Request :
        /\ KeyOf[q] # Nil /\ KeyOf[q] = KeyOf[r]
        /\ EventsOf[q][1] \in stored /\ EventsOf[r][1] \in stored
        => q = r

(***************************************************************************)
(* All clients that are told 202 under one key are told the same id,       *)
(* winner and replays alike ("the two paths can't diverge", accept.go      *)
(* 48-50), and an event stored under the key is the one with that id.      *)
(***************************************************************************)
OneAnswerPerKey ==
    \A q, r \in Request :
        KeyOf[q] # Nil /\ KeyOf[q] = KeyOf[r] =>
            \A i \in Told(q) :
                /\ \A j \in Told(r) : answers[q][i].id = answers[r][j].id
                /\ EventsOf[r][1] \in stored => answers[q][i].id = EventsOf[r][1]

(***************************************************************************)
(* One key, one event, one answer: requests that race or are sent again    *)
(* under a key behave as one post, but for an event that may be missing.   *)
(***************************************************************************)
OncePerKey == OneEventPerKey /\ OneAnswerPerKey

(***************************************************************************)
(* An id answered as accepted, by PostOne or in a batch with failures      *)
(* before and after it, is the id of a stored row.                         *)
(***************************************************************************)
AcceptedStored ==
    \A r \in Request : \A i \in DOMAIN answers[r] :
        answers[r][i].status = "accepted" => answers[r][i].id \in stored

(***************************************************************************)
(* Why one key means one event, as an invariant that implies itself: the   *)
(* key keeps the id of the request that won it, and only that request gets *)
(* to the insert.                                                          *)
(***************************************************************************)
InOrder(r) ==
    /\ Running(r) => Len(answers[r]) < Len(EventsOf[r])
    /\ at[r] = "new" => answers[r] = << >>
    /\ at[r] \in {"claim", "replay"} => KeyOf[r] # Nil
    /\ KeyOf[r] # Nil /\ Running(r) => answers[r] = << >>

WinnerKept(r) ==
    LET kept == keys[KeyOf[r]] IN
    /\ at[r] = "replay" => kept # Nil
    /\ at[r] = "insert" => kept = EventsOf[r][1]
    /\ EventsOf[r][1] \in stored => kept = EventsOf[r][1]
    /\ \A i \in Told(r) : kept = answers[r][i].id

KeyInv ==
    /\ TypeOK
    /\ \A r \in Request : InOrder(r) /\ (KeyOf[r] # Nil => WinnerKept(r))

(***************************************************************************)
(* What accept.go 177-180 says: parallel POSTs with one key collapse to a  *)
(* single event.  Once no handler runs and a client was told 202 under a   *)
(* key, the event it was told of is there.                                 *)
(***************************************************************************)
KeyedPostsCollapse ==
    AllDone =>
        \A r \in Request : \A i \in Told(r) : answers[r][i].id \in stored

=============================================================================
