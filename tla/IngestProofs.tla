---------------------------- MODULE IngestProofs ----------------------------
(***************************************************************************)
(* Theorems about Ingest, for any requests, keys, batches and failures.    *)
(***************************************************************************)
EXTENDS Ingest, TLAPS

\* The event Accept is called for is an id of its own request.
LEMMA CurrentType ==
    ASSUME TypeOK, NEW r \in Request, Running(r), InOrder(r)
    PROVE  /\ Current(r) \in Event
           /\ Len(answers[r]) + 1 \in DOMAIN EventsOf[r]
           /\ KeyOf[r] # Nil => Current(r) = EventsOf[r][1] /\ Len(EventsOf[r]) = 1
  <1>1. EventsOf[r] \in Seq(Event) /\ answers[r] \in Seq(Answer)
    BY IngestAssumption DEF TypeOK
  <1>2. Len(answers[r]) + 1 \in 1 .. Len(EventsOf[r])
    BY <1>1 DEF InOrder
  <1>3. KeyOf[r] # Nil => Len(answers[r]) + 1 = 1 /\ Len(EventsOf[r]) = 1
    BY IngestAssumption DEF InOrder
  <1> QED
    BY <1>1, <1>2, <1>3 DEF Current

\* What Accept's return does to the handler: one more answer, and the next
\* statement only for a batch, which has no key.
LEMMA ReturnsSound ==
    ASSUME TypeOK, NEW r \in Request, Running(r), InOrder(r),
           NEW outcome \in {"accepted", "replayed", "failed"},
           NEW id \in Event,
           Returns(r, outcome, id)
    PROVE  /\ answers' \in [Request -> Seq(Answer)]
           /\ at' \in [Request -> Statement \cup {"new", "answered", "lost"}]
           /\ \A q \in Request \ {r} : answers'[q] = answers[q] /\ at'[q] = at[q]
           /\ answers'[r] = Append(answers[r], [status |-> StatusOf(outcome), id |-> id])
           /\ at'[r] \in {"answered", "resolve"}
           /\ KeyOf[r] # Nil => at'[r] = "answered"
           /\ at'[r] = "resolve" => Len(answers'[r]) < Len(EventsOf[r])
  <1>1. answers \in [Request -> Seq(Answer)] /\ EventsOf[r] \in Seq(Event)
    BY IngestAssumption DEF TypeOK
  <1>2. [status |-> StatusOf(outcome), id |-> id] \in Answer
    BY DEF StatusOf, Answer
  <1>3. KeyOf[r] # Nil => Len(answers[r]) + 1 = Len(EventsOf[r])
    BY IngestAssumption DEF InOrder
  <1>4. answers[r] \in Seq(Answer) /\ Len(answers[r]) < Len(EventsOf[r])
    BY <1>1 DEF InOrder
  <1>5. /\ answers' \in [Request -> Seq(Answer)]
        /\ answers'[r] = Append(answers[r], [status |-> StatusOf(outcome), id |-> id])
        /\ \A q \in Request \ {r} : answers'[q] = answers[q]
    BY <1>1, <1>2, <1>4 DEF Returns
  <1>6. Len(answers'[r]) = Len(answers[r]) + 1
    BY <1>2, <1>4, <1>5
  <1>7. /\ at' \in [Request -> Statement \cup {"new", "answered", "lost"}]
        /\ \A q \in Request \ {r} : at'[q] = at[q]
        /\ at'[r] = IF Len(answers[r]) + 1 = Len(EventsOf[r])
                    THEN "answered" ELSE "resolve"
    BY DEF Returns, TypeOK, Statement
  <1>8. Len(answers[r]) \in Nat /\ Len(EventsOf[r]) \in Nat
    BY <1>1, <1>4
  <1> QED
    BY <1>3, <1>4, <1>5, <1>6, <1>7, <1>8

LEMMA KeyInvInit == Init => KeyInv
  <1> SUFFICES ASSUME Init PROVE KeyInv
    OBVIOUS
  <1>1. TypeOK
    BY IngestAssumption DEF Init, TypeOK, Statement
  <1>2. ASSUME NEW r \in Request
        PROVE  InOrder(r) /\ (KeyOf[r] # Nil => WinnerKept(r))
    <2>1. EventsOf[r] \in Seq(Event) /\ EventsOf[r] # << >>
      BY IngestAssumption
    <2> QED
      BY <1>2, <2>1 DEF Init, InOrder, WinnerKept, Running, Statement, Told
  <1> QED
    BY <1>1, <1>2 DEF KeyInv

\* A request other than r is not disturbed: its handler has not moved, its
\* key, if taken, keeps its id, and what was stored is not its event.
LEMMA OtherKept ==
    ASSUME TypeOK, NEW r \in Request, NEW q \in Request \ {r},
           InOrder(q), KeyOf[q] # Nil => WinnerKept(q),
           answers'[q] = answers[q], at'[q] = at[q],
           KeyOf[q] # Nil /\ keys[KeyOf[q]] # Nil => keys'[KeyOf[q]] = keys[KeyOf[q]],
           EventsOf[q][1] \in stored' => EventsOf[q][1] \in stored
    PROVE  InOrder(q)' /\ (KeyOf[q] # Nil => WinnerKept(q)')
  <1>1. InOrder(q)'
    BY DEF InOrder, Running
  <1>2. ASSUME KeyOf[q] # Nil PROVE WinnerKept(q)'
    <2>1. EventsOf[q][1] \in Event
      BY IngestAssumption
    <2>2. EventsOf[q][1] # Nil
      BY <2>1, IngestAssumption
    <2>3. \A i \in Told(q) : answers[q][i].id \in Event
      <3>1. answers[q] \in Seq(Answer)
        BY DEF TypeOK
      <3>2. \A i \in DOMAIN answers[q] : answers[q][i] \in Answer
        BY <3>1
      <3> QED
        BY <3>2 DEF Told, Answer
    <2>4. \A i \in Told(q) : answers[q][i].id # Nil
      BY <2>3, IngestAssumption
    <2>5. Told(q)' = Told(q)
      BY DEF Told
    <2> QED
      BY <1>2, <2>2, <2>4, <2>5 DEF WinnerKept
  <1> QED
    BY <1>1, <1>2

LEMMA KeyInvStep == KeyInv /\ [Next]_vars => KeyInv'
  <1> SUFFICES ASSUME KeyInv, [Next]_vars PROVE KeyInv'
    OBVIOUS
  <1> USE DEF KeyInv
  <1>0. CASE UNCHANGED vars
    BY <1>0 DEF vars, TypeOK, InOrder, Running, WinnerKept, Told
  <1>1. ASSUME NEW r \in Request, Post(r) PROVE KeyInv'
    <2>1. TypeOK'
      BY <1>1 DEF Post, TypeOK, Statement
    <2>2. \A q \in Request \ {r} : InOrder(q)' /\ (KeyOf[q] # Nil => WinnerKept(q)')
      BY <1>1, OtherKept DEF Post, TypeOK
    <2>3. at'[r] \in {"resolve", "answered"} /\ answers'[r] = << >>
      BY <1>1 DEF Post, TypeOK, InOrder
    <2>4. EventsOf[r] \in Seq(Event) /\ EventsOf[r] # << >>
      BY IngestAssumption
    <2>5. InOrder(r)'
      BY <2>3, <2>4 DEF InOrder, Running
    <2>6. KeyOf[r] # Nil => WinnerKept(r)'
      BY <1>1, <2>3 DEF Post, WinnerKept, Told
    <2> QED
      BY <2>1, <2>2, <2>5, <2>6
  <1>2. ASSUME NEW r \in Request, ResolveAgainstCatalog(r) PROVE KeyInv'
    <2>1. TypeOK'
      BY <1>2 DEF ResolveAgainstCatalog, TypeOK, Statement
    <2>2. \A q \in Request \ {r} : InOrder(q)' /\ (KeyOf[q] # Nil => WinnerKept(q)')
      BY <1>2, OtherKept DEF ResolveAgainstCatalog, TypeOK
    <2>3. at'[r] = (IF KeyOf[r] # Nil THEN "claim" ELSE "insert") /\ Running(r)
      BY <1>2 DEF ResolveAgainstCatalog, TypeOK, Running, Statement
    <2>5. InOrder(r)'
      BY <1>2, <2>3 DEF ResolveAgainstCatalog, InOrder, Running
    <2>6. KeyOf[r] # Nil => WinnerKept(r)'
      BY <1>2, <2>3 DEF ResolveAgainstCatalog, WinnerKept, Told
    <2> QED
      BY <2>1, <2>2, <2>5, <2>6
  <1>3. ASSUME NEW r \in Request, ClaimIdempotencyKey(r) PROVE KeyInv'
    <2>1. Running(r) /\ KeyOf[r] # Nil /\ KeyOf[r] \in Key /\ answers[r] = << >>
      BY <1>3, IngestAssumption
         DEF ClaimIdempotencyKey, Running, Statement, InOrder
    <2>2. Current(r) \in Event /\ Current(r) = EventsOf[r][1] /\ Current(r) # Nil
      BY <2>1, CurrentType, IngestAssumption
    <2>3. TypeOK'
      BY <1>3, <2>2 DEF ClaimIdempotencyKey, ClaimedResponse, TypeOK, Statement
    <2>4. \A k \in Key : keys[k] # Nil => keys'[k] = keys[k]
      BY <1>3 DEF ClaimIdempotencyKey, KeyFree, TypeOK
    <2>5. \A q \in Request \ {r} : InOrder(q)' /\ (KeyOf[q] # Nil => WinnerKept(q)')
      BY <1>3, <2>4, OtherKept, IngestAssumption DEF ClaimIdempotencyKey, TypeOK
    <2>6. at'[r] \in {"insert", "replay"} /\ answers'[r] = << >>
      BY <1>3, <2>1 DEF ClaimIdempotencyKey, TypeOK
    <2>7. /\ at'[r] = "replay" => keys'[KeyOf[r]] # Nil
          /\ at'[r] = "insert" => keys'[KeyOf[r]] = EventsOf[r][1]
      BY <1>3, <2>1, <2>2
         DEF ClaimIdempotencyKey, ClaimedResponse, KeyFree, TypeOK
    <2>8. InOrder(r)'
      BY <1>3, <2>1, <2>6 DEF ClaimIdempotencyKey, InOrder, Running, Statement
    <2>9. EventsOf[r][1] \in stored' => keys'[KeyOf[r]] = EventsOf[r][1]
      BY <1>3, <2>1, <2>2, <2>4 DEF ClaimIdempotencyKey, WinnerKept
    <2>10. WinnerKept(r)'
      BY <2>6, <2>7, <2>9 DEF WinnerKept, Told
    <2> QED
      BY <2>3, <2>5, <2>8, <2>10
  <1>4. ASSUME NEW r \in Request, GetIdempotentResponse(r) PROVE KeyInv'
    <2>1. Running(r) /\ KeyOf[r] # Nil /\ KeyOf[r] \in Key /\ answers[r] = << >>
      BY <1>4, IngestAssumption
         DEF GetIdempotentResponse, Running, Statement, InOrder
    <2>2. Replayed(r) \in Event
      BY <1>4, <2>1 DEF GetIdempotentResponse, Replayed, WinnerKept, TypeOK
    <2>3. Returns(r, "replayed", Replayed(r)) /\ UNCHANGED <<stored, keys, failures>>
      BY <1>4 DEF GetIdempotentResponse
    <2>4. /\ answers' \in [Request -> Seq(Answer)]
          /\ at' \in [Request -> Statement \cup {"new", "answered", "lost"}]
          /\ \A q \in Request \ {r} : answers'[q] = answers[q] /\ at'[q] = at[q]
          /\ answers'[r] = Append(answers[r], [status |-> StatusOf("replayed"), id |-> Replayed(r)])
          /\ at'[r] = "answered"
      BY <2>1, <2>2, <2>3, ReturnsSound
    <2>5. TypeOK'
      BY <2>3, <2>4 DEF TypeOK
    <2>6. \A q \in Request \ {r} : InOrder(q)' /\ (KeyOf[q] # Nil => WinnerKept(q)')
      BY <2>3, <2>4, OtherKept
    <2>7. InOrder(r)'
      BY <2>4 DEF InOrder, Running, Statement
    <2>8. \A i \in Told(r)' : answers'[r][i].id = keys'[KeyOf[r]]
      BY <2>1, <2>3, <2>4 DEF Told, Replayed
    <2>9. WinnerKept(r)'
      BY <2>1, <2>3, <2>4, <2>8 DEF WinnerKept
    <2> QED
      BY <2>5, <2>6, <2>7, <2>9
  <1>5. ASSUME NEW r \in Request, NEW outcome \in {"accepted", "failed"},
               at[r] = "insert", Returns(r, outcome, Current(r)),
               NEW new \in {{}, {Current(r)}}, stored' = stored \cup new,
               UNCHANGED keys, failures' \in 0 .. MaxFailures
        PROVE  KeyInv'
    <2>1. Running(r) /\ InOrder(r)
      BY <1>5 DEF Running, Statement
    <2>2. /\ Current(r) \in Event /\ Len(answers[r]) + 1 \in DOMAIN EventsOf[r]
          /\ KeyOf[r] # Nil => Current(r) = EventsOf[r][1]
      BY <2>1, CurrentType
    <2>4. /\ answers' \in [Request -> Seq(Answer)]
          /\ at' \in [Request -> Statement \cup {"new", "answered", "lost"}]
          /\ \A q \in Request \ {r} : answers'[q] = answers[q] /\ at'[q] = at[q]
          /\ answers'[r] = Append(answers[r], [status |-> StatusOf(outcome), id |-> Current(r)])
          /\ at'[r] \in {"answered", "resolve"}
          /\ KeyOf[r] # Nil => at'[r] = "answered"
          /\ at'[r] = "resolve" => Len(answers'[r]) < Len(EventsOf[r])
      BY <1>5, <2>1, <2>2, ReturnsSound
    <2>5. TypeOK'
      BY <1>5, <2>2, <2>4 DEF TypeOK
    <2>6. \A q \in Request \ {r} : EventsOf[q][1] # Current(r)
      BY <2>2, IngestAssumption DEF Current
    <2>7. \A q \in Request \ {r} : InOrder(q)' /\ (KeyOf[q] # Nil => WinnerKept(q)')
      BY <1>5, <2>4, <2>6, OtherKept
    <2>8. InOrder(r)'
      BY <2>4 DEF InOrder, Running, Statement
    <2>9. ASSUME KeyOf[r] # Nil PROVE WinnerKept(r)'
      <3>1. keys'[KeyOf[r]] = Current(r) /\ Current(r) = EventsOf[r][1] /\ answers[r] = << >>
        BY <1>5, <2>1, <2>2, <2>9 DEF WinnerKept, InOrder
      <3>2. \A i \in Told(r)' : answers'[r][i].id = keys'[KeyOf[r]]
        BY <2>4, <3>1 DEF Told
      <3> QED
        BY <2>4, <2>9, <3>1, <3>2 DEF WinnerKept
    <2> QED
      BY <2>5, <2>7, <2>8, <2>9
  <1>6. ASSUME NEW r \in Request, InsertPendingEvent(r) PROVE KeyInv'
    <2>1. failures' \in 0 .. MaxFailures
      BY <1>6 DEF InsertPendingEvent, TypeOK
    <2> QED
      BY <1>5, <1>6, <2>1 DEF InsertPendingEvent
  <1>7. ASSUME NEW r \in Request, InsertFails(r) PROVE KeyInv'
    <2>1. failures' \in 0 .. MaxFailures
      BY <1>7, IngestAssumption DEF InsertFails, Fails, TypeOK
    <2> QED
      BY <1>5, <1>7, <2>1 DEF InsertFails, Fails
  <1>8. ASSUME NEW r \in Request, ReadFails(r) \/ ClaimFails(r) PROVE KeyInv'
    <2>1. /\ Running(r) /\ InOrder(r) /\ Fails(r) /\ stored' = stored
          /\ failures' \in 0 .. MaxFailures
      BY <1>8, IngestAssumption
         DEF ReadFails, ClaimFails, Fails, Running, Statement, TypeOK
    <2>2. /\ Current(r) \in Event /\ Current(r) # Nil
          /\ KeyOf[r] # Nil => Current(r) = EventsOf[r][1]
      BY <2>1, CurrentType, IngestAssumption
    <2>4. /\ answers' \in [Request -> Seq(Answer)]
          /\ at' \in [Request -> Statement \cup {"new", "answered", "lost"}]
          /\ \A q \in Request \ {r} : answers'[q] = answers[q] /\ at'[q] = at[q]
          /\ answers'[r] = Append(answers[r], [status |-> StatusOf("failed"), id |-> Current(r)])
          /\ at'[r] \in {"answered", "resolve"}
          /\ KeyOf[r] # Nil => at'[r] = "answered"
          /\ at'[r] = "resolve" => Len(answers'[r]) < Len(EventsOf[r])
      BY <2>1, <2>2, ReturnsSound DEF Fails
    <2>5. /\ keys' \in [Key -> Event \cup {Nil}]
          /\ \A k \in Key : keys[k] # Nil => keys'[k] = keys[k]
      BY <1>8, <2>2 DEF ReadFails, ClaimFails, ClaimedResponse, KeyFree, TypeOK
    <2>6. TypeOK'
      BY <2>1, <2>4, <2>5 DEF TypeOK
    <2>7. \A q \in Request \ {r} : InOrder(q)' /\ (KeyOf[q] # Nil => WinnerKept(q)')
      <3>1. \A q \in Request : KeyOf[q] # Nil => KeyOf[q] \in Key
        BY IngestAssumption
      <3> QED
        BY <2>1, <2>4, <2>5, <3>1, OtherKept
    <2>8. InOrder(r)'
      BY <2>4 DEF InOrder, Running, Statement
    <2>9. ASSUME KeyOf[r] # Nil PROVE WinnerKept(r)'
      <3>1. answers[r] = << >> /\ KeyOf[r] \in Key
        BY <2>1, <2>9, IngestAssumption DEF InOrder
      <3>2. Told(r)' = {}
        BY <2>4, <3>1 DEF Told, StatusOf
      <3>3. EventsOf[r][1] \in stored' => keys'[KeyOf[r]] = EventsOf[r][1]
        BY <2>1, <2>2, <2>5, <2>9, <3>1 DEF WinnerKept
      <3> QED
        BY <2>4, <2>9, <3>2, <3>3 DEF WinnerKept
    <2> QED
      BY <2>6, <2>7, <2>8, <2>9
  <1>9. ASSUME NEW r \in Request, Lost(r) PROVE KeyInv'
    <2>1. TypeOK'
      BY <1>9, IngestAssumption DEF Lost, TypeOK
    <2>2. \A q \in Request \ {r} : InOrder(q)' /\ (KeyOf[q] # Nil => WinnerKept(q)')
      BY <1>9, OtherKept DEF Lost, TypeOK
    <2>3. at'[r] = "lost"
      BY <1>9 DEF Lost, TypeOK
    <2>4. InOrder(r)'
      BY <2>3 DEF InOrder, Running, Statement
    <2>5. KeyOf[r] # Nil => WinnerKept(r)'
      BY <1>9, <2>3 DEF Lost, WinnerKept, Told
    <2> QED
      BY <2>1, <2>2, <2>4, <2>5
  <1> QED
    BY <1>0, <1>1, <1>2, <1>3, <1>4, <1>6, <1>7, <1>8, <1>9 DEF Next, Accept, Quiet

(***************************************************************************)
(* An idempotency key keeps the id of the request that won it: only that   *)
(* request reaches the insert under it, and every answer given under the   *)
(* key has that id, in every reachable state (ClaimIdempotencyKey).        *)
(***************************************************************************)
THEOREM KeyInvHolds == Spec => []KeyInv
  BY KeyInvInit, KeyInvStep, PTL DEF Spec

(***************************************************************************)
(* Under one idempotency key at most one event is ever stored, for any     *)
(* number of concurrent requests and failures (ClaimIdempotencyKey).       *)
(***************************************************************************)
THEOREM AtMostOneEventPerKey == Spec => []OneEventPerKey
  <1>1. KeyInv => OneEventPerKey
    BY IngestAssumption DEF KeyInv, WinnerKept, OneEventPerKey
  <1> QED
    BY <1>1, KeyInvHolds, PTL

(***************************************************************************)
(* Every 202 under one idempotency key names one id, the id of the event   *)
(* stored under the key if any is (ClaimIdempotencyKey and the replay).    *)
(***************************************************************************)
THEOREM AnswersAgree == Spec => []OneAnswerPerKey
  <1>1. KeyInv => OneAnswerPerKey
    BY DEF KeyInv, WinnerKept, OneAnswerPerKey
  <1> QED
    BY <1>1, KeyInvHolds, PTL

(***************************************************************************)
(* Requests under one idempotency key behave as one post, for any number   *)
(* of them, any interleaving and any failures (accept.go 177-220).         *)
(***************************************************************************)
THEOREM KeyedPostsAreOne == Spec => []OncePerKey
  BY AtMostOneEventPerKey, AnswersAgree, PTL DEF OncePerKey

(***************************************************************************)
(* Every variable of the accept path keeps its type.                       *)
(***************************************************************************)
THEOREM IngestTypeCorrect == Spec => []TypeOK
  BY KeyInvHolds, PTL DEF KeyInv

\* A step adds at most one answer of one request, and forgets no row.
LEMMA AnswersGrow ==
    ASSUME KeyInv, [Next]_vars, AcceptedStored
    PROVE  AcceptedStored'
  <1> USE DEF KeyInv
  <1>0. CASE UNCHANGED <<stored, answers>>
    BY <1>0 DEF AcceptedStored
  <1>1. ASSUME NEW r \in Request, Running(r),
               NEW outcome \in {"accepted", "replayed", "failed"},
               NEW id \in Event, Returns(r, outcome, id),
               stored \subseteq stored',
               outcome = "accepted" => id \in stored'
        PROVE  AcceptedStored'
    <2>1. /\ \A q \in Request \ {r} : answers'[q] = answers[q]
          /\ answers'[r] = Append(answers[r], [status |-> StatusOf(outcome), id |-> id])
      BY <1>1, ReturnsSound
    <2>2. answers[r] \in Seq(Answer)
      BY DEF TypeOK
    <2>3. \A i \in DOMAIN answers'[r] :
             answers'[r][i].status = "accepted" => answers'[r][i].id \in stored'
      BY <1>1, <2>1, <2>2 DEF AcceptedStored, StatusOf
    <2> QED
      BY <1>1, <2>1, <2>3 DEF AcceptedStored
  <1>2. ASSUME NEW r \in Request, Running(r) PROVE Current(r) \in Event
    BY <1>2, CurrentType
  <1>3. ASSUME NEW r \in Request, GetIdempotentResponse(r) PROVE AcceptedStored'
    <2>1. Running(r) /\ KeyOf[r] # Nil /\ KeyOf[r] \in Key
      BY <1>3, IngestAssumption
         DEF GetIdempotentResponse, Running, Statement, InOrder
    <2>2. Replayed(r) \in Event
      BY <1>3, <2>1 DEF GetIdempotentResponse, Replayed, WinnerKept, TypeOK
    <2> QED
      BY <1>1, <1>3, <2>1, <2>2 DEF GetIdempotentResponse
  <1>4. ASSUME NEW r \in Request, InsertPendingEvent(r) PROVE AcceptedStored'
    <2>1. Running(r)
      BY <1>4 DEF InsertPendingEvent, Running, Statement
    <2> QED
      BY <1>1, <1>2, <1>4, <2>1 DEF InsertPendingEvent
  <1>5. ASSUME NEW r \in Request, ReadFails(r) \/ ClaimFails(r) \/ InsertFails(r)
        PROVE  AcceptedStored'
    <2>1. Running(r) /\ Fails(r) /\ stored \subseteq stored'
      BY <1>5 DEF ReadFails, ClaimFails, InsertFails, Running, Statement
    <2> QED
      BY <1>1, <1>2, <2>1 DEF Fails
  <1> QED
    BY <1>0, <1>3, <1>4, <1>5
       DEF Next, Accept, Quiet, vars, Post, ResolveAgainstCatalog,
           ClaimIdempotencyKey, Lost

(***************************************************************************)
(* A row is stored for every id answered as accepted, in a batch with      *)
(* failures too (InsertPendingEvent returned without an error).            *)
(***************************************************************************)
THEOREM AcceptedAlwaysStored == Spec => []AcceptedStored
  <1>1. Init => AcceptedStored
    BY DEF Init, AcceptedStored
  <1>2. KeyInv /\ [Next]_vars /\ AcceptedStored => AcceptedStored'
    BY AnswersGrow
  <1> QED
    BY <1>1, <1>2, KeyInvHolds, PTL DEF Spec

-----------------------------------------------------------------------------
(***************************************************************************)
(* What a client can conclude from the ids it is told.                     *)
(***************************************************************************)
\* The id of a key is that of a request that carries the key.
KeysOwned ==
    \A k \in Key : keys[k] # Nil =>
        \E q \in Request : KeyOf[q] = k /\ keys[k] = EventsOf[q][1]

\* The answers of a request are about its events, one each and in body
\* order; only a replay names the event of another request, of the same key.
AnswersAligned(r) ==
    /\ Len(answers[r]) <= Len(EventsOf[r])
    /\ at[r] = "answered" => answers[r] = << >> \/ Len(answers[r]) = Len(EventsOf[r])
    /\ \A i \in DOMAIN answers[r] :
          \/ answers[r][i].id = EventsOf[r][i]
          \/ /\ answers[r][i].status = "replayed"
             /\ \E q \in Request : /\ KeyOf[q] = KeyOf[r] /\ KeyOf[r] # Nil
                                   /\ answers[r][i].id = EventsOf[q][1]

AlignedInv == KeysOwned /\ \A r \in Request : AnswersAligned(r)

\* A statement moves one handler; a key it takes gets the id of its event.
AnswerMove(r) ==
    \/ answers'[r] = answers[r] /\ (at'[r] = "answered" => at[r] \in {"answered", "new"})
    \/ \E id \in Event, outcome \in {"accepted", "replayed", "failed"} :
          /\ Running(r)
          /\ Returns(r, outcome, id)
          /\ \/ id = Current(r)
             \/ outcome = "replayed" /\ KeyOf[r] # Nil /\ id = keys[KeyOf[r]]

KeyMove ==
    \A k \in Key :
        \/ keys'[k] = keys[k]
        \/ /\ keys[k] = Nil
           /\ \E r \in Request : KeyOf[r] = k /\ keys'[k] = EventsOf[r][1]

StatementMoves ==
    /\ \A r \in Request : AnswerMove(r)
    /\ KeyMove
    /\ stored \subseteq stored'

LEMMA ReturnMoves ==
    ASSUME KeyInv, NEW r \in Request, Running(r),
           NEW outcome \in {"accepted", "replayed", "failed"}, NEW id \in Event,
           Returns(r, outcome, id),
           \/ id = Current(r)
           \/ outcome = "replayed" /\ KeyOf[r] # Nil /\ id = keys[KeyOf[r]]
    PROVE  \A q \in Request : AnswerMove(q)
  <1>1. AnswerMove(r)
    BY DEF AnswerMove
  <1>2. ASSUME NEW q \in Request \ {r} PROVE AnswerMove(q)
    <2>1. answers'[q] = answers[q] /\ at'[q] = at[q]
      BY ReturnsSound DEF KeyInv
    <2> QED
      BY <2>1 DEF AnswerMove
  <1> QED
    BY <1>1, <1>2

\* A handler goes to its next statement, and says nothing yet.
LEMMA NextStatementMoves ==
    ASSUME KeyInv, NEW r \in Request, NEW next,
           at' = [at EXCEPT ![r] = next], UNCHANGED answers,
           next = "answered" => at[r] = "new"
    PROVE  \A q \in Request : AnswerMove(q)
  BY DEF AnswerMove, KeyInv, TypeOK

LEMMA ClaimMoves ==
    ASSUME KeyInv, NEW r \in Request, at[r] = "claim",
           \/ UNCHANGED keys
           \/ /\ KeyFree(KeyOf[r])
              /\ keys' = [keys EXCEPT ![KeyOf[r]] = ClaimedResponse(r)]
    PROVE  KeyMove
  <1>1. Running(r) /\ InOrder(r) /\ KeyOf[r] # Nil
    BY DEF Running, Statement, KeyInv, InOrder
  <1>2. Current(r) = EventsOf[r][1]
    BY <1>1, CurrentType DEF KeyInv
  <1> QED
    BY <1>1, <1>2 DEF KeyMove, KeyFree, ClaimedResponse, KeyInv, TypeOK

LEMMA StatementStep == KeyInv /\ [Next]_vars => StatementMoves
  <1> SUFFICES ASSUME KeyInv, [Next]_vars PROVE StatementMoves
    OBVIOUS
  <1>0. UNCHANGED keys => KeyMove
    BY DEF KeyMove
  <1>a. ASSUME NEW r \in Request, Running(r) PROVE Current(r) \in Event
    BY <1>a, CurrentType DEF KeyInv
  <1>1. CASE UNCHANGED vars
    BY <1>0, <1>1 DEF vars, StatementMoves, AnswerMove
  <1>2. ASSUME NEW r \in Request, Post(r) PROVE StatementMoves
    <2>1. PICK next \in {"resolve", "answered"} : at' = [at EXCEPT ![r] = next]
      BY <1>2 DEF Post
    <2>2. \A q \in Request : AnswerMove(q)
      BY <1>2, <2>1, NextStatementMoves DEF Post
    <2> QED
      BY <1>0, <1>2, <2>2 DEF Post, StatementMoves
  <1>3. ASSUME NEW r \in Request, ResolveAgainstCatalog(r) PROVE StatementMoves
    <2>1. PICK next \in {"claim", "insert"} : at' = [at EXCEPT ![r] = next]
      BY <1>3 DEF ResolveAgainstCatalog
    <2>2. \A q \in Request : AnswerMove(q)
      BY <1>3, <2>1, NextStatementMoves DEF ResolveAgainstCatalog
    <2> QED
      BY <1>0, <1>3, <2>2 DEF ResolveAgainstCatalog, StatementMoves
  <1>4. ASSUME NEW r \in Request, ClaimIdempotencyKey(r) PROVE StatementMoves
    <2>1. PICK next \in {"insert", "replay"} : at' = [at EXCEPT ![r] = next]
      BY <1>4 DEF ClaimIdempotencyKey
    <2>2. \A q \in Request : AnswerMove(q)
      BY <1>4, <2>1, NextStatementMoves DEF ClaimIdempotencyKey
    <2>3. KeyMove
      BY <1>4, ClaimMoves DEF ClaimIdempotencyKey
    <2> QED
      BY <1>4, <2>2, <2>3 DEF ClaimIdempotencyKey, StatementMoves
  <1>5. ASSUME NEW r \in Request, GetIdempotentResponse(r) PROVE StatementMoves
    <2>1. Running(r) /\ KeyOf[r] # Nil /\ KeyOf[r] \in Key
      BY <1>5, IngestAssumption
         DEF GetIdempotentResponse, Running, Statement, KeyInv, InOrder
    <2>2. Replayed(r) \in Event
      BY <1>5, <2>1 DEF GetIdempotentResponse, Replayed, KeyInv, WinnerKept, TypeOK
    <2>3. \A q \in Request : AnswerMove(q)
      BY <1>5, <2>1, <2>2, ReturnMoves DEF GetIdempotentResponse, Replayed
    <2> QED
      BY <1>0, <1>5, <2>3 DEF GetIdempotentResponse, StatementMoves
  <1>6. ASSUME NEW r \in Request, InsertPendingEvent(r) PROVE StatementMoves
    <2>1. Running(r)
      BY <1>6 DEF InsertPendingEvent, Running, Statement
    <2>2. \A q \in Request : AnswerMove(q)
      BY <1>6, <1>a, <2>1, ReturnMoves DEF InsertPendingEvent
    <2> QED
      BY <1>0, <1>6, <2>2 DEF InsertPendingEvent, StatementMoves
  <1>7. ASSUME NEW r \in Request, ReadFails(r) \/ ClaimFails(r) \/ InsertFails(r)
        PROVE  StatementMoves
    <2>1. Running(r) /\ Fails(r) /\ stored \subseteq stored'
      BY <1>7 DEF ReadFails, ClaimFails, InsertFails, Running, Statement
    <2>2. \A q \in Request : AnswerMove(q)
      BY <1>a, <2>1, ReturnMoves DEF Fails
    <2>3. KeyMove
      BY <1>0, <1>7, ClaimMoves DEF ReadFails, ClaimFails, InsertFails
    <2> QED
      BY <2>1, <2>2, <2>3 DEF StatementMoves
  <1>8. ASSUME NEW r \in Request, Lost(r) PROVE StatementMoves
    <2>1. \A q \in Request : AnswerMove(q)
      BY <1>8, NextStatementMoves DEF Lost
    <2> QED
      BY <1>0, <1>8, <2>1 DEF Lost, StatementMoves
  <1> QED
    BY <1>1, <1>2, <1>3, <1>4, <1>5, <1>6, <1>7, <1>8 DEF Next, Accept, Quiet

\* A handler that returns has one more answer, about its next event.
LEMMA AlignedStep ==
    KeyInv /\ AlignedInv /\ [Next]_vars => AlignedInv'
  <1> SUFFICES ASSUME KeyInv, AlignedInv, StatementMoves PROVE AlignedInv'
    BY StatementStep
  <1>1. KeysOwned'
    BY DEF AlignedInv, KeysOwned, StatementMoves, KeyMove
  <1>2. ASSUME NEW r \in Request PROVE AnswersAligned(r)'
    <2>1. AnswersAligned(r) /\ AnswerMove(r) /\ InOrder(r)
      BY DEF AlignedInv, StatementMoves, KeyInv
    <2>2. EventsOf[r] \in Seq(Event) /\ answers[r] \in Seq(Answer)
      BY IngestAssumption DEF KeyInv, TypeOK
    <2>3. CASE answers'[r] = answers[r] /\ (at'[r] = "answered" => at[r] \in {"answered", "new"})
      BY <2>1, <2>3 DEF AnswersAligned, InOrder
    <2>4. ASSUME NEW id \in Event, NEW outcome \in {"accepted", "replayed", "failed"},
                 Running(r), Returns(r, outcome, id),
                 \/ id = Current(r)
                 \/ outcome = "replayed" /\ KeyOf[r] # Nil /\ id = keys[KeyOf[r]]
          PROVE  AnswersAligned(r)'
      <3> DEFINE new == [status |-> StatusOf(outcome), id |-> id]
                 n == Len(answers[r])
      <3>1. answers'[r] = Append(answers[r], new) /\ new \in Answer
        BY <2>1, <2>4, ReturnsSound DEF KeyInv, StatusOf, Answer
      <3>2. n \in Nat /\ Len(EventsOf[r]) \in Nat /\ n < Len(EventsOf[r])
        BY <2>1, <2>2, <2>4 DEF InOrder
      <3>3. at'[r] = "answered" => n + 1 = Len(EventsOf[r])
        BY <2>4 DEF Returns, KeyInv, TypeOK
      <3> HIDE DEF new
      <3>4. /\ Len(answers'[r]) = n + 1
            /\ answers'[r][n + 1] = new
            /\ \A i \in 1 .. n : answers'[r][i] = answers[r][i]
        BY <2>2, <3>1
      <3>5. \/ new.id = EventsOf[r][n + 1]
            \/ /\ new.status = "replayed"
               /\ \E q \in Request : /\ KeyOf[q] = KeyOf[r] /\ KeyOf[r] # Nil
                                     /\ new.id = EventsOf[q][1]
        <4>1. CASE id = Current(r)
          BY <4>1 DEF new, Current
        <4>2. CASE outcome = "replayed" /\ KeyOf[r] # Nil /\ id = keys[KeyOf[r]]
          <5>1. KeyOf[r] \in Key /\ keys[KeyOf[r]] # Nil
            BY <2>4, <4>2, IngestAssumption
          <5> QED
            BY <4>2, <5>1 DEF new, StatusOf, AlignedInv, KeysOwned
        <4> QED
          BY <2>4, <4>1, <4>2
      <3>6. DOMAIN answers'[r] = 1 .. (n + 1) /\ DOMAIN answers[r] = 1 .. n
        BY <2>2, <3>1
      <3>7. ASSUME NEW i \in 1 .. (n + 1)
            PROVE  \/ answers'[r][i].id = EventsOf[r][i]
                   \/ /\ answers'[r][i].status = "replayed"
                      /\ \E q \in Request : /\ KeyOf[q] = KeyOf[r] /\ KeyOf[r] # Nil
                                            /\ answers'[r][i].id = EventsOf[q][1]
        <4>1. CASE i = n + 1
          BY <3>4, <3>5, <4>1
        <4>2. CASE i # n + 1
          <5>1. i \in 1 .. n
            BY <3>2, <4>2
          <5>2. answers'[r][i] = answers[r][i]
            BY <3>4, <5>1
          <5>3. \/ answers[r][i].id = EventsOf[r][i]
                \/ /\ answers[r][i].status = "replayed"
                   /\ \E q \in Request : /\ KeyOf[q] = KeyOf[r] /\ KeyOf[r] # Nil
                                         /\ answers[r][i].id = EventsOf[q][1]
            BY <2>1, <3>6, <5>1 DEF AnswersAligned
          <5> QED
            BY <5>2, <5>3
        <4> QED
          BY <4>1, <4>2
      <3>8. /\ Len(answers'[r]) <= Len(EventsOf[r])
            /\ at'[r] = "answered" => Len(answers'[r]) = Len(EventsOf[r])
        BY <3>2, <3>3, <3>4
      <3> QED
        BY <3>6, <3>7, <3>8 DEF AnswersAligned
    <2> QED
      BY <2>1, <2>3, <2>4 DEF AnswerMove
  <1> QED
    BY <1>1, <1>2 DEF AlignedInv

LEMMA AlignedHolds == Spec => []AlignedInv
  <1>1. Init => AlignedInv
    <2> SUFFICES ASSUME Init PROVE AlignedInv
      OBVIOUS
    <2>1. KeysOwned
      BY DEF Init, KeysOwned
    <2>2. ASSUME NEW r \in Request PROVE AnswersAligned(r)
      <3>1. EventsOf[r] \in Seq(Event) /\ answers[r] = << >> /\ at[r] = "new"
        BY IngestAssumption DEF Init
      <3> QED
        BY <3>1 DEF AnswersAligned
    <2> QED
      BY <2>1, <2>2 DEF AlignedInv
  <1> QED
    BY <1>1, AlignedStep, KeyInvHolds, PTL DEF Spec

(***************************************************************************)
(* A batch that is answered has one result for every event of its body, in *)
(* body order and with the event's own id, wherever Accept failed on the   *)
(* way; an id that is not the request's own is only ever a replay's, and   *)
(* is that of a request with the same key.                                 *)
(***************************************************************************)
ResultsMatchBody == \A r \in Request : AnswersAligned(r)

\* The results of PostBatch match the body (events.go, the loop over Accept).
THEOREM ResultsAlwaysMatch == Spec => []ResultsMatchBody
  <1>1. AlignedInv => ResultsMatchBody
    BY DEF AlignedInv, ResultsMatchBody
  <1> QED
    BY <1>1, AlignedHolds, PTL

(***************************************************************************)
(* No step gives a key another id, takes a stored row back or changes an   *)
(* answer: a retry gets what the first post was told (the cached response  *)
(* is written once, by the claim).                                         *)
(***************************************************************************)
KeysFinal ==
    [][/\ \A k \in Key : keys[k] # Nil => keys'[k] = keys[k]
       /\ stored \subseteq stored'
       /\ \A r \in Request :
             /\ Len(answers[r]) <= Len(answers'[r])
             /\ \A i \in DOMAIN answers[r] : answers'[r][i] = answers[r][i]]_vars

\* What is claimed, stored or told stays so (accept.go, ClaimIdempotencyKey).
THEOREM KeysAlwaysFinal == Spec => KeysFinal
  <1>1. ASSUME KeyInv, [Next]_vars
        PROVE  /\ \A k \in Key : keys[k] # Nil => keys'[k] = keys[k]
               /\ stored \subseteq stored'
               /\ \A r \in Request :
                     /\ Len(answers[r]) <= Len(answers'[r])
                     /\ \A i \in DOMAIN answers[r] : answers'[r][i] = answers[r][i]
    <2>1. StatementMoves
      BY <1>1, StatementStep
    <2>2. ASSUME NEW r \in Request
          PROVE  /\ Len(answers[r]) <= Len(answers'[r])
                 /\ \A i \in DOMAIN answers[r] : answers'[r][i] = answers[r][i]
      <3>1. answers[r] \in Seq(Answer) /\ AnswerMove(r)
        BY <1>1, <2>1 DEF KeyInv, TypeOK, StatementMoves
      <3>2. CASE answers'[r] = answers[r]
        BY <3>1, <3>2
      <3>3. ASSUME NEW id \in Event, NEW outcome \in {"accepted", "replayed", "failed"},
                   Running(r), Returns(r, outcome, id)
            PROVE  /\ Len(answers[r]) <= Len(answers'[r])
                   /\ \A i \in DOMAIN answers[r] : answers'[r][i] = answers[r][i]
        <4> DEFINE new == [status |-> StatusOf(outcome), id |-> id]
        <4>1. answers'[r] = Append(answers[r], new) /\ new \in Answer
          BY <1>1, <3>3, ReturnsSound DEF KeyInv, StatusOf, Answer
        <4> HIDE DEF new
        <4> QED
          BY <3>1, <4>1
      <3> QED
        BY <3>1, <3>2, <3>3 DEF AnswerMove
    <2>3. \A k \in Key : keys[k] # Nil => keys'[k] = keys[k]
      BY <2>1 DEF StatementMoves, KeyMove
    <2>4. stored \subseteq stored'
      BY <2>1 DEF StatementMoves
    <2> QED
      BY <2>2, <2>3, <2>4
  <1> QED
    BY <1>1, KeyInvHolds, PTL DEF Spec, KeysFinal
=============================================================================
