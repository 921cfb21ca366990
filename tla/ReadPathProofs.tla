--------------------------- MODULE ReadPathProofs ----------------------------
(***************************************************************************)
(* Theorems about ReadPath, for any events, chains, limit of the in-line   *)
(* verification, and any accepts and seals between two statements.         *)
(***************************************************************************)
EXTENDS ReadPath, ChainProofs, FiniteSetTheorems, TLAPS

(***************************************************************************)
(* The pipeline: chains grow at their ends, and an event is in one of them *)
(* at most.                                                                *)
(***************************************************************************)
Prefix(a, b) == Len(a) <= Len(b) /\ \A i \in 1 .. Len(a) : a[i] = b[i]

LogsApart ==
    \A s, t \in Shard : s # t => ToSet(log[s]) \cap ToSet(log[t]) = {}

PipelineOK ==
    /\ accepted \subseteq Event /\ waiting \subseteq accepted
    /\ IsFiniteSet(waiting)
    /\ log \in [Shard -> Seq(Event)]
    /\ J!Logged \subseteq accepted \ waiting
    /\ LogsApart

LEMMA SameCardinality == \A S : J!Cardinality(S) = Cardinality(S)
  BY Zenon DEF J!Cardinality, Cardinality

LEMMA PrefixTransitive ==
    ASSUME NEW a \in Seq(Event), NEW b \in Seq(Event), NEW c \in Seq(Event),
           Prefix(a, b), Prefix(b, c)
    PROVE  Prefix(a, c)
  BY DEF Prefix

-----------------------------------------------------------------------------
(***************************************************************************)
(* The rows of a chain.                                                    *)
(***************************************************************************)
LEMMA HashType ==
    ASSUME NEW l \in Seq(Event), NEW i \in 0 .. Len(l)
    PROVE  /\ HashAt(l, i) \in Hash
           /\ Len(HashAt(l, i)) = i
           /\ \A k \in 1 .. i : HashAt(l, i)[k] = <<PayloadOf[l[k]], k>>
  <1>1. i \in Nat
    OBVIOUS
  <1>2. \A k \in 1 .. i : <<PayloadOf[l[k]], k>> \in Payload \X Nat
    BY ReadPathAssumption
  <1>3. HashAt(l, i) \in [1 .. i -> Payload \X Nat]
    BY <1>2 DEF HashAt
  <1> QED
    BY <1>1, <1>3 DEF HashAt, Hash

LEMMA RowType ==
    ASSUME NEW l \in Seq(Event), NEW i \in 1 .. Len(l)
    PROVE  EventAt(l, i) \in EventRow
  <1>1. HashAt(l, i) \in Hash /\ (i # 1 => HashAt(l, i - 1) \in Hash)
    BY HashType
  <1>2. l[i] \in Event /\ PayloadOf[l[i]] \in Payload /\ i \in Nat
    BY ReadPathAssumption
  <1> QED
    BY <1>1, <1>2 DEF EventAt, EventRow

\* A hash is the hash before it with one more pair.
LEMMA HashContinues ==
    ASSUME NEW l \in Seq(Event), NEW i \in 1 .. Len(l)
    PROVE  HashAt(l, i) = EventHash(HashAt(l, i - 1), PayloadOf[l[i]], i)
  <1> DEFINE h == HashAt(l, i - 1)
             new == <<PayloadOf[l[i]], i>>
  <1>1. /\ HashAt(l, i) \in Hash /\ Len(HashAt(l, i)) = i
        /\ h \in Hash /\ Len(h) = i - 1
        /\ \A k \in 1 .. i : HashAt(l, i)[k] = <<PayloadOf[l[k]], k>>
        /\ \A k \in 1 .. i - 1 : h[k] = <<PayloadOf[l[k]], k>>
    BY HashType
  <1>2. new \in Payload \X Nat
    BY ReadPathAssumption
  <1>3. /\ Append(h, new) \in Hash /\ Len(Append(h, new)) = i
        /\ \A k \in 1 .. i : Append(h, new)[k] = <<PayloadOf[l[k]], k>>
    BY <1>1, <1>2 DEF Hash
  <1>4. HashAt(l, i) = Append(h, new)
    BY <1>1, <1>3, SameHash
  <1> QED
    BY <1>4 DEF EventHash

\* A chain that grows keeps its rows.
LEMMA PrefixRows ==
    ASSUME NEW a \in Seq(Event), NEW c \in Seq(Event), Prefix(a, c),
           NEW i \in 1 .. Len(a)
    PROVE  HashAt(a, i) = HashAt(c, i) /\ EventAt(a, i) = EventAt(c, i)
  <1>1. \A k \in 1 .. Len(a) : a[k] = c[k]
    BY DEF Prefix
  <1>2. ASSUME NEW k \in 0 .. Len(a) PROVE HashAt(a, k) = HashAt(c, k)
    <2>1. \A n \in 1 .. k : a[n] = c[n]
      BY <1>1
    <2> QED
      BY <2>1 DEF HashAt
  <1>3. a[i] = c[i] /\ HashAt(a, i) = HashAt(c, i) /\ HashAt(a, i - 1) = HashAt(c, i - 1)
    BY <1>1, <1>2
  <1> QED
    BY <1>3 DEF EventAt

\* What a step of the pipeline may do: chains grow, and only by events that
\* were waiting; an event that waits no more never waits again.
Grows ==
    /\ PipelineOK'
    /\ \A s \in Shard : Prefix(log[s], log'[s])
    /\ accepted \subseteq accepted'
    /\ waiting' \cap accepted \subseteq waiting
    /\ J!Logged' \subseteq J!Logged \cup waiting

LEMMA LoggedIs == J!Logged = UNION {ToSet(log[s]) : s \in Shard}
  BY DEF J!Logged, J!ToSet, ToSet

LEMMA LogGrows ==
    ASSUME PipelineOK, J!Next
    PROVE  Grows
  <1>1. CASE \E e \in Event : J!Accept(e)
    <2>1. PICK e \in Event : J!Accept(e)
      BY <1>1
    <2>2. /\ e \notin accepted /\ accepted' = accepted \cup {e}
          /\ waiting' = waiting \cup {e} /\ log' = log
      BY <2>1 DEF J!Accept
    <2>3. IsFiniteSet(waiting')
      BY <2>2, FS_AddElement DEF PipelineOK
    <2>4. J!Logged' = J!Logged
      BY <2>2 DEF J!Logged
    <2>5. LogsApart' /\ \A s \in Shard : Prefix(log[s], log'[s])
      BY <2>2 DEF PipelineOK, LogsApart, Prefix
    <2> QED
      BY <2>2, <2>3, <2>4, <2>5 DEF PipelineOK, Grows
  <1>2. ASSUME NEW s \in Shard, NEW new \in SUBSET waiting,
               NEW dups \in SUBSET (waiting \ new), J!Settle(s, new, dups)
        PROVE  Grows
    <2>1. PICK order \in [1 .. Cardinality(new) -> new] :
             log' = [log EXCEPT ![s] = @ \o order]
      BY <1>2, SameCardinality DEF J!Settle
    <2>2. IsFiniteSet(new) /\ Cardinality(new) \in Nat
      BY <1>2, FS_Subset, FS_CardinalityType DEF PipelineOK
    <2>3. /\ order \in Seq(Event)
          /\ \A k \in 1 .. Len(order) : order[k] \in new
      <3>1. order \in [1 .. Cardinality(new) -> Event]
        BY <1>2, <2>1 DEF PipelineOK
      <3> QED
        BY <2>1, <2>2, <3>1
    <2>4. /\ log' \in [Shard -> Seq(Event)]
          /\ \A t \in Shard : Prefix(log[t], log'[t])
      BY <2>1, <2>3 DEF PipelineOK, Prefix
    <2>5. /\ waiting' = waiting \ (new \cup dups) /\ accepted' = accepted
      BY <1>2 DEF J!Settle
    <2>6. IsFiniteSet(waiting')
      BY <2>5, FS_Subset DEF PipelineOK
    <2>7. \A t \in Shard \ {s} : log'[t] = log[t]
      BY <2>1 DEF PipelineOK
    <2>8. ToSet(log'[s]) \subseteq ToSet(log[s]) \cup new
      <3>1. log'[s] = log[s] \o order /\ log[s] \in Seq(Event)
        BY <2>1 DEF PipelineOK
      <3>2. ASSUME NEW i \in DOMAIN log'[s]
            PROVE  log'[s][i] \in ToSet(log[s]) \cup new
        <4>1. /\ i \in 1 .. Len(log[s]) + Len(order)
              /\ log'[s][i] = IF i <= Len(log[s]) THEN log[s][i]
                                                  ELSE order[i - Len(log[s])]
          BY <2>3, <3>1
        <4>2. CASE i <= Len(log[s])
          BY <3>1, <4>1, <4>2 DEF ToSet
        <4>3. CASE ~ (i <= Len(log[s]))
          <5>1. i - Len(log[s]) \in 1 .. Len(order)
            BY <2>3, <3>1, <4>1, <4>3
          <5>2. order[i - Len(log[s])] \in new
            BY <2>3, <5>1
          <5> QED
            BY <4>1, <4>3, <5>2
        <4> QED
          BY <4>2, <4>3
      <3> QED
        BY <3>2 DEF ToSet
    <2>9. J!Logged' \subseteq J!Logged \cup new
      <3>1. J!Logged' = UNION {ToSet(log'[t]) : t \in Shard}
        BY DEF J!Logged, J!ToSet, ToSet
      <3>2. ASSUME NEW t \in Shard PROVE ToSet(log'[t]) \subseteq J!Logged \cup new
        <4>1. ToSet(log[t]) \subseteq J!Logged
          BY LoggedIs
        <4> QED
          BY <2>7, <2>8, <4>1
      <3> QED
        BY <3>1, <3>2
    <2>10. LogsApart'
      <3> SUFFICES ASSUME NEW t \in Shard, NEW u \in Shard, t # u
                   PROVE  ToSet(log'[t]) \cap ToSet(log'[u]) = {}
        BY DEF LogsApart
      <3>1. /\ ToSet(log[t]) \cap ToSet(log[u]) = {}
            /\ ToSet(log[t]) \cap new = {} /\ ToSet(log[u]) \cap new = {}
        BY LoggedIs DEF PipelineOK, LogsApart
      <3> QED
        BY <2>7, <2>8, <3>1
    <2>11. PipelineOK'
      BY <2>4, <2>5, <2>6, <2>9, <2>10 DEF PipelineOK
    <2> QED
      BY <2>4, <2>5, <2>9, <2>11 DEF Grows
  <1> QED
    BY <1>1, <1>2 DEF J!Next

-----------------------------------------------------------------------------
(***************************************************************************)
(* The request: what its first statement has read, and what came since.    *)
(***************************************************************************)
Settled(e) == e \in accepted /\ e \notin waiting

Dropped(e) == Settled(e) /\ e \notin J!Logged

ThenOK ==
    /\ then.log \in [Shard -> Seq(Event)]
    /\ \A s \in Shard : Prefix(then.log[s], log[s])

\* The event asked for, as it was in its chain.
RowOfAsked ==
    LET s == ShardOf(asked, then.log) IN
    /\ s \in Shard
    /\ \E i \in 1 .. Len(then.log[s]) :
          row = EventAt(then.log[s], i) /\ asked = then.log[s][i]

ChainOfAsked ==
    /\ asked \in Shard
    /\ row = ChainRow(then.log[asked])
    /\ row.pos <= ChainVerifySyncLimit
    /\ then.log[asked] # << >>

NotFoundReason ==
    \/ Dropped(asked)
    \/ asked \in then.waiting /\ Settled(asked)
    \/ reply.failed

RequestOK ==
    /\ step \in {"new", "pending", "neighbors", "walk", "done"}
    /\ step # "done" => reply = NoReply
    /\ step = "pending" => /\ asked \in accepted
                           /\ asked \in then.waiting \/ Dropped(asked)
    /\ step = "neighbors" => asked \in Event /\ RowOfAsked
    /\ step = "walk" => ChainOfAsked
    /\ step = "done" => reply.op \in {"get", "neighbors", "verify"}
    /\ Answered("get") /\ reply.status = "not_found" => NotFoundReason
    /\ NeighborsLinked
    /\ Answered("verify") => /\ asked \in Shard
                             /\ reply.verdict \in
                                    {"valid", "invalid", "too_large", "not_found"}
    /\ ValidMeansWhole
    /\ InvalidMeansGrown
    /\ NotFoundMeansUnsealed

RequestTyped ==
    /\ asked \in Event \cup Shard \cup {Nil}
    /\ row # Nil => row.pos \in Nat /\ row.hash \in Hash \cup {Nil}

ReadInv == PipelineOK /\ ThenOK /\ RequestOK /\ RequestTyped

LEMMA InvInit == Init => ReadInv
  <1> SUFFICES ASSUME Init PROVE ReadInv
    OBVIOUS
  <1>1. accepted = {} /\ waiting = {} /\ log = [s \in Shard |-> << >>]
    BY DEF Init, J!Init
  <1>2. J!Logged = {} /\ LogsApart
    BY <1>1, LoggedIs DEF ToSet, LogsApart
  <1>3. PipelineOK
    BY <1>1, <1>2, FS_EmptySet, EmptySeq DEF PipelineOK
  <1>4. ThenOK
    BY <1>1, EmptySeq DEF Init, ThenOK, Prefix
  <1>5. RequestOK /\ RequestTyped
    BY DEF Init, RequestOK, RequestTyped, Answered, NeighborsLinked,
       ValidMeansWhole, InvalidMeansGrown, NotFoundMeansUnsealed
  <1> QED
    BY <1>3, <1>4, <1>5 DEF ReadInv

LEMMA PipelineKeeps ==
    ASSUME ReadInv, Pipeline
    PROVE  ReadInv'
  <1>1. Grows /\ UNCHANGED <<step, asked, row, reply, then>>
    BY LogGrows DEF ReadInv, Pipeline
  <1>2. ThenOK'
    BY <1>1, PrefixTransitive DEF ReadInv, PipelineOK, ThenOK, Grows
  <1>3. \A e : /\ Settled(e) => Settled(e)'
               /\ Dropped(e) => Dropped(e)'
               /\ e \in accepted => e \in accepted'
    BY <1>1 DEF Grows, Settled, Dropped
  <1>4. InvalidMeansGrown'
    <2> SUFFICES ASSUME Answered("verify"), reply.verdict = "invalid"
                 PROVE  Len(log'[asked]) > Len(then.log[asked])
      BY <1>1 DEF InvalidMeansGrown, Answered
    <2>1. asked \in Shard /\ Len(log[asked]) > Len(then.log[asked])
      BY DEF ReadInv, RequestOK, InvalidMeansGrown
    <2>2. /\ log[asked] \in Seq(Event) /\ log'[asked] \in Seq(Event)
          /\ then.log[asked] \in Seq(Event) /\ Len(log[asked]) <= Len(log'[asked])
      BY <1>1, <2>1 DEF Grows, PipelineOK, ReadInv, ThenOK, Prefix
    <2> QED
      BY <2>1, <2>2
  <1>5. (NeighborsLinked /\ ValidMeansWhole /\ NotFoundMeansUnsealed)'
    BY <1>1 DEF ReadInv, RequestOK, NeighborsLinked, ValidMeansWhole,
       NotFoundMeansUnsealed, Answered
  <1>6. NotFoundReason => NotFoundReason'
    BY <1>1, <1>3 DEF NotFoundReason
  <1>7. RequestOK'
    BY <1>1, <1>3, <1>4, <1>5, <1>6 DEF ReadInv, RequestOK, Answered, RowOfAsked,
       ChainOfAsked
  <1> QED
    BY <1>1, <1>2, <1>7 DEF ReadInv, RequestTyped, Grows

-----------------------------------------------------------------------------
(***************************************************************************)
(* The requests, a statement at a time.                                    *)
(***************************************************************************)
LEMMA BeginKeeps ==
    ASSUME ReadInv, NEW x, NEW next, Begins(x, next), UNCHANGED pipeline
    PROVE  /\ PipelineOK' /\ ThenOK'
           /\ step' = next /\ asked' = x /\ reply = NoReply
           /\ then'.log = log /\ then'.waiting = waiting
  <1>1. PipelineOK' /\ step' = next /\ asked' = x /\ reply = NoReply
    BY DEF ReadInv, RequestOK, Begins, pipeline, PipelineOK, J!Logged, LogsApart
  <1>2. then'.log = log /\ then'.waiting = waiting /\ log' = log
    BY DEF Begins, pipeline
  <1>3. log \in [Shard -> Seq(Event)]
    BY DEF ReadInv, PipelineOK
  <1>4. \A s \in Shard : Prefix(log[s], log[s])
    BY <1>3 DEF Prefix
  <1>5. ThenOK'
    BY <1>2, <1>3, <1>4 DEF ThenOK, Prefix
  <1> QED
    BY <1>1, <1>2, <1>5

LEMMA ReplyKeeps ==
    ASSUME ReadInv, NEW r, Replies(r), UNCHANGED row
    PROVE  /\ PipelineOK' /\ ThenOK' /\ RequestTyped'
           /\ step' = "done" /\ reply' = r
           /\ UNCHANGED <<accepted, waiting, log, asked, row, then>>
  <1>1. /\ UNCHANGED <<accepted, waiting, log, asked, row, then>>
        /\ step' = "done" /\ reply' = r
    BY DEF Replies, pipeline
  <1> QED
    BY <1>1 DEF ReadInv, PipelineOK, ThenOK, Prefix, RequestTyped, J!Logged,
       LogsApart

LEMMA GetKeeps ==
    ASSUME ReadInv, NEW e \in Event, Get(e)
    PROVE  ReadInv'
  <1>1. e \in accepted /\ UNCHANGED <<accepted, waiting, log, row>>
    BY DEF Get, pipeline
  <1>2. RequestTyped' /\ asked' = e
    BY <1>1 DEF ReadInv, RequestTyped, Get, Begins
  <1>3. CASE GetEventForOrg(e)
    <2>1. Begins(e, "done") /\ reply' = [op |-> "get", failed |-> FALSE, status |-> "sealed"]
      BY <1>3 DEF Get
    <2>2. PipelineOK' /\ ThenOK' /\ step' = "done"
      BY <1>1, <2>1, BeginKeeps DEF pipeline
    <2>3. RequestOK'
      BY <2>1, <2>2 DEF RequestOK, Answered, NeighborsLinked, ValidMeansWhole,
         InvalidMeansGrown, NotFoundMeansUnsealed
    <2> QED
      BY <1>2, <2>2, <2>3 DEF ReadInv
  <1>4. CASE ~ GetEventForOrg(e)
    <2>1. Begins(e, "pending") /\ reply' = reply
      BY <1>4 DEF Get
    <2>2. /\ PipelineOK' /\ ThenOK' /\ step' = "pending" /\ reply' = NoReply
          /\ then'.waiting = waiting
      BY <1>1, <2>1, BeginKeeps DEF pipeline
    <2>3. e \notin J!Logged /\ J!Logged' = J!Logged
      BY <1>1, <1>4, LoggedIs DEF GetEventForOrg, Sealed, J!Logged
    <2>4. e \in then'.waiting \/ Dropped(e)'
      BY <1>1, <2>2, <2>3 DEF Dropped, Settled
    <2>5. RequestOK'
      BY <1>1, <1>2, <2>2, <2>4 DEF RequestOK, Answered, NeighborsLinked,
         ValidMeansWhole, InvalidMeansGrown, NotFoundMeansUnsealed, Dropped, Settled
    <2> QED
      BY <1>2, <2>2, <2>5 DEF ReadInv
  <1> QED
    BY <1>3, <1>4

LEMMA GetPendingKeeps ==
    ASSUME ReadInv, GetPendingEventForOrg
    PROVE  ReadInv'
  <1>1. PICK failed \in {FALSE, ReadsFail} :
          Replies([op |-> "get", failed |-> failed,
                   status |-> IF asked \in waiting /\ ~ failed THEN "pending"
                                                             ELSE "not_found"])
    BY DEF GetPendingEventForOrg
  <1>2. step = "pending" /\ UNCHANGED row
    BY DEF GetPendingEventForOrg
  <1>3. /\ PipelineOK' /\ ThenOK' /\ RequestTyped' /\ step' = "done"
        /\ reply'.op = "get" /\ reply'.failed = failed
        /\ reply'.status = "not_found" => asked \notin waiting \/ failed
        /\ UNCHANGED <<accepted, waiting, log, asked, then>>
    BY <1>1, <1>2, ReplyKeeps
  <1>4. asked \in accepted /\ (asked \in then.waiting \/ Dropped(asked))
    BY <1>2 DEF ReadInv, RequestOK
  <1>5. reply'.status = "not_found" => NotFoundReason'
    BY <1>3, <1>4 DEF NotFoundReason, Dropped, Settled, J!Logged
  <1>6. RequestOK'
    BY <1>3, <1>5 DEF RequestOK, Answered, NeighborsLinked, ValidMeansWhole,
       InvalidMeansGrown, NotFoundMeansUnsealed
  <1> QED
    BY <1>3, <1>6 DEF ReadInv

-----------------------------------------------------------------------------
LEMMA NeighborsKeep ==
    ASSUME ReadInv, NEW e \in Event, ChainNeighbors(e)
    PROVE  ReadInv'
  <1>1. e \in accepted /\ UNCHANGED pipeline
    BY DEF ChainNeighbors
  <1>2. CASE GetEventForOrg(e)
    <2> DEFINE s == ShardOf(e, log)
               i == PositionOf(e, log[s])
    <2>1. Begins(e, "neighbors") /\ reply' = reply /\ row' = EventAt(log[s], i)
      BY <1>2 DEF ChainNeighbors, Place
    <2>2. /\ PipelineOK' /\ ThenOK' /\ step' = "neighbors" /\ reply' = NoReply
          /\ asked' = e /\ then'.log = log
      BY <1>1, <2>1, BeginKeeps
    <2>3. s \in Shard /\ e \in ToSet(log[s]) /\ log[s] \in Seq(Event)
      BY <1>2 DEF GetEventForOrg, Sealed, ShardOf, ReadInv, PipelineOK
    <2>4. i \in 1 .. Len(log[s]) /\ log[s][i] = e
      BY <2>3 DEF ToSet, PositionOf
    <2>5. RowOfAsked'
      <3>1. ShardOf(e, then'.log) = s
        BY <2>2
      <3> HIDE DEF s, i
      <3> QED
        BY <2>1, <2>2, <2>3, <2>4, <3>1 DEF RowOfAsked
    <2>6. row' \in EventRow
      <3> HIDE DEF s, i
      <3> QED
        BY <2>1, <2>3, <2>4, RowType
    <2>7. RequestTyped'
      BY <2>2, <2>6 DEF RequestTyped, EventRow
    <2>8. RequestOK'
      BY <2>2, <2>5 DEF RequestOK, Answered, NeighborsLinked, ValidMeansWhole,
         InvalidMeansGrown, NotFoundMeansUnsealed, NoReply
    <2> QED
      BY <2>2, <2>7, <2>8 DEF ReadInv
  <1>3. CASE ~ GetEventForOrg(e)
    <2>1. /\ Begins(e, "done") /\ row' = row
          /\ reply' = [op |-> "neighbors", status |-> "not_found"]
      BY <1>3 DEF ChainNeighbors
    <2>2. PipelineOK' /\ ThenOK' /\ step' = "done" /\ asked' = e
      BY <1>1, <2>1, BeginKeeps
    <2>3. RequestOK'
      BY <2>1, <2>2 DEF RequestOK, Answered, NeighborsLinked, ValidMeansWhole,
         InvalidMeansGrown, NotFoundMeansUnsealed
    <2>4. RequestTyped'
      BY <2>1, <2>2 DEF ReadInv, RequestTyped
    <2> QED
      BY <2>2, <2>3, <2>4 DEF ReadInv
  <1> QED
    BY <1>2, <1>3

\* The chain of an event stays its chain.
LEMMA ShardStays ==
    ASSUME ReadInv, RowOfAsked
    PROVE  ShardOf(asked, log) = ShardOf(asked, then.log)
  <1> DEFINE s == ShardOf(asked, then.log)
             u == ShardOf(asked, log)
  <1>1. PICK i \in 1 .. Len(then.log[s]) : s \in Shard /\ asked = then.log[s][i]
    BY DEF RowOfAsked
  <1>2. /\ then.log[s] \in Seq(Event) /\ log[s] \in Seq(Event)
        /\ Prefix(then.log[s], log[s])
    BY <1>1 DEF ReadInv, PipelineOK, ThenOK
  <1>3. i \in 1 .. Len(log[s]) /\ asked = log[s][i]
    BY <1>1, <1>2 DEF Prefix
  <1>4. asked \in ToSet(log[s])
    BY <1>2, <1>3 DEF ToSet
  <1>5. u \in Shard /\ asked \in ToSet(log[u])
    BY <1>1, <1>4 DEF ShardOf
  <1> QED
    BY <1>1, <1>4, <1>5 DEF ReadInv, PipelineOK, LogsApart

LEMMA NeighborsReplyKeeps ==
    ASSUME ReadInv, GetEventNeighbors
    PROVE  ReadInv'
  <1> DEFINE s     == ShardOf(asked, then.log)
             a     == then.log[s]
             l     == log[s]
             found == {EventAt(l, k) : k \in NeighborPositions(row.pos) \cap DOMAIN l}
             at(k) == IF \E n \in found : n.pos = k
                      THEN CHOOSE n \in found : n.pos = k
                      ELSE Nil
  <1>1. step = "neighbors" /\ UNCHANGED row
    BY DEF GetEventNeighbors
  <1>2. RowOfAsked /\ asked \in Event
    BY <1>1 DEF ReadInv, RequestOK
  <1>3. Replies([op |-> "neighbors", status |-> "found",
                 previous |-> at(row.pos - 1), next |-> at(row.pos + 1)])
    BY <1>2, ShardStays DEF GetEventNeighbors
  <1>4. PICK i \in 1 .. Len(a) : row = EventAt(a, i)
    BY <1>2 DEF RowOfAsked
  <1>5. s \in Shard /\ a \in Seq(Event) /\ l \in Seq(Event) /\ Prefix(a, l)
    BY <1>2 DEF RowOfAsked, ReadInv, PipelineOK, ThenOK
  <1> HIDE DEF s, a, l
  <1>6. i \in 1 .. Len(l) /\ row = EventAt(l, i) /\ row.pos = i
    <2>1. i \in 1 .. Len(l)
      BY <1>4, <1>5 DEF Prefix
    <2> QED
      BY <1>4, <1>5, <2>1, PrefixRows DEF EventAt
  <1>7. \A k \in {i - 1, i + 1} :
          at(k) = IF k \in 1 .. Len(l) THEN EventAt(l, k) ELSE Nil
    <2> SUFFICES ASSUME NEW k \in {i - 1, i + 1}
                 PROVE  at(k) = IF k \in 1 .. Len(l) THEN EventAt(l, k) ELSE Nil
      OBVIOUS
    <2>1. \A m : EventAt(l, m).pos = m
      BY DEF EventAt
    <2>2. found = {EventAt(l, m) : m \in {i - 1, i + 1} \cap (1 .. Len(l))}
      BY <1>5, <1>6 DEF NeighborPositions
    <2>3. \A n \in found : n.pos = k => n = EventAt(l, k) /\ k \in 1 .. Len(l)
      BY <2>1, <2>2
    <2>4. k \in 1 .. Len(l) => EventAt(l, k) \in found /\ EventAt(l, k).pos = k
      BY <2>1, <2>2
    <2> HIDE DEF found
    <2> QED
      BY <2>3, <2>4
  <1> HIDE DEF at
  <1>8. /\ PipelineOK' /\ ThenOK' /\ RequestTyped' /\ step' = "done"
        /\ reply' = [op |-> "neighbors", status |-> "found",
                     previous |-> at(i - 1), next |-> at(i + 1)]
        /\ UNCHANGED <<asked, row, then>>
    BY <1>1, <1>3, <1>6, ReplyKeeps
  <1>9. \A k \in 1 .. Len(l) : EventAt(l, k) # Nil
    BY <1>5, RowType, ReadPathAssumption
  <1>10. at(i - 1) = Nil <=> i = 1
    BY <1>6, <1>7, <1>9, <1>5
  <1>11. at(i - 1) # Nil => at(i - 1).hash = row.prev
    BY <1>6, <1>7, <1>10 DEF EventAt
  <1>12. at(i + 1) # Nil => at(i + 1).prev = row.hash
    <2>1. i + 1 # 1 /\ (i + 1) - 1 = i
      BY <1>6
    <2> QED
      BY <1>6, <1>7, <2>1 DEF EventAt
  <1>13. at(i + 1) = Nil => i = Len(a)
    <2>1. at(i + 1) = Nil => i + 1 \notin 1 .. Len(l)
      BY <1>7, <1>9
    <2> QED
      BY <1>4, <1>5, <1>6, <2>1 DEF Prefix
  <1>14. NeighborsLinked'
    BY <1>6, <1>8, <1>10, <1>11, <1>12, <1>13 DEF NeighborsLinked, s, a
  <1>15. RequestOK'
    BY <1>8, <1>14 DEF RequestOK, Answered, ValidMeansWhole,
       InvalidMeansGrown, NotFoundMeansUnsealed
  <1> QED
    BY <1>8, <1>15 DEF ReadInv

-----------------------------------------------------------------------------
LEMMA TipHashType ==
    ASSUME NEW l \in Seq(Event)
    PROVE  ChainRow(l).pos = Len(l) /\ ChainRow(l).hash \in Hash \cup {Nil}
  <1>1. l # << >> => HashAt(l, Len(l)) \in Hash
    BY HashType
  <1> QED
    BY <1>1 DEF ChainRow, TipHash

LEMMA VerifyKeeps ==
    ASSUME ReadInv, NEW s \in Shard, VerifyStored(s)
    PROVE  ReadInv'
  <1> DEFINE tip == ChainRow(log[s])
  <1>1. UNCHANGED pipeline
    BY DEF VerifyStored
  <1>2. log[s] \in Seq(Event)
    BY DEF ReadInv, PipelineOK
  <1>3. tip.pos \in Nat /\ tip.hash \in Hash \cup {Nil}
    BY <1>2, TipHashType
  <1> HIDE DEF tip
  <1>4. ASSUME NEW verdict \in {"not_found", "too_large"}, Refuses(s, verdict),
               verdict = "not_found" <=> log[s] = << >>,
               row' \in {row, tip}
        PROVE  ReadInv'
    <2>1. /\ Begins(s, "done")
          /\ reply' = [op |-> "verify", verdict |-> verdict, walked |-> << >>]
      BY <1>4 DEF Refuses
    <2>2. /\ PipelineOK' /\ ThenOK' /\ step' = "done" /\ asked' = s
          /\ then'.log = log
      BY <1>1, <2>1, BeginKeeps
    <2>3. /\ reply'.op = "verify" /\ reply'.verdict = verdict
          /\ verdict # "valid" /\ verdict # "invalid"
      BY <2>1
    <2>4. NotFoundMeansUnsealed'
      BY <1>4, <2>2, <2>3 DEF NotFoundMeansUnsealed, Answered
    <2>5. RequestOK'
      BY <2>2, <2>3, <2>4 DEF RequestOK, Answered, NeighborsLinked,
         ValidMeansWhole, InvalidMeansGrown
    <2>6. RequestTyped'
      BY <1>3, <1>4, <2>2 DEF ReadInv, RequestTyped
    <2> QED
      BY <2>2, <2>5, <2>6 DEF ReadInv
  <1>5. CASE ~ GetChainForOrg(s)
    <2>1. Refuses(s, "not_found") /\ row' = row /\ log[s] = << >>
      BY <1>5 DEF VerifyStored, GetChainForOrg
    <2> QED
      BY <1>4, <2>1
  <1>6. CASE GetChainForOrg(s) /\ TooLarge(tip)
    <2>1. Refuses(s, "too_large") /\ row' = tip /\ log[s] # << >>
      BY <1>6 DEF VerifyStored, GetChainForOrg, tip
    <2> QED
      BY <1>4, <2>1
  <1>7. CASE GetChainForOrg(s) /\ ~ TooLarge(tip)
    <2>1. Begins(s, "walk") /\ reply' = reply /\ row' = tip /\ log[s] # << >>
      BY <1>7 DEF VerifyStored, GetChainForOrg, tip
    <2>2. /\ PipelineOK' /\ ThenOK' /\ step' = "walk" /\ asked' = s
          /\ reply' = NoReply /\ then'.log = log
      BY <1>1, <2>1, BeginKeeps
    <2>3. tip.pos <= ChainVerifySyncLimit
      BY <1>3, <1>7, ReadPathAssumption DEF TooLarge
    <2>4. ChainOfAsked'
      BY <2>1, <2>2, <2>3 DEF ChainOfAsked, tip
    <2>5. RequestOK'
      BY <2>2, <2>4 DEF RequestOK, Answered, NeighborsLinked, ValidMeansWhole,
         InvalidMeansGrown, NotFoundMeansUnsealed, NoReply
    <2> QED
      BY <1>3, <2>1, <2>2, <2>5 DEF ReadInv, RequestTyped
  <1> QED
    BY <1>5, <1>6, <1>7

\* The rows walked are the first ones, as many as the limit allows.
LEMMA WalkedRows ==
    ASSUME NEW l \in Seq(Event)
    PROVE  \E n \in Nat :
             /\ n <= Len(l) /\ n <= ChainVerifySyncLimit
             /\ n = Len(l) \/ n = ChainVerifySyncLimit
             /\ WalkChainForVerify(l) = [i \in 1 .. n |-> EventAt(l, i)]
  <1> DEFINE S == {Len(l), ChainVerifySyncLimit}
             n == Min(S)
  <1>1. Len(l) \in Nat /\ ChainVerifySyncLimit \in Nat
    BY ReadPathAssumption
  <1>2. n \in S /\ \A x \in S : n <= x
    BY <1>1 DEF Min
  <1>3. WalkChainForVerify(l) = [i \in 1 .. n |-> EventAt(l, i)]
    BY DEF WalkChainForVerify
  <1> HIDE DEF n
  <1> QED
    BY <1>1, <1>2, <1>3

\* They continue one another, so no walk reports a break.
LEMMA NoBreaks ==
    ASSUME NEW l \in Seq(Event), NEW n \in 0 .. Len(l)
    PROVE  WalkBreaks([i \in 1 .. n |-> EventAt(l, i)]) = {}
  <1> DEFINE rows == [i \in 1 .. n |-> EventAt(l, i)]
  <1> SUFFICES ASSUME NEW i \in 1 .. n
               PROVE  /\ StoredPrev(rows[i]) = RunningTip(rows, i)
                      /\ EventHash(RunningTip(rows, i), rows[i].payload, rows[i].pos)
                            = rows[i].hash
    BY DEF WalkBreaks
  <1>1. i \in 1 .. Len(l)
    OBVIOUS
  <1>2. rows[i] = EventAt(l, i)
    OBVIOUS
  <1>3. RunningTip(rows, i) = HashAt(l, i - 1)
    <2>1. CASE i = 1
      BY <2>1 DEF RunningTip, Genesis, HashAt
    <2>2. CASE i # 1
      <3>1. rows[i - 1] = EventAt(l, i - 1)
        BY <2>2
      <3> QED
        BY <2>2, <3>1 DEF RunningTip, EventAt
    <2> QED
      BY <2>1, <2>2
  <1>4. StoredPrev(EventAt(l, i)) = HashAt(l, i - 1)
    <2>1. CASE i = 1
      BY <2>1 DEF StoredPrev, EventAt, Genesis, HashAt
    <2>2. CASE i # 1
      <3>1. HashAt(l, i - 1) \in Hash
        BY <1>1, HashType
      <3> QED
        BY <2>2, <3>1, NilAssumption DEF StoredPrev, EventAt
    <2> QED
      BY <2>1, <2>2
  <1>5. EventHash(HashAt(l, i - 1), PayloadOf[l[i]], i) = HashAt(l, i)
    BY <1>1, HashContinues
  <1> HIDE DEF rows
  <1> QED
    BY <1>2, <1>3, <1>4, <1>5 DEF EventAt

LEMMA WalkKeeps ==
    ASSUME ReadInv, Walk
    PROVE  ReadInv'
  <1> DEFINE a    == then.log[asked]
             l    == log[asked]
             rows == WalkChainForVerify(l)
             ids  == [i \in DOMAIN rows |-> rows[i].id]
             tip  == ChainRow(a)
  <1>1. /\ step = "walk" /\ UNCHANGED row
        /\ Replies([op |-> "verify", verdict |-> Verdict(row, rows), walked |-> ids])
    BY DEF Walk
  <1>2. /\ asked \in Shard /\ row = tip /\ row.pos <= ChainVerifySyncLimit
        /\ a # << >>
    BY <1>1 DEF ReadInv, RequestOK, ChainOfAsked
  <1>3. a \in Seq(Event) /\ l \in Seq(Event) /\ Prefix(a, l)
    BY <1>2 DEF ReadInv, PipelineOK, ThenOK
  <1>4. PICK n \in Nat :
          /\ n <= Len(l) /\ n <= ChainVerifySyncLimit
          /\ n = Len(l) \/ n = ChainVerifySyncLimit
          /\ rows = [i \in 1 .. n |-> EventAt(l, i)]
    BY <1>3, WalkedRows
  <1>5. /\ PipelineOK' /\ ThenOK' /\ RequestTyped' /\ step' = "done"
        /\ reply' = [op |-> "verify", verdict |-> Verdict(row, rows), walked |-> ids]
        /\ UNCHANGED <<log, asked, row, then>>
    BY <1>1, ReplyKeeps
  <1>6. n \in 0 .. Len(l) /\ Len(a) \in Nat /\ Len(l) \in Nat
    BY <1>3, <1>4
  <1>7. tip.pos = Len(a) /\ tip.hash = TipHash(a) /\ Len(a) <= ChainVerifySyncLimit
        /\ Len(a) <= Len(l)
    BY <1>2, <1>3 DEF ChainRow, Prefix
  <1>8. WalkBreaks(rows) = {}
    BY <1>3, <1>4, <1>6, NoBreaks
  <1>9. /\ rows = << >> <=> n = 0
        /\ n # 0 => Last(rows).hash = HashAt(l, n)
        /\ ids = [i \in 1 .. n |-> l[i]]
    <2>1. rows \in Seq(EventRow) /\ Len(rows) = n
      <3>1. \A i \in 1 .. n : EventAt(l, i) \in EventRow
        BY <1>3, <1>6, RowType
      <3> QED
        BY <1>4, <3>1
    <2>2. rows = << >> <=> n = 0
      BY <2>1, EmptySeq
    <2>3. n # 0 => Last(rows) = EventAt(l, n)
      BY <1>4, <2>1 DEF Last
    <2>4. ids = [i \in 1 .. n |-> l[i]]
      <3>1. DOMAIN rows = 1 .. n /\ \A i \in 1 .. n : rows[i].id = l[i]
        BY <1>4 DEF EventAt
      <3> QED
        BY <3>1
    <2> QED
      BY <2>2, <2>3, <2>4 DEF EventAt
  <1>10. a = [i \in 1 .. Len(a) |-> l[i]]
    <2>1. \A i \in 1 .. Len(a) : a[i] = l[i]
      BY <1>3 DEF Prefix
    <2> HIDE DEF a, l
    <2>2. a = [i \in 1 .. Len(a) |-> a[i]]
      BY <1>3
    <2> QED
      BY <2>1, <2>2
  <1> HIDE DEF a, l, rows, ids, tip
  <1>11. \A i \in 0 .. Len(l) : HashAt(l, i) # Nil /\ Len(HashAt(l, i)) = i
    BY <1>3, HashType, NilAssumption
  <1>12. Len(a) # 0 => TipHash(a) = HashAt(l, Len(a))
    BY <1>3, <1>6, PrefixRows DEF TipHash
  <1>13. Len(a) = 0 => TipHash(a) = Nil
    BY <1>3 DEF TipHash
  <1>14. ASSUME Verdict(row, rows) = "valid" PROVE ids = a
    <2>1. TipMatches(row, rows) \/ EmptyChainConsistent(row, rows)
      BY <1>8, <1>14 DEF Verdict
    <2>2. CASE EmptyChainConsistent(row, rows)
      <3>1. n = 0 /\ Len(a) = 0
        BY <1>2, <1>7, <1>9, <2>2 DEF EmptyChainConsistent
      <3> QED
        BY <1>9, <1>10, <3>1
    <2>3. CASE TipMatches(row, rows)
      <3>1. n # 0 /\ TipHash(a) = HashAt(l, n)
        BY <1>2, <1>7, <1>9, <2>3 DEF TipMatches
      <3>2. Len(a) # 0
        BY <1>6, <1>11, <1>13, <3>1
      <3>3. HashAt(l, Len(a)) = HashAt(l, n)
        BY <1>12, <3>1, <3>2
      <3>4. Len(a) = n
        BY <1>6, <1>7, <1>11, <3>3
      <3> QED
        BY <1>9, <1>10, <3>4
    <2> QED
      BY <2>1, <2>2, <2>3
  <1>15. ASSUME Verdict(row, rows) = "invalid" PROVE Len(l) > Len(a)
    <2>1. ~ TipMatches(row, rows) /\ ~ EmptyChainConsistent(row, rows)
      BY <1>8, <1>15 DEF Verdict
    <2> SUFFICES ASSUME Len(l) = Len(a) PROVE FALSE
      BY <1>6, <1>7
    <2>2. n = Len(a)
      BY <1>4, <1>6, <1>7
    <2>3. CASE n = 0
      <3>1. rows = << >> /\ row = [pos |-> 0, hash |-> Nil]
        BY <1>2, <1>9, <1>13, <2>2, <2>3 DEF ChainRow, tip
      <3> QED
        BY <2>1, <3>1 DEF EmptyChainConsistent
    <2>4. CASE n # 0
      <3>1. rows # << >> /\ row.hash = Last(rows).hash
        BY <1>2, <1>7, <1>9, <1>12, <2>2, <2>4
      <3> QED
        BY <2>1, <3>1 DEF TipMatches
    <2> QED
      BY <2>3, <2>4
  <1>16. Verdict(row, rows) \in {"valid", "invalid"}
    BY <1>8 DEF Verdict
  <1>17. (ValidMeansWhole /\ InvalidMeansGrown /\ NotFoundMeansUnsealed)'
    BY <1>2, <1>5, <1>14, <1>15, <1>16 DEF ValidMeansWhole, InvalidMeansGrown,
       NotFoundMeansUnsealed, a, l
  <1>18. RequestOK'
    BY <1>2, <1>5, <1>16, <1>17 DEF RequestOK, Answered, NeighborsLinked
  <1> QED
    BY <1>5, <1>18 DEF ReadInv

-----------------------------------------------------------------------------
LEMMA InvStep == ReadInv /\ [Next]_vars => ReadInv'
  <1> SUFFICES ASSUME ReadInv, [Next]_vars PROVE ReadInv'
    OBVIOUS
  <1>1. CASE Pipeline
    BY <1>1, PipelineKeeps
  <1>2. ASSUME NEW e \in Event, Get(e) \/ ChainNeighbors(e) PROVE ReadInv'
    BY <1>2, GetKeeps, NeighborsKeep
  <1>3. CASE GetPendingEventForOrg
    BY <1>3, GetPendingKeeps
  <1>4. CASE GetEventNeighbors
    BY <1>4, NeighborsReplyKeeps
  <1>5. ASSUME NEW s \in Shard, VerifyStored(s) PROVE ReadInv'
    BY <1>5, VerifyKeeps
  <1>6. CASE Walk
    BY <1>6, WalkKeeps
  <1>7. CASE UNCHANGED vars
    <2>1. UNCHANGED <<accepted, waiting, log, step, asked, row, reply, then>>
      BY <1>7 DEF vars, pipeline
    <2>2. PipelineOK' /\ ThenOK' /\ RequestTyped'
      BY <2>1 DEF ReadInv, PipelineOK, ThenOK, Prefix, RequestTyped, J!Logged,
         LogsApart
    <2>3. RequestOK'
      BY <2>1 DEF ReadInv, RequestOK, Answered, RowOfAsked, ChainOfAsked,
         NotFoundReason, Dropped, Settled, J!Logged, NeighborsLinked,
         ValidMeansWhole, InvalidMeansGrown, NotFoundMeansUnsealed
    <2> QED
      BY <2>2, <2>3 DEF ReadInv
  <1> QED
    BY <1>1, <1>2, <1>3, <1>4, <1>5, <1>6, <1>7 DEF Next, Rest

LEMMA InvHolds == Spec => []ReadInv
  <1> QED
    BY InvInit, InvStep, PTL DEF Spec

(***************************************************************************)
(* Every variable keeps its type, a request has an answer exactly when it  *)
(* is done, and what waits was accepted: every step of the handlers of     *)
(* events_read.go and chains.go.                                           *)
(***************************************************************************)
THEOREM TypeCorrect == Spec => []TypeOK
  <1>1. ReadInv => TypeOK
    BY DEF ReadInv, PipelineOK, RequestOK, RequestTyped, TypeOK, NoReply
  <1> QED
    BY <1>1, InvHolds, PTL

(***************************************************************************)
(* A 404 for an accepted event (Get of events_read.go) is always one of a  *)
(* duplicate, of an event sealed between the two reads, or of a failed     *)
(* second read.                                                            *)
(***************************************************************************)
THEOREM NotFoundAlwaysExplained == Spec => []NotFoundExplained
  <1>1. ReadInv => NotFoundExplained
    BY DEF ReadInv, RequestOK, NotFoundReason, Dropped, Settled, NotFoundExplained
  <1> QED
    BY <1>1, InvHolds, PTL

(***************************************************************************)
(* The neighbours that Neighbors (events_read.go) returns are the rows the *)
(* event's hashes link it to, however far the chain has grown meanwhile.   *)
(***************************************************************************)
THEOREM NeighborsAlwaysLinked == Spec => []NeighborsLinked
  <1>1. ReadInv => NeighborsLinked
    BY DEF ReadInv, RequestOK
  <1> QED
    BY <1>1, InvHolds, PTL

(***************************************************************************)
(* A verification of a chain (Verify of chains.go) that says valid has     *)
(* walked the whole chain of its tip, none reports a break, one that says  *)
(* invalid has raced a seal, and a 404 means that nothing was sealed.      *)
(***************************************************************************)
THEOREM VerdictAlwaysExplained == Spec => []VerdictExplained
  <1>1. ReadInv => VerdictExplained
    BY DEF ReadInv, RequestOK, VerdictExplained, NoFalseBreak
  <1> QED
    BY <1>1, InvHolds, PTL

=============================================================================
