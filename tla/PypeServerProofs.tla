--------------------------- MODULE PypeServerProofs ---------------------------
(***************************************************************************)
(* Proofs about PypeServer for every number of clients, services, handlers   *)
(* and requests and every setting that satisfies its assumptions: a waiting  *)
(* call keeps its entry, a request and its response are in one place and are  *)
(* taken once, and a response that was accepted stays within its client's     *)
(* reach.                                                                    *)
(***************************************************************************)
EXTENDS PypeServer, FiniteSetTheorems, TLAPS

\* A call keeps its shape whatever wait it enters.
LEMMA NoCallType == NoCall \in Call /\ CallShape(NoCall)
  BY ConstantsAssumption DEF NoCall, CallOf, Call, CallShape, Overdue, Longest

\* get_or_create returns an entry, and one with room within its bounds.
LEMMA GetOrCreateType ==
  ASSUME ServerTypeOK, NEW c \in Client, NEW e \in Entry, e \in Obtainable(c)
  PROVE  /\ [entry EXCEPT ![c] = e] \in [Client -> Entry \cup {None}]
         /\ [queue EXCEPT ![e] = <<>>] \in [Entry -> Seq(Msg)]
         /\ \A x \in Entry : Len([queue EXCEPT ![e] = <<>>][x]) <= ClientQueueMax
  BY ConstantsAssumption DEF ServerTypeOK, Obtainable

\* A get leaves a queue of messages within its bound.
LEMMA AfterGetType ==
  ASSUME NEW q \in Seq(Msg), q # <<>>, NEW n \in Nat, Len(q) <= n
  PROVE  AfterGet(q) \in Seq(Msg) /\ Len(AfterGet(q)) <= n /\ Head(q) \in Msg
  BY DEF AfterGet

\* A put into a queue that has room leaves it within its bound.
LEMMA PutType ==
  ASSUME NEW q \in Seq(Msg), NEW m \in Msg, NEW n \in Nat, HasRoom(q, n)
  PROVE  Append(q, m) \in Seq(Msg) /\ Len(Append(q, m)) <= n
  BY DEF HasRoom

\* A normalised timeout is one that the server allows.
LEMMA NormalizeType ==
  ASSUME NEW t \in TimeoutArg, InRange(t)
  PROVE  Normalize(t) \in 0 .. MaxTimeout
  BY ConstantsAssumption DEF InRange, Normalize

\* The state of one handler changes to a well-formed call.
LEMMA CallType ==
  ASSUME ServerTypeOK, NEW h \in Handler, NEW k \in Call, CallShape(k),
         call' = [call EXCEPT ![h] = k]
  PROVE  call' \in [Handler -> Call] /\ \A x \in Handler : CallShape(call'[x])
  BY DEF ServerTypeOK

LEMMA ReturnType ==
  ASSUME ServerTypeOK, NEW h \in Handler, Return(h)
  PROVE  call' \in [Handler -> Call] /\ \A x \in Handler : CallShape(call'[x])
  BY NoCallType, CallType DEF Return

\* A call that waits on, with a budget that is not negative.
LEMMA AwaitType ==
  ASSUME ServerTypeOK, NEW h \in Handler, ~Idle(h), NEW at \in {"put", "get"},
         call[h].op \in {"poll", "pull"} => at = "get",
         NEW d \in 0 .. MaxTimeout, Await(h, at, d)
  PROVE  call' \in [Handler -> Call] /\ \A x \in Handler : CallShape(call'[x])
  <1> DEFINE k == Waiting(call[h], at, 0, d)
  <1>1. call[h] \in Call /\ CallShape(call[h])
    BY DEF ServerTypeOK
  <1>2. k \in Call /\ k.at = at /\ k.left = d /\ k.op = call[h].op
        /\ k.client = call[h].client /\ k.service = call[h].service
        /\ k.id = call[h].id /\ k.entry = call[h].entry
    BY <1>1, ConstantsAssumption DEF Call, Waiting, CallOf
  <1>3. CallShape(k)
    BY <1>1, <1>2, ConstantsAssumption DEF CallShape, Overdue, Longest, Idle
  <1>4. call' = [call EXCEPT ![h] = k]
    BY DEF Await, ServerTypeOK
  <1> QED BY <1>2, <1>3, <1>4, CallType

LEMMA DeliverType ==
  ASSUME ServerTypeOK, NEW c \in Client, NEW e \in Entry, Deliver(c, e)
  PROVE  /\ queue' \in [Entry -> Seq(Msg)]
         /\ \A x \in Entry : Len(queue'[x]) <= ClientQueueMax
         /\ stage' \in [Msg -> Stage]
  BY AfterGetType, ConstantsAssumption DEF Deliver, TakeFor, ServerTypeOK, Stage

LEMMA BumpType ==
  ASSUME ServerTypeOK, NEW c \in Client, BumpLastSeen(c)
  PROVE  age' \in [Client -> 0 .. Threshold + 1]
  BY ConstantsAssumption DEF BumpLastSeen, ServerTypeOK

LEMMA TouchedType ==
  ASSUME ServerTypeOK, NEW c \in Client
  PROVE  Touched(c) \in [Client -> 0 .. Threshold + 1]
  BY ConstantsAssumption DEF Touched, ServerTypeOK

-------------------------------------------------------------------------------
\* The call that a POST of a request starts is well-formed.
LEMMA RequestCallType ==
  ASSUME NEW c \in Client, NEW s \in Service, NEW r \in Request, NEW e \in Entry,
         NEW t \in TimeoutArg, InRange(t), NEW b \in BlockArg
  PROVE  /\ RequestCall(c, s, r, e, t, b) \in Call
         /\ CallShape(RequestCall(c, s, r, e, t, b))
  BY NormalizeType, ConstantsAssumption
     DEF RequestCall, CallOf, Call, CallShape, Overdue, Longest

LEMMA PostRequestType ==
  ASSUME ServerTypeOK, NEW h \in Handler, NEW c \in Client, NEW s \in Service,
         NEW r \in Request, NEW t \in TimeoutArg, NEW b \in BlockArg,
         PostRequest(h, c, s, r, t, b)
  PROVE  ServerTypeOK'
  <1> PICK e \in Entry : /\ GetOrCreate(c, e)
                         /\ age' = Touched(c)
                         /\ \/ /\ InRange(t)
                               /\ call' = [call EXCEPT ![h] = RequestCall(c, s, r, e, t, b)]
                               /\ stage' = [stage EXCEPT ![<<c, r>>] = "offered"]
                            \/ /\ ~InRange(t)
                               /\ stage' = [stage EXCEPT ![<<c, r>>] = "refused"]
                               /\ UNCHANGED call
    BY DEF PostRequest
  <1>1. call' \in [Handler -> Call] /\ \A x \in Handler : CallShape(call'[x])
    <2>1. CASE InRange(t)
      BY <2>1, RequestCallType, CallType
    <2>2. CASE ~InRange(t)
      BY <2>2 DEF ServerTypeOK
    <2> QED BY <2>1, <2>2
  <1>2. /\ entry' \in [Client -> Entry \cup {None}]
        /\ queue' \in [Entry -> Seq(Msg)]
        /\ \A x \in Entry : Len(queue'[x]) <= ClientQueueMax
    BY GetOrCreateType DEF GetOrCreate, ServerTypeOK
  <1>3. stage' \in [Msg -> Stage]
    BY DEF ServerTypeOK, Stage, Msg
  <1>4. UNCHANGED <<squeue, pending, gone, evicted>>
    BY DEF PostRequest
  <1> QED BY <1>1, <1>2, <1>3, <1>4, TouchedType DEF ServerTypeOK

LEMMA AcceptRequestType ==
  ASSUME ServerTypeOK, NEW h \in Handler, call[h].op = "request", NEW left \in Int,
         left <= MaxTimeout, AcceptRequest(h, left)
  PROVE  ServerTypeOK'
  <1>1. /\ ~Idle(h) /\ MsgOf(call[h]) \in Msg /\ call[h].service \in Service
        /\ call[h].client \in Client /\ call[h].entry \in Entry
    BY DEF ServerTypeOK, CallShape, Idle, MsgOf, Msg
  <1>2. call' \in [Handler -> Call] /\ \A x \in Handler : CallShape(call'[x])
    <2>1. CASE Return(h)
      BY <2>1, ReturnType
    <2>2. CASE left > 0 /\ Await(h, "get", left)
      <3>1. left \in 0 .. MaxTimeout
        BY <2>2, ConstantsAssumption
      <3> QED BY <2>2, <3>1, <1>1, AwaitType
    <2> QED BY <2>1, <2>2 DEF AcceptRequest
  <1>3. /\ squeue' \in [Service -> Seq(Msg)]
        /\ \A x \in Service : Len(squeue'[x]) <= ServiceQueueMax
    BY <1>1, PutType, ConstantsAssumption DEF AcceptRequest, ServerTypeOK
  <1>4. /\ queue' \in [Entry -> Seq(Msg)]
        /\ \A x \in Entry : Len(queue'[x]) <= ClientQueueMax
        /\ stage' \in [Msg -> Stage]
    <2>1. CASE UNCHANGED queue
          /\ stage' = [stage EXCEPT ![MsgOf(call[h])] = "queued"]
      BY <2>1 DEF ServerTypeOK, Stage
    <2> DEFINE q == queue[call[h].entry]
    <2>2. CASE /\ q # <<>>
               /\ queue' = [queue EXCEPT ![call[h].entry] = AfterGet(@)]
               /\ stage' = [stage EXCEPT ![MsgOf(call[h])] = "queued",
                                        ![Head(q)] = "delivered"]
      <3>1. AfterGet(q) \in Seq(Msg) /\ Len(AfterGet(q)) <= ClientQueueMax
        BY <1>1, <2>2, AfterGetType, ConstantsAssumption DEF ServerTypeOK
      <3>2. stage' \in [Msg -> Stage]
        BY <2>2 DEF ServerTypeOK, Stage
      <3> QED BY <1>1, <2>2, <3>1, <3>2 DEF ServerTypeOK
    <2> QED BY <2>1, <2>2 DEF AcceptRequest, TakeFor
  <1>5. age' \in [Client -> 0 .. Threshold + 1]
    BY <1>1, BumpType DEF AcceptRequest
  <1>6. UNCHANGED <<entry, pending, gone, evicted>>
    BY DEF AcceptRequest
  <1> QED BY <1>2, <1>3, <1>4, <1>5, <1>6 DEF ServerTypeOK

LEMMA RefuseRequestType ==
  ASSUME ServerTypeOK, NEW h \in Handler, call[h].op = "request", RefuseRequest(h)
  PROVE  ServerTypeOK'
  <1>1. call[h].client \in Client
    BY DEF ServerTypeOK, CallShape
  <1>2. age' \in [Client -> 0 .. Threshold + 1]
    BY <1>1, BumpType DEF RefuseRequest
  <1>3. call' \in [Handler -> Call] /\ \A x \in Handler : CallShape(call'[x])
    BY ReturnType DEF RefuseRequest
  <1>4. stage' \in [Msg -> Stage]
    BY DEF RefuseRequest, ServerTypeOK, Stage
  <1> QED BY <1>2, <1>3, <1>4 DEF ServerTypeOK, RefuseRequest

\* The steps of a request after its start.
LEMMA RequestStepType ==
  ASSUME ServerTypeOK, NEW h \in Handler,
         RequestBody(h) \/ EnqueueRequest(h) \/ RequestTimeout(h)
           \/ BlockGet(h) \/ BlockTimeout(h)
  PROVE  ServerTypeOK'
  <1>1. call[h] \in Call /\ CallShape(call[h])
    BY DEF ServerTypeOK
  <1>2. ASSUME call[h].timeout > 0, Waits(h, "request", "body"),
               Await(h, "put", call[h].timeout),
               UNCHANGED <<entry, age, queue, squeue, pending, stage, gone, evicted>>
        PROVE  ServerTypeOK'
    <2>1. call[h].timeout \in 0 .. MaxTimeout /\ ~Idle(h)
      BY <1>1, <1>2, ConstantsAssumption DEF Call, Waits, Idle
    <2>2. call' \in [Handler -> Call] /\ \A x \in Handler : CallShape(call'[x])
      BY <1>2, <2>1, AwaitType DEF Waits
    <2> QED BY <1>2, <2>2 DEF ServerTypeOK
  <1>3. CASE RequestBody(h)
    BY <1>2, <1>3, AcceptRequestType, RefuseRequestType, ConstantsAssumption
       DEF RequestBody, Waits
  <1>4. CASE EnqueueRequest(h)
    <2>1. call[h].left \in Int /\ call[h].left <= MaxTimeout
      BY <1>1, <1>4 DEF EnqueueRequest, Waits, Call, CallShape, Longest
    <2> QED BY <1>4, <2>1, AcceptRequestType DEF EnqueueRequest, Waits
  <1>5. CASE RequestTimeout(h)
    BY <1>5, RefuseRequestType DEF RequestTimeout, Waits
  <1>6. CASE BlockGet(h)
    <2>1. call[h].client \in Client /\ call[h].entry \in Entry
      BY <1>1, <1>6 DEF BlockGet, Waits, CallShape
    <2> QED BY <1>6, <2>1, DeliverType, ReturnType DEF BlockGet, ServerTypeOK
  <1>7. CASE BlockTimeout(h)
    BY <1>7, ReturnType DEF BlockTimeout, ServerTypeOK
  <1> QED BY <1>3, <1>4, <1>5, <1>6, <1>7

LEMMA PollResponseType ==
  ASSUME ServerTypeOK, NEW h \in Handler, NEW c \in Client, NEW t \in TimeoutArg,
         PollResponse(h, c, t)
  PROVE  ServerTypeOK'
  <1> PICK e \in Entry :
        /\ e \in Obtainable(c)
        /\ entry' = [entry EXCEPT ![c] = e]
        /\ age' = Touched(c)
        /\ LET q == IF entry[c] = None THEN <<>> ELSE queue[e]
           IN \/ /\ ~InRange(t) \/ (Normalize(t) = 0 /\ q = <<>>)
                 /\ queue' = [queue EXCEPT ![e] = q]
                 /\ UNCHANGED <<call, stage>>
              \/ /\ Normalize(t) = 0 /\ q # <<>>
                 /\ Deliver(c, e)
                 /\ UNCHANGED call
              \/ /\ InRange(t) /\ Normalize(t) > 0
                 /\ queue' = [queue EXCEPT ![e] = q]
                 /\ call' = [call EXCEPT ![h] = PollCall(c, e, t)]
                 /\ UNCHANGED stage
    BY DEF PollResponse
  <1> DEFINE q == IF entry[c] = None THEN <<>> ELSE queue[e]
  <1>1. q \in Seq(Msg) /\ Len(q) <= ClientQueueMax
    BY ConstantsAssumption DEF ServerTypeOK
  <1> HIDE DEF q
  <1>2. CASE queue' = [queue EXCEPT ![e] = q] /\ UNCHANGED <<call, stage>>
    BY <1>1, <1>2, GetOrCreateType, TouchedType DEF ServerTypeOK, PollResponse
  <1>3. CASE Deliver(c, e) /\ UNCHANGED call
    BY <1>3, GetOrCreateType, TouchedType, DeliverType DEF ServerTypeOK, PollResponse
  <1>4. CASE /\ InRange(t)
             /\ queue' = [queue EXCEPT ![e] = q]
             /\ call' = [call EXCEPT ![h] = PollCall(c, e, t)]
             /\ UNCHANGED stage
    <2>1. PollCall(c, e, t) \in Call /\ CallShape(PollCall(c, e, t))
      BY <1>4, NormalizeType, ConstantsAssumption
         DEF PollCall, CallOf, Call, CallShape, Overdue, Longest
    <2>2. call' \in [Handler -> Call] /\ \A x \in Handler : CallShape(call'[x])
      BY <1>4, <2>1, CallType
    <2> QED BY <1>1, <1>4, <2>2, GetOrCreateType, TouchedType DEF ServerTypeOK, PollResponse
  <1> QED BY <1>2, <1>3, <1>4 DEF q

LEMMA PollStepType ==
  ASSUME ServerTypeOK, NEW h \in Handler, PollGet(h) \/ PollTimeout(h)
  PROVE  ServerTypeOK'
  <1>1. call[h].client \in Client /\ call[h].entry \in Entry
    BY DEF ServerTypeOK, CallShape, PollGet, PollTimeout, Waits
  <1>2. CASE PollGet(h)
    BY <1>1, <1>2, DeliverType, ReturnType, BumpType DEF PollGet, ServerTypeOK
  <1>3. CASE PollTimeout(h)
    BY <1>1, <1>3, ReturnType, BumpType DEF PollTimeout, ServerTypeOK
  <1> QED BY <1>2, <1>3

LEMMA TakeRequestType ==
  ASSUME ServerTypeOK, NEW s \in Service, TakeRequest(s)
  PROVE  /\ squeue' \in [Service -> Seq(Msg)]
         /\ \A x \in Service : Len(squeue'[x]) <= ServiceQueueMax
         /\ stage' \in [Msg -> Stage]
  BY AfterGetType, ConstantsAssumption DEF TakeRequest, ServerTypeOK, Stage

LEMMA PullType ==
  ASSUME ServerTypeOK, NEW h \in Handler,
         \/ PullGet(h) \/ PullTimeout(h)
         \/ \E s \in Service, t \in TimeoutArg : PullRequest(h, s, t)
  PROVE  ServerTypeOK'
  <1>1. CASE PullGet(h)
    <2>1. call[h].service \in Service
      BY <1>1 DEF ServerTypeOK, CallShape, PullGet, Waits
    <2> QED BY <1>1, <2>1, TakeRequestType, ReturnType DEF PullGet, ServerTypeOK
  <1>2. CASE PullTimeout(h)
    BY <1>2, ReturnType DEF PullTimeout, ServerTypeOK
  <1>3. ASSUME NEW s \in Service, NEW t \in TimeoutArg, PullRequest(h, s, t)
        PROVE  ServerTypeOK'
    <2>1. CASE TakeRequest(s) /\ UNCHANGED call
      BY <1>3, <2>1, TakeRequestType DEF PullRequest, ServerTypeOK
    <2>2. CASE /\ call' = [call EXCEPT ![h] = PullCall(s, t)]
               /\ UNCHANGED <<squeue, stage>>
      <3>1. PullCall(s, t) \in Call /\ CallShape(PullCall(s, t))
        BY <1>3, NormalizeType, ConstantsAssumption
           DEF PullRequest, PullCall, CallOf, Call, CallShape, Overdue, Longest
      <3>2. call' \in [Handler -> Call] /\ \A x \in Handler : CallShape(call'[x])
        BY <2>2, <3>1, CallType
      <3> QED BY <1>3, <2>2, <3>2 DEF PullRequest, ServerTypeOK
    <2> QED BY <1>3, <2>1, <2>2 DEF PullRequest
  <1> QED BY <1>1, <1>2, <1>3

LEMMA PostAnswerType ==
  ASSUME ServerTypeOK, NEW h \in Handler, NEW c \in Client, NEW r \in Request,
         NEW t \in TimeoutArg, PostAnswer(h, c, r, t)
  PROVE  ServerTypeOK'
  <1> PICK e \in Entry : /\ GetOrCreate(c, e)
                         /\ age' = IF entry[c] = None THEN Touched(c) ELSE age
                         /\ \/ /\ InRange(t)
                               /\ call' = [call EXCEPT ![h] = AnswerCall(c, r, e, t)]
                               /\ stage' = [stage EXCEPT ![<<c, r>>] = "answering"]
                            \/ /\ ~InRange(t)
                               /\ UNCHANGED <<call, stage>>
    BY DEF PostAnswer
  <1>1. call' \in [Handler -> Call] /\ \A x \in Handler : CallShape(call'[x])
    <2>1. CASE InRange(t)
      <3>1. AnswerCall(c, r, e, t) \in Call /\ CallShape(AnswerCall(c, r, e, t))
        BY <2>1, NormalizeType, ConstantsAssumption
           DEF AnswerCall, CallOf, Call, CallShape, Overdue, Longest
      <3> QED BY <2>1, <3>1, CallType
    <2>2. CASE ~InRange(t)
      BY <2>2 DEF ServerTypeOK
    <2> QED BY <2>1, <2>2
  <1>2. /\ entry' \in [Client -> Entry \cup {None}]
        /\ queue' \in [Entry -> Seq(Msg)]
        /\ \A x \in Entry : Len(queue'[x]) <= ClientQueueMax
    BY GetOrCreateType DEF GetOrCreate, ServerTypeOK
  <1>3. stage' \in [Msg -> Stage]
    BY DEF ServerTypeOK, Stage, Msg
  <1>4. age' \in [Client -> 0 .. Threshold + 1]
    BY TouchedType DEF ServerTypeOK
  <1> QED BY <1>1, <1>2, <1>3, <1>4 DEF ServerTypeOK, PostAnswer

LEMMA AcceptAnswerType ==
  ASSUME ServerTypeOK, NEW h \in Handler, call[h].op = "answer", AcceptAnswer(h)
  PROVE  ServerTypeOK'
  <1>1. MsgOf(call[h]) \in Msg /\ call[h].entry \in Entry
    BY DEF ServerTypeOK, CallShape, MsgOf, Msg
  <1>2. /\ queue' \in [Entry -> Seq(Msg)]
        /\ \A x \in Entry : Len(queue'[x]) <= ClientQueueMax
    BY <1>1, PutType, ConstantsAssumption DEF AcceptAnswer, ServerTypeOK
  <1>3. stage' \in [Msg -> Stage]
    BY <1>1 DEF AcceptAnswer, ServerTypeOK, Stage
  <1>4. call' \in [Handler -> Call] /\ \A x \in Handler : CallShape(call'[x])
    BY ReturnType DEF AcceptAnswer
  <1> QED BY <1>2, <1>3, <1>4 DEF AcceptAnswer, ServerTypeOK

LEMMA RefuseAnswerType ==
  ASSUME ServerTypeOK, NEW h \in Handler, RefuseAnswer(h)
  PROVE  ServerTypeOK'
  <1>1. call' \in [Handler -> Call] /\ \A x \in Handler : CallShape(call'[x])
    BY ReturnType DEF RefuseAnswer
  <1>2. stage' \in [Msg -> Stage]
    BY DEF RefuseAnswer, ServerTypeOK, Stage
  <1> QED BY <1>1, <1>2 DEF RefuseAnswer, ServerTypeOK

LEMMA AnswerStepType ==
  ASSUME ServerTypeOK, NEW h \in Handler,
         AnswerBody(h) \/ EnqueueAnswer(h) \/ AnswerTimeout(h) \/ BodyAborted(h)
  PROVE  ServerTypeOK'
  <1>1. call[h] \in Call
    BY DEF ServerTypeOK
  <1>2. ASSUME call[h].timeout > 0, Waits(h, "answer", "body"),
               Await(h, "put", call[h].timeout),
               UNCHANGED <<entry, age, queue, squeue, pending, stage, gone, evicted>>
        PROVE  ServerTypeOK'
    <2>1. call[h].timeout \in 0 .. MaxTimeout /\ ~Idle(h)
      BY <1>1, <1>2, ConstantsAssumption DEF Call, Waits, Idle
    <2>2. call' \in [Handler -> Call] /\ \A x \in Handler : CallShape(call'[x])
      BY <1>2, <2>1, AwaitType DEF Waits
    <2> QED BY <1>2, <2>2 DEF ServerTypeOK
  <1>3. CASE AnswerBody(h)
    BY <1>2, <1>3, AcceptAnswerType, RefuseAnswerType DEF AnswerBody, Waits
  <1>4. CASE EnqueueAnswer(h)
    BY <1>4, AcceptAnswerType DEF EnqueueAnswer, Waits
  <1>5. CASE AnswerTimeout(h)
    BY <1>5, RefuseAnswerType DEF AnswerTimeout
  <1>6. CASE BodyAborted(h)
    <2>1. stage' \in [Msg -> Stage]
      BY <1>6 DEF BodyAborted, ServerTypeOK, Stage
    <2> QED BY <1>6, <2>1, ReturnType DEF BodyAborted, ServerTypeOK
  <1> QED BY <1>3, <1>4, <1>5, <1>6

\* Logoff, the reaper and the passing of time.
LEMMA WorldType ==
  ASSUME ServerTypeOK, (\E c \in Client : Logoff(c)) \/ ReaperTick \/ Tick
  PROVE  ServerTypeOK'
  <1>1. ASSUME NEW c \in Client, Logoff(c)
        PROVE  ServerTypeOK'
    BY <1>1, ConstantsAssumption DEF Logoff, ServerTypeOK
  <1>2. CASE ReaperTick
    <2>1. Snapshot \subseteq Client
      BY DEF Snapshot, Registered, ServerTypeOK
    <2>2. /\ entry' \in [Client -> Entry \cup {None}]
          /\ age' \in [Client -> 0 .. Threshold + 1]
          /\ pending' \subseteq Client /\ evicted' \subseteq Client
          /\ UNCHANGED <<queue, squeue, call, stage, gone>>
      <3> PICK batch \in SUBSET Snapshot :
            LET stale == {c \in batch : Stale(c)}
            IN /\ entry' = [c \in Client |-> IF c \in stale THEN None ELSE entry[c]]
               /\ age' = [c \in Client |-> IF c \in stale THEN 0 ELSE age[c]]
               /\ pending' = Snapshot \ batch
               /\ evicted' = evicted \cup stale
               /\ UNCHANGED <<queue, squeue, call, stage, gone>>
        BY <1>2 DEF ReaperTick
      <3> QED BY <2>1, ConstantsAssumption DEF ServerTypeOK
    <2> QED BY <2>2 DEF ServerTypeOK
  <1>3. CASE Tick
    <2>1. ASSUME NEW x \in Handler
          PROVE  call'[x] \in Call /\ CallShape(call'[x])
      <3>1. call[x] \in Call /\ CallShape(call[x]) /\ call'[x] = Elapsed(call[x])
        BY <1>3 DEF Tick, ServerTypeOK
      <3>2. CASE Idle(x)
        BY <3>1, <3>2 DEF Elapsed, Idle
      <3>3. CASE ~Idle(x)
        <4>1. call[x].left > Overdue(call[x])
          BY <1>3, <3>3 DEF Tick
        <4> QED BY <3>1, <3>3, <4>1, ConstantsAssumption
                DEF Elapsed, Waiting, CallOf, Idle, Call, CallShape, Overdue, Longest
      <3> QED BY <3>2, <3>3
    <2>2. call' \in [Handler -> Call]
      BY <1>3, <2>1 DEF Tick
    <2>3. age' \in [Client -> 0 .. Threshold + 1]
      BY <1>3, ConstantsAssumption DEF Tick, ServerTypeOK
    <2> QED BY <1>3, <2>1, <2>2, <2>3 DEF Tick, ServerTypeOK
  <1> QED BY <1>1, <1>2, <1>3

-------------------------------------------------------------------------------
\* Every reachable state of the server is well-typed.
LEMMA ServerTypeCorrect == Spec => []ServerTypeOK
  <1>1. Init => ServerTypeOK
    BY NoCallType, ConstantsAssumption DEF Init, ServerTypeOK, Stage
  <1>2. ServerTypeOK /\ [Next]_vars => ServerTypeOK'
    <2> SUFFICES ASSUME ServerTypeOK, [Next]_vars
                 PROVE  ServerTypeOK'
      OBVIOUS
    <2>1. ASSUME NEW h \in Handler, Start(h)
          PROVE  ServerTypeOK'
      BY <2>1, PollResponseType, PullType, PostRequestType, PostAnswerType DEF Start
    <2>2. ASSUME NEW h \in Handler, Resume(h) \/ BodyAborted(h)
          PROVE  ServerTypeOK'
      BY <2>2, RequestStepType, PollStepType, PullType, AnswerStepType DEF Resume
    <2>3. CASE (\E c \in Leaver : Logoff(c)) \/ ReaperTick \/ Tick
      BY <2>3, WorldType, ConstantsAssumption
    <2>4. CASE UNCHANGED vars
      BY <2>4 DEF vars, ServerTypeOK
    <2> QED BY <2>1, <2>2, <2>3, <2>4 DEF Next
  <1> QED BY <1>1, <1>2, PTL DEF Spec

\* A pull or a call that takes a message is counted, and no step counts anything
\* else.
LEMMA CountsStep ==
  ASSUME ServerTypeOK, [Next]_vars
  PROVE  \/ UNCHANGED taking
         \/ /\ \E m \in Msg : handed' = [handed EXCEPT ![m] = @ + 1]
            /\ UNCHANGED delivered
         \/ /\ \E c \in Client, m \in Msg : delivered' = [delivered EXCEPT ![c][m] = @ + 1]
            /\ UNCHANGED handed
  <1> DEFINE Counts ==
        \/ UNCHANGED taking
        \/ /\ \E m \in Msg : handed' = [handed EXCEPT ![m] = @ + 1]
           /\ UNCHANGED delivered
        \/ /\ \E c \in Client, m \in Msg : delivered' = [delivered EXCEPT ![c][m] = @ + 1]
           /\ UNCHANGED handed
  <1>1. ASSUME NEW s \in Service, TakeRequest(s)
        PROVE  Counts
    <2>1. Head(squeue[s]) \in Msg
      BY <1>1, AfterGetType, ConstantsAssumption DEF ServerTypeOK, TakeRequest
    <2> QED BY <1>1, <2>1 DEF TakeRequest
  <1>2. ASSUME NEW c \in Client, NEW e \in Entry, queue[e] # <<>>, TakeFor(c, e)
        PROVE  Counts
    <2>1. Head(queue[e]) \in Msg
      BY <1>2, AfterGetType, ConstantsAssumption DEF ServerTypeOK
    <2> QED BY <1>2, <2>1 DEF TakeFor
  <1>3. ASSUME NEW h \in Handler, call[h].op \in {"request", "poll"}
        PROVE  call[h].client \in Client /\ call[h].entry \in Entry
    BY <1>3 DEF ServerTypeOK, CallShape
  <1>4. ASSUME NEW h \in Handler, NEW left, call[h].op = "request", AcceptRequest(h, left)
        PROVE  Counts
    BY <1>2, <1>3, <1>4 DEF AcceptRequest, taking
  <1>5. ASSUME NEW h \in Handler, Resume(h) \/ BodyAborted(h)
        PROVE  Counts
    <2>1. CASE RequestBody(h) \/ EnqueueRequest(h) \/ RequestTimeout(h)
      BY <1>4, <2>1 DEF RequestBody, EnqueueRequest, RequestTimeout, RefuseRequest,
                        Waits, taking
    <2>2. CASE BlockGet(h) \/ PollGet(h)
      BY <1>2, <1>3, <2>2 DEF BlockGet, PollGet, Waits, Deliver
    <2>3. CASE PullGet(h)
      <3>1. call[h].service \in Service
        BY <2>3 DEF PullGet, Waits, ServerTypeOK, CallShape
      <3> QED BY <1>1, <2>3, <3>1 DEF PullGet
    <2>4. CASE \/ BlockTimeout(h) \/ PollTimeout(h) \/ PullTimeout(h)
               \/ AnswerBody(h) \/ EnqueueAnswer(h) \/ AnswerTimeout(h) \/ BodyAborted(h)
      BY <2>4 DEF BlockTimeout, PollTimeout, PullTimeout, AnswerBody, EnqueueAnswer,
                  AnswerTimeout, AcceptAnswer, RefuseAnswer, BodyAborted, taking
    <2> QED BY <1>5, <2>1, <2>2, <2>3, <2>4 DEF Resume
  <1>6. ASSUME NEW h \in Handler, Start(h)
        PROVE  Counts
    <2>1. ASSUME NEW c \in Client, NEW t \in TimeoutArg, PollResponse(h, c, t)
          PROVE  Counts
      <3> PICK e \in Entry : \/ UNCHANGED taking
                             \/ entry[c] # None /\ Deliver(c, e)
        <4>1. CASE entry[c] = None
          BY <2>1, <4>1 DEF PollResponse
        <4>2. CASE entry[c] # None
          BY <2>1, <4>2 DEF PollResponse
        <4> QED BY <4>1, <4>2
      <3> QED BY <1>2 DEF Deliver
    <2>2. ASSUME NEW s \in Service, NEW t \in TimeoutArg, PullRequest(h, s, t)
          PROVE  Counts
      BY <1>1, <2>2 DEF PullRequest, taking
    <2>3. CASE \E c \in Client, r \in Request, t \in TimeoutArg :
                 \/ \E s \in Service, b \in BlockArg : PostRequest(h, c, s, r, t, b)
                 \/ PostAnswer(h, c, r, t)
      BY <2>3 DEF PostRequest, PostAnswer, taking
    <2> QED BY <1>6, <2>1, <2>2, <2>3 DEF Start
  <1>7. CASE (\E c \in Leaver : Logoff(c)) \/ ReaperTick \/ Tick \/ UNCHANGED vars
    BY <1>7 DEF Logoff, ReaperTick, Tick, vars, taking
  <1> QED BY <1>5, <1>6, <1>7 DEF Next

-------------------------------------------------------------------------------
\* Every reachable state is well-typed: the queues never exceed their maxsize and
\* a waiting handler holds what it looked up.
THEOREM TypeCorrect == Spec => []TypeOK
  <1>1. Init => TypeOK
    BY NoCallType, ConstantsAssumption DEF Init, TypeOK, ServerTypeOK, Stage
  <1>2. TypeOK /\ [Next]_vars /\ ServerTypeOK' => TypeOK'
    <2> SUFFICES ASSUME TypeOK, [Next]_vars, ServerTypeOK'
                 PROVE  /\ handed' \in [Msg -> Nat]
                        /\ delivered' \in [Client -> [Msg -> Nat]]
      BY DEF TypeOK
    <2>1. /\ handed \in [Msg -> Nat]
          /\ delivered \in [Client -> [Msg -> Nat]]
      BY DEF TypeOK
    <2> QED BY <2>1, CountsStep DEF TypeOK, taking
  <1> QED BY <1>1, <1>2, ServerTypeCorrect, PTL DEF Spec

-------------------------------------------------------------------------------
(***************************************************************************)
(* A call of a client waits on the entry that the registry has.  It is not    *)
(* inductive alone: nothing in it keeps the reaper from evicting the entry.   *)
(* What does is that the age of last_seen and the time a call has left add up *)
(* to the call's budget at most, which time leaves as it is and bumps reduce. *)
(***************************************************************************)
Busy(x) == call[x].op \in {"request", "poll"} /\ call[x].client \notin gone
Safe(x) ==
  Busy(x) => /\ entry[call[x].client] = call[x].entry
             /\ age[call[x].client] + call[x].left <= Budget(call[x])

LEMMA SafeIsInvariants ==
  (\A x \in Handler : Safe(x)) <=> LiveCallKeepsEntry /\ BusyClientIsFresh
  BY DEF Safe, Busy, LiveCallKeepsEntry, BusyClientIsFresh

\* A busy call has a registered entry.
LEMMA BusyRegistered ==
  ASSUME ServerTypeOK, NEW x \in Handler, Safe(x), Busy(x)
  PROVE  /\ call[x].client \in Client /\ entry[call[x].client] # None
         /\ age[call[x].client] \in Nat /\ call[x].left \in Int
         /\ Budget(call[x]) \in Nat
  BY ConstantsAssumption DEF ServerTypeOK, CallShape, Call, Safe, Busy, Budget

\* A step keeps the calls that it does not touch safe when it leaves their
\* entries registered and their clients no older.
LEMMA OtherKept ==
  ASSUME ServerTypeOK, NEW x \in Handler, Safe(x), call'[x] = call[x], gone' = gone,
         ServerTypeOK',
         Busy(x) => /\ entry'[call[x].client] = entry[call[x].client]
                    /\ age'[call[x].client] <= age[call[x].client]
  PROVE  Safe(x)'
  <1> SUFFICES ASSUME Busy(x)
               PROVE  Safe(x)'
    BY DEF Safe, Busy
  <1>1. /\ call[x].client \in Client /\ age[call[x].client] \in Nat
        /\ call[x].left \in Int /\ Budget(call[x]) \in Nat
    BY BusyRegistered
  <1>2. age'[call[x].client] \in Int
    BY <1>1, ConstantsAssumption DEF ServerTypeOK
  <1> QED BY <1>1, <1>2 DEF Safe, Busy, Budget

\* get_or_create replaces no entry that a busy call waits on.
LEMMA GetOrCreateKeeps ==
  ASSUME ServerTypeOK, NEW x \in Handler, Safe(x), Busy(x), NEW c \in Client,
         NEW e \in Obtainable(c), entry' = [entry EXCEPT ![c] = e]
  PROVE  entry'[call[x].client] = entry[call[x].client]
  BY BusyRegistered DEF Obtainable, ServerTypeOK

\* Neither a bump nor a first sighting makes a client older.
LEMMA BumpYounger ==
  ASSUME ServerTypeOK, NEW c \in Client, NEW d \in Client,
         BumpLastSeen(c) \/ age' = Touched(c) \/ UNCHANGED age
  PROVE  age'[d] <= age[d] /\ age[d] \in Nat
  <1>1. age \in [Client -> Nat]
    BY ConstantsAssumption DEF ServerTypeOK
  <1>2. age' = age \/ age' = [age EXCEPT ![c] = 0]
    BY DEF BumpLastSeen, Touched
  <1> QED BY <1>1, <1>2

\* A handler that is idle or a service's has nothing to keep.
LEMMA ReturnedSafe ==
  ASSUME ServerTypeOK, NEW h \in Handler, Return(h)
  PROVE  Safe(h)'
  <1>1. call'[h].op = "none"
    BY DEF Return, NoCall, CallOf, ServerTypeOK
  <1> QED BY <1>1 DEF Safe, Busy

\* A client's new call holds the entry it was just given, and its budget is whole.
LEMMA PostRequestSafe ==
  ASSUME ServerTypeOK, ServerTypeOK', NEW x \in Handler, Safe(x),
         NEW h \in Handler, NEW c \in Client, NEW s \in Service,
         NEW r \in Request, NEW t \in TimeoutArg, NEW b \in BlockArg,
         PostRequest(h, c, s, r, t, b)
  PROVE  Safe(x)'
  <1> PICK e \in Entry : /\ e \in Obtainable(c)
                         /\ entry' = [entry EXCEPT ![c] = e]
                         /\ age' = Touched(c)
                         /\ \/ call' = [call EXCEPT ![h] = RequestCall(c, s, r, e, t, b)]
                            \/ UNCHANGED call
    BY DEF PostRequest, GetOrCreate
  <1>1. gone' = gone
    BY DEF PostRequest
  <1>2. CASE call'[x] = call[x]
    <2>1. Busy(x) => /\ entry'[call[x].client] = entry[call[x].client]
                     /\ age'[call[x].client] <= age[call[x].client]
      BY GetOrCreateKeeps, BusyRegistered, BumpYounger
    <2> QED BY <1>1, <1>2, <2>1, OtherKept
  <1>3. CASE call'[x] # call[x]
    <2>1. call'[x] = RequestCall(c, s, r, e, t, b)
      BY <1>3 DEF ServerTypeOK
    <2>2. /\ call'[x].client = c /\ call'[x].entry = e /\ call'[x].at = "body"
          /\ call'[x].left = BodyMax
      BY <2>1 DEF RequestCall, CallOf
    <2>3. entry'[c] = e /\ age'[c] = 0
      BY DEF Touched, ServerTypeOK
    <2> QED BY <2>2, <2>3, ConstantsAssumption DEF Safe, Busy, Budget
  <1> QED BY <1>2, <1>3

LEMMA PollResponseSafe ==
  ASSUME ServerTypeOK, ServerTypeOK', NEW x \in Handler, Safe(x),
         NEW h \in Handler, NEW c \in Client, NEW t \in TimeoutArg,
         PollResponse(h, c, t)
  PROVE  Safe(x)'
  <1> PICK e \in Entry : /\ e \in Obtainable(c)
                         /\ entry' = [entry EXCEPT ![c] = e]
                         /\ age' = Touched(c)
                         /\ \/ /\ InRange(t)
                               /\ call' = [call EXCEPT ![h] = PollCall(c, e, t)]
                            \/ UNCHANGED call
    BY DEF PollResponse
  <1>1. gone' = gone
    BY DEF PollResponse
  <1>2. CASE call'[x] = call[x]
    <2>1. Busy(x) => /\ entry'[call[x].client] = entry[call[x].client]
                     /\ age'[call[x].client] <= age[call[x].client]
      BY GetOrCreateKeeps, BusyRegistered, BumpYounger
    <2> QED BY <1>1, <1>2, <2>1, OtherKept
  <1>3. CASE call'[x] # call[x]
    <2>1. call'[x] = PollCall(c, e, t) /\ InRange(t)
      BY <1>3 DEF ServerTypeOK
    <2>2. /\ call'[x].client = c /\ call'[x].entry = e /\ call'[x].at = "get"
          /\ call'[x].left = Normalize(t)
      BY <2>1 DEF PollCall, CallOf
    <2>3. entry'[c] = e /\ age'[c] = 0
      BY DEF Touched, ServerTypeOK
    <2>4. Normalize(t) \in 0 .. MaxTimeout
      BY <2>1, NormalizeType
    <2> QED BY <2>2, <2>3, <2>4, ConstantsAssumption DEF Safe, Busy, Budget
  <1> QED BY <1>2, <1>3

\* A service's calls are no concern of the clients', and its POST creates an entry
\* only for a client that has none.
LEMMA ServiceStartSafe ==
  ASSUME ServerTypeOK, ServerTypeOK', NEW x \in Handler, Safe(x), NEW h \in Handler,
         \/ \E s \in Service, t \in TimeoutArg : PullRequest(h, s, t)
         \/ \E c \in Client, r \in Request, t \in TimeoutArg : PostAnswer(h, c, r, t)
  PROVE  Safe(x)'
  <1>1. ASSUME NEW s \in Service, NEW t \in TimeoutArg, PullRequest(h, s, t)
        PROVE  Safe(x)'
    <2>1. call'[x] = call[x] \/ call'[x] = PullCall(s, t)
      BY <1>1 DEF PullRequest, ServerTypeOK
    <2>2. CASE call'[x] = PullCall(s, t)
      BY <2>2 DEF PullCall, CallOf, Safe, Busy
    <2>3. CASE call'[x] = call[x]
      BY <1>1, <2>3 DEF PullRequest, Safe, Busy, Budget
    <2> QED BY <2>1, <2>2, <2>3
  <1>2. ASSUME NEW c \in Client, NEW r \in Request, NEW t \in TimeoutArg,
               PostAnswer(h, c, r, t)
        PROVE  Safe(x)'
    <2> PICK e \in Entry : /\ e \in Obtainable(c)
                           /\ entry' = [entry EXCEPT ![c] = e]
                           /\ age' = IF entry[c] = None THEN Touched(c) ELSE age
                           /\ \/ call' = [call EXCEPT ![h] = AnswerCall(c, r, e, t)]
                              \/ UNCHANGED call
      BY <1>2 DEF PostAnswer, GetOrCreate
    <2>1. call'[x] = call[x] \/ call'[x] = AnswerCall(c, r, e, t)
      BY DEF ServerTypeOK
    <2>2. CASE call'[x] = AnswerCall(c, r, e, t)
      BY <2>2 DEF AnswerCall, CallOf, Safe, Busy
    <2>3. CASE call'[x] = call[x]
      <3>1. Busy(x) => /\ entry'[call[x].client] = entry[call[x].client]
                       /\ age'[call[x].client] <= age[call[x].client]
        BY GetOrCreateKeeps, BusyRegistered, BumpYounger
      <3> QED BY <1>2, <2>3, <3>1, OtherKept DEF PostAnswer
    <2> QED BY <2>1, <2>2, <2>3
  <1> QED BY <1>1, <1>2

\* What a resumed handler does to the registry, and to its own call: it returns,
\* or waits on: after the body for its timeout, after the enqueue for the rest.
LEMMA ResumeEffect ==
  ASSUME ServerTypeOK, NEW h \in Handler, Resume(h) \/ BodyAborted(h)
  PROVE  /\ entry' = entry /\ gone' = gone
         /\ \/ UNCHANGED age
            \/ call[h].client \in Client /\ BumpLastSeen(call[h].client)
         /\ \/ Return(h)
            \/ /\ call[h].at = "body" /\ UNCHANGED age
               /\ Await(h, "put", call[h].timeout)
            \/ /\ Waits(h, "request", "put")
               /\ BumpLastSeen(call[h].client)
               /\ Await(h, "get", call[h].left)
  <1>1. call[h].op \in {"request", "answer", "poll"} => call[h].client \in Client
    BY DEF ServerTypeOK, CallShape
  <1>2. CASE RequestBody(h)
    <2>1. ~(0 > 0)
      OBVIOUS
    <2> QED BY <1>1, <1>2, <2>1 DEF RequestBody, AcceptRequest, RefuseRequest, Waits
  <1>3. CASE EnqueueRequest(h)
    BY <1>1, <1>3 DEF EnqueueRequest, AcceptRequest, Waits
  <1>4. CASE RequestTimeout(h)
    BY <1>1, <1>4 DEF RequestTimeout, RefuseRequest, Waits
  <1>5. CASE BlockGet(h) \/ BlockTimeout(h)
    BY <1>5 DEF BlockGet, BlockTimeout
  <1>6. CASE PollGet(h) \/ PollTimeout(h)
    BY <1>1, <1>6 DEF PollGet, PollTimeout, Waits
  <1>7. CASE PullGet(h) \/ PullTimeout(h)
    BY <1>7 DEF PullGet, PullTimeout
  <1>8. CASE AnswerBody(h)
    BY <1>8 DEF AnswerBody, AcceptAnswer, RefuseAnswer, Waits
  <1>9. CASE EnqueueAnswer(h) \/ AnswerTimeout(h)
    BY <1>9 DEF EnqueueAnswer, AnswerTimeout, AcceptAnswer, RefuseAnswer
  <1>10. CASE BodyAborted(h)
    BY <1>10 DEF BodyAborted
  <1> QED BY <1>2, <1>3, <1>4, <1>5, <1>6, <1>7, <1>8, <1>9, <1>10 DEF Resume

LEMMA ResumeSafe ==
  ASSUME ServerTypeOK, ServerTypeOK', NEW x \in Handler, Safe(x),
         NEW h \in Handler, Resume(h) \/ BodyAborted(h)
  PROVE  Safe(x)'
  <1>1. entry' = entry /\ gone' = gone
    BY ResumeEffect
  <1>2. ASSUME Busy(x)
        PROVE  age'[call[x].client] <= age[call[x].client]
    BY <1>2, ResumeEffect, BusyRegistered, BumpYounger
  <1>3. CASE call'[x] = call[x]
    BY <1>1, <1>2, <1>3, OtherKept
  <1>4. CASE call'[x] # call[x]
    <2>1. x = h
      <3>1. ASSUME NEW k, call' = [call EXCEPT ![h] = k]
            PROVE  x = h
        BY <3>1, <1>4 DEF ServerTypeOK
      <3> QED BY <3>1, ResumeEffect DEF Return, Await
    <2>2. CASE Return(h)
      BY <2>1, <2>2, ReturnedSafe
    <2>3. ASSUME call[h].at = "body", UNCHANGED age, Await(h, "put", call[h].timeout)
          PROVE  Safe(x)'
      <3>1. call'[h] = Waiting(call[h], "put", 0, call[h].timeout)
        BY <2>3 DEF Await, ServerTypeOK
      <3>2. /\ call'[h].op = call[h].op /\ call'[h].client = call[h].client
            /\ call'[h].entry = call[h].entry /\ call'[h].at = "put"
            /\ call'[h].left = call[h].timeout
        BY <3>1 DEF Waiting, CallOf
      <3>3. call[h].timeout \in 0 .. MaxTimeout /\ call[h].left >= 0
        BY <2>3, ConstantsAssumption DEF ServerTypeOK, Call, CallShape, Overdue, Longest
      <3> SUFFICES ASSUME Busy(h)
                   PROVE  Safe(h)'
        BY <1>1, <2>1, <3>2 DEF Safe, Busy
      <3>4. age[call[h].client] + call[h].left <= BodyMax
            /\ entry[call[h].client] = call[h].entry
        BY <2>1, <2>3 DEF Safe, Budget
      <3>5. age[call[h].client] + call[h].timeout <= BodyMax + MaxTimeout
        BY <2>1, <3>3, <3>4, BusyRegistered, ConstantsAssumption
      <3> QED BY <1>1, <2>3, <3>2, <3>4, <3>5 DEF Safe, Busy, Budget
    <2>4. ASSUME Waits(h, "request", "put"), BumpLastSeen(call[h].client),
                 Await(h, "get", call[h].left)
          PROVE  Safe(x)'
      <3>1. call'[h] = Waiting(call[h], "get", 0, call[h].left)
        BY <2>4 DEF Await, ServerTypeOK
      <3>2. /\ call'[h].op = call[h].op /\ call'[h].client = call[h].client
            /\ call'[h].entry = call[h].entry /\ call'[h].at = "get"
            /\ call'[h].left = call[h].left
        BY <3>1 DEF Waiting, CallOf
      <3> SUFFICES ASSUME Busy(h)
                   PROVE  Safe(h)'
        BY <1>1, <2>1, <3>2 DEF Safe, Busy
      <3>3. entry[call[h].client] = call[h].entry
            /\ call[h].client \in Client /\ entry[call[h].client] # None
        BY <2>1, BusyRegistered DEF Safe
      <3>4. age'[call[h].client] = 0
        BY <2>4, <3>3 DEF BumpLastSeen, ServerTypeOK
      <3>5. call[h].left \in Int /\ call[h].left <= MaxTimeout
        BY <2>4 DEF ServerTypeOK, CallShape, Call, Longest, Waits
      <3> QED BY <1>1, <3>2, <3>3, <3>4, <3>5 DEF Safe, Busy, Budget
    <2> QED BY <2>2, <2>3, <2>4, ResumeEffect
  <1> QED BY <1>3, <1>4

LEMMA LogoffSafe ==
  ASSUME ServerTypeOK, NEW x \in Handler, Safe(x), NEW c \in Client, Logoff(c)
  PROVE  Safe(x)'
  <1> SUFFICES ASSUME Busy(x)'
               PROVE  Safe(x)'
    BY DEF Safe
  <1>1. Busy(x) /\ call' = call /\ call[x].client # c
    BY DEF Logoff, Busy
  <1>2. call[x].client \in Client
    BY <1>1, BusyRegistered
  <1>3. entry'[call[x].client] = entry[call[x].client]
        /\ age'[call[x].client] = age[call[x].client]
    BY <1>1, <1>2 DEF Logoff, ServerTypeOK
  <1> QED BY <1>1, <1>3 DEF Safe, Budget

\* The reaper evicts no entry that a busy call holds: its age is within budget.
LEMMA ReaperSafe ==
  ASSUME ServerTypeOK, NEW x \in Handler, Safe(x), ReaperTick
  PROVE  Safe(x)'
  <1> PICK batch \in SUBSET Snapshot :
        LET stale == {c \in batch : Stale(c)}
        IN /\ entry' = [c \in Client |-> IF c \in stale THEN None ELSE entry[c]]
           /\ age' = [c \in Client |-> IF c \in stale THEN 0 ELSE age[c]]
           /\ UNCHANGED <<queue, squeue, call, stage, gone>>
    BY DEF ReaperTick
  <1> SUFFICES ASSUME Busy(x)
               PROVE  Safe(x)'
    BY DEF Safe, Busy
  <1> DEFINE c == call[x].client
  <1>1. /\ c \in Client /\ age[c] \in Nat /\ call[x].left \in Int
        /\ age[c] + call[x].left <= Budget(call[x])
    BY BusyRegistered DEF Safe
  <1>2. call[x].left >= Overdue(call[x])
    BY DEF ServerTypeOK, CallShape
  <1>3. age[c] <= Threshold
    BY <1>1, <1>2, ConstantsAssumption, ThresholdAssumption DEF Budget, Overdue
  <1>4. ~Stale(c)
    BY <1>1, <1>3, ConstantsAssumption DEF Stale
  <1>5. entry'[c] = entry[c] /\ age'[c] = age[c]
    BY <1>1, <1>4
  <1> QED BY <1>5 DEF Safe, Busy, Budget

\* Time takes from what is left of a call what it adds to the age.
LEMMA TickSafe ==
  ASSUME ServerTypeOK, NEW x \in Handler, Safe(x), Tick
  PROVE  Safe(x)'
  <1>1. call'[x] = Elapsed(call[x]) /\ gone' = gone /\ entry' = entry
    BY DEF Tick
  <1>2. CASE Idle(x)
    <2>1. call[x].op = "none"
      BY <1>2 DEF Idle, ServerTypeOK, CallShape
    <2> QED BY <1>1, <1>2, <2>1 DEF Elapsed, Idle, Safe, Busy
  <1>3. CASE ~Idle(x)
    <2>1. call'[x] = Waiting(call[x], call[x].at, call[x].timeout, call[x].left - 1)
      BY <1>1, <1>3 DEF Elapsed, Idle
    <2>2. /\ call'[x].op = call[x].op /\ call'[x].client = call[x].client
          /\ call'[x].entry = call[x].entry /\ call'[x].at = call[x].at
          /\ call'[x].left = call[x].left - 1
      BY <2>1 DEF Waiting, CallOf
    <2> SUFFICES ASSUME Busy(x)
                 PROVE  Safe(x)'
      BY <1>1, <2>2 DEF Safe, Busy
    <2>3. /\ call[x].client \in Client /\ age[call[x].client] \in Nat
          /\ call[x].left \in Int /\ Budget(call[x]) \in Nat
          /\ age[call[x].client] + call[x].left <= Budget(call[x])
      BY BusyRegistered DEF Safe
    <2>4. /\ age'[call[x].client] \in Nat
          /\ age'[call[x].client] <= age[call[x].client] + 1
      BY <2>3 DEF Tick
    <2>5. Budget(call'[x]) = Budget(call[x])
      BY <2>2 DEF Budget
    <2>6. age'[call[x].client] + (call[x].left - 1) <= Budget(call[x])
      BY <2>3, <2>4
    <2> QED BY <1>1, <2>2, <2>5, <2>6 DEF Safe, Busy
  <1> QED BY <1>2, <1>3

LEMMA SafeStep ==
  ASSUME ServerTypeOK, ServerTypeOK', [Next]_vars, NEW x \in Handler, Safe(x)
  PROVE  Safe(x)'
  <1>1. ASSUME NEW h \in Handler, Start(h)
        PROVE  Safe(x)'
    BY <1>1, PollResponseSafe, PostRequestSafe, ServiceStartSafe DEF Start
  <1>2. ASSUME NEW h \in Handler, Resume(h) \/ BodyAborted(h)
        PROVE  Safe(x)'
    BY <1>2, ResumeSafe
  <1>3. ASSUME NEW c \in Leaver, Logoff(c)
        PROVE  Safe(x)'
    BY <1>3, LogoffSafe, ConstantsAssumption
  <1>4. CASE UNCHANGED vars
    BY <1>4 DEF vars, Safe, Busy, Budget
  <1> QED BY <1>1, <1>2, <1>3, <1>4, ReaperSafe, TickSafe DEF Next

\* Both invariants follow from the strengthened one.
LEMMA CallsAreSafe == Spec => [](LiveCallKeepsEntry /\ BusyClientIsFresh)
  <1> DEFINE AllSafe == \A x \in Handler : Safe(x)
  <1>1. Init => AllSafe
    BY DEF Init, NoCall, CallOf, Safe, Busy
  <1>2. ServerTypeOK /\ ServerTypeOK' /\ AllSafe /\ [Next]_vars => AllSafe'
    BY SafeStep
  <1>3. AllSafe => LiveCallKeepsEntry /\ BusyClientIsFresh
    BY SafeIsInvariants
  <1> HIDE DEF AllSafe
  <1> QED BY <1>1, <1>2, <1>3, ServerTypeCorrect, PTL DEF Spec

\* No handler of a client is left waiting on a queue that the registry has
\* forgotten, unless its client logged off (services.py:51, clients.py:76).
THEOREM LiveCalls == Spec => []LiveCallKeepsEntry
  BY CallsAreSafe, PTL

\* A client with a call in progress keeps the last_seen that the reaper's threshold
\* requires: its age and what is left of the wait stay within a budget.
THEOREM BusyClientsStayFresh == Spec => []BusyClientIsFresh
  BY CallsAreSafe, PTL

\* Only its own handler ends a call.
LEMMA EndsItself ==
  ASSUME ServerTypeOK, Next, NEW h \in Handler, ~Idle(h), Idle(h)'
  PROVE  Resume(h) \/ BodyAborted(h)
  <1>1. call'[h] # call[h]
    BY DEF Idle
  <1>2. ASSUME NEW x \in Handler, Start(x)
        PROVE  FALSE
    <2>1. Idle(x) /\ x # h
      BY <1>2 DEF Start, PollResponse, PullRequest, PostRequest, PostAnswer
    <2>2. call'[h] = call[h]
      <3>1. ASSUME NEW c \in Client, NEW t \in TimeoutArg, PollResponse(x, c, t)
            PROVE  call'[h] = call[h]
        BY <2>1, <3>1 DEF PollResponse, ServerTypeOK
      <3>2. ASSUME NEW s \in Service, NEW t \in TimeoutArg, PullRequest(x, s, t)
            PROVE  call'[h] = call[h]
        BY <2>1, <3>2 DEF PullRequest, ServerTypeOK
      <3>3. ASSUME NEW c \in Client, NEW r \in Request, NEW t \in TimeoutArg,
                   NEW s \in Service, NEW b \in BlockArg, PostRequest(x, c, s, r, t, b)
            PROVE  call'[h] = call[h]
        BY <2>1, <3>3 DEF PostRequest, ServerTypeOK
      <3>4. ASSUME NEW c \in Client, NEW r \in Request, NEW t \in TimeoutArg,
                   PostAnswer(x, c, r, t)
            PROVE  call'[h] = call[h]
        BY <2>1, <3>4 DEF PostAnswer, ServerTypeOK
      <3> QED BY <1>2, <3>1, <3>2, <3>3, <3>4 DEF Start
    <2> QED BY <1>1, <2>2
  <1>3. ASSUME NEW x \in Handler, Resume(x) \/ BodyAborted(x)
        PROVE  x = h
    <2>1. ASSUME NEW k, call' = [call EXCEPT ![x] = k]
          PROVE  x = h
      BY <2>1, <1>1 DEF ServerTypeOK
    <2> QED BY <1>3, <2>1, ResumeEffect DEF Return, Await
  <1>4. ~Tick
    BY <1>1 DEF Tick, Elapsed, Waiting, CallOf, Idle, ServerTypeOK
  <1>5. ~ReaperTick /\ ~(\E c \in Leaver : Logoff(c))
    BY <1>1 DEF ReaperTick, Logoff
  <1> QED BY <1>2, <1>3, <1>4, <1>5 DEF Next

\* A poll or an enqueue ends with the bump of its endpoint.
LEMMA FreshStep ==
  ASSUME ServerTypeOK, LiveCallKeepsEntry, BusyClientIsFresh, Next, NEW h \in Handler,
         Waits(h, "poll", "get") \/ Waits(h, "request", "put"), Idle(h)'
  PROVE  ReturnsFresh(h)
  <1>1. Resume(h) \/ BodyAborted(h)
    BY EndsItself DEF Waits, Idle
  <1>2. BumpLastSeen(call[h].client)
    <2>1. ~(Waits(h, "request", "body") \/ Waits(h, "request", "get")
            \/ Waits(h, "pull", "get") \/ Waits(h, "answer", "body")
            \/ Waits(h, "answer", "put") \/ call[h].at = "body")
      BY DEF Waits
    <2>2. \/ EnqueueRequest(h) \/ RequestTimeout(h)
          \/ PollGet(h) \/ PollTimeout(h)
      BY <1>1, <2>1
         DEF Resume, RequestBody, BlockGet, BlockTimeout, PullGet, PullTimeout,
             AnswerBody, EnqueueAnswer, AnswerTimeout, BodyAborted
    <2> QED BY <2>2 DEF EnqueueRequest, RequestTimeout, AcceptRequest, RefuseRequest,
                        PollGet, PollTimeout
  <1>3. entry' = entry
    BY <1>1, ResumeEffect
  <1> SUFFICES ASSUME call[h].client \notin gone
               PROVE  entry'[call[h].client] = call[h].entry
                      /\ age'[call[h].client] = 0
    BY DEF ReturnsFresh
  <1>4. Busy(h) /\ Safe(h)
    BY SafeIsInvariants DEF Waits, Busy
  <1>5. call[h].client \in Client /\ entry[call[h].client] # None
    BY <1>4, BusyRegistered
  <1>6. age'[call[h].client] = 0
    BY <1>2, <1>5 DEF BumpLastSeen, ServerTypeOK
  <1> QED BY <1>3, <1>4, <1>6 DEF Safe

\* The second wait of a block=1 call ends without a bump, within its budget.
LEMMA WindowStep ==
  ASSUME ServerTypeOK, LiveCallKeepsEntry, BusyClientIsFresh, Next, NEW h \in Handler,
         Waits(h, "request", "get"), Idle(h)', call[h].client \notin gone
  PROVE  /\ entry'[call[h].client] = call[h].entry
         /\ age'[call[h].client] <= MaxTimeout + Lag
  <1>1. Resume(h) \/ BodyAborted(h)
    BY EndsItself DEF Waits, Idle
  <1>2. entry' = entry /\ age' = age
    <2>1. BlockGet(h) \/ BlockTimeout(h)
      BY <1>1
         DEF Resume, RequestBody, EnqueueRequest, RequestTimeout, PollGet, PollTimeout,
             PullGet, PullTimeout, AnswerBody, EnqueueAnswer, AnswerTimeout,
             BodyAborted, Waits
    <2> QED BY <2>1 DEF BlockGet, BlockTimeout
  <1>3. Busy(h) /\ Safe(h)
    BY SafeIsInvariants DEF Waits, Busy
  <1>4. /\ age[call[h].client] \in Nat /\ call[h].left \in Int
        /\ age[call[h].client] + call[h].left <= MaxTimeout
    BY <1>3, BusyRegistered DEF Safe, Budget, Waits
  <1>5. call[h].left >= -Lag
    BY DEF ServerTypeOK, CallShape, Overdue, Waits
  <1> QED BY <1>2, <1>3, <1>4, <1>5, ConstantsAssumption DEF Safe

\* A poll, and a request that waited for the service queue, leave their client
\* with a full inactivity window on the entry they used.
THEOREM PollsAndEnqueuesReturnFresh == Spec => CallsReturnFresh
  <1>1. ServerTypeOK /\ LiveCallKeepsEntry /\ BusyClientIsFresh /\ [Next]_vars
        => [\A h \in Handler :
              /\ Waits(h, "poll", "get") \/ Waits(h, "request", "put")
              /\ Idle(h)'
              => ReturnsFresh(h)]_vars
    BY FreshStep
  <1> QED BY <1>1, ServerTypeCorrect, CallsAreSafe, PTL DEF Spec, CallsReturnFresh

\* A client is left with all but MaxTimeout and Lag of its inactivity window when
\* a block=1 call returns from its second wait, which has no bump after it
\* (services.py:74, 91).
THEOREM BlockCallsLeaveWindow == Spec => BlockLeavesWindow
  <1> DEFINE Left(h) ==
        LET c == call[h].client
        IN Waits(h, "request", "get") /\ Idle(h)' /\ c \notin gone
           => entry'[c] = call[h].entry /\ age'[c] <= MaxTimeout + Lag
  <1>1. ServerTypeOK /\ LiveCallKeepsEntry /\ BusyClientIsFresh /\ [Next]_vars
        => [\A h \in Handler : Left(h)]_vars
    BY WindowStep
  <1> QED BY <1>1, ServerTypeCorrect, CallsAreSafe, PTL DEF Spec, BlockLeavesWindow

-------------------------------------------------------------------------------
(* Who holds which entry and which message *)

\* Client c has entry e in the registry, or a call of c holds it.
Uses(c, e) ==
  \/ entry[c] = e
  \/ \E h \in Handler : call[h].entry = e /\ call[h].client = c

\* Call k has a message to put in a queue: a request, or a response.
Carries(k) == k.op \in {"request", "answer"} /\ k.at \in {"body", "put"}

\* Where the message is that call k carries.
StageOf(k) == IF k.op = "request" THEN "offered" ELSE "answering"

Items(q) == {q[i] : i \in DOMAIN q}
Distinct(q) == \A i, j \in DOMAIN q : q[i] = q[j] => i = j

-------------------------------------------------------------------------------
(* The inductive invariant *)

\* Handlers that serve no client hold no entry.
Bare ==
  \A h \in Handler :
    /\ call[h].op \in {"none", "pull"} => call[h].entry = None
    /\ call[h].op = "answer" => Carries(call[h])

\* No two clients ever use the same entry.
Owned ==
  \A c, d \in Client, e \in Entry : Uses(c, e) /\ Uses(d, e) => c = d

\* A client that neither logged off nor was evicted only ever had one entry.
Current ==
  \A h \in Handler :
    /\ call[h].entry # None
    /\ call[h].client \notin gone \cup evicted
    => entry[call[h].client] = call[h].entry

\* A message is carried by one handler at a time, and is in no queue then.
Carried ==
  /\ \A h \in Handler :
       Carries(call[h]) => stage[MsgOf(call[h])] = StageOf(call[h])
  /\ \A g, h \in Handler :
       Carries(call[g]) /\ Carries(call[h]) /\ MsgOf(call[g]) = MsgOf(call[h]) => g = h

\* The service queues hold the requests that were accepted and not taken, once.
Requests ==
  /\ \A s \in Service : Distinct(squeue[s])
  /\ \A s, t \in Service : s # t => Items(squeue[s]) \cap Items(squeue[t]) = {}
  /\ \A m \in Msg : stage[m] = "queued" <=> \E s \in Service : m \in Items(squeue[s])

\* The queue of an entry in use holds responses to its client that were accepted
\* and not delivered, once.
Responses ==
  \A c, d \in Client, e, f \in Entry :
    /\ Uses(c, e) => /\ Distinct(queue[e])
                     /\ \A m \in Items(queue[e]) : m[1] = c /\ stage[m] = "ready"
    /\ Uses(c, e) /\ Uses(d, f) /\ e # f => Items(queue[e]) \cap Items(queue[f]) = {}

\* AcceptedKept, in terms of Items.
Reachable ==
  \A m \in Msg :
    /\ stage[m] = "ready"
    /\ m[1] \notin gone \cup evicted
    => entry[m[1]] # None /\ m \in Items(queue[entry[m[1]]])

Placed ==
  Bare /\ Owned /\ Current /\ Carried /\ Requests /\ Responses /\ Reachable

-------------------------------------------------------------------------------
(* Queues as sets of messages *)

LEMMA ItemsTyped ==
  ASSUME NEW q \in Seq(Msg)
  PROVE  Items(q) \subseteq Msg
  BY DEF Items

\* A new queue.
LEMMA ItemsNew == Items(<<>>) = {} /\ Distinct(<<>>)
  BY DEF Items, Distinct

\* What is put is added to the messages of the queue.
LEMMA ItemsPut ==
  ASSUME NEW q \in Seq(Msg), NEW m \in Msg
  PROVE  /\ Items(Append(q, m)) = Items(q) \cup {m}
         /\ Distinct(q) /\ m \notin Items(q) => Distinct(Append(q, m))
  <1> DEFINE r == Append(q, m)
  <1>1. /\ r \in Seq(Msg) /\ Len(r) = Len(q) + 1 /\ Len(q) \in Nat
        /\ \A i \in 1 .. Len(q) : r[i] = q[i]
        /\ r[Len(q) + 1] = m
        /\ DOMAIN q = 1 .. Len(q) /\ DOMAIN r = 1 .. Len(q) + 1
    OBVIOUS
  <1> HIDE DEF r
  <1>2. Items(r) \subseteq Items(q) \cup {m}
    <2> SUFFICES ASSUME NEW i \in 1 .. Len(q) + 1
                 PROVE  r[i] \in Items(q) \cup {m}
      BY <1>1 DEF Items
    <2>1. i \in 1 .. Len(q) \/ i = Len(q) + 1
      BY <1>1
    <2> QED BY <1>1, <2>1 DEF Items
  <1>3. Items(q) \cup {m} \subseteq Items(r)
    <2>1. 1 .. Len(q) \subseteq 1 .. Len(q) + 1 /\ Len(q) + 1 \in 1 .. Len(q) + 1
      BY <1>1
    <2> QED BY <1>1, <2>1 DEF Items
  <1>4. ASSUME Distinct(q), m \notin Items(q), NEW i \in 1 .. Len(q) + 1,
               NEW j \in 1 .. Len(q) + 1, r[i] = r[j]
        PROVE  i = j
    <2>1. \A k \in 1 .. Len(q) : q[k] # m
      BY <1>1, <1>4 DEF Items
    <2>2. /\ i \in 1 .. Len(q) \/ i = Len(q) + 1
          /\ j \in 1 .. Len(q) \/ j = Len(q) + 1
      BY <1>1
    <2> QED BY <1>1, <1>4, <2>1, <2>2 DEF Distinct
  <1>5. Distinct(q) /\ m \notin Items(q) => Distinct(r)
    BY <1>1, <1>4 DEF Distinct
  <1> QED BY <1>2, <1>3, <1>5 DEF r

\* What is got is no longer among them.
LEMMA ItemsGet ==
  ASSUME NEW q \in Seq(Msg), q # <<>>, Distinct(q)
  PROVE  /\ Items(AfterGet(q)) = Items(q) \ {Head(q)}
         /\ Distinct(AfterGet(q))
         /\ Head(q) \in Items(q)
  <1> DEFINE r == AfterGet(q)
  <1>1. /\ r \in Seq(Msg) /\ Len(q) \in Nat \ {0} /\ Len(r) = Len(q) - 1
        /\ \A i \in 1 .. Len(q) - 1 : r[i] = q[i + 1]
        /\ Head(q) = q[1]
        /\ DOMAIN q = 1 .. Len(q) /\ DOMAIN r = 1 .. Len(q) - 1
    BY DEF AfterGet
  <1> HIDE DEF r
  <1>2. Items(r) \subseteq Items(q) \ {Head(q)}
    <2> SUFFICES ASSUME NEW i \in 1 .. Len(q) - 1
                 PROVE  r[i] \in Items(q) /\ r[i] # Head(q)
      BY <1>1 DEF Items
    <2>1. i + 1 \in 1 .. Len(q) /\ 1 \in 1 .. Len(q) /\ i + 1 # 1
      BY <1>1
    <2> QED BY <1>1, <2>1 DEF Items, Distinct
  <1>3. Items(q) \ {Head(q)} \subseteq Items(r)
    <2> SUFFICES ASSUME NEW i \in 1 .. Len(q), i # 1
                 PROVE  q[i] \in Items(r)
      BY <1>1 DEF Items
    <2>1. i - 1 \in 1 .. Len(q) - 1 /\ (i - 1) + 1 = i
      BY <1>1
    <2>2. r[i - 1] = q[(i - 1) + 1]
      BY <1>1, <2>1
    <2> QED BY <1>1, <2>1, <2>2 DEF Items
  <1>4. Distinct(r)
    <2> SUFFICES ASSUME NEW i \in 1 .. Len(q) - 1, NEW j \in 1 .. Len(q) - 1,
                        r[i] = r[j]
                 PROVE  i = j
      BY <1>1 DEF Distinct
    <2>1. i + 1 \in 1 .. Len(q) /\ j + 1 \in 1 .. Len(q) /\ q[i + 1] = q[j + 1]
      BY <1>1
    <2>2. i + 1 = j + 1
      BY <1>1, <2>1 DEF Distinct
    <2> QED BY <2>2
  <1>5. Head(q) \in Items(q)
    <2>1. 1 \in DOMAIN q
      BY <1>1
    <2> QED BY <1>1, <2>1 DEF Items
  <1> QED BY <1>2, <1>3, <1>4, <1>5 DEF r

-------------------------------------------------------------------------------
(* Who uses which entry *)

SameCall(k, j) ==
  j.op = k.op /\ j.client = k.client /\ j.id = k.id /\ j.entry = k.entry

\* Call k becomes j, which holds and carries no more than k did.
Lessens(k, j) ==
  \/ j.op \in {"none", "pull"} /\ j.entry = None
  \/ /\ SameCall(k, j)
     /\ Carries(j) => Carries(k)
     /\ j.op = "answer" => Carries(j)

\* No step of a handler that is under way makes anyone use another entry.
LEMMA RegistryKept ==
  ASSUME Bare, Owned, Current, UNCHANGED <<entry, gone, evicted>>,
         \A x \in Handler : call'[x] = call[x] \/ Lessens(call[x], call'[x])
  PROVE  /\ Bare' /\ Owned' /\ Current'
         /\ \A c \in Client, e \in Entry : Uses(c, e)' => Uses(c, e)
  <1>1. ASSUME NEW x \in Handler
        PROVE  /\ \/ call'[x].entry = None
                  \/ call'[x].entry = call[x].entry /\ call'[x].client = call[x].client
               /\ call'[x].op \in {"none", "pull"} => call'[x].entry = None
               /\ call'[x].op = "answer" => Carries(call'[x])
    BY DEF Lessens, SameCall, Bare
  <1>2. Bare'
    BY <1>1 DEF Bare
  <1>3. ASSUME NEW c \in Client, NEW e \in Entry, Uses(c, e)'
        PROVE  Uses(c, e)
    <2>1. CASE entry'[c] = e
      BY <2>1 DEF Uses
    <2>2. ASSUME NEW h \in Handler, call'[h].entry = e, call'[h].client = c
          PROVE  Uses(c, e)
      BY <1>1, <2>2, ConstantsAssumption DEF Uses
    <2> QED BY <1>3, <2>1, <2>2 DEF Uses
  <1>4. Owned'
    BY <1>3 DEF Owned
  <1>5. Current'
    BY <1>1 DEF Current
  <1> QED BY <1>2, <1>3, <1>4, <1>5

\* A call that starts uses the entry that its client has, or one that is new.
LEMMA RegistryStarted ==
  ASSUME ServerTypeOK, Bare, Owned, Current, NEW c \in Client, NEW e \in Entry,
         e \in Obtainable(c), entry' = [entry EXCEPT ![c] = e],
         UNCHANGED <<gone, evicted>>,
         \A x \in Handler :
           \/ call'[x] = call[x]
           \/ /\ call'[x].op \in {"request", "poll", "answer"}
              /\ call'[x].client = c /\ call'[x].entry = e
              /\ call'[x].op = "answer" => Carries(call'[x])
  PROVE  /\ Bare' /\ Owned' /\ Current'
         /\ \A d \in Client, f \in Entry :
              Uses(d, f)' => Uses(d, f) \/ (entry[c] = None /\ d = c /\ f = e)
         /\ \A d \in Client : entry[c] = None => ~Uses(d, e)
  <1>1. Bare'
    BY DEF Bare
  <1>2. ASSUME NEW d \in Client, entry[c] = None
        PROVE  ~Uses(d, e)
    <2>1. e \notin InUse
      BY <1>2 DEF Obtainable
    <2> QED BY <2>1, ConstantsAssumption DEF InUse, Registered, Uses
  <1>3. ASSUME NEW d \in Client, NEW f \in Entry, Uses(d, f)'
        PROVE  Uses(d, f) \/ (d = c /\ f = e)
    <2>1. CASE entry'[d] = f
      BY <2>1 DEF Uses, ServerTypeOK
    <2>2. ASSUME NEW h \in Handler, call'[h].entry = f, call'[h].client = d
          PROVE  Uses(d, f) \/ (d = c /\ f = e)
      BY <2>2 DEF Uses
    <2> QED BY <1>3, <2>1, <2>2 DEF Uses
  <1>4. entry[c] # None => Uses(c, e)
    BY DEF Obtainable, Uses
  <1>5. Owned'
    BY <1>2, <1>3, <1>4 DEF Owned
  <1>6. Current'
    <2> SUFFICES ASSUME NEW h \in Handler, call'[h].entry # None,
                        call'[h].client \notin gone \cup evicted
                 PROVE  entry'[call'[h].client] = call'[h].entry
      BY DEF Current
    <2>1. CASE call'[h] = call[h]
      <3>1. entry[call[h].client] = call[h].entry
        BY <2>1 DEF Current
      <3>2. call[h].op \in {"request", "answer", "poll"}
        BY <2>1 DEF Bare, ServerTypeOK, Call
      <3>3. call[h].client \in Client /\ call[h].entry \in Entry
        BY <3>2 DEF ServerTypeOK, CallShape
      <3>4. call[h].client = c => entry[c] = e
        BY <3>1, <3>3, ConstantsAssumption DEF Obtainable
      <3> QED BY <2>1, <3>1, <3>3, <3>4 DEF ServerTypeOK
    <2>2. CASE call'[h].client = c /\ call'[h].entry = e
      BY <2>2 DEF ServerTypeOK
    <2> QED BY <2>1, <2>2
  <1> QED BY <1>1, <1>2, <1>3, <1>4, <1>5, <1>6

\* Logoff and the reaper take entries from the registry; they do not give any.
LEMMA RegistryLost ==
  ASSUME ServerTypeOK, Bare, Owned, Current, UNCHANGED call,
         gone \subseteq gone', evicted \subseteq evicted',
         \A c \in Client : \/ entry'[c] = entry[c]
                           \/ entry'[c] = None /\ c \in gone' \cup evicted'
  PROVE  /\ Bare' /\ Owned' /\ Current'
         /\ \A c \in Client, e \in Entry : Uses(c, e)' => Uses(c, e)
  <1>1. Bare'
    BY DEF Bare
  <1>2. ASSUME NEW c \in Client, NEW e \in Entry, Uses(c, e)'
        PROVE  Uses(c, e)
    BY <1>2, ConstantsAssumption DEF Uses
  <1>3. Owned'
    BY <1>2 DEF Owned
  <1>4. Current'
    <2> SUFFICES ASSUME NEW h \in Handler, call[h].entry # None,
                        call[h].client \notin gone' \cup evicted'
                 PROVE  entry'[call[h].client] = call[h].entry
      BY DEF Current
    <2>1. entry[call[h].client] = call[h].entry
      BY DEF Current
    <2>2. call[h].client \in Client
      BY DEF Bare, ServerTypeOK, Call, CallShape
    <2> QED BY <2>1, <2>2
  <1> QED BY <1>1, <1>2, <1>3, <1>4

-------------------------------------------------------------------------------
(* Who carries which message *)

\* Handlers carry no message that they did not, and those they carry stay.
LEMMA CarriedKept ==
  ASSUME Carried,
         \A x \in Handler : Carries(call'[x]) =>
           /\ Carries(call[x]) /\ SameCall(call[x], call'[x])
           /\ stage'[MsgOf(call[x])] = stage[MsgOf(call[x])]
  PROVE  Carried'
  <1>1. ASSUME NEW x \in Handler, Carries(call'[x])
        PROVE  /\ MsgOf(call'[x]) = MsgOf(call[x]) /\ Carries(call[x])
               /\ StageOf(call'[x]) = StageOf(call[x])
               /\ stage'[MsgOf(call[x])] = stage[MsgOf(call[x])]
    BY <1>1 DEF SameCall, MsgOf, StageOf
  <1>2. ASSUME NEW h \in Handler, Carries(call'[h])
        PROVE  stage'[MsgOf(call'[h])] = StageOf(call'[h])
    BY <1>1, <1>2 DEF Carried
  <1>3. ASSUME NEW g \in Handler, NEW h \in Handler, Carries(call'[g]),
               Carries(call'[h]), MsgOf(call'[g]) = MsgOf(call'[h])
        PROVE  g = h
    BY <1>1, <1>3 DEF Carried
  <1> QED BY <1>2, <1>3 DEF Carried

\* A message that is given up, put in a queue or taken from one, m, is carried
\* by none but its handler h, which carries nothing afterwards.
LEMMA CarriedLess ==
  ASSUME ServerTypeOK, Carried, NEW h \in Handler, NEW j, ~Carries(j),
         call' = [call EXCEPT ![h] = j],
         \A x \in Handler \ {h} : Carries(call[x]) =>
           stage'[MsgOf(call[x])] = stage[MsgOf(call[x])]
  PROVE  Carried'
  <1>1. call'[h] = j /\ \A x \in Handler \ {h} : call'[x] = call[x]
    BY DEF ServerTypeOK
  <1>2. ASSUME NEW x \in Handler, Carries(call'[x])
        PROVE  /\ Carries(call[x]) /\ SameCall(call[x], call'[x])
               /\ stage'[MsgOf(call[x])] = stage[MsgOf(call[x])]
    BY <1>1, <1>2 DEF SameCall
  <1> QED BY <1>2, CarriedKept

\* A handler starts to carry a message that none carried.
LEMMA CarriedMore ==
  ASSUME ServerTypeOK, Carried, NEW h \in Handler, NEW j, NEW m \in Msg,
         call' = [call EXCEPT ![h] = j], MsgOf(j) = m,
         stage[m] \notin {"offered", "answering"},
         stage' = [stage EXCEPT ![m] = StageOf(j)]
  PROVE  Carried'
  <1>1. call'[h] = j /\ \A x \in Handler \ {h} : call'[x] = call[x]
    BY DEF ServerTypeOK
  <1>2. ASSUME NEW x \in Handler, Carries(call[x])
        PROVE  MsgOf(call[x]) # m /\ MsgOf(call[x]) \in Msg
    <2>1. stage[MsgOf(call[x])] \in {"offered", "answering"}
      BY <1>2 DEF Carried, StageOf
    <2>2. call[x].client \in Client /\ call[x].id \in Request
      BY <1>2 DEF Carries, ServerTypeOK, CallShape
    <2> QED BY <2>1, <2>2 DEF MsgOf, Msg
  <1>3. stage'[m] = StageOf(j) /\ \A n \in Msg \ {m} : stage'[n] = stage[n]
    BY DEF ServerTypeOK
  <1>4. ASSUME NEW x \in Handler, Carries(call'[x])
        PROVE  stage'[MsgOf(call'[x])] = StageOf(call'[x])
    BY <1>1, <1>2, <1>3, <1>4 DEF Carried
  <1>5. ASSUME NEW g \in Handler, NEW x \in Handler, Carries(call'[g]),
               Carries(call'[x]), MsgOf(call'[g]) = MsgOf(call'[x])
        PROVE  g = x
    BY <1>1, <1>2, <1>5 DEF Carried
  <1> QED BY <1>4, <1>5 DEF Carried

-------------------------------------------------------------------------------
(* What the service queues hold *)

LEMMA RequestsKept ==
  ASSUME Requests, UNCHANGED squeue,
         \A m \in Msg : stage'[m] = "queued" <=> stage[m] = "queued"
  PROVE  Requests'
  BY DEF Requests

\* A request that was in no queue is put in that of its service.
LEMMA RequestsPut ==
  ASSUME ServerTypeOK, Requests, NEW s \in Service, NEW m \in Msg, stage[m] # "queued",
         squeue' = [squeue EXCEPT ![s] = Append(@, m)],
         stage'[m] = "queued",
         \A n \in Msg \ {m} : stage'[n] = "queued" <=> stage[n] = "queued"
  PROVE  Requests'
  <1>1. squeue[s] \in Seq(Msg)
    BY DEF ServerTypeOK
  <1>2. \A t \in Service : m \notin Items(squeue[t])
    BY DEF Requests
  <1>3. /\ Items(squeue'[s]) = Items(squeue[s]) \cup {m}
        /\ Distinct(squeue'[s])
    <2>1. squeue'[s] = Append(squeue[s], m) /\ Distinct(squeue[s])
      BY DEF ServerTypeOK, Requests
    <2> QED BY <1>1, <1>2, <2>1, ItemsPut
  <1>4. \A t \in Service \ {s} : squeue'[t] = squeue[t]
    BY DEF ServerTypeOK
  <1>5. \A t \in Service : Distinct(squeue'[t])
    BY <1>3, <1>4 DEF Requests
  <1>6. ASSUME NEW t \in Service, NEW u \in Service, t # u
        PROVE  Items(squeue'[t]) \cap Items(squeue'[u]) = {}
    <2>1. Items(squeue[t]) \cap Items(squeue[u]) = {}
      BY <1>6 DEF Requests
    <2>2. m \notin Items(squeue[t]) /\ m \notin Items(squeue[u])
      BY <1>2
    <2>3. \/ squeue'[t] = squeue[t] \/ t = s
      BY <1>4
    <2>4. \/ squeue'[u] = squeue[u] \/ u = s
      BY <1>4
    <2> QED BY <1>3, <1>6, <2>1, <2>2, <2>3, <2>4
  <1>7. ASSUME NEW n \in Msg
        PROVE  stage'[n] = "queued" <=> \E t \in Service : n \in Items(squeue'[t])
    <2>1. stage[n] = "queued" <=> \E t \in Service : n \in Items(squeue[t])
      BY DEF Requests
    <2>2. CASE n = m
      BY <1>3, <2>2
    <2>3. CASE n # m
      <3>1. \A t \in Service : n \in Items(squeue'[t]) <=> n \in Items(squeue[t])
        BY <1>3, <1>4, <2>3
      <3> QED BY <2>1, <2>3, <3>1
    <2> QED BY <2>2, <2>3
  <1> QED BY <1>5, <1>6, <1>7 DEF Requests

\* The oldest request of a queue is taken by a service.
LEMMA RequestsTaken ==
  ASSUME ServerTypeOK, Requests, NEW s \in Service, TakeRequest(s)
  PROVE  Requests' /\ Head(squeue[s]) \in Msg /\ stage[Head(squeue[s])] = "queued"
  <1> PICK m : m = Head(squeue[s])
    OBVIOUS
  <1>1. squeue[s] \in Seq(Msg) /\ squeue[s] # <<>> /\ Distinct(squeue[s])
    BY DEF ServerTypeOK, TakeRequest, Requests
  <1>2. squeue'[s] = AfterGet(squeue[s]) /\ \A t \in Service \ {s} : squeue'[t] = squeue[t]
    BY DEF ServerTypeOK, TakeRequest
  <1>3. /\ Items(squeue'[s]) = Items(squeue[s]) \ {m}
        /\ Distinct(squeue'[s]) /\ m \in Items(squeue[s])
    BY <1>1, <1>2, ItemsGet
  <1>4. m \in Msg /\ stage[m] = "queued"
    BY <1>1, <1>3, ItemsTyped DEF Requests
  <1>5. stage'[m] = "taken" /\ \A n \in Msg \ {m} : stage'[n] = stage[n]
    BY <1>4 DEF TakeRequest, ServerTypeOK
  <1>6. \A t \in Service \ {s} : m \notin Items(squeue[t])
    BY <1>3 DEF Requests
  <1>7. \A t \in Service : Distinct(squeue'[t])
    BY <1>2, <1>3 DEF Requests
  <1>8. \A t \in Service : Items(squeue'[t]) = Items(squeue[t]) \ {m}
    BY <1>2, <1>3, <1>6
  <1>9. \A t, u \in Service : t # u => Items(squeue'[t]) \cap Items(squeue'[u]) = {}
    BY <1>8 DEF Requests
  <1>10. \A n \in Msg :
           stage'[n] = "queued" <=> \E t \in Service : n \in Items(squeue'[t])
    BY <1>5, <1>8 DEF Requests
  <1> QED BY <1>4, <1>7, <1>9, <1>10 DEF Requests

-------------------------------------------------------------------------------
(* What the queues of entries hold *)

\* The response queues that are in use were so before, unchanged, or are new.
LEMMA ResponsesKept ==
  ASSUME Responses,
         \A c \in Client, e \in Entry : Uses(c, e)' =>
           \/ Uses(c, e) /\ queue'[e] = queue[e]
           \/ queue'[e] = <<>>,
         \A m \in Msg : stage[m] = "ready" => stage'[m] = "ready",
         ServerTypeOK
  PROVE  Responses'
  <1>1. ASSUME NEW c \in Client, NEW e \in Entry, Uses(c, e)'
        PROVE  /\ Distinct(queue'[e])
               /\ \A m \in Items(queue'[e]) : m[1] = c /\ stage'[m] = "ready"
    <2>1. CASE queue'[e] = <<>>
      BY <2>1, ItemsNew
    <2>2. CASE Uses(c, e) /\ queue'[e] = queue[e]
      <3>1. Items(queue[e]) \subseteq Msg
        BY ItemsTyped DEF ServerTypeOK
      <3> QED BY <2>2, <3>1 DEF Responses
    <2> QED BY <1>1, <2>1, <2>2
  <1>2. ASSUME NEW c \in Client, NEW d \in Client, NEW e \in Entry, NEW f \in Entry,
               Uses(c, e)', Uses(d, f)', e # f
        PROVE  Items(queue'[e]) \cap Items(queue'[f]) = {}
    <2>1. CASE queue'[e] = <<>> \/ queue'[f] = <<>>
      BY <2>1, ItemsNew
    <2>2. CASE Uses(c, e) /\ queue'[e] = queue[e] /\ Uses(d, f) /\ queue'[f] = queue[f]
      BY <1>2, <2>2 DEF Responses
    <2> QED BY <1>2, <2>1, <2>2
  <1> QED BY <1>1, <1>2 DEF Responses

\* Nobody loses a response who did not log off and was not evicted.
LEMMA ReachableKept ==
  ASSUME Reachable,
         gone \subseteq gone', evicted \subseteq evicted',
         \A c \in Client : c \notin gone' \cup evicted' /\ entry[c] # None =>
           entry'[c] = entry[c] /\ queue'[entry[c]] = queue[entry[c]],
         \A m \in Msg : stage'[m] = "ready" => stage[m] = "ready"
  PROVE  Reachable'
  <1> SUFFICES ASSUME NEW m \in Msg, stage'[m] = "ready",
                      m[1] \notin gone' \cup evicted'
               PROVE  entry'[m[1]] # None /\ m \in Items(queue'[entry'[m[1]]])
    BY DEF Reachable
  <1>1. m[1] \in Client
    BY DEF Msg
  <1>2. entry[m[1]] # None /\ m \in Items(queue[entry[m[1]]])
    BY DEF Reachable
  <1> QED BY <1>1, <1>2

\* The oldest response of an entry goes to a caller, and nothing else changes in
\* the queues of entries.
LEMMA Delivered ==
  ASSUME ServerTypeOK, Owned, Responses, Reachable, NEW c \in Client, NEW e \in Entry, Uses(c, e),
         queue[e] # <<>>, queue' = [queue EXCEPT ![e] = AfterGet(@)],
         stage'[Head(queue[e])] = "delivered",
         \A m \in Msg \ {Head(queue[e])} : stage'[m] = "ready" <=> stage[m] = "ready",
         UNCHANGED <<entry, gone, evicted>>,
         \A d \in Client, f \in Entry : Uses(d, f)' => Uses(d, f)
  PROVE  Responses' /\ Reachable'
  <1> PICK h : h = Head(queue[e])
    OBVIOUS
  <1>1. queue[e] \in Seq(Msg) /\ Distinct(queue[e])
    BY DEF ServerTypeOK, Responses
  <1>2. queue'[e] = AfterGet(queue[e]) /\ \A f \in Entry \ {e} : queue'[f] = queue[f]
    BY DEF ServerTypeOK
  <1>3. /\ Items(queue'[e]) = Items(queue[e]) \ {h}
        /\ Distinct(queue'[e]) /\ h \in Items(queue[e])
    BY <1>1, <1>2, ItemsGet
  <1>4. h \in Msg
    BY <1>1, <1>3, ItemsTyped
  <1>5. ASSUME NEW d \in Client, NEW f \in Entry, Uses(d, f)
        PROVE  /\ Items(queue'[f]) = Items(queue[f]) \ {h} /\ Distinct(queue'[f])
               /\ Items(queue[f]) \subseteq Msg
    <2>1. f # e => h \notin Items(queue[f])
      BY <1>3, <1>5 DEF Responses
    <2>2. f # e => Distinct(queue[f])
      BY <1>5 DEF Responses
    <2>3. queue[f] \in Seq(Msg)
      BY DEF ServerTypeOK
    <2> QED BY <1>2, <1>3, <2>1, <2>2, <2>3, ItemsTyped
  <1>6. ASSUME NEW d \in Client, NEW f \in Entry, Uses(d, f)'
        PROVE  /\ Distinct(queue'[f])
               /\ \A m \in Items(queue'[f]) : m[1] = d /\ stage'[m] = "ready"
    <2>1. Uses(d, f)
      BY <1>6
    <2>2. /\ Items(queue'[f]) = Items(queue[f]) \ {h} /\ Distinct(queue'[f])
          /\ Items(queue[f]) \subseteq Msg
      BY <1>5, <2>1
    <2>3. \A m \in Items(queue[f]) : m[1] = d /\ stage[m] = "ready"
      BY <2>1 DEF Responses
    <2> QED BY <2>2, <2>3
  <1>7. ASSUME NEW d \in Client, NEW x \in Client, NEW f \in Entry, NEW g \in Entry,
               Uses(d, f)', Uses(x, g)', f # g
        PROVE  Items(queue'[f]) \cap Items(queue'[g]) = {}
    <2>1. Uses(d, f) /\ Uses(x, g)
      BY <1>7
    <2>2. Items(queue[f]) \cap Items(queue[g]) = {}
      BY <1>7, <2>1 DEF Responses
    <2> QED BY <1>5, <2>1, <2>2
  <1>8. Reachable'
    <2> SUFFICES ASSUME NEW m \in Msg, stage'[m] = "ready",
                        m[1] \notin gone \cup evicted
                 PROVE  entry[m[1]] # None /\ m \in Items(queue'[entry[m[1]]])
      BY DEF Reachable
    <2>1. m # h /\ stage[m] = "ready"
      OBVIOUS
    <2>2. entry[m[1]] # None /\ m \in Items(queue[entry[m[1]]])
      BY <2>1 DEF Reachable
    <2>3. m[1] \in Client /\ entry[m[1]] \in Entry
      BY <2>2 DEF Msg, ServerTypeOK
    <2>4. Uses(m[1], entry[m[1]])
      BY DEF Uses
    <2>5. Items(queue'[entry[m[1]]]) = Items(queue[entry[m[1]]]) \ {h}
      BY <1>5, <2>3, <2>4
    <2> QED BY <2>1, <2>2, <2>5
  <1> QED BY <1>6, <1>7, <1>8 DEF Responses

\* A response that was in no queue is put in that of an entry of its client, the
\* registered one unless the client logged off or was evicted.
LEMMA Answered ==
  ASSUME ServerTypeOK, Owned, Responses, Reachable, NEW m \in Msg, NEW e \in Entry,
         Uses(m[1], e), stage[m] # "ready",
         m[1] \notin gone \cup evicted => entry[m[1]] = e,
         queue' = [queue EXCEPT ![e] = Append(@, m)],
         stage' = [stage EXCEPT ![m] = "ready"],
         UNCHANGED <<entry, gone, evicted>>,
         \A d \in Client, f \in Entry : Uses(d, f)' => Uses(d, f)
  PROVE  Responses' /\ Reachable'
  <1>1. m[1] \in Client /\ queue[e] \in Seq(Msg) /\ Distinct(queue[e])
    BY DEF ServerTypeOK, Responses, Msg
  <1>2. queue'[e] = Append(queue[e], m) /\ \A f \in Entry \ {e} : queue'[f] = queue[f]
    BY DEF ServerTypeOK
  <1>3. stage'[m] = "ready" /\ \A n \in Msg \ {m} : stage'[n] = stage[n]
    BY DEF ServerTypeOK
  <1>4. ASSUME NEW d \in Client, NEW f \in Entry, Uses(d, f)
        PROVE  m \notin Items(queue[f]) /\ Items(queue[f]) \subseteq Msg
    <2>1. queue[f] \in Seq(Msg)
      BY DEF ServerTypeOK
    <2> QED BY <1>4, <2>1, ItemsTyped DEF Responses
  <1>5. Items(queue'[e]) = Items(queue[e]) \cup {m} /\ Distinct(queue'[e])
    BY <1>1, <1>2, <1>4, ItemsPut
  <1>6. ASSUME NEW d \in Client, NEW f \in Entry, Uses(d, f)'
        PROVE  /\ Distinct(queue'[f])
               /\ \A n \in Items(queue'[f]) : n[1] = d /\ stage'[n] = "ready"
    <2>1. Uses(d, f)
      BY <1>6
    <2>2. /\ Distinct(queue[f]) /\ Items(queue[f]) \subseteq Msg
          /\ \A n \in Items(queue[f]) : n[1] = d /\ stage[n] = "ready"
      BY <1>4, <2>1 DEF Responses
    <2>3. CASE f = e
      <3>1. d = m[1]
        BY <1>1, <2>1, <2>3 DEF Owned
      <3> QED BY <1>3, <1>5, <2>2, <2>3, <3>1
    <2>4. CASE f # e
      BY <1>2, <1>3, <2>2, <2>4
    <2> QED BY <2>3, <2>4
  <1>7. ASSUME NEW d \in Client, NEW x \in Client, NEW f \in Entry, NEW g \in Entry,
               Uses(d, f)', Uses(x, g)', f # g
        PROVE  Items(queue'[f]) \cap Items(queue'[g]) = {}
    <2>1. Uses(d, f) /\ Uses(x, g)
      BY <1>7
    <2>2. /\ Items(queue[f]) \cap Items(queue[g]) = {}
          /\ m \notin Items(queue[f]) /\ m \notin Items(queue[g])
      BY <1>4, <1>7, <2>1 DEF Responses
    <2>3. f = e \/ queue'[f] = queue[f]
      BY <1>2
    <2>4. g = e \/ queue'[g] = queue[g]
      BY <1>2
    <2> QED BY <1>5, <1>7, <2>2, <2>3, <2>4
  <1>8. Reachable'
    <2> SUFFICES ASSUME NEW n \in Msg, stage'[n] = "ready",
                        n[1] \notin gone \cup evicted
                 PROVE  entry[n[1]] # None /\ n \in Items(queue'[entry[n[1]]])
      BY DEF Reachable
    <2>1. CASE n = m
      BY <1>5, <2>1, ConstantsAssumption
    <2>2. CASE n # m
      <3>1. stage[n] = "ready"
        BY <1>3, <2>2
      <3>2. entry[n[1]] # None /\ n \in Items(queue[entry[n[1]]])
        BY <3>1 DEF Reachable
      <3>3. entry[n[1]] \in Entry
        BY <3>2 DEF Msg, ServerTypeOK
      <3> QED BY <1>2, <1>5, <3>2, <3>3
    <2> QED BY <2>1, <2>2
  <1> QED BY <1>6, <1>7, <1>8 DEF Responses

-------------------------------------------------------------------------------
(* The steps of a call *)

\* A client's or an answering call uses the entry that it looked up.
LEMMA CallUses ==
  ASSUME ServerTypeOK, NEW h \in Handler, call[h].op \in {"request", "answer", "poll"}
  PROVE  /\ call[h].client \in Client /\ call[h].entry \in Entry
         /\ Uses(call[h].client, call[h].entry)
  BY DEF ServerTypeOK, CallShape, Uses

\* What a call carries is a message.
LEMMA CarriesMsg ==
  ASSUME ServerTypeOK, NEW h \in Handler, Carries(call[h])
  PROVE  /\ MsgOf(call[h]) \in Msg /\ MsgOf(call[h])[1] = call[h].client
         /\ call[h].client \in Client
  BY DEF ServerTypeOK, CallShape, Carries, MsgOf, Msg

\* No other call carries what call h carries.
LEMMA CarriedApart ==
  ASSUME Carried, NEW h \in Handler, Carries(call[h]),
         NEW x \in Handler, x # h, Carries(call[x])
  PROVE  MsgOf(call[x]) # MsgOf(call[h])
  BY DEF Carried

\* A response that waits in a queue in use is on its way to the client.
LEMMA HeadReady ==
  ASSUME ServerTypeOK, Responses, NEW c \in Client, NEW e \in Entry, Uses(c, e),
         queue[e] # <<>>
  PROVE  Head(queue[e]) \in Msg /\ stage[Head(queue[e])] = "ready"
  <1>1. queue[e] \in Seq(Msg) /\ Distinct(queue[e])
    BY DEF ServerTypeOK, Responses
  <1>2. Head(queue[e]) \in Items(queue[e])
    BY <1>1, ItemsGet
  <1> QED BY <1>1, <1>2, ItemsTyped DEF Responses

LEMMA Returning ==
  ASSUME ServerTypeOK, NEW h \in Handler, Return(h)
  PROVE  /\ call' = [call EXCEPT ![h] = NoCall] /\ ~Carries(NoCall)
         /\ \A x \in Handler : call'[x] = call[x] \/ Lessens(call[x], call'[x])
  <1>1. NoCall.op = "none" /\ NoCall.entry = None
    BY DEF NoCall, CallOf
  <1> QED BY <1>1 DEF Return, ServerTypeOK, Lessens, Carries

\* A call that has its body waits for room; one that needs no room waits for a
\* response.
LEMMA Awaiting ==
  ASSUME ServerTypeOK, Bare, NEW h \in Handler, NEW at, NEW d, Await(h, at, d),
         \/ at = "put" /\ Carries(call[h])
         \/ at = "get" /\ call[h].op = "request"
  PROVE  /\ call' = [call EXCEPT ![h] = Waiting(call[h], at, 0, d)]
         /\ at = "get" => ~Carries(Waiting(call[h], at, 0, d))
         /\ \A x \in Handler : call'[x] = call[x] \/ Lessens(call[x], call'[x])
  <1> PICK j : j = Waiting(call[h], at, 0, d)
    OBVIOUS
  <1>1. j.at = at /\ SameCall(call[h], j)
    BY DEF Waiting, CallOf, SameCall
  <1>2. Lessens(call[h], j) /\ (at = "get" => ~Carries(j))
    BY <1>1 DEF Lessens, Carries, SameCall
  <1>3. call' = [call EXCEPT ![h] = j]
    BY DEF Await
  <1> QED BY <1>2, <1>3 DEF ServerTypeOK

\* Nothing moves but calls that go on or return.
LEMMA WaitedPlaced ==
  ASSUME ServerTypeOK, Placed, UNCHANGED <<entry, queue, squeue, stage, gone, evicted>>,
         \A x \in Handler : call'[x] = call[x] \/ Lessens(call[x], call'[x])
  PROVE  Placed'
  <1>1. /\ Bare' /\ Owned' /\ Current'
        /\ \A c \in Client, e \in Entry : Uses(c, e)' => Uses(c, e)
    BY RegistryKept DEF Placed
  <1>2. Carried'
    <2>1. ASSUME NEW x \in Handler, Carries(call'[x])
          PROVE  Carries(call[x]) /\ SameCall(call[x], call'[x])
      BY <2>1 DEF Lessens, SameCall, Carries
    <2> QED BY <2>1, CarriedKept DEF Placed
  <1>3. Requests' /\ Reachable'
    BY DEF Placed, Requests, Reachable
  <1>4. Responses'
    BY <1>1, ResponsesKept DEF Placed
  <1> QED BY <1>1, <1>2, <1>3, <1>4 DEF Placed

\* 503, a timeout, or a body that did not come: the message is nobody's.
LEMMA RefusedPlaced ==
  ASSUME ServerTypeOK, Placed, NEW h \in Handler, Carries(call[h]), Return(h),
         NEW st \in {"refused", "taken"},
         stage' = [stage EXCEPT ![MsgOf(call[h])] = st],
         UNCHANGED <<entry, queue, squeue, gone, evicted>>
  PROVE  Placed'
  <1> PICK m : m = MsgOf(call[h])
    OBVIOUS
  <1>1. m \in Msg /\ stage[m] \in {"offered", "answering"}
    BY CarriesMsg DEF Placed, Carried, StageOf
  <1>2. stage'[m] = st /\ \A n \in Msg \ {m} : stage'[n] = stage[n]
    BY <1>1 DEF ServerTypeOK
  <1>3. \A n \in Msg : /\ stage'[n] = "queued" <=> stage[n] = "queued"
                       /\ stage'[n] = "ready" <=> stage[n] = "ready"
    BY <1>1, <1>2
  <1>4. /\ Bare' /\ Owned' /\ Current'
        /\ \A c \in Client, e \in Entry : Uses(c, e)' => Uses(c, e)
    BY Returning, RegistryKept DEF Placed
  <1>5. Carried'
    <2>1. ASSUME NEW x \in Handler \ {h}, Carries(call[x])
          PROVE  stage'[MsgOf(call[x])] = stage[MsgOf(call[x])]
      BY <1>2, <2>1, CarriesMsg, CarriedApart DEF Placed
    <2> QED BY <2>1, Returning, CarriedLess DEF Placed
  <1>6. Requests'
    BY <1>3, RequestsKept DEF Placed
  <1>7. Responses' /\ Reachable'
    BY <1>3, <1>4, ResponsesKept, ReachableKept DEF Placed
  <1> QED BY <1>4, <1>5, <1>6, <1>7 DEF Placed

\* A poll, or the second phase of a block=1 call, returns a response.
LEMMA GotPlaced ==
  ASSUME ServerTypeOK, Placed, NEW h \in Handler, call[h].op \in {"request", "poll"},
         Deliver(call[h].client, call[h].entry), Return(h),
         UNCHANGED <<entry, squeue, gone, evicted>>
  PROVE  Placed'
  <1> PICK e : e = call[h].entry
    OBVIOUS
  <1> PICK m : m = Head(queue[e])
    OBVIOUS
  <1>1. e \in Entry /\ call[h].client \in Client /\ Uses(call[h].client, e)
    BY CallUses
  <1>2. queue[e] # <<>> /\ queue' = [queue EXCEPT ![e] = AfterGet(@)]
    BY DEF Deliver, TakeFor
  <1>3. m \in Msg /\ stage[m] = "ready"
    BY <1>1, <1>2, HeadReady DEF Placed
  <1>4. stage'[m] = "delivered" /\ \A n \in Msg \ {m} : stage'[n] = stage[n]
    BY <1>3 DEF Deliver, ServerTypeOK
  <1>5. /\ Bare' /\ Owned' /\ Current'
        /\ \A c \in Client, f \in Entry : Uses(c, f)' => Uses(c, f)
    BY Returning, RegistryKept DEF Placed
  <1>6. Carried'
    <2>1. ASSUME NEW x \in Handler, Carries(call[x])
          PROVE  stage'[MsgOf(call[x])] = stage[MsgOf(call[x])]
      BY <1>3, <1>4, <2>1, CarriesMsg DEF Placed, Carried, StageOf
    <2> QED BY <2>1, Returning, CarriedLess DEF Placed
  <1>7. Requests'
    BY <1>3, <1>4, RequestsKept DEF Placed
  <1>8. Responses' /\ Reachable'
    BY <1>1, <1>2, <1>4, <1>5, Delivered DEF Placed
  <1> QED BY <1>5, <1>6, <1>7, <1>8 DEF Placed

\* A response enters the queue of the entry that its call looked up (202).
LEMMA AcceptAnswerPlaced ==
  ASSUME ServerTypeOK, Placed, NEW h \in Handler, call[h].op = "answer", AcceptAnswer(h)
  PROVE  Placed'
  <1> PICK e : e = call[h].entry
    OBVIOUS
  <1> PICK m : m = MsgOf(call[h])
    OBVIOUS
  <1>1. Carries(call[h]) /\ Return(h)
    BY DEF Placed, Bare, AcceptAnswer
  <1>2. /\ m \in Msg /\ m[1] = call[h].client /\ m[1] \in Client
        /\ stage[m] = "answering"
    BY <1>1, CarriesMsg DEF Placed, Carried, StageOf
  <1>3. e \in Entry /\ Uses(m[1], e)
    BY <1>2, CallUses
  <1>4. m[1] \notin gone \cup evicted => entry[m[1]] = e
    BY <1>2, <1>3, ConstantsAssumption DEF Placed, Current
  <1>5. /\ queue' = [queue EXCEPT ![e] = Append(@, m)]
        /\ stage' = [stage EXCEPT ![m] = "ready"]
        /\ UNCHANGED <<entry, squeue, gone, evicted>>
    BY DEF AcceptAnswer
  <1>6. /\ Bare' /\ Owned' /\ Current'
        /\ \A c \in Client, f \in Entry : Uses(c, f)' => Uses(c, f)
    BY <1>1, <1>5, Returning, RegistryKept DEF Placed
  <1>7. stage'[m] = "ready" /\ \A n \in Msg \ {m} : stage'[n] = stage[n]
    BY <1>2, <1>5 DEF ServerTypeOK
  <1>8. Carried'
    <2>1. ASSUME NEW x \in Handler \ {h}, Carries(call[x])
          PROVE  stage'[MsgOf(call[x])] = stage[MsgOf(call[x])]
      BY <1>1, <1>7, <2>1, CarriesMsg, CarriedApart DEF Placed
    <2> QED BY <1>1, <2>1, Returning, CarriedLess DEF Placed
  <1>9. Requests'
    BY <1>2, <1>5, <1>7, RequestsKept DEF Placed
  <1>10. Responses' /\ Reachable'
    BY <1>2, <1>3, <1>4, <1>5, <1>6, Answered DEF Placed
  <1> QED BY <1>6, <1>8, <1>9, <1>10 DEF Placed

\* A request enters the service queue; a block=1 call goes on to wait for a
\* response, or returns one that is there.
LEMMA AcceptRequestPlaced ==
  ASSUME ServerTypeOK, Placed, NEW h \in Handler, call[h].op = "request",
         call[h].at \in {"body", "put"}, NEW left, AcceptRequest(h, left)
  PROVE  Placed'
  <1> PICK e : e = call[h].entry
    OBVIOUS
  <1> PICK m : m = MsgOf(call[h])
    OBVIOUS
  <1> PICK s : s = call[h].service
    OBVIOUS
  <1>1. Carries(call[h])
    BY DEF Carries
  <1>2. /\ m \in Msg /\ stage[m] = "offered"
    BY <1>1, CarriesMsg DEF Placed, Carried, StageOf
  <1>3. e \in Entry /\ call[h].client \in Client /\ Uses(call[h].client, e)
    BY CallUses
  <1>4. s \in Service
    BY DEF ServerTypeOK, CallShape
  <1>5. /\ squeue' = [squeue EXCEPT ![s] = Append(@, m)]
        /\ UNCHANGED <<entry, gone, evicted>>
    BY DEF AcceptRequest
  <1>6. PICK j : /\ call' = [call EXCEPT ![h] = j] /\ ~Carries(j)
                 /\ \A x \in Handler : call'[x] = call[x] \/ Lessens(call[x], call'[x])
    <2>1. CASE Return(h)
      BY <2>1, Returning
    <2>2. CASE Await(h, "get", left)
      BY <2>2, Awaiting DEF Placed
    <2> QED BY <2>1, <2>2 DEF AcceptRequest
  <1>7. /\ Bare' /\ Owned' /\ Current'
        /\ \A c \in Client, f \in Entry : Uses(c, f)' => Uses(c, f)
    BY <1>5, <1>6, RegistryKept DEF Placed
  <1>8. CASE UNCHANGED queue /\ stage' = [stage EXCEPT ![m] = "queued"]
    <2>1. stage'[m] = "queued" /\ \A n \in Msg \ {m} : stage'[n] = stage[n]
      BY <1>2, <1>8 DEF ServerTypeOK
    <2>2. Carried'
      <3>1. ASSUME NEW x \in Handler \ {h}, Carries(call[x])
            PROVE  stage'[MsgOf(call[x])] = stage[MsgOf(call[x])]
        BY <1>1, <2>1, <3>1, CarriesMsg, CarriedApart DEF Placed
      <3> QED BY <1>6, <3>1, CarriedLess DEF Placed
    <2>3. Requests'
      BY <1>2, <1>4, <1>5, <2>1, RequestsPut DEF Placed
    <2>4. \A n \in Msg : stage'[n] = "ready" <=> stage[n] = "ready"
      BY <1>2, <2>1
    <2>5. Responses' /\ Reachable'
      BY <1>5, <1>7, <1>8, <2>4, ResponsesKept, ReachableKept DEF Placed
    <2> QED BY <1>7, <2>2, <2>3, <2>5 DEF Placed
  <1>9. ASSUME queue[e] # <<>>, queue' = [queue EXCEPT ![e] = AfterGet(@)],
               stage' = [stage EXCEPT ![m] = "queued", ![Head(queue[e])] = "delivered"]
        PROVE  Placed'
    <2> PICK r : r = Head(queue[e])
      OBVIOUS
    <2>1. r \in Msg /\ stage[r] = "ready" /\ r # m
      BY <1>2, <1>3, <1>9, HeadReady DEF Placed
    <2>2. /\ stage'[m] = "queued" /\ stage'[r] = "delivered"
          /\ \A n \in Msg \ {m, r} : stage'[n] = stage[n]
      BY <1>2, <1>9, <2>1 DEF ServerTypeOK
    <2>3. Carried'
      <3>1. ASSUME NEW x \in Handler \ {h}, Carries(call[x])
            PROVE  stage'[MsgOf(call[x])] = stage[MsgOf(call[x])]
        <4>1. MsgOf(call[x]) # m /\ MsgOf(call[x]) \in Msg
          BY <1>1, <3>1, CarriesMsg, CarriedApart DEF Placed
        <4>2. MsgOf(call[x]) # r
          BY <2>1, <3>1 DEF Placed, Carried, StageOf
        <4> QED BY <2>2, <4>1, <4>2
      <3> QED BY <1>6, <3>1, CarriedLess DEF Placed
    <2>4. Requests'
      <3>1. \A n \in Msg \ {m} : stage'[n] = "queued" <=> stage[n] = "queued"
        BY <2>1, <2>2
      <3> QED BY <1>2, <1>4, <1>5, <2>2, <3>1, RequestsPut DEF Placed
    <2>5. Responses' /\ Reachable'
      <3>1. \A n \in Msg \ {r} : stage'[n] = "ready" <=> stage[n] = "ready"
        BY <1>2, <2>2
      <3> QED BY <1>3, <1>5, <1>7, <1>9, <2>2, <3>1, Delivered DEF Placed
    <2> QED BY <1>7, <2>3, <2>4, <2>5 DEF Placed
  <1> QED BY <1>8, <1>9 DEF AcceptRequest, TakeFor

LEMMA ResumePlaced ==
  ASSUME ServerTypeOK, Placed, NEW h \in Handler, Resume(h) \/ BodyAborted(h),
         ~PullGet(h)
  PROVE  Placed'
  <1>1. ASSUME Await(h, "put", call[h].timeout), call[h].at = "body",
               UNCHANGED <<entry, queue, squeue, stage, gone, evicted>>
        PROVE  Placed'
    <2>1. Carries(call[h])
      BY <1>1 DEF ServerTypeOK, Call, CallShape, Carries
    <2> QED BY <1>1, <2>1, Awaiting, WaitedPlaced DEF Placed
  <1>2. ASSUME Return(h), UNCHANGED <<entry, queue, squeue, stage, gone, evicted>>
        PROVE  Placed'
    BY <1>2, Returning, WaitedPlaced
  <1>3. ASSUME Waits(h, "request", "body") \/ Waits(h, "request", "put"), RefuseRequest(h)
        PROVE  Placed'
    <2>1. Carries(call[h])
      BY <1>3 DEF Waits, Carries
    <2> QED BY <1>3, <2>1, RefusedPlaced DEF RefuseRequest
  <1>4. ASSUME Waits(h, "answer", "body") \/ Waits(h, "answer", "put"), RefuseAnswer(h)
        PROVE  Placed'
    <2>1. Carries(call[h])
      BY <1>4 DEF Waits, Carries
    <2> QED BY <1>4, <2>1, RefusedPlaced DEF RefuseAnswer
  <1>5. CASE RequestBody(h)
    BY <1>1, <1>3, <1>5, AcceptRequestPlaced DEF RequestBody, Waits
  <1>6. CASE EnqueueRequest(h)
    BY <1>6, AcceptRequestPlaced DEF EnqueueRequest, Waits
  <1>7. CASE RequestTimeout(h)
    BY <1>3, <1>7 DEF RequestTimeout
  <1>8. CASE BlockGet(h) \/ PollGet(h)
    BY <1>8, GotPlaced DEF BlockGet, PollGet, Waits
  <1>9. CASE BlockTimeout(h) \/ PollTimeout(h) \/ PullTimeout(h)
    BY <1>2, <1>9 DEF BlockTimeout, PollTimeout, PullTimeout
  <1>10. CASE AnswerBody(h)
    BY <1>1, <1>4, <1>10, AcceptAnswerPlaced DEF AnswerBody, Waits
  <1>11. CASE EnqueueAnswer(h) \/ AnswerTimeout(h)
    BY <1>4, <1>11, AcceptAnswerPlaced DEF EnqueueAnswer, AnswerTimeout, Waits
  <1>12. CASE BodyAborted(h)
    <2>1. Carries(call[h])
      BY <1>12 DEF BodyAborted, ServerTypeOK, Call, CallShape, Carries
    <2> QED BY <1>12, <2>1, RefusedPlaced DEF BodyAborted
  <1> QED BY <1>5, <1>6, <1>7, <1>8, <1>9, <1>10, <1>11, <1>12 DEF Resume

\* A service takes a request, at once or after a wait.
LEMMA PullPlaced ==
  ASSUME ServerTypeOK, Placed, NEW h \in Handler,
         PullGet(h) \/ \E s \in Service, t \in TimeoutArg : PullRequest(h, s, t)
  PROVE  Placed'
  <1>1. ASSUME NEW s \in Service, TakeRequest(s),
               UNCHANGED <<entry, queue, gone, evicted>>,
               UNCHANGED call \/ Return(h)
        PROVE  Placed'
    <2> PICK m : m = Head(squeue[s])
      OBVIOUS
    <2>1. Requests' /\ m \in Msg /\ stage[m] = "queued"
      BY <1>1, RequestsTaken DEF Placed
    <2>2. stage'[m] = "taken" /\ \A n \in Msg \ {m} : stage'[n] = stage[n]
      BY <1>1, <2>1 DEF TakeRequest, ServerTypeOK
    <2>3. \A x \in Handler : call'[x] = call[x] \/ Lessens(call[x], call'[x])
      BY <1>1, Returning
    <2>4. /\ Bare' /\ Owned' /\ Current'
          /\ \A c \in Client, e \in Entry : Uses(c, e)' => Uses(c, e)
      BY <1>1, <2>3, RegistryKept DEF Placed
    <2>5. Carried'
      <3>1. ASSUME NEW x \in Handler, Carries(call'[x])
            PROVE  Carries(call[x]) /\ SameCall(call[x], call'[x])
        BY <2>3, <3>1 DEF Lessens, SameCall, Carries
      <3>2. ASSUME NEW x \in Handler, Carries(call[x])
            PROVE  stage'[MsgOf(call[x])] = stage[MsgOf(call[x])]
        BY <2>1, <2>2, <3>2, CarriesMsg DEF Placed, Carried, StageOf
      <3> QED BY <3>1, <3>2, CarriedKept DEF Placed
    <2>6. \A n \in Msg : stage'[n] = "ready" <=> stage[n] = "ready"
      BY <2>1, <2>2
    <2>7. Responses' /\ Reachable'
      BY <1>1, <2>4, <2>6, ResponsesKept, ReachableKept DEF Placed
    <2> QED BY <2>1, <2>4, <2>5, <2>7 DEF Placed
  <1>2. CASE PullGet(h)
    <2>1. call[h].service \in Service
      BY <1>2 DEF PullGet, Waits, ServerTypeOK, CallShape
    <2> QED BY <1>1, <1>2, <2>1 DEF PullGet
  <1>3. ASSUME NEW s \in Service, NEW t \in TimeoutArg, PullRequest(h, s, t)
        PROVE  Placed'
    <2>1. CASE TakeRequest(s) /\ UNCHANGED call
      BY <1>1, <1>3, <2>1 DEF PullRequest
    <2>2. CASE call' = [call EXCEPT ![h] = PullCall(s, t)] /\ UNCHANGED <<squeue, stage>>
      <3>1. PullCall(s, t).op = "pull" /\ PullCall(s, t).entry = None
        BY DEF PullCall, CallOf
      <3>2. \A x \in Handler : call'[x] = call[x] \/ Lessens(call[x], call'[x])
        BY <2>2, <3>1 DEF Lessens, ServerTypeOK
      <3> QED BY <1>3, <2>2, <3>2, WaitedPlaced DEF PullRequest
    <2> QED BY <1>3, <2>1, <2>2 DEF PullRequest
  <1> QED BY <1>2, <1>3

-------------------------------------------------------------------------------
(* The start of a call, and the rest of the world *)

\* What get_or_create does: a new entry starts empty, whatever was in the queue
\* of the object before, and no queue in use changes.
LEMMA StartedQueues ==
  ASSUME ServerTypeOK, Placed, NEW c \in Client, NEW e \in Entry,
         e \in Obtainable(c), entry' = [entry EXCEPT ![c] = e],
         queue' = IF entry[c] = None THEN [queue EXCEPT ![e] = <<>>] ELSE queue,
         UNCHANGED <<gone, evicted>>,
         \A x \in Handler :
           \/ call'[x] = call[x]
           \/ /\ call'[x].op \in {"request", "poll", "answer"}
              /\ call'[x].client = c /\ call'[x].entry = e
              /\ call'[x].op = "answer" => Carries(call'[x]),
         \A m \in Msg : stage'[m] = "ready" <=> stage[m] = "ready"
  PROVE  Bare' /\ Owned' /\ Current' /\ Responses' /\ Reachable'
  <1>1. /\ Bare' /\ Owned' /\ Current'
        /\ \A d \in Client, f \in Entry :
             Uses(d, f)' => Uses(d, f) \/ (entry[c] = None /\ d = c /\ f = e)
        /\ \A d \in Client : entry[c] = None => ~Uses(d, e)
    BY RegistryStarted DEF Placed
  <1>2. \A f \in Entry : queue'[f] = queue[f] \/ (entry[c] = None /\ f = e)
    BY DEF ServerTypeOK
  <1>3. entry[c] = None => queue'[e] = <<>>
    BY DEF ServerTypeOK
  <1>4. \A d \in Client, f \in Entry : Uses(d, f)' =>
          \/ Uses(d, f) /\ queue'[f] = queue[f]
          \/ queue'[f] = <<>>
    BY <1>1, <1>2, <1>3
  <1>5. Responses'
    BY <1>4, ResponsesKept DEF Placed
  <1>6. ASSUME NEW d \in Client, entry[d] # None
        PROVE  entry'[d] = entry[d] /\ queue'[entry[d]] = queue[entry[d]]
    <2>1. entry[d] \in Entry /\ Uses(d, entry[d])
      BY <1>6 DEF ServerTypeOK, Uses
    <2>2. queue'[entry[d]] = queue[entry[d]]
      BY <1>1, <1>2, <2>1
    <2>3. entry'[d] = entry[d]
      BY <1>6 DEF ServerTypeOK, Obtainable
    <2> QED BY <2>2, <2>3
  <1>7. Reachable'
    BY <1>6, ReachableKept DEF Placed
  <1> QED BY <1>1, <1>5, <1>7

LEMMA PostRequestPlaced ==
  ASSUME ServerTypeOK, Placed, NEW h \in Handler, NEW c \in Client, NEW s \in Service,
         NEW r \in Request, NEW t \in TimeoutArg, NEW b \in BlockArg,
         PostRequest(h, c, s, r, t, b)
  PROVE  Placed'
  <1> PICK e \in Entry : /\ GetOrCreate(c, e)
                         /\ \/ /\ call' = [call EXCEPT ![h] = RequestCall(c, s, r, e, t, b)]
                               /\ stage' = [stage EXCEPT ![<<c, r>>] = "offered"]
                            \/ /\ stage' = [stage EXCEPT ![<<c, r>>] = "refused"]
                               /\ UNCHANGED call
    BY DEF PostRequest
  <1> PICK k : k = RequestCall(c, s, r, e, t, b)
    OBVIOUS
  <1> PICK m : m = <<c, r>>
    OBVIOUS
  <1>1. /\ k.op = "request" /\ k.client = c /\ k.id = r /\ k.entry = e
        /\ k.at = "body"
    BY DEF RequestCall, CallOf
  <1>2. m \in Msg /\ MsgOf(k) = m /\ StageOf(k) = "offered" /\ stage[m] = "new"
    BY <1>1 DEF Msg, MsgOf, StageOf, PostRequest
  <1>3. stage'[m] \in {"offered", "refused"} /\ \A n \in Msg \ {m} : stage'[n] = stage[n]
    BY <1>2 DEF ServerTypeOK
  <1>4. \A n \in Msg : /\ stage'[n] = "queued" <=> stage[n] = "queued"
                       /\ stage'[n] = "ready" <=> stage[n] = "ready"
    BY <1>2, <1>3
  <1>5. \A x \in Handler : call'[x] = call[x] \/ call'[x] = k
    BY DEF ServerTypeOK
  <1>6. /\ e \in Obtainable(c) /\ entry' = [entry EXCEPT ![c] = e]
        /\ queue' = IF entry[c] = None THEN [queue EXCEPT ![e] = <<>>] ELSE queue
    BY DEF GetOrCreate
  <1>7. UNCHANGED <<squeue, gone, evicted>>
    BY DEF PostRequest
  <1>8. Bare' /\ Owned' /\ Current' /\ Responses' /\ Reachable'
    <2>1. \A x \in Handler :
            \/ call'[x] = call[x]
            \/ /\ call'[x].op \in {"request", "poll", "answer"}
               /\ call'[x].client = c /\ call'[x].entry = e
               /\ call'[x].op = "answer" => Carries(call'[x])
      BY <1>1, <1>5 DEF Carries
    <2>2. \A n \in Msg : stage'[n] = "ready" <=> stage[n] = "ready"
      BY <1>4
    <2>3. UNCHANGED <<gone, evicted>>
      BY <1>7
    <2> QED BY ONLY ServerTypeOK, Placed, c \in Client, e \in Entry, <1>6, <2>1, <2>2, <2>3,
                    StartedQueues
  <1>9. Requests'
    BY <1>4, <1>7, RequestsKept DEF Placed
  <1>10. Carried'
    <2>1. CASE /\ call' = [call EXCEPT ![h] = k]
               /\ stage' = [stage EXCEPT ![m] = "offered"]
      BY <1>2, <2>1, CarriedMore DEF Placed
    <2>2. CASE UNCHANGED call
      <3>1. ASSUME NEW x \in Handler, Carries(call[x])
            PROVE  stage'[MsgOf(call[x])] = stage[MsgOf(call[x])]
        BY <1>2, <1>3, <3>1, CarriesMsg DEF Placed, Carried, StageOf
      <3> QED BY <2>2, <3>1, CarriedKept DEF Placed, SameCall
    <2> QED BY <2>1, <2>2
  <1> QED BY <1>8, <1>9, <1>10 DEF Placed

LEMMA PostAnswerPlaced ==
  ASSUME ServerTypeOK, Placed, NEW h \in Handler, NEW c \in Client, NEW r \in Request,
         NEW t \in TimeoutArg, PostAnswer(h, c, r, t)
  PROVE  Placed'
  <1> PICK e \in Entry : /\ GetOrCreate(c, e)
                         /\ \/ /\ call' = [call EXCEPT ![h] = AnswerCall(c, r, e, t)]
                               /\ stage' = [stage EXCEPT ![<<c, r>>] = "answering"]
                            \/ UNCHANGED <<call, stage>>
    BY DEF PostAnswer
  <1> PICK k : k = AnswerCall(c, r, e, t)
    OBVIOUS
  <1> PICK m : m = <<c, r>>
    OBVIOUS
  <1>1. /\ k.op = "answer" /\ k.client = c /\ k.id = r /\ k.entry = e
        /\ k.at = "body"
    BY DEF AnswerCall, CallOf
  <1>2. m \in Msg /\ MsgOf(k) = m /\ StageOf(k) = "answering" /\ stage[m] = "taken"
    BY <1>1 DEF Msg, MsgOf, StageOf, PostAnswer
  <1>3. stage'[m] \in {"answering", "taken"} /\ \A n \in Msg \ {m} : stage'[n] = stage[n]
    BY <1>2 DEF ServerTypeOK
  <1>4. \A n \in Msg : /\ stage'[n] = "queued" <=> stage[n] = "queued"
                       /\ stage'[n] = "ready" <=> stage[n] = "ready"
    BY <1>2, <1>3
  <1>5. \A x \in Handler : call'[x] = call[x] \/ call'[x] = k
    BY DEF ServerTypeOK
  <1>6. /\ e \in Obtainable(c) /\ entry' = [entry EXCEPT ![c] = e]
        /\ queue' = IF entry[c] = None THEN [queue EXCEPT ![e] = <<>>] ELSE queue
    BY DEF GetOrCreate
  <1>7. UNCHANGED <<squeue, gone, evicted>>
    BY DEF PostAnswer
  <1>8. Bare' /\ Owned' /\ Current' /\ Responses' /\ Reachable'
    <2>1. \A x \in Handler :
            \/ call'[x] = call[x]
            \/ /\ call'[x].op \in {"request", "poll", "answer"}
               /\ call'[x].client = c /\ call'[x].entry = e
               /\ call'[x].op = "answer" => Carries(call'[x])
      BY <1>1, <1>5 DEF Carries
    <2>2. \A n \in Msg : stage'[n] = "ready" <=> stage[n] = "ready"
      BY <1>4
    <2>3. UNCHANGED <<gone, evicted>>
      BY <1>7
    <2> QED BY ONLY ServerTypeOK, Placed, c \in Client, e \in Entry, <1>6, <2>1, <2>2, <2>3,
                    StartedQueues
  <1>9. Requests'
    BY <1>4, <1>7, RequestsKept DEF Placed
  <1>10. Carried'
    <2>1. CASE /\ call' = [call EXCEPT ![h] = k]
               /\ stage' = [stage EXCEPT ![m] = "answering"]
      BY <1>2, <2>1, CarriedMore DEF Placed
    <2>2. CASE UNCHANGED <<call, stage>>
      BY <2>2, CarriedKept DEF Placed, SameCall
    <2> QED BY <2>1, <2>2
  <1> QED BY <1>8, <1>9, <1>10 DEF Placed

LEMMA PollResponsePlaced ==
  ASSUME ServerTypeOK, Placed, NEW h \in Handler, NEW c \in Client, NEW t \in TimeoutArg,
         PollResponse(h, c, t)
  PROVE  Placed'
  <1> DEFINE q(e) == IF entry[c] = None THEN <<>> ELSE queue[e]
  <1> PICK e \in Entry :
        /\ e \in Obtainable(c)
        /\ entry' = [entry EXCEPT ![c] = e]
        /\ \/ queue' = [queue EXCEPT ![e] = q(e)] /\ UNCHANGED <<call, stage>>
           \/ q(e) # <<>> /\ Deliver(c, e) /\ UNCHANGED call
           \/ /\ queue' = [queue EXCEPT ![e] = q(e)]
              /\ call' = [call EXCEPT ![h] = PollCall(c, e, t)]
              /\ UNCHANGED stage
    BY DEF PollResponse
  <1>1. UNCHANGED <<squeue, gone, evicted>>
    BY DEF PollResponse
  <1>2. CASE /\ queue' = [queue EXCEPT ![e] = q(e)]
             /\ UNCHANGED call \/ call' = [call EXCEPT ![h] = PollCall(c, e, t)]
             /\ UNCHANGED stage
    <2> PICK k : k = PollCall(c, e, t)
      OBVIOUS
    <2>1. k.op = "poll" /\ k.client = c /\ k.entry = e
      BY DEF PollCall, CallOf
    <2>2. queue' = IF entry[c] = None THEN [queue EXCEPT ![e] = <<>>] ELSE queue
      BY <1>2 DEF ServerTypeOK
    <2>3. \A x \in Handler : call'[x] = call[x] \/ call'[x] = k
      BY <1>2 DEF ServerTypeOK
    <2>4. Bare' /\ Owned' /\ Current' /\ Responses' /\ Reachable'
      BY <1>1, <1>2, <2>1, <2>2, <2>3, StartedQueues
    <2>5. Requests'
      BY <1>1, <1>2, RequestsKept DEF Placed
    <2>6. ASSUME NEW x \in Handler, Carries(call'[x])
          PROVE  Carries(call[x]) /\ SameCall(call[x], call'[x])
      BY <2>1, <2>3, <2>6 DEF Carries, SameCall
    <2>7. Carried'
      BY <1>2, <2>6, CarriedKept DEF Placed
    <2> QED BY <2>4, <2>5, <2>7 DEF Placed
  <1>3. CASE q(e) # <<>> /\ Deliver(c, e) /\ UNCHANGED call
    <2> PICK m : m = Head(queue[e])
      OBVIOUS
    <2>1. entry[c] = e /\ queue[e] # <<>> /\ queue' = [queue EXCEPT ![e] = AfterGet(@)]
      BY <1>3 DEF Obtainable, Deliver, TakeFor
    <2>2. Uses(c, e) /\ entry' = entry
      BY <2>1 DEF Uses, ServerTypeOK
    <2>3. m \in Msg /\ stage[m] = "ready"
      BY <2>1, <2>2, HeadReady DEF Placed
    <2>4. stage'[m] = "delivered" /\ \A n \in Msg \ {m} : stage'[n] = stage[n]
      BY <1>3, <2>3 DEF Deliver, ServerTypeOK
    <2>5. /\ Bare' /\ Owned' /\ Current'
          /\ \A d \in Client, f \in Entry : Uses(d, f)' => Uses(d, f)
      BY <1>1, <1>3, <2>2, RegistryKept DEF Placed
    <2>6. Carried'
      <3>1. ASSUME NEW x \in Handler, Carries(call[x])
            PROVE  stage'[MsgOf(call[x])] = stage[MsgOf(call[x])]
        BY <2>3, <2>4, <3>1, CarriesMsg DEF Placed, Carried, StageOf
      <3> QED BY <1>3, <3>1, CarriedKept DEF Placed, SameCall
    <2>7. Requests'
      BY <1>1, <2>3, <2>4, RequestsKept DEF Placed
    <2>8. Responses' /\ Reachable'
      BY <1>1, <2>1, <2>2, <2>4, <2>5, Delivered DEF Placed
    <2> QED BY <2>5, <2>6, <2>7, <2>8 DEF Placed
  <1> QED BY <1>2, <1>3

\* Logoff and eviction take an entry, and with it what its queue holds, from
\* their client only, who is named in gone or evicted for it.
LEMMA LostPlaced ==
  ASSUME ServerTypeOK, Placed, ReaperTick \/ \E c \in Leaver : Logoff(c)
  PROVE  Placed'
  <1>1. /\ gone \subseteq gone' /\ evicted \subseteq evicted'
        /\ UNCHANGED <<queue, squeue, call, stage>>
        /\ \A c \in Client : \/ entry'[c] = entry[c]
                             \/ entry'[c] = None /\ c \in gone' \cup evicted'
    <2>1. CASE ReaperTick
      BY <2>1 DEF ReaperTick
    <2>2. ASSUME NEW c \in Leaver, Logoff(c)
          PROVE  /\ gone \subseteq gone' /\ evicted \subseteq evicted'
                 /\ UNCHANGED <<queue, squeue, call, stage>>
                 /\ \A d \in Client : \/ entry'[d] = entry[d]
                                      \/ entry'[d] = None /\ d \in gone' \cup evicted'
      BY <2>2 DEF Logoff, ServerTypeOK
    <2> QED BY <2>1, <2>2
  <1>2. /\ Bare' /\ Owned' /\ Current'
        /\ \A c \in Client, e \in Entry : Uses(c, e)' => Uses(c, e)
    BY <1>1, RegistryLost DEF Placed
  <1>3. Carried' /\ Requests'
    BY <1>1 DEF Placed, Carried, Requests
  <1>4. Responses'
    BY <1>1, <1>2, ResponsesKept DEF Placed
  <1>5. ASSUME NEW c \in Client, c \notin gone' \cup evicted', entry[c] # None
        PROVE  entry'[c] = entry[c] /\ queue'[entry[c]] = queue[entry[c]]
    BY <1>1, <1>5
  <1>6. Reachable'
    BY <1>1, <1>5, ReachableKept DEF Placed
  <1> QED BY <1>2, <1>3, <1>4, <1>6 DEF Placed

LEMMA TickPlaced ==
  ASSUME ServerTypeOK, Placed, Tick
  PROVE  Placed'
  <1>1. ASSUME NEW x \in Handler
        PROVE  call'[x] = call[x] \/ Lessens(call[x], call'[x])
    <2>1. call'[x] = Elapsed(call[x])
      BY DEF Tick
    <2>2. CASE call[x].at = "idle"
      BY <2>1, <2>2 DEF Elapsed
    <2> PICK j : j = Waiting(call[x], call[x].at, call[x].timeout, call[x].left - 1)
      OBVIOUS
    <2>3. SameCall(call[x], j) /\ j.at = call[x].at
      BY DEF Waiting, CallOf, SameCall
    <2>4. Lessens(call[x], j)
      BY <2>3 DEF Lessens, SameCall, Carries, Placed, Bare
    <2> QED BY <2>1, <2>2, <2>4 DEF Elapsed
  <1> QED BY <1>1, WaitedPlaced DEF Tick

\* The invariant is inductive.
LEMMA PlacedStep ==
  ASSUME ServerTypeOK, Placed, [Next]_vars
  PROVE  Placed'
  <1>1. ASSUME NEW h \in Handler, Start(h)
        PROVE  Placed'
    BY <1>1, PostRequestPlaced, PostAnswerPlaced, PollResponsePlaced, PullPlaced DEF Start
  <1>2. ASSUME NEW h \in Handler, Resume(h) \/ BodyAborted(h)
        PROVE  Placed'
    BY <1>2, ResumePlaced, PullPlaced
  <1>3. CASE UNCHANGED vars
    BY <1>3, WaitedPlaced DEF vars
  <1> QED BY <1>1, <1>2, <1>3, LostPlaced, TickPlaced DEF Next

LEMMA InitPlaced == Init => Placed
  <1> SUFFICES ASSUME Init
               PROVE  Placed
    OBVIOUS
  <1>1. \A h \in Handler : /\ call[h].op = "none" /\ call[h].at = "idle"
                           /\ call[h].entry = None
    BY DEF Init, NoCall, CallOf
  <1>2. \A c \in Client, e \in Entry : ~Uses(c, e)
    BY <1>1, ConstantsAssumption DEF Init, Uses
  <1>3. \A m \in Msg : stage[m] = "new"
    BY DEF Init
  <1>4. \A s \in Service : Items(squeue[s]) = {} /\ Distinct(squeue[s])
    BY ItemsNew DEF Init
  <1> QED BY <1>1, <1>2, <1>3, <1>4
          DEF Placed, Bare, Owned, Current, Carried, Carries, Requests, Responses, Reachable

LEMMA MessagesPlaced == Spec => [](ServerTypeOK /\ Placed)
  <1>1. ServerTypeOK /\ Placed /\ [Next]_vars => Placed'
    BY PlacedStep
  <1> QED BY <1>1, InitPlaced, ServerTypeCorrect, PTL DEF Spec

-------------------------------------------------------------------------------
(* What follows *)

\* A response for which the server said 202 is in the queue that its client's next
\* poll reads, until it is delivered, whatever other calls, timeouts and the
\* reaper do: only the client's logoff and its eviction can lose it
\* (clients.py:40-52).
THEOREM AcceptedResponsesStay == Spec => []AcceptedKept
  <1>1. Placed => AcceptedKept
    <2> SUFFICES ASSUME Placed, NEW m \in Msg, stage[m] = "ready",
                        m[1] \notin gone \cup evicted
                 PROVE  /\ entry[m[1]] # None
                        /\ \E i \in DOMAIN queue[entry[m[1]]] : queue[entry[m[1]]][i] = m
      BY DEF AcceptedKept
    <2> QED BY DEF Placed, Reachable, Items
  <1> QED BY <1>1, MessagesPlaced, PTL

\* A set in which any two elements are the same has at most one.
LEMMA AtMostOne ==
  ASSUME NEW S, \A a, b \in S : a = b
  PROVE  Cardinality(S) <= 1
  <1>1. CASE S = {}
    BY <1>1, FS_EmptySet
  <1>2. CASE S # {}
    <2> PICK a \in S : TRUE
      BY <1>2
    <2>1. S = {a}
      OBVIOUS
    <2> QED BY <2>1, FS_Singleton
  <1> QED BY <1>1, <1>2

\* An entry in use is used by a client.
LEMMA UsedByClient ==
  ASSUME ServerTypeOK, Bare, NEW e \in InUse \ {None}
  PROVE  e \in Entry /\ \E c \in Client : Uses(c, e)
  <1>1. CASE e \in {entry[c] : c \in Registered}
    BY <1>1 DEF Registered, ServerTypeOK, Uses
  <1>2. ASSUME NEW h \in Handler, e = call[h].entry
        PROVE  e \in Entry /\ \E c \in Client : Uses(c, e)
    <2>1. call[h].op \in {"request", "answer", "poll"}
      BY <1>2 DEF Bare, ServerTypeOK, Call
    <2> QED BY <1>2, <2>1, CallUses
  <1> QED BY <1>1, <1>2 DEF InUse

\* A request that was accepted is in one queue, one that was refused in none, and
\* a client's queue never holds a response to another client or one that was
\* delivered already (services.py:59-74, clients.py:40-52,71-94).
THEOREM MessagesHaveOnePlace == Spec => []OnePlace
  <1>1. ASSUME ServerTypeOK, Placed, NEW m \in Msg
        PROVE  Cardinality(Places(m)) <= 1
    <2> DEFINE InService(p) == /\ p[1] \in Service /\ p[2] \in DOMAIN squeue[p[1]]
                               /\ squeue[p[1]][p[2]] = m
               InClient(p) == /\ p[1] \in InUse \ {None} /\ p[2] \in DOMAIN queue[p[1]]
                              /\ queue[p[1]][p[2]] = m
    <2>1. ASSUME NEW p \in Places(m)
          PROVE  p = <<p[1], p[2]>> /\ (InService(p) \/ InClient(p))
      BY <2>1 DEF Places
    <2>2. ASSUME NEW p \in Places(m), InService(p)
          PROVE  stage[m] = "queued" /\ m \in Items(squeue[p[1]])
      BY <1>1, <2>2 DEF Placed, Requests, Items
    <2>3. ASSUME NEW p \in Places(m), InClient(p)
          PROVE  /\ stage[m] = "ready" /\ m \in Items(queue[p[1]]) /\ p[1] \in Entry
                 /\ Distinct(queue[p[1]]) /\ \E c \in Client : Uses(c, p[1])
      <3>1. p[1] \in Entry /\ \E c \in Client : Uses(c, p[1])
        BY <1>1, <2>3, UsedByClient DEF Placed
      <3>2. m \in Items(queue[p[1]])
        BY <2>3 DEF Items
      <3> QED BY <1>1, <3>1, <3>2 DEF Placed, Responses
    <2>4. ASSUME NEW a \in Places(m), NEW b \in Places(m)
          PROVE  a[1] = b[1] /\ a[2] = b[2]
      <3>1. CASE InService(a) /\ InService(b)
        <4>1. a[1] = b[1]
          BY <1>1, <2>2, <3>1 DEF Placed, Requests
        <4>2. Distinct(squeue[a[1]])
          BY <1>1, <3>1 DEF Placed, Requests
        <4> QED BY <3>1, <4>1, <4>2 DEF Distinct
      <3>2. CASE InClient(a) /\ InClient(b)
        <4>1. a[1] = b[1]
          BY <1>1, <2>3, <3>2 DEF Placed, Responses
        <4> QED BY <2>3, <3>2, <4>1 DEF Distinct
      <3> HIDE DEF InService, InClient
      <3> QED BY <2>1, <2>2, <2>3, <3>1, <3>2
    <2> HIDE DEF InService, InClient
    <2>5. \A a, b \in Places(m) : a = b
      BY <2>1, <2>4
    <2> QED BY <2>5, AtMostOne
  <1>2. ASSUME ServerTypeOK, Placed, NEW m \in Msg
        PROVE  stage[m] = "queued" <=> \E s \in Service : \E i \in DOMAIN squeue[s] :
                                         squeue[s][i] = m
    BY <1>2 DEF Placed, Requests, Items
  <1>3. ASSUME ServerTypeOK, Placed, NEW m \in Msg, NEW c \in Registered,
               NEW i \in DOMAIN queue[entry[c]], queue[entry[c]][i] = m
        PROVE  m[1] = c /\ stage[m] = "ready"
    <2>1. c \in Client /\ entry[c] \in Entry /\ Uses(c, entry[c])
      BY <1>3 DEF Registered, ServerTypeOK, Uses
    <2>2. m \in Items(queue[entry[c]])
      BY <1>3 DEF Items
    <2> QED BY <1>3, <2>1, <2>2 DEF Placed, Responses
  <1>4. ServerTypeOK /\ Placed => OnePlace
    BY <1>1, <1>2, <1>3 DEF OnePlace
  <1> QED BY <1>4, MessagesPlaced, PTL

-------------------------------------------------------------------------------
(***************************************************************************)
(* How often a request was taken from a queue is told by its stage.  That a    *)
(* step does not count it twice is what Placed gives: a message that leaves a  *)
(* queue was at the stage of that queue, and belongs to the client that has    *)
(* the queue.                                                                  *)
(***************************************************************************)
HandedOver == {"taken", "answering", "ready", "delivered"}

Counted(m) ==
  /\ handed[m] = IF stage[m] \in HandedOver THEN 1 ELSE 0
  /\ \A c \in Client :
       delivered[c][m] = IF stage[m] = "delivered" /\ c = m[1] THEN 1 ELSE 0

\* Nobody takes request m, and its stage says as little.
LEMMA NotTaken ==
  ASSUME NEW m \in Msg, Counted(m), UNCHANGED taking,
         stage'[m] \in HandedOver <=> stage[m] \in HandedOver,
         stage'[m] = "delivered" <=> stage[m] = "delivered"
  PROVE  Counted(m)'
  BY DEF Counted, taking

\* One request goes on, without leaving a queue.
LEMMA OneMoves ==
  ASSUME TypeOK, NEW n \in Msg, NEW st \in Stage \ {"delivered"},
         stage[n] # "delivered", stage[n] \in HandedOver <=> st \in HandedOver,
         stage' = [stage EXCEPT ![n] = st], UNCHANGED taking,
         NEW m \in Msg, Counted(m)
  PROVE  Counted(m)'
  BY NotTaken DEF TypeOK, ServerTypeOK

\* A response leaves a queue that its client uses, by a call of this client.
LEMMA DeliverMoves ==
  ASSUME TypeOK, Placed, NEW c \in Client, NEW e \in Entry, Uses(c, e), queue[e] # <<>>,
         TakeFor(c, e), stage'[Head(queue[e])] = "delivered",
         NEW m \in Msg, Counted(m),
         m # Head(queue[e]) => /\ stage'[m] \in HandedOver <=> stage[m] \in HandedOver
                               /\ stage'[m] = "delivered" <=> stage[m] = "delivered"
  PROVE  Counted(m)'
  <1> PICK r : r = Head(queue[e])
    OBVIOUS
  <1>1. r \in Msg /\ stage[r] = "ready"
    BY HeadReady DEF Placed, TypeOK
  <1>2. r[1] = c
    <2>1. queue[e] \in Seq(Msg) /\ Distinct(queue[e])
      BY DEF TypeOK, ServerTypeOK, Placed, Responses
    <2>2. r \in Items(queue[e])
      BY <2>1, ItemsGet
    <2> QED BY <2>2 DEF Placed, Responses
  <1>3. /\ delivered' = [delivered EXCEPT ![c][r] = @ + 1] /\ handed' = handed
        /\ delivered \in [Client -> [Msg -> Nat]]
    BY DEF TakeFor, TypeOK
  <1>4. CASE m = r
    <2>1. handed[m] = 1 /\ delivered[c][m] = 0
          /\ \A d \in Client \ {c} : delivered[d][m] = 0
      BY <1>1, <1>2, <1>4 DEF Counted, HandedOver
    <2>2. delivered'[c][m] = 1 /\ \A d \in Client \ {c} : delivered'[d][m] = 0
      BY <1>1, <1>3, <1>4, <2>1
    <2> QED BY <1>2, <1>3, <1>4, <2>1, <2>2 DEF Counted, HandedOver
  <1>5. CASE m # r
    <2>1. \A d \in Client : delivered'[d][m] = delivered[d][m]
      BY <1>1, <1>3, <1>5
    <2> QED BY <1>3, <1>5, <2>1 DEF Counted
  <1> QED BY <1>4, <1>5

\* A request enters the service queue, and a block=1 call that is out of time may
\* return a response, which is not its own.
LEMMA AcceptRequestMoves ==
  ASSUME TypeOK, Placed, NEW h \in Handler, call[h].op = "request",
         call[h].at \in {"body", "put"}, NEW left, AcceptRequest(h, left),
         NEW m \in Msg, Counted(m)
  PROVE  Counted(m)'
  <1> PICK n : n = MsgOf(call[h])
    OBVIOUS
  <1> PICK e : e = call[h].entry
    OBVIOUS
  <1>1. n \in Msg /\ stage[n] = "offered"
    BY CarriesMsg DEF Carries, Placed, Carried, StageOf, TypeOK
  <1>2. /\ e \in Entry /\ call[h].client \in Client /\ Uses(call[h].client, e)
    BY CallUses DEF TypeOK
  <1>3. CASE stage' = [stage EXCEPT ![n] = "queued"] /\ UNCHANGED taking
    BY <1>1, <1>3, OneMoves DEF HandedOver, Stage
  <1>4. ASSUME queue[e] # <<>>, TakeFor(call[h].client, e),
               stage' = [stage EXCEPT ![n] = "queued", ![Head(queue[e])] = "delivered"]
        PROVE  Counted(m)'
    <2> PICK r : r = Head(queue[e])
      OBVIOUS
    <2>1. r \in Msg /\ stage[r] = "ready" /\ r # n
      BY <1>1, <1>2, <1>4, HeadReady DEF Placed, TypeOK
    <2>2. /\ stage'[n] = "queued" /\ stage'[r] = "delivered"
          /\ \A x \in Msg \ {n, r} : stage'[x] = stage[x]
      BY <1>1, <1>4, <2>1 DEF TypeOK, ServerTypeOK
    <2>3. m # r => /\ stage'[m] \in HandedOver <=> stage[m] \in HandedOver
                   /\ stage'[m] = "delivered" <=> stage[m] = "delivered"
      BY <1>1, <2>2 DEF HandedOver
    <2> QED BY <1>2, <1>4, <2>2, <2>3, DeliverMoves
  <1> QED BY <1>3, <1>4 DEF AcceptRequest

\* The response of a call enters the client's queue, or its service keeps it.
LEMMA AnswerMoves ==
  ASSUME TypeOK, Placed, NEW h \in Handler, call[h].op = "answer",
         AcceptAnswer(h) \/ RefuseAnswer(h), NEW m \in Msg, Counted(m)
  PROVE  Counted(m)'
  <1>1. MsgOf(call[h]) \in Msg /\ stage[MsgOf(call[h])] = "answering"
    BY CarriesMsg DEF Placed, Bare, Carried, StageOf, TypeOK
  <1>2. /\ \/ stage' = [stage EXCEPT ![MsgOf(call[h])] = "ready"]
           \/ stage' = [stage EXCEPT ![MsgOf(call[h])] = "taken"]
        /\ UNCHANGED taking
    BY DEF AcceptAnswer, RefuseAnswer, taking
  <1> QED BY <1>1, <1>2, OneMoves DEF HandedOver, Stage

\* 503, or a body that did not come.
LEMMA RefusedMoves ==
  ASSUME TypeOK, Placed, NEW h \in Handler, call[h].op = "request",
         call[h].at \in {"body", "put"},
         stage' = [stage EXCEPT ![MsgOf(call[h])] = "refused"], UNCHANGED taking,
         NEW m \in Msg, Counted(m)
  PROVE  Counted(m)'
  <1>1. MsgOf(call[h]) \in Msg /\ stage[MsgOf(call[h])] = "offered"
    BY CarriesMsg DEF Carries, Placed, Carried, StageOf, TypeOK
  <1> QED BY <1>1, OneMoves DEF HandedOver, Stage

\* A service takes a request that was queued.
LEMMA TakeMoves ==
  ASSUME TypeOK, Placed, NEW s \in Service, TakeRequest(s), NEW m \in Msg, Counted(m)
  PROVE  Counted(m)'
  <1> PICK r : r = Head(squeue[s])
    OBVIOUS
  <1>1. squeue[s] \in Seq(Msg) /\ squeue[s] # <<>> /\ Distinct(squeue[s])
    BY DEF TypeOK, ServerTypeOK, TakeRequest, Placed, Requests
  <1>2. r \in Items(squeue[s])
    BY <1>1, ItemsGet
  <1>3. r \in Msg /\ stage[r] = "queued"
    BY <1>1, <1>2, ItemsTyped DEF Placed, Requests
  <1>4. /\ stage' = [stage EXCEPT ![r] = "taken"]
        /\ handed' = [handed EXCEPT ![r] = @ + 1] /\ delivered' = delivered
        /\ stage \in [Msg -> Stage] /\ handed \in [Msg -> Nat]
    BY DEF TakeRequest, TypeOK, ServerTypeOK
  <1>5. CASE m = r
    <2>1. stage'[m] = "taken" /\ handed'[m] = handed[m] + 1 /\ handed[m] = 0
      BY <1>3, <1>4, <1>5 DEF Counted, HandedOver
    <2> QED BY <1>3, <1>4, <1>5, <2>1 DEF Counted, HandedOver
  <1>6. CASE m # r
    BY <1>4, <1>6 DEF Counted
  <1> QED BY <1>5, <1>6

LEMMA ResumeMoves ==
  ASSUME TypeOK, Placed, NEW h \in Handler, Resume(h) \/ BodyAborted(h),
         NEW m \in Msg, Counted(m)
  PROVE  Counted(m)'
  <1>1. ASSUME UNCHANGED <<stage, taking>>
        PROVE  Counted(m)'
    BY <1>1, NotTaken
  <1>2. CASE RequestBody(h)
    BY <1>1, <1>2, AcceptRequestMoves, RefusedMoves
       DEF RequestBody, RefuseRequest, Waits
  <1>3. CASE EnqueueRequest(h)
    BY <1>3, AcceptRequestMoves DEF EnqueueRequest, Waits
  <1>4. CASE RequestTimeout(h)
    BY <1>4, RefusedMoves DEF RequestTimeout, RefuseRequest, Waits
  <1>5. CASE BlockGet(h) \/ PollGet(h)
    <2> DEFINE c == call[h].client
               e == call[h].entry
    <2>1. call[h].op \in {"request", "poll"} /\ Deliver(c, e)
      BY <1>5 DEF BlockGet, PollGet, Waits
    <2>2. c \in Client /\ e \in Entry /\ Uses(c, e)
      BY <2>1, CallUses DEF TypeOK
    <2>3. Head(queue[e]) \in Msg
      BY <2>1, <2>2, HeadReady DEF Placed, TypeOK, Deliver
    <2>4. /\ queue[e] # <<>> /\ TakeFor(c, e) /\ stage'[Head(queue[e])] = "delivered"
          /\ m # Head(queue[e]) => stage'[m] = stage[m]
      BY <2>1, <2>3 DEF Deliver, TypeOK, ServerTypeOK
    <2> HIDE DEF c, e
    <2> QED BY <2>2, <2>4, DeliverMoves
  <1>6. CASE BlockTimeout(h) \/ PollTimeout(h) \/ PullTimeout(h)
    BY <1>1, <1>6 DEF BlockTimeout, PollTimeout, PullTimeout
  <1>7. CASE PullGet(h)
    <2>1. call[h].service \in Service
      BY <1>7 DEF PullGet, Waits, TypeOK, ServerTypeOK, CallShape
    <2> QED BY <1>7, <2>1, TakeMoves DEF PullGet
  <1>8. CASE AnswerBody(h)
    BY <1>1, <1>8, AnswerMoves DEF AnswerBody, Waits
  <1>9. CASE EnqueueAnswer(h) \/ AnswerTimeout(h)
    BY <1>9, AnswerMoves DEF EnqueueAnswer, AnswerTimeout, Waits
  <1>10. CASE BodyAborted(h)
    <2>1. Carries(call[h]) /\ call[h].at = "body"
      BY <1>10 DEF BodyAborted, TypeOK, ServerTypeOK, Call, CallShape, Carries
    <2>2. CASE call[h].op = "request"
      BY <1>10, <2>1, <2>2, RefusedMoves DEF BodyAborted
    <2>3. CASE call[h].op = "answer"
      <3>1. RefuseAnswer(h)
        BY <1>10, <2>3 DEF BodyAborted, RefuseAnswer
      <3> QED BY <2>3, <3>1, AnswerMoves
    <2> QED BY <2>1, <2>2, <2>3 DEF Carries
  <1> QED BY <1>2, <1>3, <1>4, <1>5, <1>6, <1>7, <1>8, <1>9, <1>10 DEF Resume

LEMMA StartMoves ==
  ASSUME TypeOK, Placed, NEW h \in Handler, Start(h), NEW m \in Msg, Counted(m)
  PROVE  Counted(m)'
  <1>1. ASSUME UNCHANGED <<stage, taking>>
        PROVE  Counted(m)'
    BY <1>1, NotTaken
  <1>2. ASSUME NEW c \in Client, NEW t \in TimeoutArg, PollResponse(h, c, t)
        PROVE  Counted(m)'
    <2> PICK e \in Entry :
          /\ e \in Obtainable(c)
          /\ UNCHANGED <<stage, taking>> \/ (entry[c] # None /\ Deliver(c, e))
      <3>1. CASE entry[c] = None
        BY <1>2, <3>1 DEF PollResponse
      <3>2. CASE entry[c] # None
        BY <1>2, <3>2 DEF PollResponse
      <3> QED BY <3>1, <3>2
    <2>1. CASE entry[c] # None /\ Deliver(c, e)
      <3>1. Uses(c, e)
        BY <2>1 DEF Obtainable, Uses
      <3>2. Head(queue[e]) \in Msg
        BY <2>1, <3>1, HeadReady DEF Placed, TypeOK, Deliver
      <3>3. /\ queue[e] # <<>> /\ TakeFor(c, e) /\ stage'[Head(queue[e])] = "delivered"
            /\ m # Head(queue[e]) => stage'[m] = stage[m]
        BY <2>1, <3>2 DEF Deliver, TypeOK, ServerTypeOK
      <3> QED BY <3>1, <3>3, DeliverMoves
    <2> QED BY <1>1, <2>1
  <1>3. ASSUME NEW s \in Service, NEW t \in TimeoutArg, PullRequest(h, s, t)
        PROVE  Counted(m)'
    BY <1>1, <1>3, TakeMoves DEF PullRequest
  <1>4. ASSUME NEW c \in Client, NEW r \in Request, NEW t \in TimeoutArg,
               NEW s \in Service, NEW b \in BlockArg, PostRequest(h, c, s, r, t, b)
        PROVE  Counted(m)'
    <2>1. stage[<<c, r>>] = "new" /\ <<c, r>> \in Msg
      BY <1>4 DEF PostRequest, Msg
    <2>2. /\ \/ stage' = [stage EXCEPT ![<<c, r>>] = "offered"]
             \/ stage' = [stage EXCEPT ![<<c, r>>] = "refused"]
          /\ UNCHANGED taking
      BY <1>4 DEF PostRequest, taking
    <2> QED BY <2>1, <2>2, OneMoves DEF HandedOver, Stage
  <1>5. ASSUME NEW c \in Client, NEW r \in Request, NEW t \in TimeoutArg,
               PostAnswer(h, c, r, t)
        PROVE  Counted(m)'
    <2>1. stage[<<c, r>>] = "taken" /\ <<c, r>> \in Msg
      BY <1>5 DEF PostAnswer, Msg
    <2>2. /\ UNCHANGED stage \/ stage' = [stage EXCEPT ![<<c, r>>] = "answering"]
          /\ UNCHANGED taking
      BY <1>5 DEF PostAnswer, taking
    <2> QED BY <1>1, <2>1, <2>2, OneMoves DEF HandedOver, Stage
  <1> QED BY <1>2, <1>3, <1>4, <1>5 DEF Start

\* A request is handed to one pull and its response to one call, of its own client,
\* and a request that was refused to none, whatever happens to the entry and its
\* queue, and whether the taker waited or not (services.py:91, 134, clients.py:49,
\* 82).
THEOREM RequestsHandedOutOnce == Spec => []HandedOutOnce
  <1> DEFINE Counts == \A m \in Msg : Counted(m)
  <1>1. Init => Counts
    BY DEF Init, Counted, HandedOver
  <1>2. TypeOK /\ Placed /\ Counts /\ [Next]_vars => Counts'
    <2> SUFFICES ASSUME TypeOK, Placed, [Next]_vars, NEW m \in Msg, Counted(m)
                 PROVE  Counted(m)'
      OBVIOUS
    <2>1. CASE (\E c \in Leaver : Logoff(c)) \/ ReaperTick \/ Tick \/ UNCHANGED vars
      BY <2>1, NotTaken DEF Logoff, ReaperTick, Tick, vars
    <2> QED BY <2>1, StartMoves, ResumeMoves DEF Next
  <1>3. Counts => HandedOutOnce
    <2> SUFFICES ASSUME NEW m \in Msg, Counted(m)
                 PROVE  /\ handed[m] <= 1
                        /\ stage[m] = "refused" => handed[m] = 0
                        /\ \A c \in Client :
                             delivered[c][m] <= IF c = m[1] THEN handed[m] ELSE 0
      BY DEF HandedOutOnce
    <2> QED BY DEF Counted, HandedOver
  <1> HIDE DEF Counts
  <1> QED BY <1>1, <1>2, <1>3, MessagesPlaced, TypeCorrect, PTL DEF Spec

-------------------------------------------------------------------------------
(* Objects for get_or_create *)

\* A function has at most as many values as arguments.
LEMMA ImageBound ==
  ASSUME NEW S, IsFiniteSet(S), NEW f, f = [x \in S |-> f[x]]
  PROVE  /\ IsFiniteSet({f[x] : x \in S})
         /\ Cardinality({f[x] : x \in S}) <= Cardinality(S)
  <1> DEFINE T == {f[x] : x \in S}
  <1>1. f \in Surjection(S, T)
    BY DEF Surjection
  <1> HIDE DEF T
  <1> QED BY <1>1, FS_Surjection DEF T

\* The entries that calls and the registry hold are fewer than the Entry objects,
\* so a handler that is free can always start a call: the bound on the objects
\* rules out no behaviour (get_or_create never fails, registries.py).
THEOREM EntriesSuffice ==
  Spec => [](\A h \in Handler, c \in Client : Idle(h) => Obtainable(c) # {})
  <1>1. ASSUME ServerTypeOK, Bare, NEW h \in Handler, NEW c \in Client, Idle(h)
        PROVE  Obtainable(c) # {}
    <2>1. CASE entry[c] # None
      BY <2>1 DEF Obtainable
    <2>2. ASSUME entry[c] = None, Entry \subseteq InUse
          PROVE  FALSE
      <3> DEFINE known == [d \in Client \ {c} |-> entry[d]]
                 calling == [x \in Handler \ {h} |-> call[x].entry]
                 A == {known[d] : d \in Client \ {c}}
                 B == {calling[x] : x \in Handler \ {h}}
      <3>1. Entry \subseteq A \cup B
        <4>1. call[h].entry = None /\ None \notin Entry
          BY <1>1, ConstantsAssumption DEF Bare, ServerTypeOK, CallShape, Idle
        <4>2. ASSUME NEW e \in Entry
              PROVE  e \in A \cup B
          <5>1. CASE \E d \in Registered : e = entry[d]
            <6> PICK d \in Client : entry[d] # None /\ e = entry[d]
              BY <5>1 DEF Registered
            <6>1. d \in Client \ {c} /\ e = known[d]
              BY <2>2
            <6> QED BY <6>1
          <5>2. CASE \E x \in Handler : e = call[x].entry
            <6> PICK x \in Handler : e = call[x].entry
              BY <5>2
            <6>1. x \in Handler \ {h} /\ e = calling[x]
              BY <4>1
            <6> QED BY <6>1
          <5> QED BY <2>2, <5>1, <5>2 DEF InUse
        <4> QED BY <4>2
      <3>2. /\ IsFiniteSet(A) /\ Cardinality(A) <= Cardinality(Client \ {c})
            /\ IsFiniteSet(Client \ {c})
            /\ Cardinality(Client \ {c}) = Cardinality(Client) - 1
        <4>1. IsFiniteSet(Client \ {c}) /\ Cardinality(Client \ {c}) = Cardinality(Client) - 1
          BY FS_RemoveElement, EntryAssumption
        <4> HIDE DEF known
        <4>2. known = [d \in Client \ {c} |-> known[d]]
          BY DEF known
        <4> QED BY <4>1, <4>2, ImageBound
      <3>3. /\ IsFiniteSet(B) /\ Cardinality(B) <= Cardinality(Handler \ {h})
            /\ IsFiniteSet(Handler \ {h})
            /\ Cardinality(Handler \ {h}) = Cardinality(Handler) - 1
        <4>1. IsFiniteSet(Handler \ {h})
              /\ Cardinality(Handler \ {h}) = Cardinality(Handler) - 1
          BY FS_RemoveElement, EntryAssumption
        <4> HIDE DEF calling
        <4>2. calling = [x \in Handler \ {h} |-> calling[x]]
          BY DEF calling
        <4> QED BY <4>1, <4>2, ImageBound
      <3> HIDE DEF A, B, known, calling
      <3>4. /\ IsFiniteSet(A \cup B) /\ IsFiniteSet(A \cap B)
            /\ Cardinality(A \cup B)
                 = Cardinality(A) + Cardinality(B) - Cardinality(A \cap B)
        BY <3>2, <3>3, FS_Union, FS_Intersection
      <3>5. Cardinality(Entry) <= Cardinality(A \cup B)
        BY <3>1, <3>4, FS_Subset
      <3>6. /\ Cardinality(A) \in Nat /\ Cardinality(B) \in Nat
            /\ Cardinality(A \cap B) \in Nat /\ Cardinality(Entry) \in Nat
            /\ Cardinality(Client) \in Nat /\ Cardinality(Handler) \in Nat
        BY <3>2, <3>3, <3>4, EntryAssumption, FS_CardinalityType
      <3> QED BY <3>2, <3>3, <3>4, <3>5, <3>6, EntryAssumption
    <2> QED BY <2>1, <2>2 DEF Obtainable
  <1> DEFINE Free == \A h \in Handler, c \in Client : Idle(h) => Obtainable(c) # {}
  <1>2. ServerTypeOK /\ Placed => Free
    BY <1>1 DEF Placed
  <1> HIDE DEF Free
  <1>3. Spec => []Free
    BY <1>2, MessagesPlaced, PTL
  <1> QED BY <1>3 DEF Free

=============================================================================
