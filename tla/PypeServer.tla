------------------------------ MODULE PypeServer ------------------------------
(***************************************************************************)
(* The pype server: the client registry, the service queues, the four       *)
(* queueing endpoints, logoff and the reaper, as they interleave on one      *)
(* asyncio event loop.  A handler runs without interruption from one await   *)
(* to the next, so an action is one such stretch of a handler:               *)
(*                                                                           *)
(*   idle --start--> body --request.body()--> put --queue_put--> get --> idle *)
(*                                                                           *)
(* where GETs go straight to "get", and a timeout of 0 takes the nowait path *)
(* of queue_put/queue_get in the same stretch.                               *)
(*                                                                           *)
(* A client entry is an object: a handler keeps the one it looked up across  *)
(* its awaits, whatever the registry does meanwhile.  Service queues are     *)
(* never removed from their registry, so one that was not created yet is the *)
(* same as an empty one.                                                     *)
(***************************************************************************)
EXTENDS Integers, Sequences, FiniteSets

CONSTANTS
  Client,          \* client_ids that the server has signed
  Service,         \* service names
  Request,         \* request_ids; a client uses each of them once
  Handler,         \* calls that can be in progress at once
  Entry,           \* ClientEntry objects, with their queues
  ClientQueueMax,  \* settings.client_queue_max_size
  ServiceQueueMax, \* settings.service_queue_max_size
  MaxTimeout,      \* settings.max_timeout_ms, in ticks
  Threshold,       \* settings.client_inactivity_threshold_seconds, in ticks
  BatchSize,       \* settings.client_reaper_batch_size
  TicksPerSweep,   \* floor(target_sweep_seconds / period_seconds), at least 1
  BodyMax,         \* the longest upload of a request body, in ticks
  Lag,             \* how late the event loop may run an expired timer
  TimeoutArg,      \* values of the ?timeout= query parameter, or NoTimeout
  BlockArg,        \* values of the ?block= query parameter
  Leaver,          \* clients that may log off
  NoTimeout, None

Msg == Client \X Request

ASSUME ConstantsAssumption ==
  /\ None \notin Client \cup Service \cup Request \cup Entry
  /\ ClientQueueMax \in Nat \ {0} /\ ServiceQueueMax \in Nat \ {0}
  /\ MaxTimeout \in Nat \ {0} /\ Threshold \in Nat
  /\ BatchSize \in Nat \ {0} /\ TicksPerSweep \in Nat \ {0}
  /\ BodyMax \in Nat \ {0} /\ Lag \in Nat
  /\ NoTimeout \notin Int /\ TimeoutArg \subseteq Int \cup {NoTimeout}
  /\ BlockArg \subseteq BOOLEAN
  /\ Leaver \subseteq Client

\* There is always an object for get_or_create to allocate.
ASSUME EntryAssumption ==
  /\ IsFiniteSet(Client) /\ IsFiniteSet(Handler) /\ IsFiniteSet(Entry)
  /\ Cardinality(Entry) + 1 >= Cardinality(Client) + Cardinality(Handler)

(***************************************************************************)
(* The settings the documentation asks for: the inactivity threshold exceeds *)
(* the longest a handler can stay between two bumps of last_seen.  Settings  *)
(* does not validate it (config.py has no rule that relates the two).        *)
(***************************************************************************)
ASSUME ThresholdAssumption == Threshold >= BodyMax + MaxTimeout + Lag

VARIABLES
  entry,    \* ClientRegistry._entries: client -> its entry, None if absent
  age,      \* time since entry.last_seen, counted up to Threshold + 1
  queue,    \* entry -> its asyncio.Queue of responses
  squeue,   \* ServiceRegistry._queues: service -> its queue of requests
  call,     \* handler -> the call it is in
  pending,  \* the part of the reaper's key snapshot that is still ahead of it
  stage,    \* history: where each request is on its way to a response
  gone,     \* history: clients that logged off
  evicted,  \* history: clients that the reaper evicted
  handed,   \* history: how many pulls have taken each request
  delivered \* history: how many calls of each client have taken each response

taking == <<handed, delivered>>
vars == <<entry, age, queue, squeue, call, pending, stage, gone, evicted, taking>>

Stage == {"new", "offered", "refused", "queued", "taken", "answering",
          "ready", "delivered"}

Call == [op : {"none", "request", "poll", "pull", "answer"},
         at : {"idle", "body", "put", "get"},
         client : Client \cup {None}, service : Service \cup {None},
         id : Request \cup {None}, block : BOOLEAN,
         entry : Entry \cup {None},
         timeout : 0 .. MaxTimeout,       \* normalised, until the body is read
         left : Int]                      \* ticks left of the current wait

CallOf(op, at, c, s, r, b, e, t, d) ==
  [op |-> op, at |-> at, client |-> c, service |-> s, id |-> r, block |-> b,
   entry |-> e, timeout |-> t, left |-> d]

NoCall == CallOf("none", "idle", None, None, None, FALSE, None, 0, 0)

\* Call k, now in the wait "at" that has d ticks left.
Waiting(k, at, t, d) ==
  CallOf(k.op, at, k.client, k.service, k.id, k.block, k.entry, t, d)

\* How far the wait of a call may be overdue before its handler runs.
Overdue(k) == IF k.at = "body" THEN 0 ELSE -Lag

\* The longest that it may wait there.
Longest(k) == IF k.at = "body" THEN BodyMax ELSE MaxTimeout

\* What a call has looked up by the time it waits, and how long it may wait.
CallShape(k) ==
  /\ k.op = "none" <=> k.at = "idle"
  /\ k.op \in {"request", "answer"} => k.id \in Request
  /\ k.op \in {"request", "answer", "poll"} => k.client \in Client /\ k.entry \in Entry
  /\ k.op \in {"request", "pull"} => k.service \in Service
  /\ k.op \in {"poll", "pull"} => k.at = "get"
  /\ k.left >= Overdue(k) /\ k.left <= Longest(k)

\* The types of what the server keeps; queues stay within their maxsize.
ServerTypeOK ==
  /\ entry \in [Client -> Entry \cup {None}]
  /\ age \in [Client -> 0 .. Threshold + 1]
  /\ queue \in [Entry -> Seq(Msg)]
  /\ \A e \in Entry : Len(queue[e]) <= ClientQueueMax
  /\ squeue \in [Service -> Seq(Msg)]
  /\ \A s \in Service : Len(squeue[s]) <= ServiceQueueMax
  /\ call \in [Handler -> Call]
  /\ \A h \in Handler : CallShape(call[h])
  /\ pending \subseteq Client
  /\ stage \in [Msg -> Stage]
  /\ gone \subseteq Client /\ evicted \subseteq Client

\* The types of the variables.
TypeOK ==
  /\ ServerTypeOK
  /\ handed \in [Msg -> Nat]
  /\ delivered \in [Client -> [Msg -> Nat]]

Init ==
  /\ entry = [c \in Client |-> None]
  /\ age = [c \in Client |-> 0]
  /\ queue = [e \in Entry |-> <<>>]
  /\ squeue = [s \in Service |-> <<>>]
  /\ call = [h \in Handler |-> NoCall]
  /\ pending = {}
  /\ stage = [m \in Msg |-> "new"]
  /\ gone = {} /\ evicted = {}
  /\ handed = [m \in Msg |-> 0]
  /\ delivered = [c \in Client |-> [m \in Msg |-> 0]]

-------------------------------------------------------------------------------
(* The registry *)

Registered == {c \in Client : entry[c] # None}

\* Entries that the registry or a running handler still refers to.
InUse == {entry[c] : c \in Registered} \cup {call[h].entry : h \in Handler}

\* Faulty variant: get_or_create that forgets to look for an existing entry.
ObtainableAlwaysNew(c) == Entry \ InUse

\* The entries that ClientRegistry.get_or_create may return for c.
Obtainable(c) == IF entry[c] # None THEN {entry[c]} ELSE Entry \ InUse

\* get_or_create(c) returns e; a new entry starts with an empty queue.
GetOrCreate(c, e) ==
  /\ e \in Obtainable(c)
  /\ entry' = [entry EXCEPT ![c] = e]
  /\ queue' = IF entry[c] = None THEN [queue EXCEPT ![e] = <<>>] ELSE queue

\* Faulty variant: no bump.
NoBump(c) == UNCHANGED age

\* bump_last_seen(c), of the entry registered at this moment, if there is one.
BumpLastSeen(c) == age' = IF entry[c] = None THEN age ELSE [age EXCEPT ![c] = 0]

\* Faulty variant: a call of a known client does not count as a sign of life.
TouchedIfNew(c) == IF entry[c] = None THEN [age EXCEPT ![c] = 0] ELSE age

\* get_or_create followed by a bump, or a new entry's default last_seen.
Touched(c) == [age EXCEPT ![c] = 0]

(* normalize_timeout *)

Normalize(t) == IF t = NoTimeout THEN MaxTimeout ELSE t
InRange(t) == Normalize(t) >= 0 /\ Normalize(t) <= MaxTimeout

(* queue_put and queue_get on the contents of a queue *)

\* Faulty variants: one place too many; a get that leaves the item in the queue.
HasRoomOffByOne(q, size) == Len(q) <= size
AfterPeek(q) == q

HasRoom(q, size) == Len(q) < size
AfterGet(q) == Tail(q)

(* The calls *)

Idle(h) == call[h].at = "idle"
Waits(h, op, at) == call[h].op = op /\ call[h].at = at
Return(h) == call' = [call EXCEPT ![h] = NoCall]
MsgOf(k) == <<k.client, k.id>>

\* Faulty variant: a wait that is not ended by its timeout.
ExpiresTooLate(h) == call[h].left < -Lag

\* wait_for may give up as soon as the time is over, even if the queue is just
\* becoming ready; Tick does not let a handler stay longer than Lag after that.
Expired(h) == call[h].left <= 0

\* The await of wait_for(queue.put(..)) or wait_for(queue.get()), of d ticks.
Await(h, at, d) ==
  call' = [call EXCEPT ![h] = Waiting(call[h], at, 0, d)]

\* The head of the queue of entry e goes to a call of client c.
TakeFor(c, e) ==
  /\ queue' = [queue EXCEPT ![e] = AfterGet(@)]
  /\ delivered' = [delivered EXCEPT ![c][Head(queue[e])] = @ + 1]
  /\ UNCHANGED handed

Deliver(c, e) ==
  /\ queue[e] # <<>>
  /\ TakeFor(c, e)
  /\ stage' = [stage EXCEPT ![Head(queue[e])] = "delivered"]

-------------------------------------------------------------------------------
(* POST /services/{service_name}: a client's request *)

RequestCall(c, s, r, e, t, b) ==
  CallOf("request", "body", c, s, r, b, e, Normalize(t), BodyMax)

\* The entry is created and bumped before the timeout is looked at, so a call
\* that is rejected for its timeout (400) leaves both behind.
PostRequest(h, c, s, r, t, b) ==
  /\ Idle(h) /\ stage[<<c, r>>] = "new"
  /\ \E e \in Entry :
       /\ GetOrCreate(c, e)
       /\ age' = Touched(c)
       /\ \/ /\ InRange(t)
             /\ call' = [call EXCEPT ![h] = RequestCall(c, s, r, e, t, b)]
             /\ stage' = [stage EXCEPT ![<<c, r>>] = "offered"]
          \/ /\ ~InRange(t)
             /\ stage' = [stage EXCEPT ![<<c, r>>] = "refused"]
             /\ UNCHANGED call
  /\ UNCHANGED <<squeue, pending, gone, evicted, taking>>

\* The request enters the service queue.  A block=1 call goes on to wait for a
\* response, any response, on the entry it looked up at its start; when the
\* deadline has passed already it only looks whether one is there.
AcceptRequest(h, left) ==
  LET k == call[h]
      q == queue[k.entry]
      accepted == [stage EXCEPT ![MsgOf(k)] = "queued"]
  IN /\ HasRoom(squeue[k.service], ServiceQueueMax)
     /\ squeue' = [squeue EXCEPT ![k.service] = Append(@, MsgOf(k))]
     /\ BumpLastSeen(k.client)
     /\ \/ /\ ~k.block \/ (left <= 0 /\ q = <<>>)
           /\ Return(h)
           /\ stage' = accepted /\ UNCHANGED <<queue, taking>>
        \/ /\ k.block /\ left > 0
           /\ Await(h, "get", left)
           /\ stage' = accepted /\ UNCHANGED <<queue, taking>>
        \/ /\ k.block /\ left <= 0 /\ q # <<>>
           /\ Return(h)
           /\ TakeFor(k.client, k.entry)
           /\ stage' = [accepted EXCEPT ![Head(q)] = "delivered"]
     /\ UNCHANGED <<entry, pending, gone, evicted>>

\* The service queue stayed full: 503.
RefuseRequest(h) ==
  /\ BumpLastSeen(call[h].client)
  /\ Return(h)
  /\ stage' = [stage EXCEPT ![MsgOf(call[h])] = "refused"]
  /\ UNCHANGED <<entry, queue, squeue, pending, gone, evicted, taking>>

\* await request.body() returns; the deadline of both phases starts here.
RequestBody(h) ==
  /\ Waits(h, "request", "body")
  /\ \/ /\ call[h].timeout > 0
        /\ Await(h, "put", call[h].timeout)
        /\ UNCHANGED <<entry, age, queue, squeue, pending, stage, gone, evicted, taking>>
     \/ call[h].timeout = 0 /\ AcceptRequest(h, 0)
     \/ /\ call[h].timeout = 0
        /\ ~HasRoom(squeue[call[h].service], ServiceQueueMax)
        /\ RefuseRequest(h)

EnqueueRequest(h) == Waits(h, "request", "put") /\ AcceptRequest(h, call[h].left)

RequestTimeout(h) ==
  Waits(h, "request", "put") /\ Expired(h) /\ RefuseRequest(h)

\* Phase 2 of block=1 returns a response (200); last_seen is not bumped again.
BlockGet(h) ==
  /\ Waits(h, "request", "get")
  /\ Deliver(call[h].client, call[h].entry) /\ Return(h)
  /\ UNCHANGED <<entry, age, squeue, pending, gone, evicted>>

\* Phase 2 runs out of time (202).
BlockTimeout(h) ==
  /\ Waits(h, "request", "get") /\ Expired(h)
  /\ Return(h)
  /\ UNCHANGED <<entry, age, queue, squeue, pending, stage, gone, evicted, taking>>

-------------------------------------------------------------------------------
(* GET /clients/{client_id}: a client polls for a response *)

PollCall(c, e, t) ==
  CallOf("poll", "get", c, None, None, FALSE, e, 0, Normalize(t))

\* The timeout is looked at after the entry is created and bumped, as above.
PollResponse(h, c, t) ==
  /\ Idle(h)
  /\ \E e \in Entry :
       /\ e \in Obtainable(c)
       /\ entry' = [entry EXCEPT ![c] = e]
       /\ age' = Touched(c)
       /\ LET q == IF entry[c] = None THEN <<>> ELSE queue[e]
          IN \/ /\ ~InRange(t) \/ (Normalize(t) = 0 /\ q = <<>>)
                /\ queue' = [queue EXCEPT ![e] = q]
                /\ UNCHANGED <<call, stage, taking>>
             \/ /\ Normalize(t) = 0 /\ q # <<>>
                /\ Deliver(c, e)
                /\ UNCHANGED call
             \/ /\ InRange(t) /\ Normalize(t) > 0
                /\ queue' = [queue EXCEPT ![e] = q]
                /\ call' = [call EXCEPT ![h] = PollCall(c, e, t)]
                /\ UNCHANGED <<stage, taking>>
  /\ UNCHANGED <<squeue, pending, gone, evicted>>

\* Bump again at the end as well, with or without a response.
PollGet(h) ==
  /\ Waits(h, "poll", "get")
  /\ Deliver(call[h].client, call[h].entry)
  /\ Return(h) /\ BumpLastSeen(call[h].client)
  /\ UNCHANGED <<entry, squeue, pending, gone, evicted>>

PollTimeout(h) ==
  /\ Waits(h, "poll", "get") /\ Expired(h)
  /\ Return(h) /\ BumpLastSeen(call[h].client)
  /\ UNCHANGED <<entry, queue, squeue, pending, stage, gone, evicted, taking>>

-------------------------------------------------------------------------------
(* GET /services/{service_name}: a service pulls a request *)

PullCall(s, t) ==
  CallOf("pull", "get", None, s, None, FALSE, None, 0, Normalize(t))

TakeRequest(s) ==
  /\ squeue[s] # <<>>
  /\ squeue' = [squeue EXCEPT ![s] = AfterGet(@)]
  /\ stage' = [stage EXCEPT ![Head(squeue[s])] = "taken"]
  /\ handed' = [handed EXCEPT ![Head(squeue[s])] = @ + 1]
  /\ UNCHANGED delivered

\* A timeout out of range (400) and an empty queue at timeout 0 (204) change
\* nothing at all.
PullRequest(h, s, t) ==
  /\ Idle(h) /\ InRange(t)
  /\ \/ /\ Normalize(t) = 0
        /\ TakeRequest(s)
        /\ UNCHANGED call
     \/ /\ Normalize(t) > 0
        /\ call' = [call EXCEPT ![h] = PullCall(s, t)]
        /\ UNCHANGED <<squeue, stage, taking>>
  /\ UNCHANGED <<entry, age, queue, pending, gone, evicted>>

PullGet(h) ==
  /\ Waits(h, "pull", "get")
  /\ TakeRequest(call[h].service) /\ Return(h)
  /\ UNCHANGED <<entry, age, queue, pending, gone, evicted>>

PullTimeout(h) ==
  /\ Waits(h, "pull", "get") /\ Expired(h)
  /\ Return(h)
  /\ UNCHANGED <<entry, age, queue, squeue, pending, stage, gone, evicted, taking>>

-------------------------------------------------------------------------------
(* POST /clients/{client_id}: a service's response *)

AnswerCall(c, r, e, t) ==
  CallOf("answer", "body", c, None, r, FALSE, e, Normalize(t), BodyMax)

\* A new entry starts with last_seen = now; an existing one is not bumped.
PostAnswer(h, c, r, t) ==
  /\ Idle(h) /\ stage[<<c, r>>] = "taken"
  /\ \E e \in Entry :
       /\ GetOrCreate(c, e)
       /\ age' = IF entry[c] = None THEN Touched(c) ELSE age
       /\ \/ /\ InRange(t)
             /\ call' = [call EXCEPT ![h] = AnswerCall(c, r, e, t)]
             /\ stage' = [stage EXCEPT ![<<c, r>>] = "answering"]
          \/ /\ ~InRange(t)
             /\ UNCHANGED <<call, stage>>
  /\ UNCHANGED <<squeue, pending, gone, evicted, taking>>

\* The response enters the queue of the entry that was looked up at the start
\* of the call, whether or not the registry still has that entry (202).
AcceptAnswer(h) ==
  LET k == call[h]
  IN /\ HasRoom(queue[k.entry], ClientQueueMax)
     /\ queue' = [queue EXCEPT ![k.entry] = Append(@, MsgOf(k))]
     /\ stage' = [stage EXCEPT ![MsgOf(k)] = "ready"]
     /\ Return(h)
     /\ UNCHANGED <<entry, age, squeue, pending, gone, evicted, taking>>

\* 503: the service still has its response and may post it again.
RefuseAnswer(h) ==
  /\ Return(h)
  /\ stage' = [stage EXCEPT ![MsgOf(call[h])] = "taken"]
  /\ UNCHANGED <<entry, age, queue, squeue, pending, gone, evicted, taking>>

AnswerBody(h) ==
  /\ Waits(h, "answer", "body")
  /\ \/ /\ call[h].timeout > 0
        /\ Await(h, "put", call[h].timeout)
        /\ UNCHANGED <<entry, age, queue, squeue, pending, stage, gone, evicted, taking>>
     \/ call[h].timeout = 0 /\ AcceptAnswer(h)
     \/ /\ call[h].timeout = 0
        /\ ~HasRoom(queue[call[h].entry], ClientQueueMax)
        /\ RefuseAnswer(h)

EnqueueAnswer(h) == Waits(h, "answer", "put") /\ AcceptAnswer(h)

AnswerTimeout(h) ==
  Waits(h, "answer", "put") /\ Expired(h) /\ RefuseAnswer(h)

-------------------------------------------------------------------------------
(* The rest of the world *)

\* The caller disconnects while its body is uploaded: request.body() raises.
BodyAborted(h) ==
  /\ call[h].at = "body"
  /\ Return(h)
  /\ stage' = [stage EXCEPT ![MsgOf(call[h])] =
                 IF call[h].op = "request" THEN "refused" ELSE "taken"]
  /\ UNCHANGED <<entry, age, queue, squeue, pending, gone, evicted, taking>>

\* DELETE /auth/client: idempotent.  The token stays valid, so calls of the
\* client that come later create an entry again.
Logoff(c) ==
  /\ entry' = [entry EXCEPT ![c] = None]
  /\ age' = [age EXCEPT ![c] = 0]
  /\ gone' = gone \cup {c}
  /\ UNCHANGED <<queue, squeue, call, pending, stage, evicted, taking>>

\* _effective_batch_size for n registered clients.
EffectiveBatch(n) ==
  LET scaled == (n + TicksPerSweep - 1) \div TicksPerSweep
  IN IF scaled > BatchSize THEN scaled ELSE BatchSize

\* The keys that a reaper tick works on: a new snapshot once the last is done.
Snapshot == IF pending = {} THEN Registered ELSE pending

\* Faulty variant: evicts when the threshold is reached, not exceeded.
StaleAtThreshold(c) == entry[c] # None /\ age[c] >= Threshold

Stale(c) == entry[c] # None /\ age[c] > Threshold

\* One ClientQueueReaper._tick, at any time; the order of the keys is left open.
ReaperTick ==
  \E batch \in SUBSET Snapshot :
    LET stale == {c \in batch : Stale(c)}
        limit == EffectiveBatch(Cardinality(Registered))
    IN /\ Cardinality(batch) =
            IF Cardinality(Snapshot) < limit THEN Cardinality(Snapshot) ELSE limit
       /\ entry' = [c \in Client |-> IF c \in stale THEN None ELSE entry[c]]
       /\ age' = [c \in Client |-> IF c \in stale THEN 0 ELSE age[c]]
       /\ pending' = Snapshot \ batch
       /\ evicted' = evicted \cup stale
       /\ UNCHANGED <<queue, squeue, call, stage, gone, taking>>

Elapsed(k) ==
  IF k.at = "idle" THEN k ELSE Waiting(k, k.at, k.timeout, k.left - 1)

Tick ==
  /\ \A h \in Handler : Idle(h) \/ call[h].left > Overdue(call[h])
  /\ call' = [h \in Handler |-> Elapsed(call[h])]
  /\ age' = [c \in Client |-> IF entry[c] # None /\ age[c] <= Threshold
                              THEN age[c] + 1 ELSE age[c]]
  /\ UNCHANGED <<entry, queue, squeue, pending, stage, gone, evicted, taking>>

-------------------------------------------------------------------------------
Start(h) ==
  \/ \E c \in Client, t \in TimeoutArg : PollResponse(h, c, t)
  \/ \E s \in Service, t \in TimeoutArg : PullRequest(h, s, t)
  \/ \E c \in Client, r \in Request, t \in TimeoutArg :
       \/ \E s \in Service, b \in BlockArg : PostRequest(h, c, s, r, t, b)
       \/ PostAnswer(h, c, r, t)

\* The steps of a handler that is resumed by the event loop.
Resume(h) ==
  \/ RequestBody(h) \/ EnqueueRequest(h) \/ RequestTimeout(h)
  \/ BlockGet(h) \/ BlockTimeout(h)
  \/ PollGet(h) \/ PollTimeout(h)
  \/ PullGet(h) \/ PullTimeout(h)
  \/ AnswerBody(h) \/ EnqueueAnswer(h) \/ AnswerTimeout(h)

Next ==
  \/ \E h \in Handler : Start(h) \/ Resume(h) \/ BodyAborted(h)
  \/ \E c \in Leaver : Logoff(c)
  \/ ReaperTick
  \/ Tick

Spec == Init /\ [][Next]_vars

\* The event loop resumes what is ready to run, and time passes.  Nothing is asked
\* of clients, services or the reaper.
Fairness == WF_vars(Tick) /\ \A h \in Handler : WF_vars(Resume(h))

-------------------------------------------------------------------------------
(* Safety *)

\* A client's call waits on the entry that the registry has for that client, so
\* that a service that answers now wakes it: neither the reaper nor a second
\* get_or_create replaces an entry in the middle of a request or a poll of a
\* client that did not log off.  (The bumps of services.py:56,74 and
\* clients.py:79,86 against the reaper's test of last_seen.)
LiveCallKeepsEntry ==
  \A h \in Handler :
    /\ call[h].op \in {"request", "poll"}
    /\ call[h].client \notin gone
    => entry[call[h].client] = call[h].entry

\* The longest time until the next bump of a call's client, and the bound that
\* keeps the reaper's hands off: what makes LiveCallKeepsEntry inductive.
Budget(k) ==
  IF k.at = "body" THEN BodyMax ELSE IF k.at = "put" THEN BodyMax + MaxTimeout ELSE MaxTimeout
BusyClientIsFresh ==
  \A h \in Handler :
    /\ call[h].op \in {"request", "poll"}
    /\ call[h].client \notin gone
    => age[call[h].client] + call[h].left <= Budget(call[h])

\* Where a request or its response sits at the moment.
Places(m) ==
  {p \in Service \X (1 .. ServiceQueueMax) :
     p[2] \in DOMAIN squeue[p[1]] /\ squeue[p[1]][p[2]] = m}
  \cup
  {p \in (InUse \ {None}) \X (1 .. ClientQueueMax) :
     p[2] \in DOMAIN queue[p[1]] /\ queue[p[1]][p[2]] = m}

\* A request that was accepted is in one queue only, one that was refused (503,
\* 400, or a lost body) in none, and no registered queue holds a response of
\* another client or one that was delivered already.
OnePlace ==
  \A m \in Msg :
    /\ Cardinality(Places(m)) <= 1
    /\ stage[m] = "queued" <=> \E s \in Service : \E i \in DOMAIN squeue[s] :
                                 squeue[s][i] = m
    /\ \A c \in Registered : \A i \in DOMAIN queue[entry[c]] :
         queue[entry[c]][i] = m => m[1] = c /\ stage[m] = "ready"

\* A response that the server accepted (202) stays within its client's reach
\* until it is delivered; logoff and eviction are the only ways to lose it.
AcceptedKept ==
  \A m \in Msg :
    /\ stage[m] = "ready"
    /\ m[1] \notin gone \cup evicted
    => /\ entry[m[1]] # None
       /\ \E i \in DOMAIN queue[entry[m[1]]] : queue[entry[m[1]]][i] = m

\* The client of call h starts its next idle period with a full inactivity
\* window, on the entry that the call used.
ReturnsFresh(h) ==
  LET c == call[h].client
  IN c \notin gone => entry'[c] = call[h].entry /\ age'[c] = 0

\* So it is when a poll returns (the bump of clients.py:86, "a long block does
\* not surprise the reaper") and when a request is enqueued or refused after a
\* wait (services.py:74).
CallsReturnFresh ==
  [][\A h \in Handler :
       /\ Waits(h, "poll", "get") \/ Waits(h, "request", "put")
       /\ Idle(h)'
       => ReturnsFresh(h)]_vars

\* A block=1 call that waited for a response returns without a bump
\* (services.py:81-96), but the one of its enqueue is never older than the
\* call's timeout: at least Threshold - MaxTimeout - Lag of the window is left,
\* on the entry that the call used.
BlockLeavesWindow ==
  [][\A h \in Handler :
       LET c == call[h].client
       IN Waits(h, "request", "get") /\ Idle(h)' /\ c \notin gone
          => entry'[c] = call[h].entry /\ age'[c] <= MaxTimeout + Lag]_vars

\* A request is handed to one pull only, and to none when its client was told
\* that it is refused (503, 400, or a lost body); its response goes to one call
\* only, of its own client and of no other, and not before the request was
\* handed out.  So what one handler takes from a queue no other takes, with or
\* without waiting, whichever entries the registry dropped or made again
\* meanwhile (services.py:81-96, 134-144 and clients.py:46-51, 82-95).
HandedOutOnce ==
  \A m \in Msg :
    /\ handed[m] <= 1
    /\ stage[m] = "refused" => handed[m] = 0
    /\ \A c \in Client : delivered[c][m] <= IF c = m[1] THEN handed[m] ELSE 0

-------------------------------------------------------------------------------
(* Claims of the documentation that the code does not keep *)

\* services.py:53-55 bumps "again after so the next call has a full inactivity
\* window before the reaper can run".  A block=1 call waits once more after
\* that second bump, and returns without a third.
BlockReturnsFresh ==
  [][\A h \in Handler :
       Waits(h, "request", "get") /\ Idle(h)' => ReturnsFresh(h)]_vars

\* server-implementation-plan.md:215: a handler that races the reaper "simply
\* re-creates a fresh queue and proceeds".  A service's POST looks the entry up
\* before it awaits its body and room in the queue; when the entry is evicted
\* meanwhile and the client has a new one, the response is accepted into the
\* old one, where nobody reads.
AcceptedReachesClient ==
  [][\A h \in Handler :
       LET m == MsgOf(call[h])
       IN /\ call[h].op = "answer"
          /\ stage[m] = "answering" /\ stage'[m] = "ready"
          => entry'[m[1]] \in {None, call[h].entry}]_vars

-------------------------------------------------------------------------------
(* Liveness *)

\* Every call gets an answer, although services and clients may wait for each
\* other's full queues, and although its client may log off and its entry be
\* dropped under it: the timeouts always break the circle (services.py:63-96,
\* 132-145, clients.py:38-53, 81-96).
CallsReturn == \A h \in Handler : ~Idle(h) ~> Idle(h)
=============================================================================
