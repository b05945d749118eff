---------------------------- MODULE ClientLibrary ----------------------------
(***************************************************************************)
(* A ClientConnection of pype_client: the cache of responses that arrive out *)
(* of order, the polling loops of call and the get_* methods, their deadlines *)
(* in truncated milliseconds, and the HTTP exchanges under them, which may    *)
(* break when the server has done its part already.  The connection is used   *)
(* by one thread, so at most one method and one exchange is in progress.      *)
(*                                                                           *)
(* The local timeout of requests is for the connect and for each read: it     *)
(* starts again whenever a part of an exchange is done.  The thread may be     *)
(* held up between any two of its looks at the clock.                         *)
(*                                                                           *)
(* The server and the services are the environment: a request that a service  *)
(* queue accepted is answered into the client's queue, in any order, and more *)
(* than once when its service does not learn that it was (a lost 202); a poll *)
(* takes the head of that queue.                                             *)
(***************************************************************************)
EXTENDS Integers, Sequences, FiniteSets

CONSTANTS
  MaxRequests, \* bound of this model on the request_ids minted
  MaxStray,    \* bound of this model on waits that the client has given up
  MaxAnswers,  \* bounds of this model on the responses to each request
  MaxParts,    \* bound of this model on the parts an exchange is read or sent in
  Timeout,     \* values of the timeout argument, in ms, or None
  Buffer,      \* settings.network_buffer_ms
  Unit,        \* clock ticks in a millisecond
  Stall,       \* ticks that the thread may be held up before a look at the clock
  None

Rid == 1 .. MaxRequests

ASSUME ClientAssumption ==
  /\ MaxRequests \in Nat /\ MaxStray \in Nat
  /\ MaxAnswers \in [Rid -> Nat] /\ MaxParts \in Nat
  /\ None \notin Int /\ Timeout \subseteq Nat \cup {None}
  /\ Buffer \in Nat /\ Unit \in Nat \ {0}
  /\ Stall \in Nat

VARIABLES
  nextId,    \* _next_request_id
  closed,    \* _closed
  cache,     \* the keys of _cache; a response is known by its request_id
  op,        \* the method in progress
  http,      \* its HTTP exchange
  result,    \* history: how the last method ended, and with which responses
  work,      \* how many responses the services may yet give to a request
  box,       \* the client's queue on the server
  late,      \* POSTs that the client has given up and the server has not handled
  stray      \* polls and block=1 waits that go on in the server all the same

client == <<nextId, closed, cache, op, http, result>>
server == <<work, box, late, stray>>
vars == <<client, server>>

Time == Int \cup {None}

\* "back" and "again" are the second phase of call: before it looks at its deadline
\* again, and before get_response makes another.
\* wanted, need: the request_ids the method is after, and how many will do;
\* due: ticks to the _Deadline in use; budget: to the end of the caller's timeout.
Op == [kind : {"none", "send", "call", "back", "again", "get", "loop"},
       wanted : SUBSET Rid, need : Nat, due : Time, budget : Time]

NoOp == [kind |-> "none", wanted |-> {}, need |-> 0, due |-> None, budget |-> None]

\* at "begun", there is no exchange: the method is about to look at the clock; at
\* "connecting", the server does not have the request yet; at "waiting", a block=1
\* POST has been accepted.
\* cut: ticks to the end of the local timeout, or of the time that the thread is
\* held up; limit: the local timeout; wait: what is left of the server's.
\* spent, history: ticks the exchange had taken when its timer was started last;
\* parts: how often it was started again.
Http == [at : {"none", "begun", "connecting", "asked", "waiting", "replied"},
         what : {"none", "post", "block", "poll"}, rid : Rid \cup {None},
         status : {None, 200, 202, 204, 503}, body : Rid \cup {None}, cut : Time,
         limit : (Nat \ {0}) \cup {None}, wait : Nat \cup {None},
         spent : Nat, parts : 0 .. MaxParts]

NoHttp == [at |-> "none", what |-> "none", rid |-> None, status |-> None,
           body |-> None, cut |-> None, limit |-> None, wait |-> None,
           spent |-> 0, parts |-> 0]

NoResult == [status |-> "none", wanted |-> {}, need |-> 0, got |-> {}]

Idle == op.kind = "none"
InBox == {box[i] : i \in DOMAIN box}

\* Types; no local timeout is zero or negative, which requests rejects, and an
\* exchange is in progress, or about to be, exactly while a method is.
TypeOK ==
  /\ nextId \in 0 .. MaxRequests /\ closed \in BOOLEAN
  /\ cache \subseteq Rid
  /\ op \in Op /\ http \in Http
  /\ Idle <=> http.at = "none"
  /\ work \in [Rid -> Nat] /\ box \in Seq(Rid)
  /\ late \subseteq Rid \X {"post", "block"} /\ stray \in 0 .. MaxStray

Init ==
  /\ nextId = 0 /\ closed = FALSE /\ cache = {}
  /\ op = NoOp /\ http = NoHttp
  /\ result = NoResult
  /\ work = [r \in Rid |-> 0] /\ box = <<>> /\ late = {} /\ stray = 0

-------------------------------------------------------------------------------
(* Deadlines *)

\* Faulty variant: rounds towards minus infinity.
Floor(ticks) == ticks \div Unit

\* int(): milliseconds, truncated towards zero.
Millis(ticks) == IF ticks >= 0 THEN ticks \div Unit ELSE -((-ticks) \div Unit)

\* _Deadline.remaining_ms
Remaining(due) == IF due = None THEN None ELSE Millis(due)

\* _Deadline(t), as it is created.
Deadline(t) == IF t = None THEN None ELSE t * Unit

\* Faulty variants: no local timeout at all, and one without the buffer.
NoCut(ms) == None
CutUnbuffered(ms) == IF ms = None THEN None ELSE ms * Unit

\* http_timeout_seconds
Cut(ms) == IF ms = None THEN None ELSE (ms + Buffer) * Unit

\* requests takes no timeout that is zero or negative.
Rejected(ms) == ms # None /\ ms + Buffer <= 0

\* The ?timeout= that the server gets: call sends no negative one.
ServerTime(ms) == IF ms = None THEN None ELSE IF ms > 0 THEN ms * Unit ELSE 0

Ask(what, r, ms) ==
  [NoHttp EXCEPT !.at = "connecting", !.what = what, !.rid = r,
                 !.cut = Cut(ms), !.limit = Cut(ms), !.wait = ServerTime(ms)]

\* The deadline is about to be looked at.  Without one, time does not matter.
Begun(due) ==
  [NoHttp EXCEPT !.at = "begun", !.cut = IF due = None THEN None ELSE Stall,
                 !.spent = http.spent]

(* The ends of a method *)

End(k, status, got) ==
  /\ op' = NoOp /\ http' = NoHttp
  /\ result' = [status |-> status, wanted |-> k.wanted, need |-> k.need, got |-> got]

Return(k, got) == End(k, "ok", got)
Raise(k, error) == End(k, error, {})

(* The steps of a method that does not end *)

Begin(k) == op' = k /\ http' = Begun(k.due) /\ result' = NoResult

\* call of _http.py, up to the answer.
Attempt(k, what, r, ms) ==
  \/ Rejected(ms) /\ Raise(k, "invalid")
  \/ /\ ~Rejected(ms)
     /\ op' = k /\ http' = Ask(what, r, ms)
     /\ result' = NoResult

-------------------------------------------------------------------------------
(* The polling loops *)

\* The deadline has not gone negative, if there is one.
InTime(due) == due # None => Millis(due) >= 0

GetOp(r, due, budget) ==
  [kind |-> "get", wanted |-> {r}, need |-> 1, due |-> due, budget |-> budget]

\* Faulty variant: get_response does not look into the cache.
BeginGetUncached(r, due, budget) == UNCHANGED cache /\ Begin(GetOp(r, due, budget))

\* get_response: from the cache, or by the first poll.
BeginGet(r, due, budget) ==
  \/ /\ r \in cache
     /\ cache' = cache \ {r}
     /\ Return(GetOp(r, due, budget), {r})
  \/ /\ r \notin cache
     /\ UNCHANGED cache
     /\ Begin(GetOp(r, due, budget))

\* Faulty variant: one response less than is needed will do.
DoneEarly(k, c) == Cardinality(k.wanted \cap c) + 1 >= k.need

\* is_done of get_any_responses, get_all_responses and get_response_quorum.
Done(k, c) == Cardinality(k.wanted \cap c) >= k.need

\* _pop_matching
FinishLoop(k, c) == cache' = c \ k.wanted /\ Return(k, k.wanted \cap c)

\* _loop_until, with the cache c: at its start, and after each response.
Loop(k, c) ==
  \/ Done(k, c) /\ FinishLoop(k, c)
  \/ ~Done(k, c) /\ cache' = c /\ Begin(k)

-------------------------------------------------------------------------------
(* The methods *)

Ready == Idle /\ ~closed
Minted == 1 .. nextId

\* _mint_request_id
NewId == nextId + 1

\* send_request: one exchange, and no deadline of its own.
SendRequest(t) ==
  /\ Ready /\ nextId < MaxRequests
  /\ nextId' = NewId
  /\ Attempt([kind |-> "send", wanted |-> {NewId}, need |-> 0, due |-> None,
              budget |-> Deadline(t)], "post", NewId, t)
  /\ UNCHANGED <<closed, cache, server>>

\* call, up to the creation of its deadline
CallService(t) ==
  /\ Ready /\ nextId < MaxRequests
  /\ nextId' = NewId
  /\ Begin([kind |-> "call", wanted |-> {NewId}, need |-> 1,
            due |-> Deadline(t), budget |-> Deadline(t)])
  /\ UNCHANGED <<closed, cache, server>>

GetResponse(r, t) ==
  /\ Ready
  /\ BeginGet(r, Deadline(t), Deadline(t))
  /\ UNCHANGED <<nextId, closed, server>>

GetResponses(wanted, need, t) ==
  /\ Ready
  /\ Loop([kind |-> "loop", wanted |-> wanted, need |-> need,
           due |-> Deadline(t), budget |-> Deadline(t)], cache)
  /\ UNCHANGED <<nextId, closed, server>>

GetAnyResponses(wanted, t) == GetResponses(wanted, 1, t)
GetAllResponses(wanted, t) == GetResponses(wanted, Cardinality(wanted), t)

\* The quorum is compared with the number of arguments, which may name a
\* request_id twice; at most one of them does here.
GetResponseQuorum(quorum, wanted, t) ==
  /\ quorum <= Cardinality(wanted) + 1
  /\ GetResponses(wanted, quorum, t)

\* close: the logoff may fail, which nobody is told.
Close ==
  /\ Ready
  /\ closed' = TRUE
  /\ box' \in {<<>>, box}
  /\ UNCHANGED <<nextId, cache, op, http, result,
                 work, late, stray>>

-------------------------------------------------------------------------------
(* What a method does when it has looked at the clock *)

AboutTo(kind) == http.at = "begun" /\ op.kind = kind

\* The block=1 POST of call.  The time that is left may be negative already.
PostBlocking ==
  /\ AboutTo("call")
  /\ \E r \in op.wanted : Attempt(op, "block", r, Remaining(op.due))
  /\ UNCHANGED <<nextId, closed, cache, server>>

\* _poll_one, up to its HTTP call.
PollOne ==
  /\ AboutTo("get") \/ AboutTo("loop")
  /\ \/ ~InTime(op.due) /\ Raise(op, "elapsed")
     \/ InTime(op.due) /\ Attempt(op, "poll", None, Remaining(op.due))
  /\ UNCHANGED <<nextId, closed, cache, server>>

\* Faulty variant: the second phase of call gets a whole timeout again.
WholeTimeout(ms) ==
  IF ms = None THEN None ELSE CHOOSE t \in Timeout \ {None} : \A u \in Timeout \ {None} : u <= t

\* The timeout of the get_response in call, when ms remain.
FallbackTimeout(ms) == ms

\* Phase 2 of call: get_response with what remains of the time.
FallBack ==
  /\ AboutTo("back")
  /\ \/ ~InTime(op.due) /\ Raise(op, "elapsed")
     \/ /\ InTime(op.due)
        /\ Begin([op EXCEPT !.kind = "again",
                            !.due = Deadline(FallbackTimeout(Remaining(op.due)))])
  /\ UNCHANGED <<nextId, closed, cache, server>>

FallBackGet ==
  /\ AboutTo("again")
  /\ \E r \in op.wanted : BeginGet(r, op.due, op.budget)
  /\ UNCHANGED <<nextId, closed, server>>

Look == PostBlocking \/ PollOne \/ FallBack \/ FallBackGet

-------------------------------------------------------------------------------
(* What a method does with a reply *)

Replied(kind) == http.at = "replied" /\ op.kind = kind

\* The rest of send_request: 202, or 503.
SendReturns ==
  /\ Replied("send")
  /\ \/ http.status = 202 /\ Return(op, {})
     \/ http.status = 503 /\ Raise(op, "full")
  /\ UNCHANGED <<nextId, closed, cache, server>>

IsOwn(body) == body \in op.wanted

\* Faulty variant: responses of other requests are not cached.
CachedNot(c, body) == c

Cached(c, body) == c \cup {body}

\* The reply to the POST of call: its own response (200), another one that is
\* cached (200), or none yet (202).
CallReturns ==
  /\ Replied("call")
  /\ \/ http.status = 503 /\ Raise(op, "full") /\ UNCHANGED cache
     \/ /\ http.status = 200 /\ IsOwn(http.body)
        /\ Return(op, {http.body}) /\ UNCHANGED cache
     \/ /\ http.status = 200 /\ ~IsOwn(http.body)
        /\ cache' = Cached(cache, http.body)
        /\ Begin([op EXCEPT !.kind = "back"])
     \/ /\ http.status = 202
        /\ Begin([op EXCEPT !.kind = "back"])
        /\ UNCHANGED cache
  /\ UNCHANGED <<nextId, closed, server>>

\* Faulty variant: a 204 is the end even without a deadline.
AlwaysGivesUp == TRUE

\* The server's 204 is the end of a method with a finite timeout.
GivesUp == op.due # None

\* No response (204): give up, or poll again.
NoResponse ==
  /\ http.status = 204
  /\ \/ GivesUp /\ Raise(op, "empty")
     \/ ~GivesUp /\ Begin(op)
  /\ UNCHANGED cache

\* get_response after a poll.
GetReturns ==
  /\ Replied("get")
  /\ \/ NoResponse
     \/ /\ http.status = 200 /\ IsOwn(http.body)
        /\ Return(op, {http.body}) /\ UNCHANGED cache
     \/ /\ http.status = 200 /\ ~IsOwn(http.body)
        /\ cache' = Cached(cache, http.body)
        /\ Begin(op)
  /\ UNCHANGED <<nextId, closed, server>>

\* _loop_until after a poll.
LoopReturns ==
  /\ Replied("loop")
  /\ \/ NoResponse
     \/ http.status = 200 /\ Loop(op, Cached(cache, http.body))
  /\ UNCHANGED <<nextId, closed, server>>

Receive == SendReturns \/ CallReturns \/ GetReturns \/ LoopReturns

\* The exchange breaks: a local timeout, an error of the network, or a status that
\* raise_for_status rejects.  A reply on its way is lost with what it carries; a
\* handler in the server goes on, if the server had the request.
Break ==
  /\ http.at \in {"connecting", "asked", "waiting", "replied"}
  /\ Raise(op, "broken")
  /\ late' = IF http.at = "asked" /\ http.what # "poll"
             THEN late \cup {<<http.rid, http.what>>} ELSE late
  /\ stray' = IF /\ http.at = "waiting" \/ (http.at = "asked" /\ http.what = "poll")
                 /\ stray < MaxStray
              THEN stray + 1 ELSE stray
  /\ UNCHANGED <<nextId, closed, cache, work, box>>

-------------------------------------------------------------------------------
(* The network, the server and the services *)

restOfClient == <<nextId, closed, cache, op, result>>

\* Ticks since the timer of the exchange was started.
SinceStart == IF http.limit = None THEN 0 ELSE http.limit - http.cut

\* A connect, a send or a read is done, and the local timeout starts again.
Restarted ==
  [http EXCEPT !.cut = http.limit, !.spent = http.spent + SinceStart]

\* The server has the request, over a connection that was kept or made for it.
Connected ==
  /\ http.at = "connecting"
  /\ http' = [Restarted EXCEPT !.at = "asked"]
  /\ UNCHANGED <<restOfClient, server>>

\* A part of the request was sent, or of the reply read, or the thread is late with
\* its next read.
Progress ==
  /\ http.at \in {"connecting", "asked", "waiting", "replied"}
  /\ SinceStart > 0 /\ http.parts < MaxParts
  /\ http' = [Restarted EXCEPT !.parts = http.parts + 1]
  /\ UNCHANGED <<restOfClient, server>>

Reply(status, body) ==
  http' = [http EXCEPT !.at = "replied", !.status = status, !.body = body,
                       !.wait = None]

\* The time that the server was given is over; without a timeout, its maximum is.
ServerTimeOver == http.wait \in {0, None}

\* POST: accepted (202), or the service queue stayed full (503).
ServePost ==
  /\ http.at = "asked" /\ http.what \in {"post", "block"}
  /\ \/ ServerTimeOver /\ Reply(503, None) /\ UNCHANGED work
     \/ /\ work' = [work EXCEPT ![http.rid] = MaxAnswers[http.rid]]
        /\ IF http.what = "post" THEN Reply(202, None)
                                 ELSE http' = [http EXCEPT !.at = "waiting"]
  /\ UNCHANGED <<restOfClient, box, late, stray>>

\* The wait of a block=1 POST, or a poll: the head of the queue, or nothing.
ServeWait ==
  /\ http.at = "waiting" \/ (http.at = "asked" /\ http.what = "poll")
  /\ \/ /\ box # <<>>
        /\ Reply(200, Head(box))
        /\ box' = Tail(box)
     \/ /\ box = <<>> /\ ServerTimeOver
        /\ Reply(IF http.what = "block" THEN 202 ELSE 204, None)
        /\ UNCHANGED box
  /\ UNCHANGED <<restOfClient, work, late, stray>>

\* A POST that nobody waits for any more: accepted, or refused.
ServeLate ==
  \E m \in late :
    /\ late' = late \ {m}
    /\ work' \in {work, [work EXCEPT ![m[1]] = MaxAnswers[m[1]]]}
    /\ stray' = IF /\ m[2] = "block" /\ work' # work /\ stray < MaxStray
                THEN stray + 1 ELSE stray
    /\ UNCHANGED <<client, box>>

\* A wait that nobody is interested in: it takes a response, or ends.
ServeStray ==
  /\ stray > 0 /\ stray' = stray - 1
  /\ \/ box # <<>> /\ box' = Tail(box)
     \/ UNCHANGED box
  /\ UNCHANGED <<client, work, late>>

\* A service responds to request r.  When it gets no 202, although the response is in
\* the queue, it may respond once more; otherwise it is done with the request.
Answer(r) ==
  /\ work[r] > 0
  /\ \E more \in {0, work[r] - 1} : work' = [work EXCEPT ![r] = more]
  /\ box' = Append(box, r)
  /\ UNCHANGED <<client, late, stray>>

Before(t) == IF t = None THEN None ELSE t - 1

\* Time passes.  The local timeout ends the exchange in time; a deadline that is not
\* created yet does not come closer, nor does the server's before it is asked.
Tick ==
  /\ ~Idle /\ http.cut # None /\ http.cut > 0
  /\ op' = [op EXCEPT !.due = IF op.kind = "again" THEN @ ELSE Before(@),
                      !.budget = Before(@)]
  /\ http' = [http EXCEPT !.cut = Before(@),
                          !.wait = IF http.at = "connecting" \/ ServerTimeOver
                                   THEN @ ELSE @ - 1]
  /\ UNCHANGED <<nextId, closed, cache, result, server>>

-------------------------------------------------------------------------------
Start ==
  \/ \E t \in Timeout :
       \/ SendRequest(t) \/ CallService(t)
       \/ \E r \in Minted : GetResponse(r, t)
       \/ \E wanted \in SUBSET Minted \ {{}} :
            \/ GetAnyResponses(wanted, t) \/ GetAllResponses(wanted, t)
            \/ \E quorum \in 1 .. MaxRequests + 1 : GetResponseQuorum(quorum, wanted, t)
  \/ Close

Serve == ServePost \/ ServeWait

Next ==
  \/ Start \/ Look \/ Receive \/ Break \/ Tick \/ Connected \/ Progress
  \/ Serve \/ ServeLate \/ ServeStray \/ \E r \in Rid : Answer(r)

Spec == Init /\ [][Next]_vars

\* The client runs, and time passes up to the local timeout, which breaks the
\* exchange.  Nothing is assumed of the server here.
FairSpec ==
  /\ Spec
  /\ WF_vars(Look) /\ WF_vars(Receive) /\ WF_vars(Tick)
  /\ WF_vars(http.cut = 0 /\ Break)

\* A server that gets what is sent and handles it, and services that answer.
ServerRuns ==
  WF_vars(Connected) /\ WF_vars(Serve) /\ \A r \in Rid : WF_vars(Answer(r))

-------------------------------------------------------------------------------
(* Safety *)

\* The response that the client reads in this step, and those that it returns.
Arrived ==
  IF http.at = "replied" /\ http'.at # "replied" /\ result'.status # "broken"
  THEN {http.body} \ {None} ELSE {}
Returned == IF result' # result THEN result'.got ELSE {}

\* Nothing that the client has read is dropped or returned twice: what is in the
\* cache, or arrives, is in the cache afterwards or returned, never both, and nothing
\* else is (the loops keep responses they were not waiting for, pype_client.py:220,
\* 261,332, and those that came before a timeout).  A second response to the same
\* request, which a service that missed its 202 may give, takes the place of the
\* first one in the cache, and is a response of its own when that was returned.
ReceivedKept ==
  [][/\ cache' \cup Returned = cache \cup Arrived
     /\ cache' \cap Returned = {}]_vars

\* A method polls only for what it does not have: no response that is in the cache
\* already is waited for (pype_client.py:246,322,333).
WaitsForMissing ==
  /\ op.kind = "get" => op.wanted \cap cache = {}
  /\ op.kind = "loop" => Cardinality(op.wanted \cap cache) < op.need

\* A method that returns responses returns at least as many of those asked for as
\* were needed, no others (those of requests that the client has given up, or second
\* responses, turn up in any poll), and leaves none of them behind in the cache.
ReturnsAsked ==
  [][result' # result /\ result'.status = "ok" =>
       /\ result'.got \subseteq result'.wanted
       /\ Cardinality(result'.got) >= result'.need
       /\ result'.need > 0 => result'.wanted \cap cache' = {}]_vars

\* A get_* method does not give up with a millisecond or more of its time left: a
\* 204 means that the budget is up (the comment at pype_client.py:255).
PatientUntilDeadline ==
  [][op.kind \in {"get", "loop"} /\ Idle' /\ result'.status \in {"elapsed", "empty"}
     => op.due # None /\ op.due < Unit]_vars

\* A method reports that its local deadline has elapsed a whole millisecond after it
\* at the earliest, and never before the caller's timeout is over, although call
\* makes a second deadline of a truncated rest (pype_client.py:228-233,341,434).  So
\* a timeout of 0 is good for its one poll, unless the thread is held up for a
\* millisecond between the deadline's creation and the first look at it.
ElapsedWhenOver ==
  [][~Idle /\ Idle' /\ result'.status = "elapsed"
     => op.due <= -Unit /\ op.budget < 0]_vars

\* No method outlasts its timeout by more than the network buffer, what two
\* truncations to milliseconds add, and the pauses of its own thread: one before the
\* second deadline of call is created, one after the last exchange.  As requests
\* times each connect and read, the time that counts for an exchange is the one since
\* its timer was last started; what went before is in "spent".
DeadlineKept ==
  op.budget # None =>
    op.budget + http.spent >= -(Buffer * Unit) - 2 * (Unit - 1) - 2 * Stall

\* pype_client.py:297: get_response_quorum returns "when at least `quorum` of
\* `*request_ids` are available".  With a request_id named twice, a quorum that
\* the check at :302 lets pass is not reached when all of them are available.
QuorumReturns == op.kind = "loop" => ~(op.wanted \subseteq cache)

-------------------------------------------------------------------------------
(* Liveness *)

\* The responses that a method may still get.
Attainable ==
  op.wanted \cap (cache \cup {r \in Rid : work[r] > 0} \cup InBox \cup {http.body})

\* A get_* method without a timeout returns if what it needs can be had, whatever
\* else arrives in between; only waits that were given up before may take it away.
PatientGets ==
  LET Hopeful == /\ op.kind \in {"get", "loop"}
                 /\ Cardinality(Attainable) >= op.need
  IN ServerRuns => (Hopeful ~> ~Hopeful)

\* Every method with a timeout ends, although the network and the server may not
\* let it know of anything, as long as a reply does not come in ever more parts.
TimedMethodsEnd == op.budget # None ~> Idle
=============================================================================
