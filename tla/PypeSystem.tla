------------------------------ MODULE PypeSystem ------------------------------
(***************************************************************************)
(* A deployment of pype: client and service connections, the HTTP exchanges  *)
(* of their sessions, and instances of the server behind a proxy that routes *)
(* by the X-Pype-Server-IP header.  Exchanges break, instances crash and      *)
(* start again with empty registries, idle clients are evicted.              *)
(*                                                                           *)
(* A connection has one exchange at a time.  The server handles a call in    *)
(* one step, at any time while the exchange lasts, so that a wait for a       *)
(* message or for room is the time before that step (PypeServer has the       *)
(* steps of a handler); a block=1 call takes two.  An exchange that breaks    *)
(* for its caller may live on in the server.                                 *)
(***************************************************************************)
EXTENDS Integers, Sequences, FiniteSets

CONSTANTS
  Client,          \* client connections, each with the client_id it is given
  Worker,          \* service connections
  Service,         \* service names
  Serves,          \* worker -> the service_name of its auth_request
  Instance,        \* pype server instances
  Found,           \* instance -> the addresses that its host looks up for itself
  Private,         \* addresses within _RFC_1918_NETWORKS
  Loopback,        \* "127.0.0.1"
  ClientQueueMax,  \* settings.client_queue_max_size
  ServiceQueueMax, \* settings.service_queue_max_size
  MaxRequests,     \* bound of this model on the requests of a client
  MaxMishaps,      \* bound of this model on mishaps: broken exchanges, crashes,
                   \* evictions, forgotten requests, misdirected calls, closings
  Ghost,           \* room for exchanges whose caller has given up
  None

Caller == Client \cup Worker
Line == Caller \cup Ghost
Msg == [client : Client, id : 1 .. MaxRequests, service : Service]

ASSUME SystemAssumption ==
  /\ Client \cap Worker = {} /\ Caller \cap Ghost = {} /\ Client \cap Service = {}
  /\ Serves \in [Worker -> Service]
  /\ ClientQueueMax \in Nat \ {0} /\ ServiceQueueMax \in Nat \ {0}
  /\ MaxRequests \in Nat /\ MaxMishaps \in Nat
  /\ None \notin Client \cup Service \cup Nat

-------------------------------------------------------------------------------
(* Addresses and tokens *)

\* detect_internal_ip: the first private address, or else the loopback address.
InternalIp(i) ==
  LET found == SelectSeq(Found[i], LAMBDA a : a \in Private)
  IN  IF found = <<>> THEN Loopback ELSE Head(found)

(***************************************************************************)
(* Sticky routing needs instances that advertise different addresses: at     *)
(* most one may have no private address and fall back to the loopback one.   *)
(***************************************************************************)
ASSUME AddressAssumption ==
  /\ None \notin {InternalIp(i) : i \in Instance}
  /\ \A i, j \in Instance : InternalIp(i) = InternalIp(j) => i = j

\* The claims of a signed token; a client's are its client_id.
Token == [role : {"client"}, name : Client] \cup [role : {"service"}, name : Service]

RoleOf(op) == IF op \in {"pull", "answer"} THEN "service" ELSE "client"

\* The status with which the dependencies and checks of an endpoint refuse the
\* call x, 200 if they let it pass: role, then name or client_id against the path.
Verdict(x) ==
  IF x.op = "auth" THEN 200
  ELSE IF x.token.role # RoleOf(x.op) THEN 400
  ELSE IF x.op = "pull" /\ x.token.name # x.path THEN 400
  ELSE IF x.op = "poll" /\ x.token.name # x.path THEN 403
  ELSE 200

VARIABLES
  up,       \* the instances that run
  squeue,   \* instance -> ServiceRegistry._queues
  box,      \* instance -> the queues in ClientRegistry._entries
  crashes,  \* instance -> how often it crashed
  session,  \* caller -> the headers of its session, and whether it is open
  exch,     \* line -> the HTTP exchange on it
  minted,   \* client -> _next_request_id
  held,     \* caller -> requests it has pulled and not answered
  accepted, \* history: request -> crashes of its instance when it was queued
  ran,      \* history: request -> callers that it was handed to
  got,      \* history: caller -> request -> how many responses to it came
  mishaps,  \* how many there have been
  faults    \* history: which connection was cut, was idle, forgot a request

server == <<up, squeue, box, crashes, accepted>>
caller == <<session, minted, held, ran, got>>
fault == <<mishaps, faults>>
vars == <<server, caller, exch, fault>>

\* f has one registry per instance: queues for some of the names, of at most max.
Registries(f, names, max) ==
  /\ f = [i \in Instance |-> f[i]]
  /\ \A i \in Instance :
       /\ DOMAIN f[i] \subseteq names /\ f[i] \in [DOMAIN f[i] -> Seq(Msg)]
       /\ \A n \in DOMAIN f[i] : Len(f[i][n]) <= max

Address == {InternalIp(i) : i \in Instance}
Op == {"none", "auth", "post", "call", "wait", "poll", "pull", "answer", "logoff"}

\* None until there is a reply, 0 for a network error.
Status == {None, 0, 200, 202, 204, 400, 403, 503}

Exchange == [op : Op, path : Client \cup Service \cup {None},
             token : Token \cup {None}, pin : Address \cup {None},
             msg : Msg \cup {None}, status : Status]
NoExchange == [op |-> "none", path |-> None, token |-> None, pin |-> None,
               msg |-> None, status |-> None]

Session == [token : Token \cup {None}, pin : Address \cup {None}, open : BOOLEAN]
NoSession == [token |-> None, pin |-> None, open |-> FALSE]

TypeOK ==
  /\ up \subseteq Instance
  /\ Registries(squeue, Service, ServiceQueueMax) /\ Registries(box, Client, ClientQueueMax)
  /\ crashes \in [Instance -> Nat]
  /\ session \in [Caller -> Session]
  /\ exch \in [Line -> Exchange]
  /\ minted \in [Client -> 0 .. MaxRequests]
  /\ held \in [Caller -> SUBSET Msg]
  /\ accepted \in [Msg -> Nat \cup {None}]
  /\ ran \in [Msg -> Seq(Caller)]
  /\ got \in [Caller -> [Msg -> Nat]]
  /\ mishaps \in 0 .. MaxMishaps
  /\ faults \subseteq {"cut", "idle", "dropped"} \X Caller

Empty == [n \in {} |-> <<>>]

Init ==
  /\ up = Instance
  /\ squeue = [i \in Instance |-> Empty] /\ box = [i \in Instance |-> Empty]
  /\ crashes = [i \in Instance |-> 0]
  /\ session = [a \in Caller |-> NoSession]
  /\ exch = [l \in Line |-> NoExchange]
  /\ minted = [c \in Client |-> 0]
  /\ held = [a \in Caller |-> {}]
  /\ accepted = [m \in Msg |-> None]
  /\ ran = [m \in Msg |-> <<>>]
  /\ got = [a \in Caller |-> [m \in Msg |-> 0]]
  /\ mishaps = 0 /\ faults = {}

Mishap == mishaps < MaxMishaps /\ mishaps' = mishaps + 1

\* A mishap that is put down to connection a.
Fault(kind, a) == Mishap /\ faults' = faults \cup {<<kind, a>>}

-------------------------------------------------------------------------------
(* Connections *)

Ask(a, op, path, m) ==
  /\ exch[a] = NoExchange
  /\ exch' = [exch EXCEPT ![a] =
       [op |-> op, path |-> path, token |-> session[a].token,
        pin |-> session[a].pin, msg |-> m, status |-> None]]

Open(a) == session[a].open

Name(a) == IF a \in Client THEN a ELSE Serves[a]

\* PypeClient.authenticate and ServiceClient.authenticate, until their call.
Authenticate(a) ==
  /\ session[a] = NoSession
  /\ Ask(a, "auth", Name(a), None)
  /\ UNCHANGED <<server, caller, fault>>

\* send_request and call; the request_id is fresh whether or not they succeed.
SendRequest(c) ==
  /\ Open(c) /\ minted[c] < MaxRequests
  /\ minted' = [minted EXCEPT ![c] = @ + 1]
  /\ \E op \in {"post", "call"}, s \in Service :
       Ask(c, op, s, [client |-> c, id |-> minted[c] + 1, service |-> s])
  /\ UNCHANGED <<server, session, held, ran, got, fault>>

PollOne(c) ==
  /\ Open(c) /\ Ask(c, "poll", c, None)
  /\ UNCHANGED <<server, caller, fault>>

GetRequest(w) ==
  /\ Open(w) /\ Ask(w, "pull", Serves[w], None)
  /\ UNCHANGED <<server, caller, fault>>

\* ClientRequest.send_response; nothing keeps the service from a second try.
SendResponse(w, m) ==
  /\ Open(w) /\ m \in held[w]
  /\ Ask(w, "answer", m.client, m)
  /\ UNCHANGED <<server, caller, fault>>

\* The service forgets a request it has pulled.
Drop(w) ==
  /\ \E m \in held[w] : held' = [held EXCEPT ![w] = @ \ {m}]
  /\ Fault("dropped", w)
  /\ UNCHANGED <<server, session, minted, ran, got, exch>>

\* A raw GET through the session of a connection, for any path.
Stray(a) ==
  /\ Open(a) /\ Mishap
  /\ \/ \E c \in Client : Ask(a, "poll", c, None)
     \/ \E s \in Service : Ask(a, "pull", s, None)
  /\ UNCHANGED <<server, caller, faults>>

\* close: a client's is a best-effort logoff, a service's a local matter.
Close(a) ==
  /\ Open(a) /\ Mishap
  /\ session' = [session EXCEPT ![a].open = FALSE]
  /\ IF a \in Client THEN Ask(a, "logoff", None, None)
     ELSE exch[a] = NoExchange /\ UNCHANGED exch
  /\ UNCHANGED <<server, minted, held, ran, got, faults>>

Got(x, ops) == x.op \in ops /\ x.status = 200

\* Faulty variant: service connections do not echo the server's address.
UnpinnedHeaders(a, x) ==
  [token |-> x.token, pin |-> IF a \in Worker THEN None ELSE x.pin, open |-> TRUE]

\* The headers of the session, from the reply to its authentication.
Headers(a, x) == [token |-> x.token, pin |-> x.pin, open |-> TRUE]

\* The caller gets the reply; any status it does not expect raises an error,
\* after which the connection can be used as before.
Receive(a) ==
  LET x == exch[a] IN
  /\ x.status # None
  /\ exch' = [exch EXCEPT ![a] = NoExchange]
  /\ session' = IF Got(x, {"auth"}) THEN [session EXCEPT ![a] = Headers(a, x)] ELSE session
  /\ got' = IF Got(x, {"poll", "wait"}) THEN [got EXCEPT ![a][x.msg] = @ + 1] ELSE got
  /\ ran' = IF Got(x, {"pull"}) THEN [ran EXCEPT ![x.msg] = Append(@, a)] ELSE ran
  /\ held' = IF Got(x, {"pull"}) THEN [held EXCEPT ![a] = @ \cup {x.msg}]
             ELSE IF x.op = "answer" /\ x.status = 202 THEN [held EXCEPT ![a] = @ \ {x.msg}]
             ELSE held
  /\ UNCHANGED <<server, minted, fault>>

-------------------------------------------------------------------------------
(* The server *)

\* The proxy: a header leads to the instance it names, no header to any.
Routed(x, i) == i \in up /\ x.pin \in {None, InternalIp(i)}

\* Line l has a call for instance i that has passed the checks of its endpoint.
At(l, i, op) ==
  /\ exch[l].op = op /\ exch[l].status = None
  /\ Routed(exch[l], i) /\ Verdict(exch[l]) = 200

\* A reply that nobody waits for is lost.
Reply(l, x) == exch' = [exch EXCEPT ![l] = IF l \in Caller THEN x ELSE NoExchange]
ReplyWith(l, status, m) == Reply(l, [exch[l] EXCEPT !.status = status, !.msg = m])

\* Faulty variant: a queue that does not exist yet is not created.
ExistingOnly(f, n) == f

\* Faulty variant: a new queue on every call.
AlwaysCreate(f, n) == [k \in DOMAIN f \cup {n} |-> IF k # n THEN f[k] ELSE <<>>]

\* get_or_create of both registries.
GetOrCreate(f, n) == [k \in DOMAIN f \cup {n} |-> IF k \in DOMAIN f THEN f[k] ELSE <<>>]

Has(f, n) == n \in DOMAIN f /\ f[n] # <<>>

\* Faulty variant: a queue that gives the newest message first.
PutInFront(f, n, m) == [GetOrCreate(f, n) EXCEPT ![n] = <<m>> \o @]

Put(f, n, m) == [GetOrCreate(f, n) EXCEPT ![n] = Append(@, m)]
Take(f, n) == [f EXCEPT ![n] = Tail(@)]

\* Faulty variant: one message too many.
IsOverfull(f, n, max) == n \in DOMAIN f /\ Len(f[n]) > max

IsFull(f, n, max) == n \in DOMAIN f /\ Len(f[n]) >= max

Deny(l, i) ==
  /\ exch[l].op # "none" /\ exch[l].status = None /\ Routed(exch[l], i)
  /\ Verdict(exch[l]) # 200
  /\ ReplyWith(l, Verdict(exch[l]), None)
  /\ UNCHANGED <<server, caller, fault>>

\* issue_client_jwt or issue_service_jwt, and the address of this instance.
Issue(l, i, role) ==
  Reply(l, [exch[l] EXCEPT !.status = 200, !.pin = InternalIp(i),
                           !.token = [role |-> role, name |-> exch[l].path]])

ServiceAuth(l, i) ==
  /\ At(l, i, "auth") /\ exch[l].path \in Service
  /\ squeue' = [squeue EXCEPT ![i] = GetOrCreate(@, exch[l].path)]
  /\ Issue(l, i, "service")
  /\ UNCHANGED <<up, box, crashes, accepted, caller, fault>>

\* No entry is registered: the client's queue is created on first use.
ClientAuth(l, i) ==
  /\ At(l, i, "auth") /\ exch[l].path \in Client
  /\ Issue(l, i, "client")
  /\ UNCHANGED <<server, caller, fault>>

\* A block=1 call that is accepted goes on as a wait on the client's queue.
PostRequest(l, i) ==
  LET x == exch[l] IN
  /\ At(l, i, "post") \/ At(l, i, "call")
  /\ box' = [box EXCEPT ![i] = GetOrCreate(@, x.token.name)]
  /\ \/ /\ ~IsFull(squeue[i], x.path, ServiceQueueMax)
        /\ squeue' = [squeue EXCEPT ![i] = Put(@, x.path, x.msg)]
        /\ accepted' = [accepted EXCEPT ![x.msg] = crashes[i]]
        /\ IF x.op = "post" THEN ReplyWith(l, 202, None)
           ELSE exch' = [exch EXCEPT ![l].op = "wait", ![l].msg = None]
     \/ /\ IsFull(squeue[i], x.path, ServiceQueueMax)
        /\ ReplyWith(l, 503, None)
        /\ UNCHANGED <<squeue, accepted>>
  /\ UNCHANGED <<up, crashes, caller, fault>>

PollResponse(l, i) ==
  LET c == exch[l].path IN
  /\ At(l, i, "poll")
  /\ IF Has(box[i], c) THEN /\ box' = [box EXCEPT ![i] = Take(@, c)]
                            /\ ReplyWith(l, 200, Head(box[i][c]))
     ELSE /\ box' = [box EXCEPT ![i] = GetOrCreate(@, c)]
          /\ ReplyWith(l, 204, None)
  /\ UNCHANGED <<up, squeue, crashes, accepted, caller, fault>>

\* Faulty variant: the response stays in the queue for the next poll.
BlockPeek(l, i) ==
  LET c == exch[l].token.name IN
  /\ At(l, i, "wait")
  /\ IF Has(box[i], c) THEN ReplyWith(l, 200, Head(box[i][c])) ELSE ReplyWith(l, 202, None)
  /\ UNCHANGED <<server, caller, fault>>

BlockWait(l, i) ==
  LET c == exch[l].token.name IN
  /\ At(l, i, "wait")
  /\ IF Has(box[i], c) THEN /\ box' = [box EXCEPT ![i] = Take(@, c)]
                            /\ ReplyWith(l, 200, Head(box[i][c]))
     ELSE ReplyWith(l, 202, None) /\ UNCHANGED box
  /\ UNCHANGED <<up, squeue, crashes, accepted, caller, fault>>

PullRequest(l, i) ==
  LET s == exch[l].path IN
  /\ At(l, i, "pull")
  /\ IF Has(squeue[i], s) THEN /\ squeue' = [squeue EXCEPT ![i] = Take(@, s)]
                               /\ ReplyWith(l, 200, Head(squeue[i][s]))
     ELSE /\ squeue' = [squeue EXCEPT ![i] = GetOrCreate(@, s)]
          /\ ReplyWith(l, 204, None)
  /\ UNCHANGED <<up, box, crashes, accepted, caller, fault>>

\* Faulty variant: the response stays in the queue although it is refused.
PostRefused(l, i) ==
  LET x == exch[l] IN
  /\ At(l, i, "answer")
  /\ box' = [box EXCEPT ![i] = Put(@, x.path, x.msg)]
  /\ ReplyWith(l, IF IsFull(box[i], x.path, ClientQueueMax) THEN 503 ELSE 202, x.msg)
  /\ UNCHANGED <<up, squeue, crashes, accepted, caller, fault>>

\* Faulty variant: the response to a client without a queue is let go.
PostIfKnown(l, i) ==
  LET x == exch[l] IN
  /\ At(l, i, "answer")
  /\ IF x.path \in DOMAIN box[i] /\ IsFull(box[i], x.path, ClientQueueMax)
     THEN ReplyWith(l, 503, x.msg) /\ UNCHANGED box
     ELSE /\ box' = IF x.path \in DOMAIN box[i]
                    THEN [box EXCEPT ![i] = Put(@, x.path, x.msg)] ELSE box
          /\ ReplyWith(l, 202, x.msg)
  /\ UNCHANGED <<up, squeue, crashes, accepted, caller, fault>>

\* The reply keeps the request it is about, for the service to remember.
PostResponse(l, i) ==
  LET x == exch[l] IN
  /\ At(l, i, "answer")
  /\ IF IsFull(box[i], x.path, ClientQueueMax)
     THEN ReplyWith(l, 503, x.msg) /\ UNCHANGED box
     ELSE /\ box' = [box EXCEPT ![i] = Put(@, x.path, x.msg)]
          /\ ReplyWith(l, 202, x.msg)
  /\ UNCHANGED <<up, squeue, crashes, accepted, caller, fault>>

Without(f, n) == [k \in DOMAIN f \ {n} |-> f[k]]

Logoff(l, i) ==
  /\ At(l, i, "logoff")
  /\ box' = [box EXCEPT ![i] = Without(@, exch[l].token.name)]
  /\ ReplyWith(l, 200, None)
  /\ UNCHANGED <<up, squeue, crashes, accepted, caller, fault>>

\* The reaper removes a client of which no call is in progress (see PypeServer).
Evict(c, i) ==
  /\ i \in up /\ c \in DOMAIN box[i]
  /\ \A l \in Line : exch[l].token # [role |-> "client", name |-> c]
  /\ box' = [box EXCEPT ![i] = Without(@, c)]
  /\ Fault("idle", c)
  /\ UNCHANGED <<up, squeue, crashes, accepted, caller, exch>>

-------------------------------------------------------------------------------
(* Failures *)

Failed(x) == [x EXCEPT !.status = 0, !.msg = None]

\* Faulty variant: the library sends the call again.
BreakAndRetry(a) ==
  /\ exch[a].op # "none" /\ exch[a].status = None /\ Fault("cut", a)
  /\ \E g \in Ghost : exch[g] = NoExchange /\ exch' = [exch EXCEPT ![g] = exch[a]]
  /\ UNCHANGED <<server, caller>>

\* The exchange breaks for its caller.  Its call was not handled and never will
\* be, or was and the reply is lost, or it goes on in the server.
Break(a) ==
  /\ exch[a].op # "none" /\ exch[a].status # 0
  /\ \/ exch' = [exch EXCEPT ![a] = Failed(@)]
     \/ /\ exch[a].status = None
        /\ \E g \in Ghost :
             /\ exch[g] = NoExchange
             /\ exch' = [exch EXCEPT ![a] = Failed(@), ![g] = exch[a]]
  /\ Fault("cut", a)
  /\ UNCHANGED <<server, caller>>

Pinned(x, i) == x.op # "none" /\ x.status = None /\ x.pin = InternalIp(i)

\* A call that cannot reach the instance it is routed to.
Unreachable(a) ==
  /\ exch[a].op # "none" /\ exch[a].status = None
  /\ \A i \in Instance : ~Routed(exch[a], i)
  /\ exch' = [exch EXCEPT ![a] = Failed(@)]
  /\ UNCHANGED <<server, caller, fault>>

\* The calls in progress fail with the process, the queues are gone.
Crash(i) ==
  /\ i \in up /\ Mishap
  /\ up' = up \ {i}
  /\ crashes' = [crashes EXCEPT ![i] = @ + 1]
  /\ squeue' = [squeue EXCEPT ![i] = Empty] /\ box' = [box EXCEPT ![i] = Empty]
  /\ exch' = [l \in Line |-> IF ~Pinned(exch[l], i) THEN exch[l]
                             ELSE IF l \in Caller THEN Failed(exch[l]) ELSE NoExchange]
  /\ UNCHANGED <<accepted, caller, faults>>

\* create_app with empty registries; the signing key is a setting and stays.
Restart(i) ==
  /\ i \notin up
  /\ up' = up \cup {i}
  /\ UNCHANGED <<squeue, box, crashes, accepted, caller, exch, fault>>

Use(a) == \/ Authenticate(a) \/ Stray(a) \/ Close(a)
          \/ a \in Client /\ (SendRequest(a) \/ PollOne(a))
          \/ a \in Worker /\ (GetRequest(a) \/ Drop(a) \/ \E m \in held[a] : SendResponse(a, m))

Serve(l, i) == \/ Deny(l, i) \/ ServiceAuth(l, i) \/ ClientAuth(l, i)
               \/ PostRequest(l, i) \/ PollResponse(l, i) \/ BlockWait(l, i)
               \/ PullRequest(l, i) \/ PostResponse(l, i) \/ Logoff(l, i)

Next ==
  \/ \E a \in Caller : Use(a) \/ Receive(a) \/ Break(a) \/ Unreachable(a)
  \/ \E l \in Line, i \in Instance : Serve(l, i)
  \/ \E i \in Instance : Crash(i) \/ Restart(i) \/ \E c \in Client : Evict(c, i)

Spec == Init /\ [][Next]_vars

(***************************************************************************)
(* The event loop runs handlers and a wait there has a timeout, replies      *)
(* arrive, a crashed instance is started again.  The applications use the    *)
(* library as it is meant: a client polls on with timeout=None, a service     *)
(* pulls again and again and responds to every request it holds.             *)
(***************************************************************************)
Fairness ==
  /\ \A a \in Caller : WF_vars(Authenticate(a)) /\ WF_vars(Receive(a)) /\ WF_vars(Unreachable(a))
  /\ \A l \in Line, i \in Instance : WF_vars(Serve(l, i))
  /\ \A i \in Instance : WF_vars(Restart(i))
  /\ \A c \in Client : WF_vars(PollOne(c))
  /\ \A w \in Worker : SF_vars(GetRequest(w)) /\ \A m \in Msg : SF_vars(SendResponse(w, m))

FairSpec == Spec /\ Fairness

-------------------------------------------------------------------------------
(* Properties *)

Queued(f, n) == IF n \in DOMAIN f THEN {f[n][p] : p \in DOMAIN f[n]} ELSE {}

\* Worker w is one that may pull request m: of its service, on its instance.
Attends(w, m) == Serves[w] = m.service /\ session[w].pin = session[m.client].pin

\* With different addresses, a session keeps to one instance: the requests and
\* responses of a client are only ever on the instance that it polls, and with
\* services that respond there (the header of auth.py:22-27, echoed by the
\* sessions of pype_client.py:66-72 and service_client.py:62-68).
Affinity ==
  /\ \A i \in Instance : \A s \in Service : \A m \in Queued(squeue[i], s) :
       session[m.client].pin = InternalIp(i)
  /\ \A i \in Instance : \A c \in Client :
       Queued(box[i], c) # {} => session[c].pin = InternalIp(i)
  /\ \A w \in Worker : \A m \in held[w] : Attends(w, m)

\* Where a request, or a response to it, still is.
Present(m) ==
  \/ \E i \in Instance : m \in Queued(squeue[i], m.service) \cup Queued(box[i], m.client)
  \/ \E l \in Line : exch[l].msg = m
  \/ \E w \in Worker : Open(w) /\ m \in held[w]

\* What can cost a client the response to m on the side of the connections: its
\* own, or that of a service that may have pulled m.
ConnectionCause(m) ==
  LET c == m.client IN
  \/ ~Open(c) \/ {<<"cut", c>>, <<"idle", c>>} \cap faults # {}
  \/ \E w \in Worker :
       /\ Attends(w, m)
       /\ ~Open(w) \/ {<<"cut", w>>, <<"dropped", w>>} \cap faults # {}

\* The client's instance has crashed since it accepted m.
CrashCause(m) ==
  \E i \in Instance : /\ session[m.client].pin = InternalIp(i)
                      /\ accepted[m] # None /\ crashes[i] > accepted[m]

\* A request that was accepted with 202 (services.py:83, 95) is answered or still
\* somewhere, unless its own client, instance or service failed it: no failure
\* of another client, service or instance costs it anything.
LossHasCause ==
  \A m \in Msg : accepted[m] # None =>
    Present(m) \/ got[m.client][m] > 0 \/ ConnectionCause(m) \/ CrashCause(m)

\* A client gets a second response to a request only after a call of its service
\* was cut off: a POST refused with 503 has not left its response in the queue
\* (clients.py:49-51), so trying again is safe.
DuplicateNeedsCut ==
  \A c \in Client : \A m \in Msg : got[c][m] > 1 =>
    \E w \in Worker : Attends(w, m) /\ <<"cut", w>> \in faults

\* Request n is one that the client of m sent to the same service after m.
Later(n, m) == n.client = m.client /\ n.service = m.service /\ n.id > m.id

\* A service gets the requests of a client in the order in which they were sent:
\* of those that wait in its queue none was overtaken by a later one, unless an
\* exchange of this client was cut off, so that an earlier POST may still be on
\* its way (one exchange per connection, one queue per service: services.py:71).
NoOvertaking ==
  \A i \in Instance : \A s \in DOMAIN squeue[i] : \A p \in DOMAIN squeue[i][s] :
    LET m == squeue[i][s][p] IN
    <<"cut", m.client>> \notin faults =>
      \A n \in Msg : Later(n, m) =>
        ran[n] = <<>> /\ \A q \in 1 .. p : squeue[i][s][q] # n

\* The abstract request: handed out once, to its service, answered to its client.
R == INSTANCE Rendezvous WITH
       answered <- {p \in Caller \X Msg : got[p[1]][p[2]] > 0}
ImplementsRendezvous == R!Spec

\* With a service connected to the client's instance, an accepted request is
\* answered unless something failed it since: in particular those accepted
\* before a service starts, and those sent after a restart with the token of
\* before (README.md "Time-decoupled startup").
AcceptedAnswered ==
  \A m \in Msg :
    (accepted[m] # None /\ \E w \in Worker : Attends(w, m))
      ~> (got[m.client][m] > 0 \/ ConnectionCause(m) \/ CrashCause(m))

\* A request that a service holds when the mishaps are over is answered, although
\* a crash may have taken every queue in between: both tokens are still good, and
\* the response makes the client a new queue (clients.py:34-40).
HeldAnswered ==
  \A m \in Msg, w \in Worker :
    (m \in held[w] /\ exch[w].msg # m /\ mishaps = MaxMishaps)
      ~> (got[m.client][m] > 0 \/ ConnectionCause(m))
=============================================================================
