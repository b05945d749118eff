-------------------------- MODULE PypeSystemDelivery --------------------------
(***************************************************************************)
(* What an unreliable deployment does to messages, for every number of       *)
(* connections, services, instances, requests and mishaps: an accepted       *)
(* request is lost, a response arrives twice, and a request is overtaken by  *)
(* a later one of its client, only through a mishap of its own client,       *)
(* service or instance.                                                      *)
(***************************************************************************)
EXTENDS PypeSystemRefinement

-------------------------------------------------------------------------------
(* Whom a loss can be put down to *)

\* A connection that has a call to make is open, unless the call is its logoff.
CallsOpen ==
  \A a \in Caller : exch[a].op \notin {"none", "auth"} => (Open(a) <=> exch[a].op # "logoff")

\* x is a call of caller a.
CallOf(x, a) == x.token = Own(a) /\ x.pin = session[a].pin

\* What goes on in the server without its caller was cut off from that caller.
GhostsCut ==
  \A g \in Ghost : exch[g].op \notin {"none", "auth"} =>
    \E a \in Caller : <<"cut", a>> \in faults /\ CallOf(exch[g], a)

\* A request was accepted by the instance of its client, no later than now.
AcceptedHere ==
  \A m \in Msg : accepted[m] # None =>
    /\ session[m.client].pin \in Address
    /\ \A i \in Instance : session[m.client].pin = InternalIp(i) => accepted[m] <= crashes[i]

Traced == CallsOpen /\ GhostsCut /\ AcceptedHere

\* What only grows.
LEMMA HistoryGrows ==
  ASSUME TypeInv, [Next]_vars
  PROVE  faults \subseteq faults' /\ \A i \in Instance : crashes[i] <= crashes'[i]
  <1>1. \A i \in Instance : crashes[i] \in Nat
    BY DEF TypeInv, TypeOK
  <1>2. ASSUME NEW a \in Caller, Use(a)
        PROVE  faults \subseteq faults' /\ \A i \in Instance : crashes[i] <= crashes'[i]
    BY <1>1, <1>2 DEF Use, Authenticate, Stray, Close, SendRequest, PollOne, GetRequest, Drop,
       SendResponse, Fault, server, fault
  <1>3. ASSUME NEW a \in Caller, Receive(a) \/ Break(a) \/ Unreachable(a)
        PROVE  faults \subseteq faults' /\ \A i \in Instance : crashes[i] <= crashes'[i]
    BY <1>1, <1>3 DEF Receive, Break, Unreachable, Fault, server, fault
  <1>4. ASSUME NEW l \in Line, NEW i \in Instance, Serve(l, i)
        PROVE  faults \subseteq faults' /\ \A k \in Instance : crashes[k] <= crashes'[k]
    <2>1. faults' = faults /\ crashes' = crashes
      BY <1>4 DEF Serve, Deny, ServiceAuth, ClientAuth, PostRequest, PollResponse, BlockWait,
         PullRequest, PostResponse, Logoff, server, fault
    <2> QED
      BY <1>1, <2>1
  <1>5. ASSUME NEW i \in Instance, Restart(i) \/ \E c \in Client : Evict(c, i)
        PROVE  faults \subseteq faults' /\ \A k \in Instance : crashes[k] <= crashes'[k]
    <2>1. crashes' = crashes /\ faults \subseteq faults'
      BY <1>5 DEF Restart, Evict, Fault, fault
    <2> QED
      BY <1>1, <2>1
  <1>6. ASSUME NEW i \in Instance, Crash(i)
        PROVE  faults \subseteq faults' /\ \A k \in Instance : crashes[k] <= crashes'[k]
    <2>1. crashes' = [crashes EXCEPT ![i] = @ + 1] /\ faults' = faults
      BY <1>6 DEF Crash
    <2>2. crashes \in [Instance -> Nat]
      BY DEF TypeInv, TypeOK
    <2>3. \A k \in Instance : crashes'[k] = IF k = i THEN crashes[k] + 1 ELSE crashes[k]
      BY <2>1, <2>2
    <2> QED
      BY <1>1, <2>1, <2>3
  <1>7. CASE UNCHANGED vars
    BY <1>1, <1>7 DEF vars, server, fault
  <1> QED
    BY <1>2, <1>3, <1>4, <1>5, <1>6, <1>7 DEF Next

\* The steps that change a session.
LEMMA SessionStep ==
  ASSUME TypeInv, [Next]_vars, NEW a \in Caller, session'[a] # session[a]
  PROVE  \/ Close(a)
         \/ Receive(a) /\ exch[a].op = "auth" /\ session[a] = NoSession
  <1>1. ASSUME NEW b \in Caller, Receive(b), session'[a] # session[a]
        PROVE  b = a /\ exch[a].op = "auth" /\ session[a] = NoSession
    <2>1. Got(exch[b], {"auth"})
      BY <1>1 DEF Receive
    <2>2. session[b] = NoSession /\ exch[b].op = "auth"
      BY <2>1 DEF TypeInv, Identity, OfSession, Got
    <2>3. a = b
      BY <1>1, <2>1 DEF Receive, TypeInv, TypeOK
    <2> QED
      BY <2>2, <2>3
  <1>2. ASSUME NEW b \in Caller, Close(b), session'[a] # session[a] PROVE b = a
    BY <1>2 DEF Close, TypeInv, TypeOK
  <1>3. ASSUME NEW b \in Caller, Use(b), ~Close(b) PROVE UNCHANGED session
    BY <1>3 DEF Use, Authenticate, Stray, SendRequest, PollOne, GetRequest, Drop, SendResponse, caller
  <1>4. ASSUME NEW b \in Caller, Break(b) \/ Unreachable(b) PROVE UNCHANGED session
    BY <1>4 DEF Break, Unreachable, caller
  <1>5. ASSUME NEW l \in Line, NEW i \in Instance, Serve(l, i) PROVE UNCHANGED session
    BY <1>5 DEF Serve, Deny, ServiceAuth, ClientAuth, PostRequest, PollResponse, BlockWait,
         PullRequest, PostResponse, Logoff, caller
  <1>6. ASSUME NEW i \in Instance, Crash(i) \/ Restart(i) \/ \E c \in Client : Evict(c, i)
        PROVE  UNCHANGED session
    BY <1>6 DEF Crash, Restart, Evict, caller
  <1>7. CASE UNCHANGED vars
    BY <1>7 DEF vars, caller
  <1> QED
    BY <1>1, <1>2, <1>3, <1>4, <1>5, <1>6, <1>7 DEF Next

\* A connection that is closed stays closed, one that is open is open until close.
LEMMA OpenStep ==
  ASSUME TypeInv, [Next]_vars, NEW a \in Caller, session[a].pin \in Address
  PROVE  /\ Open(a)' => Open(a)
         /\ Open(a) /\ ~Close(a) => Open(a)'
  <1>1. session[a] # NoSession
    BY NoneIsNoAddress DEF NoSession
  <1>2. CASE session'[a] = session[a]
    BY <1>2 DEF Open
  <1>3. CASE Close(a)
    BY <1>3 DEF Close, Open, TypeInv, TypeOK, Session
  <1> QED
    BY <1>1, <1>2, <1>3, SessionStep

\* y is what became of the exchange x: it has a reply, or goes on as a wait.
Continues(x, y) ==
  /\ \/ y.op = x.op /\ y.status # None
     \/ x.op = "call" /\ y.op = "wait"
  /\ x.op # "auth" => y.token = x.token /\ y.pin = x.pin

\* A step of the server lets the exchange go on, or ends that of no caller.
LEMMA ServeLine ==
  ASSUME TypeInv, NEW l \in Line, NEW i \in Instance, Serve(l, i)
  PROVE  /\ UNCHANGED <<session, held, got, ran, faults>>
         /\ \E z : exch' = [exch EXCEPT ![l] = z] /\ (z = NoExchange \/ Continues(exch[l], z))
  <1> DEFINE x == exch[l]
  <1>1. UNCHANGED <<session, held, got, ran, faults>>
    BY DEF Serve, Deny, ServiceAuth, ClientAuth, PostRequest, PollResponse, BlockWait,
       PullRequest, PostResponse, Logoff, caller, fault
  <1>2. x \in Exchange
    BY DEF TypeInv, TypeOK
  <1>3. ASSUME NEW status, status # None, NEW m, ReplyWith(l, status, m)
        PROVE  \E z : exch' = [exch EXCEPT ![l] = z] /\ (z = NoExchange \/ Continues(x, z))
    <2> DEFINE y == [x EXCEPT !.status = status, !.msg = m]
               z == IF l \in Caller THEN y ELSE NoExchange
    <2>1. exch' = [exch EXCEPT ![l] = z]
      BY <1>3 DEF ReplyWith, Reply
    <2>2. y.op = x.op /\ y.token = x.token /\ y.pin = x.pin /\ y.status # None
      BY <1>2, <1>3 DEF Exchange
    <2> HIDE DEF x, y
    <2>3. Continues(x, y)
      BY <2>2 DEF Continues
    <2>4. z = NoExchange \/ Continues(x, z)
      BY <2>3
    <2> HIDE DEF z
    <2> QED
      BY <2>1, <2>4
  <1>4. ASSUME NEW role, Issue(l, i, role), x.op = "auth"
        PROVE  \E z : exch' = [exch EXCEPT ![l] = z] /\ (z = NoExchange \/ Continues(x, z))
    <2> DEFINE y == [x EXCEPT !.status = 200, !.pin = InternalIp(i),
                              !.token = [role |-> role, name |-> x.path]]
               z == IF l \in Caller THEN y ELSE NoExchange
    <2>1. exch' = [exch EXCEPT ![l] = z]
      BY <1>4 DEF Issue, Reply
    <2>2. y.op = x.op /\ y.status # None
      BY <1>2, StatusType DEF Exchange
    <2>3. x.op = "auth"
      BY <1>4
    <2> HIDE DEF x, y
    <2>4. Continues(x, y)
      BY <2>2, <2>3 DEF Continues
    <2>5. z = NoExchange \/ Continues(x, z)
      BY <2>4
    <2> HIDE DEF z
    <2> QED
      BY <2>1, <2>5
  <1>5. ASSUME exch' = [exch EXCEPT ![l].op = "wait", ![l].msg = None], x.op = "call"
        PROVE  \E z : exch' = [exch EXCEPT ![l] = z] /\ (z = NoExchange \/ Continues(x, z))
    <2> DEFINE y == [x EXCEPT !.op = "wait", !.msg = None]
    <2>1. exch' = [exch EXCEPT ![l] = y]
      BY <1>5 DEF TypeInv, TypeOK
    <2>2. y.op = "wait" /\ y.token = x.token /\ y.pin = x.pin
      BY <1>2 DEF Exchange
    <2>3. x.op = "call"
      BY <1>5
    <2> HIDE DEF x, y
    <2>4. Continues(x, y)
      BY <2>2, <2>3 DEF Continues
    <2> QED
      BY <2>1, <2>4
  <1> HIDE DEF x
  <1>6. CASE Deny(l, i) \/ PollResponse(l, i) \/ BlockWait(l, i) \/ PullRequest(l, i)
             \/ PostResponse(l, i) \/ Logoff(l, i)
    <2>1. \E status \in {200, 202, 204, 400, 403, 503} : \E m : ReplyWith(l, status, m)
      BY <1>6 DEF Deny, Verdict, PollResponse, BlockWait, PullRequest, PostResponse, Logoff
    <2> QED
      BY <1>1, <1>3, <2>1, StatusType DEF x
  <1>7. CASE PostRequest(l, i)
    <2>1. x.op \in {"post", "call"}
      BY <1>7 DEF PostRequest, At, x
    <2>2. \/ \E status \in {202, 503} : ReplyWith(l, status, None)
          \/ x.op = "call" /\ exch' = [exch EXCEPT ![l].op = "wait", ![l].msg = None]
      BY <1>7, <2>1 DEF PostRequest, x
    <2> QED
      BY <1>1, <1>3, <1>5, <2>2, StatusType DEF x
  <1>8. CASE ServiceAuth(l, i) \/ ClientAuth(l, i)
    <2>1. x.op = "auth" /\ \E role : Issue(l, i, role)
      BY <1>8 DEF ServiceAuth, ClientAuth, At, x
    <2> QED
      BY <1>1, <1>4, <2>1 DEF x
  <1> QED
    BY <1>6, <1>7, <1>8 DEF Serve

\* An exchange that has failed is of the same call.
LEMMA FailedContinues ==
  ASSUME TypeInv, NEW l \in Line
  PROVE  Continues(exch[l], Failed(exch[l]))
  <1>1. exch[l] \in Exchange
    BY DEF TypeInv, TypeOK
  <1>2. /\ Failed(exch[l]).op = exch[l].op /\ Failed(exch[l]).token = exch[l].token
        /\ Failed(exch[l]).pin = exch[l].pin /\ Failed(exch[l]).status = 0
    BY <1>1 DEF Exchange, Failed
  <1> QED
    BY <1>2, StatusType DEF Continues

\* What may become of the line of a caller.
LEMMA CallerLine ==
  ASSUME TypeInv, [Next]_vars, NEW a \in Caller, ~Use(a)
  PROVE  exch'[a] = exch[a] \/ exch'[a] = NoExchange \/ Continues(exch[a], exch'[a])
  <1>1. a \in Line /\ a \notin Ghost /\ exch \in [Line -> Exchange]
    BY SystemAssumption DEF Line, TypeInv, TypeOK
  <1>2. ASSUME NEW b \in Caller, Use(b), b # a PROVE exch'[a] = exch[a]
    BY <1>1, <1>2 DEF Use, Authenticate, Stray, Close, SendRequest, PollOne, GetRequest, Drop,
       SendResponse, Ask
  <1>3. ASSUME NEW b \in Caller, Receive(b) PROVE exch'[a] = exch[a] \/ exch'[a] = NoExchange
    BY <1>1, <1>3 DEF Receive
  <1>4. ASSUME NEW b \in Caller, Break(b) \/ Unreachable(b)
        PROVE  exch'[a] = exch[a] \/ exch'[a] = Failed(exch[a])
    BY <1>1, <1>4 DEF Break, Unreachable
  <1>5. ASSUME NEW l \in Line, NEW i \in Instance, Serve(l, i)
        PROVE  exch'[a] = exch[a] \/ exch'[a] = NoExchange \/ Continues(exch[a], exch'[a])
    <2>1. PICK z : exch' = [exch EXCEPT ![l] = z] /\ (z = NoExchange \/ Continues(exch[l], z))
      BY <1>5, ServeLine
    <2> QED
      BY <1>1, <2>1
  <1>6. ASSUME NEW i \in Instance, Crash(i)
        PROVE  exch'[a] = exch[a] \/ exch'[a] = Failed(exch[a])
    BY <1>1, <1>6 DEF Crash
  <1>7. ASSUME NEW i \in Instance, Restart(i) \/ \E c \in Client : Evict(c, i)
        PROVE  exch' = exch
    BY <1>7 DEF Restart, Evict
  <1>8. CASE UNCHANGED vars
    BY <1>8 DEF vars
  <1> QED
    BY <1>1, <1>2, <1>3, <1>4, <1>5, <1>6, <1>7, <1>8, FailedContinues DEF Next

\* A connection makes its calls while it is open.
LEMMA CallsOpenStep ==
  ASSUME TypeInv, CallsOpen, [Next]_vars
  PROVE  CallsOpen'
  <1> SUFFICES ASSUME NEW a \in Caller, exch'[a].op \notin {"none", "auth"}
               PROVE  Open(a)' <=> exch'[a].op # "logoff"
    BY DEF CallsOpen
  <1>1. a \in Line /\ exch \in [Line -> Exchange]
    BY DEF Line, TypeInv, TypeOK
  <1>2. CASE Use(a)
    <2>1. CASE Close(a)
      <3>1. Open(a)' = FALSE
        BY <2>1 DEF Close, Open, TypeInv, TypeOK, Session
      <3>2. exch'[a].op \in {"logoff", "none"}
        BY <1>1, <2>1 DEF Close, Ask, NoExchange
      <3> QED
        BY <3>1, <3>2
    <2>2. CASE Authenticate(a)
      <3>1. exch'[a].op = "auth"
        BY <1>1, <2>2 DEF Authenticate, Ask
      <3> QED
        BY <3>1
    <2>3. CASE Drop(a)
      <3>1. exch' = exch /\ session' = session
        BY <2>3 DEF Drop
      <3> QED
        BY <3>1 DEF CallsOpen, Open
    <2>4. CASE ~Close(a) /\ ~Authenticate(a) /\ ~Drop(a)
      <3>1. Open(a) /\ session' = session
        BY <1>2, <2>4 DEF Use, Stray, SendRequest, PollOne, GetRequest, SendResponse, caller
      <3>2. exch'[a].op # "logoff"
        BY <1>1, <1>2, <2>4 DEF Use, Stray, SendRequest, PollOne, GetRequest, SendResponse, Ask
      <3> QED
        BY <3>1, <3>2 DEF Open
    <2> QED
      BY <2>1, <2>2, <2>3, <2>4
  <1>3. CASE ~Use(a)
    <2>1. exch'[a] # NoExchange
      BY DEF NoExchange
    <2>2. exch'[a] = exch[a] \/ Continues(exch[a], exch'[a])
      BY <1>3, <2>1, CallerLine
    <2>3. exch[a].op \notin {"none", "auth"} /\ (exch[a].op = "logoff" <=> exch'[a].op = "logoff")
      BY <2>2 DEF Continues
    <2>4. session'[a] = session[a]
      <3>1. CASE Close(a)
        BY <1>3, <3>1 DEF Use
      <3> QED
        BY <2>3, <3>1, SessionStep
    <2> QED
      BY <2>3, <2>4 DEF CallsOpen, Open
  <1> QED
    BY <1>2, <1>3

\* What may become of a line that no caller has.
LEMMA GhostLine ==
  ASSUME TypeInv, [Next]_vars, NEW g \in Ghost
  PROVE  \/ exch'[g] = exch[g] \/ exch'[g] = NoExchange \/ Continues(exch[g], exch'[g])
         \/ \E a \in Caller : Break(a) /\ exch'[g] = exch[a]
  <1>1. g \in Line /\ g \notin Caller /\ exch \in [Line -> Exchange]
    BY SystemAssumption DEF Line, TypeInv, TypeOK
  <1>2. ASSUME NEW b \in Caller, Use(b) PROVE exch'[g] = exch[g]
    BY <1>1, <1>2 DEF Use, Authenticate, Stray, Close, SendRequest, PollOne, GetRequest, Drop,
       SendResponse, Ask
  <1>3. ASSUME NEW b \in Caller, Receive(b) \/ Unreachable(b) PROVE exch'[g] = exch[g]
    BY <1>1, <1>3 DEF Receive, Unreachable
  <1>4. ASSUME NEW b \in Caller, Break(b) PROVE exch'[g] \in {exch[g], exch[b]}
    BY <1>1, <1>4 DEF Break
  <1>5. ASSUME NEW l \in Line, NEW i \in Instance, Serve(l, i)
        PROVE  exch'[g] = exch[g] \/ exch'[g] = NoExchange \/ Continues(exch[g], exch'[g])
    <2>1. PICK z : exch' = [exch EXCEPT ![l] = z] /\ (z = NoExchange \/ Continues(exch[l], z))
      BY <1>5, ServeLine
    <2> QED
      BY <1>1, <2>1
  <1>6. ASSUME NEW i \in Instance, Crash(i)
        PROVE  exch'[g] = exch[g] \/ exch'[g] = NoExchange
    BY <1>1, <1>6 DEF Crash
  <1>7. ASSUME NEW i \in Instance, Restart(i) \/ \E c \in Client : Evict(c, i)
        PROVE  exch' = exch
    BY <1>7 DEF Restart, Evict
  <1>8. CASE UNCHANGED vars
    BY <1>8 DEF vars
  <1> QED
    BY <1>2, <1>3, <1>4, <1>5, <1>6, <1>7, <1>8 DEF Next

\* An exchange of a caller is a call of that caller.
LEMMA OwnCall ==
  ASSUME TypeInv, NEW a \in Caller, exch[a].op \notin {"none", "auth"}
  PROVE  CallOf(exch[a], a) /\ session[a].pin \in Address
  <1> DEFINE x == exch[a]
  <1>1. Shaped(x) /\ OfSession(a, x, session[a]) /\ Authentic(a)
    BY DEF TypeInv, Identity, Line
  <1>2. x.op \notin {"none", "auth"}
    OBVIOUS
  <1> HIDE DEF x
  <1>3. x.pin \in Address /\ x.token = session[a].token /\ x.pin = session[a].pin
    BY <1>1, <1>2 DEF Shaped, OfSession
  <1>4. session[a].token = Own(a)
    BY <1>1, <1>3, NoneIsNoAddress DEF Authentic, NoSession
  <1> QED
    BY <1>3, <1>4 DEF CallOf, x

\* A call that goes on without its caller has been cut off from it.
LEMMA GhostsCutStep ==
  ASSUME TypeInv, GhostsCut, [Next]_vars
  PROVE  GhostsCut'
  <1> SUFFICES ASSUME NEW g \in Ghost, exch'[g].op \notin {"none", "auth"}
               PROVE  \E a \in Caller : <<"cut", a>> \in faults' /\ CallOf(exch[g], a)'
    BY DEF GhostsCut
  <1>1. exch'[g] # NoExchange
    BY DEF NoExchange
  <1>2. CASE exch'[g] = exch[g] \/ Continues(exch[g], exch'[g])
    <2>1. /\ exch[g].op \notin {"none", "auth"}
          /\ exch'[g].token = exch[g].token /\ exch'[g].pin = exch[g].pin
      BY <1>2 DEF Continues
    <2>2. PICK a \in Caller : <<"cut", a>> \in faults /\ CallOf(exch[g], a)
      BY <2>1 DEF GhostsCut
    <2>3. exch[g].pin \in Address
      BY <2>1 DEF TypeInv, Identity, Shaped, Line
    <2>4. session'[a].pin = session[a].pin
      BY <2>2, <2>3, PinKept DEF CallOf
    <2>5. <<"cut", a>> \in faults'
      BY <2>2, HistoryGrows
    <2> QED
      BY <2>1, <2>2, <2>4, <2>5 DEF CallOf
  <1>3. ASSUME NEW a \in Caller, Break(a), exch'[g] = exch[a]
        PROVE  \E b \in Caller : <<"cut", b>> \in faults' /\ CallOf(exch[g], b)'
    <2>1. <<"cut", a>> \in faults' /\ session' = session
      BY <1>3 DEF Break, Fault, caller
    <2>2. CallOf(exch[a], a)
      BY <1>3, OwnCall
    <2> QED
      BY <1>3, <2>1, <2>2 DEF CallOf
  <1> QED
    BY <1>1, <1>2, <1>3, GhostLine

\* Only send_request and call have a request accepted.
LEMMA AcceptedStep ==
  ASSUME TypeInv, [Next]_vars, NEW m \in Msg, accepted'[m] # accepted[m]
  PROVE  \E l \in Line, i \in Instance :
           /\ PostRequest(l, i) /\ exch[l].msg = m
           /\ squeue' = [squeue EXCEPT ![i] = Put(@, exch[l].path, m)]
           /\ accepted' = [accepted EXCEPT ![m] = crashes[i]] /\ crashes' = crashes
  <1>1. accepted' # accepted /\ accepted \in [Msg -> Nat \cup {None}]
    BY DEF TypeInv, TypeOK
  <1>2. ASSUME NEW b \in Caller, Use(b) PROVE FALSE
    BY <1>1, <1>2 DEF Use, Authenticate, Stray, Close, SendRequest, PollOne, GetRequest, Drop,
       SendResponse, server
  <1>3. ASSUME NEW b \in Caller, Receive(b) \/ Unreachable(b) \/ Break(b) PROVE FALSE
    BY <1>1, <1>3 DEF Receive, Unreachable, Break, server
  <1>4. ASSUME NEW l \in Line, NEW i \in Instance, Serve(l, i)
        PROVE  /\ PostRequest(l, i) /\ exch[l].msg = m
               /\ squeue' = [squeue EXCEPT ![i] = Put(@, exch[l].path, m)]
               /\ accepted' = [accepted EXCEPT ![m] = crashes[i]] /\ crashes' = crashes
    <2>1. PostRequest(l, i)
      BY <1>1, <1>4 DEF Serve, Deny, ServiceAuth, ClientAuth, PollResponse, BlockWait,
         PullRequest, PostResponse, Logoff, server
    <2>2. /\ squeue' = [squeue EXCEPT ![i] = Put(@, exch[l].path, exch[l].msg)]
          /\ accepted' = [accepted EXCEPT ![exch[l].msg] = crashes[i]] /\ crashes' = crashes
      BY <1>1, <2>1 DEF PostRequest
    <2>3. exch[l].msg = m
      BY <1>1, <2>2
    <2> QED
      BY <2>1, <2>2, <2>3
  <1>5. ASSUME NEW i \in Instance, Crash(i) \/ Restart(i) \/ \E c \in Client : Evict(c, i)
        PROVE  FALSE
    BY <1>1, <1>5 DEF Crash, Restart, Evict
  <1>6. CASE UNCHANGED vars
    BY <1>1, <1>6 DEF vars, server
  <1> QED
    BY <1>2, <1>3, <1>4, <1>5, <1>6 DEF Next

\* A request is accepted by the instance of its client's session.
LEMMA AcceptedHereStep ==
  ASSUME TypeInv, Affine, AcceptedHere, [Next]_vars
  PROVE  AcceptedHere'
  <1> SUFFICES ASSUME NEW m \in Msg, accepted'[m] # None
               PROVE  /\ session'[m.client].pin \in Address
                      /\ \A i \in Instance :
                           session'[m.client].pin = InternalIp(i) => accepted'[m] <= crashes'[i]
    BY DEF AcceptedHere
  <1>1. /\ m.client \in Caller
        /\ \A i \in Instance : crashes[i] \in Nat /\ crashes'[i] \in Nat
    BY TypeStep DEF Msg, Caller, TypeInv, TypeOK
  <1>2. CASE accepted'[m] = accepted[m]
    <2>1. /\ session[m.client].pin \in Address /\ accepted[m] \in Nat
          /\ \A i \in Instance : session[m.client].pin = InternalIp(i) => accepted[m] <= crashes[i]
      BY <1>2 DEF AcceptedHere, TypeInv, TypeOK
    <2>2. session'[m.client].pin = session[m.client].pin
      BY <1>1, <2>1, PinKept
    <2>3. \A i \in Instance : crashes[i] <= crashes'[i]
      BY HistoryGrows
    <2> QED
      BY <1>1, <1>2, <2>1, <2>2, <2>3
  <1>3. CASE accepted'[m] # accepted[m]
    <2>1. PICK l \in Line, i \in Instance :
            /\ PostRequest(l, i) /\ exch[l].msg = m
            /\ accepted' = [accepted EXCEPT ![m] = crashes[i]] /\ crashes' = crashes
      BY <1>3, AcceptedStep
    <2>2. PICK op \in {"post", "call"} : At(l, i, op)
      BY <2>1 DEF PostRequest
    <2>3. exch[l].op = op /\ exch[l].status = None /\ exch[l].pin = InternalIp(i)
      BY <2>2, Passed DEF Op
    <2>4. session[m.client].pin = InternalIp(i)
      BY <2>1, <2>3 DEF Affine, LinesAtHome, Bound
    <2>5. session' = session /\ accepted'[m] = crashes[i] /\ InternalIp(i) \in Address
      BY <2>1 DEF PostRequest, caller, TypeInv, TypeOK, Address
    <2>6. \A k \in Instance : InternalIp(k) = InternalIp(i) => k = i
      BY AddressAssumption
    <2> QED
      BY <1>1, <2>1, <2>4, <2>5, <2>6
  <1> QED
    BY <1>2, <1>3

\* There are no calls at the start.
LEMMA TracedInit == Init => Traced
  BY DEF Init, Traced, CallsOpen, GhostsCut, AcceptedHere, NoExchange, Line

LEMMA TracedStep == TypeInv /\ Affine /\ Traced /\ [Next]_vars => Traced'
  BY CallsOpenStep, GhostsCutStep, AcceptedHereStep DEF Traced

-------------------------------------------------------------------------------
(* An accepted request is answered, somewhere, or failed by its own side *)

\* Exchange x has message m for its caller.
Delivers(x, m) == x.op \in {"pull", "poll", "wait"} /\ x.status = 200 /\ x.msg = m

\* Exchange x tells a service that its response to m is queued.
Confirms(x, m) == x.op = "answer" /\ x.status = 202 /\ x.msg = m

\* Request m, or a response to it, is somewhere from where it goes on; what only
\* waits to be forgotten does not count.
Safe(m) ==
  \/ \E i \in Instance : m \in Queued(squeue[i], m.service) \cup Queued(box[i], m.client)
  \/ \E a \in Caller : Delivers(exch[a], m)
  \/ \E w \in Worker : Open(w) /\ m \in held[w] /\ ~Confirms(exch[w], m)
  \/ got[m.client][m] > 0

Excused(m) == ConnectionCause(m) \/ CrashCause(m)

Accounted == \A m \in Msg : accepted[m] # None => Safe(m) \/ Excused(m)

\* What a queue operation leaves in place.
LEMMA CreateHolds ==
  ASSUME NEW f, NEW n, NEW k, NEW m \in Queued(f, k)
  PROVE  m \in Queued(GetOrCreate(f, n), k)
  <1> DEFINE g == GetOrCreate(f, n)
  <1>1. DOMAIN g = DOMAIN f \cup {n} /\ \A j \in DOMAIN f : g[j] = f[j]
    BY DEF GetOrCreate
  <1> HIDE DEF g
  <1>2. k \in DOMAIN f /\ \E p \in DOMAIN f[k] : m = f[k][p]
    BY DEF Queued
  <1>3. m \in Queued(g, k)
    BY <1>1, <1>2 DEF Queued
  <1> QED
    BY <1>3 DEF g

LEMMA PutHolds ==
  ASSUME NEW f, f \in [DOMAIN f -> Seq(Msg)], NEW n, NEW new \in Msg
  PROVE  /\ new \in Queued(Put(f, n, new), n)
         /\ \A k : \A m \in Queued(f, k) : m \in Queued(Put(f, n, new), k)
  <1> DEFINE g == GetOrCreate(f, n)
             h == Put(f, n, new)
  <1>1. DOMAIN g = DOMAIN f \cup {n} /\ g \in [DOMAIN g -> Seq(Msg)]
    BY DEF GetOrCreate
  <1>2. h = [g EXCEPT ![n] = Append(@, new)]
    BY DEF Put
  <1>3. \A k : \A m \in Queued(f, k) : m \in Queued(g, k)
    BY CreateHolds
  <1> HIDE DEF g, h
  <1>4. DOMAIN h = DOMAIN g /\ h[n] = Append(g[n], new) /\ g[n] \in Seq(Msg)
    BY <1>1, <1>2
  <1>5. \A k \in DOMAIN g : k # n => h[k] = g[k]
    BY <1>1, <1>2
  <1>6. /\ Len(g[n]) + 1 \in DOMAIN h[n] /\ h[n][Len(g[n]) + 1] = new
        /\ \A p \in DOMAIN g[n] : p \in DOMAIN h[n] /\ h[n][p] = g[n][p]
    BY <1>4
  <1>7. new \in Queued(h, n)
    BY <1>1, <1>4, <1>6 DEF Queued
  <1>8. ASSUME NEW k, NEW m \in Queued(f, k) PROVE m \in Queued(h, k)
    <2>1. k \in DOMAIN g /\ \E p \in DOMAIN g[k] : m = g[k][p]
      BY <1>3 DEF Queued
    <2>2. PICK p \in DOMAIN g[k] : m = g[k][p]
      BY <2>1
    <2>3. k \in DOMAIN h /\ p \in DOMAIN h[k] /\ h[k][p] = m
      <3>1. CASE k = n
        BY <1>4, <1>6, <2>1, <2>2, <3>1
      <3>2. CASE k # n
        BY <1>4, <1>5, <2>1, <2>2, <3>2
      <3> QED
        BY <3>1, <3>2
    <2> QED
      BY <2>3 DEF Queued
  <1> QED
    BY <1>7, <1>8 DEF h

LEMMA TakeHolds ==
  ASSUME NEW f, f \in [DOMAIN f -> Seq(Msg)], NEW n, Has(f, n), NEW k, NEW m \in Queued(f, k)
  PROVE  m \in Queued(Take(f, n), k) \/ (k = n /\ m = Head(f[n]))
  <1> DEFINE h == Take(f, n)
  <1>1. n \in DOMAIN f /\ f[n] \in Seq(Msg) /\ f[n] # <<>>
    BY DEF Has
  <1>2. h = [f EXCEPT ![n] = Tail(@)]
    BY DEF Take
  <1> HIDE DEF h
  <1>3. k \in DOMAIN f /\ \E p \in DOMAIN f[k] : m = f[k][p]
    BY DEF Queued
  <1>4. PICK p \in DOMAIN f[k] : m = f[k][p]
    BY <1>3
  <1>5. CASE k = n /\ p = 1
    BY <1>1, <1>4, <1>5
  <1>6. CASE k = n /\ p # 1
    <2>1. h[k] = Tail(f[n]) /\ k \in DOMAIN h
      BY <1>1, <1>2, <1>6
    <2>2. p \in 1 .. Len(f[n])
      BY <1>1, <1>4, <1>6
    <2>3. p - 1 \in DOMAIN Tail(f[n]) /\ Tail(f[n])[p - 1] = f[n][p]
      BY <1>1, <1>6, <2>2
    <2>4. m \in Queued(h, k)
      BY <1>4, <1>6, <2>1, <2>3 DEF Queued
    <2> QED
      BY <2>4 DEF h
  <1>7. CASE k # n
    <2>1. m \in Queued(h, k)
      BY <1>2, <1>3, <1>4, <1>7 DEF Queued
    <2> QED
      BY <2>1 DEF h
  <1> QED
    BY <1>5, <1>6, <1>7

LEMMA WithoutHolds ==
  ASSUME NEW f, NEW n, NEW k, k # n, NEW m \in Queued(f, k)
  PROVE  m \in Queued(Without(f, n), k)
  BY DEF Queued, Without

\* What is put down to someone stays so.
LEMMA ExcuseStays ==
  ASSUME TypeInv, AcceptedHere, [Next]_vars, NEW m \in Msg, accepted[m] # None,
         accepted'[m] = accepted[m], Excused(m)
  PROVE  Excused(m)'
  <1> DEFINE c == m.client
  <1>1. /\ c \in Caller /\ session[c].pin \in Address
        /\ \A i \in Instance : crashes[i] \in Nat /\ crashes'[i] \in Nat
        /\ accepted[m] \in Nat
    BY TypeStep DEF AcceptedHere, Msg, Caller, TypeInv, TypeOK
  <1>2. session'[c].pin = session[c].pin
    BY <1>1, PinKept
  <1>3. faults \subseteq faults' /\ \A i \in Instance : crashes[i] <= crashes'[i]
    BY HistoryGrows
  <1>4. ~Open(c) => ~Open(c)'
    BY <1>1, OpenStep
  <1>5. ASSUME NEW w \in Worker, Attends(w, m)
        PROVE  Attends(w, m)' /\ (~Open(w) => ~Open(w)')
    <2>1. w \in Caller /\ session[w].pin \in Address
      BY <1>1, <1>5 DEF Attends, Caller
    <2>2. session'[w].pin = session[w].pin
      BY <2>1, PinKept
    <2> QED
      BY <1>2, <1>5, <2>1, <2>2, OpenStep DEF Attends
  <1>6. CASE ConnectionCause(m)
    <2>1. CASE ~Open(c) \/ {<<"cut", c>>, <<"idle", c>>} \cap faults # {}
      BY <1>3, <1>4, <2>1 DEF Excused, ConnectionCause
    <2>2. ASSUME NEW w \in Worker, Attends(w, m),
                 ~Open(w) \/ {<<"cut", w>>, <<"dropped", w>>} \cap faults # {}
          PROVE  Excused(m)'
      BY <1>3, <1>5, <2>2 DEF Excused, ConnectionCause
    <2> QED
      BY <1>6, <2>1, <2>2 DEF ConnectionCause
  <1>7. CASE CrashCause(m)
    BY <1>1, <1>2, <1>3, <1>7 DEF Excused, CrashCause
  <1> QED
    BY <1>6, <1>7 DEF Excused

\* The callers that the calls of ghosts were cut off from.
LEMMA CutCaller ==
  ASSUME TypeInv, GhostsCut, NEW g \in Ghost, exch[g].op \notin {"none", "auth"}
  PROVE  /\ exch[g].token.role = "client" => <<"cut", exch[g].token.name>> \in faults
         /\ exch[g].token.role = "service" =>
              \E w \in Worker : /\ <<"cut", w>> \in faults /\ Serves[w] = exch[g].token.name
                                /\ session[w].pin = exch[g].pin
  <1>1. PICK a \in Caller : <<"cut", a>> \in faults /\ CallOf(exch[g], a)
    BY DEF GhostsCut
  <1>2. exch[g].token = Own(a) /\ exch[g].pin = session[a].pin
    BY <1>1 DEF CallOf
  <1>3. a \in Client \/ (a \in Worker /\ a \notin Client)
    BY DEF Caller
  <1>4. CASE a \in Client
    <2>1. exch[g].token.role = "client" /\ exch[g].token.name = a
      BY <1>2, <1>4, NameType DEF Own
    <2> QED
      BY <1>1, <2>1
  <1>5. CASE a \in Worker /\ a \notin Client
    <2>1. exch[g].token.role = "service" /\ exch[g].token.name = Serves[a]
      BY <1>2, <1>5, NameType DEF Own
    <2> QED
      BY <1>1, <1>2, <1>5, <2>1
  <1> QED
    BY <1>3, <1>4, <1>5

\* A caller is told what the server has taken from a queue for it.
LEMMA ReplyDelivers ==
  ASSUME TypeInv, NEW a \in Caller, exch[a].op \in {"pull", "poll", "wait"}, NEW m,
         ReplyWith(a, 200, m)
  PROVE  Delivers(exch'[a], m)
  <1>1. exch[a] \in Exchange /\ exch \in [Line -> Exchange] /\ a \in Line
    BY DEF TypeInv, TypeOK, Line
  <1>2. exch'[a] = [exch[a] EXCEPT !.status = 200, !.msg = m]
    BY <1>1 DEF ReplyWith, Reply
  <1>3. exch'[a].op = exch[a].op /\ exch'[a].status = 200 /\ exch'[a].msg = m
    BY <1>1, <1>2 DEF Exchange
  <1> QED
    BY <1>3 DEF Delivers

\* The steps that change queues of requests, and queues of responses.
LEMMA QueueSteps ==
  ASSUME [Next]_vars
  PROVE  /\ \/ squeue' = squeue
            \/ \E l \in Line, i \in Instance : PullRequest(l, i) \/ ServiceAuth(l, i) \/ PostRequest(l, i)
            \/ \E i \in Instance : Crash(i)
         /\ \/ box' = box
            \/ \E l \in Line, i \in Instance : \/ PollResponse(l, i) \/ BlockWait(l, i) \/ PostRequest(l, i)
                                              \/ PostResponse(l, i) \/ Logoff(l, i)
            \/ \E i \in Instance : Crash(i) \/ \E c \in Client : Evict(c, i)
  <1>1. ASSUME NEW a \in Caller, Use(a) PROVE UNCHANGED <<squeue, box>>
    BY <1>1 DEF Use, Authenticate, Stray, Close, SendRequest, PollOne, GetRequest, Drop,
       SendResponse, server
  <1>2. ASSUME NEW a \in Caller, Receive(a) \/ Break(a) \/ Unreachable(a)
        PROVE  UNCHANGED <<squeue, box>>
    BY <1>2 DEF Receive, Break, Unreachable, server
  <1>3. ASSUME NEW l \in Line, NEW i \in Instance, Serve(l, i)
        PROVE  /\ \/ squeue' = squeue
                  \/ PullRequest(l, i) \/ ServiceAuth(l, i) \/ PostRequest(l, i)
               /\ \/ box' = box
                  \/ PollResponse(l, i) \/ BlockWait(l, i) \/ PostRequest(l, i)
                  \/ PostResponse(l, i) \/ Logoff(l, i)
    <2>1. CASE Deny(l, i) \/ ClientAuth(l, i)
      BY <2>1 DEF Deny, ClientAuth, server
    <2>2. CASE ServiceAuth(l, i) \/ PullRequest(l, i)
      BY <2>2 DEF ServiceAuth, PullRequest
    <2>3. CASE PollResponse(l, i) \/ BlockWait(l, i) \/ PostResponse(l, i) \/ Logoff(l, i)
      BY <2>3 DEF PollResponse, BlockWait, PostResponse, Logoff
    <2> QED
      BY <1>3, <2>1, <2>2, <2>3 DEF Serve
  <1>4. ASSUME NEW i \in Instance, NEW c \in Client, Evict(c, i) PROVE squeue' = squeue
    BY <1>4 DEF Evict
  <1>5. ASSUME NEW i \in Instance, Restart(i) PROVE UNCHANGED <<squeue, box>>
    BY <1>5 DEF Restart
  <1>6. CASE UNCHANGED vars
    BY <1>6 DEF vars, server
  <1> QED
    BY <1>1, <1>2, <1>3, <1>4, <1>5, <1>6 DEF Next

\* A request leaves the queue of its service for a worker, or with its instance.
LEMMA QueuedRequestStays ==
  ASSUME TypeInv, Affine, Traced, [Next]_vars, NEW m \in Msg, accepted'[m] # None,
         NEW i \in Instance, m \in Queued(squeue[i], m.service), accepted'[m] = accepted[m]
  PROVE  Safe(m)' \/ Excused(m)'
  <1> DEFINE s == m.service
             c == m.client
  <1>1. /\ s \in Service /\ c \in Client /\ c \in Caller
        /\ squeue[i] \in [DOMAIN squeue[i] -> Seq(Msg)] /\ squeue = [k \in Instance |-> squeue[k]]
    BY DEF Msg, Caller, TypeInv, TypeOK, Registries
  <1>2. session[c].pin = InternalIp(i) /\ InternalIp(i) \in Address
    BY <1>1 DEF Affine, RequestsAtHome, Address
  <1>3. m \in Queued(squeue'[i], s) => Safe(m)'
    BY DEF Safe, Queued
  <1>4. ASSUME NEW l \in Line, NEW k \in Instance, PullRequest(l, k)
        PROVE  Safe(m)' \/ Excused(m)'
    <2> DEFINE x == exch[l]
               n == x.path
    <2>1. CASE Has(squeue[k], n)
      <3>1. /\ squeue' = [squeue EXCEPT ![k] = Take(squeue[k], n)]
            /\ ReplyWith(l, 200, Head(squeue[k][n])) /\ session' = session /\ faults' = faults
        BY <1>4, <2>1 DEF PullRequest, caller, fault
      <3>2. CASE k # i
        BY <1>1, <1>3, <3>1, <3>2
      <3>3. CASE k = i
        <4>1. squeue'[i] = Take(squeue[i], n)
          BY <1>1, <3>1, <3>3
        <4>2. m \in Queued(squeue'[i], s) \/ (s = n /\ m = Head(squeue[i][n]))
          BY <1>1, <2>1, <3>3, <4>1, TakeHolds
        <4>3. ASSUME s = n, m = Head(squeue[i][n]) PROVE Safe(m)' \/ Excused(m)'
          <5>1. /\ x.op = "pull" /\ x.token.role = "service" /\ x.token.name = n
                /\ x.pin = InternalIp(i)
            BY <1>4, <3>3, Passed DEF PullRequest, RoleOf, Op
          <5>2. CASE l \in Caller
            <6>1. ReplyWith(l, 200, m)
              BY <3>1, <3>3, <4>3
            <6>2. Delivers(exch'[l], m)
              BY <5>1, <5>2, <6>1, ReplyDelivers
            <6> QED
              BY <5>2, <6>2 DEF Safe, Delivers
          <5>3. CASE l \in Ghost
            <6>1. PICK w \in Worker : /\ <<"cut", w>> \in faults /\ Serves[w] = x.token.name
                                      /\ session[w].pin = x.pin
              BY <5>1, <5>3, CutCaller DEF Traced
            <6>2. Attends(w, m)' /\ <<"cut", w>> \in faults'
              BY <1>2, <3>1, <4>3, <5>1, <6>1 DEF Attends
            <6> QED
              BY <6>2 DEF Excused, ConnectionCause
          <5> QED
            BY <5>2, <5>3 DEF Line
        <4> QED
          BY <1>3, <4>2, <4>3
      <3> QED
        BY <3>2, <3>3
    <2>2. CASE ~Has(squeue[k], n)
      <3>1. squeue' = [squeue EXCEPT ![k] = GetOrCreate(squeue[k], n)]
        BY <1>4, <2>2 DEF PullRequest
      <3>2. squeue'[i] = squeue[i] \/ squeue'[i] = GetOrCreate(squeue[i], n)
        BY <1>1, <3>1
      <3> QED
        BY <1>3, <3>2, CreateHolds
    <2> QED
      BY <2>1, <2>2
  <1>5. ASSUME NEW l \in Line, NEW k \in Instance, ServiceAuth(l, k) PROVE Safe(m)'
    <2>1. squeue' = [squeue EXCEPT ![k] = GetOrCreate(squeue[k], exch[l].path)]
      BY <1>5 DEF ServiceAuth
    <2>2. squeue'[i] = squeue[i] \/ squeue'[i] = GetOrCreate(squeue[i], exch[l].path)
      BY <1>1, <2>1
    <2> QED
      BY <1>3, <2>2, CreateHolds
  <1>6. ASSUME NEW l \in Line, NEW k \in Instance, PostRequest(l, k) PROVE Safe(m)'
    <2>1. exch[l].msg \in Msg
      BY <1>6 DEF PostRequest, At, TypeInv, Identity, Shaped
    <2>2. squeue' = squeue \/ squeue' = [squeue EXCEPT ![k] = Put(squeue[k], exch[l].path, exch[l].msg)]
      BY <1>6 DEF PostRequest
    <2>3. squeue'[i] = squeue[i] \/ squeue'[i] = Put(squeue[i], exch[l].path, exch[l].msg)
      BY <1>1, <2>2
    <2> QED
      BY <1>1, <1>3, <2>1, <2>3, PutHolds
  <1>7. ASSUME NEW k \in Instance, Crash(k) PROVE Safe(m)' \/ Excused(m)'
    <2>1. squeue' = [squeue EXCEPT ![k] = Empty] /\ crashes' = [crashes EXCEPT ![k] = @ + 1]
          /\ session' = session
      BY <1>7 DEF Crash, caller
    <2>2. CASE k # i
      BY <1>1, <1>3, <2>1, <2>2
    <2>3. CASE k = i
      <3>1. accepted[m] \in Nat /\ crashes[i] \in Nat /\ accepted[m] <= crashes[i]
        BY <1>2 DEF Traced, AcceptedHere, TypeInv, TypeOK
      <3>2. crashes'[i] = crashes[i] + 1
        BY <2>1, <2>3 DEF TypeInv, TypeOK
      <3>3. crashes'[i] > accepted'[m]
        BY <3>1, <3>2
      <3> QED
        BY <1>2, <2>1, <3>3 DEF Excused, CrashCause
    <2> QED
      BY <2>2, <2>3
  <1>8. \/ squeue' = squeue
        \/ \E l \in Line, k \in Instance : PullRequest(l, k) \/ ServiceAuth(l, k) \/ PostRequest(l, k)
        \/ \E k \in Instance : Crash(k)
    BY QueueSteps
  <1> QED
    BY <1>3, <1>4, <1>5, <1>6, <1>7, <1>8

\* A caller's token tells who it is.
LEMMA TokenOfCaller ==
  ASSUME TypeInv, NEW a \in Caller, exch[a].op \notin {"none", "auth"},
         exch[a].token.role = "client"
  PROVE  a \in Client /\ exch[a].token.name = a
  <1>1. exch[a].token = Own(a)
    BY OwnCall DEF CallOf
  <1>2. a \in Client
    BY <1>1 DEF Own
  <1> QED
    BY <1>1, <1>2, NameType DEF Own

\* What a poll or a wait does to the queue of its client.
LEMMA PollStep ==
  ASSUME TypeInv, NEW l \in Line, NEW i \in Instance, PollResponse(l, i) \/ BlockWait(l, i)
  PROVE  LET c == exch[l].token.name
             m == Head(box[i][c])
         IN  /\ exch[l].op \in {"poll", "wait"} /\ exch[l].status = None
             /\ exch[l].token.role = "client" /\ c \in Client
             /\ \/ Has(box[i], c) /\ box' = [box EXCEPT ![i] = Take(@, c)] /\ ReplyWith(l, 200, m)
                \/ /\ box' = box \/ box' = [box EXCEPT ![i] = GetOrCreate(@, c)]
                   /\ \E status \in {202, 204} : ReplyWith(l, status, None)
  <1>1. PICK op \in {"poll", "wait"} : At(l, i, op)
    BY DEF PollResponse, BlockWait
  <1>2. /\ exch[l].op = op /\ exch[l].token.role = "client" /\ exch[l].token.name \in Client
        /\ op = "poll" => exch[l].path = exch[l].token.name
    BY <1>1, Passed DEF RoleOf, Op
  <1> QED
    BY <1>1, <1>2 DEF PollResponse, BlockWait, At

\* A response leaves the queue of its client for the client, when the client logs
\* off or is evicted, or with its instance.
LEMMA QueuedResponseStays ==
  ASSUME TypeInv, Affine, Traced, [Next]_vars, NEW m \in Msg, accepted'[m] # None,
         NEW i \in Instance, m \in Queued(box[i], m.client), accepted'[m] = accepted[m]
  PROVE  Safe(m)' \/ Excused(m)'
  <1> DEFINE c == m.client
  <1>1. /\ c \in Client /\ c \in Caller
        /\ box[i] \in [DOMAIN box[i] -> Seq(Msg)] /\ box = [k \in Instance |-> box[k]]
    BY DEF Msg, Caller, TypeInv, TypeOK, Registries
  <1>2. session[c].pin = InternalIp(i) /\ InternalIp(i) \in Address
    BY <1>1 DEF Affine, ResponsesAtHome, Address
  <1>3. m \in Queued(box'[i], c) => Safe(m)'
    BY DEF Safe, Queued
  <1>4. <<"cut", c>> \in faults' \/ <<"idle", c>> \in faults' \/ ~Open(c)' => Excused(m)'
    BY DEF Excused, ConnectionCause
  <1>5. ASSUME NEW l \in Line, NEW k \in Instance, PollResponse(l, k) \/ BlockWait(l, k)
        PROVE  Safe(m)' \/ Excused(m)'
    <2> DEFINE x == exch[l]
               n == x.token.name
    <2>1. /\ x.op \in {"poll", "wait"} /\ x.token.role = "client" /\ n \in Client
          /\ \/ /\ Has(box[k], n) /\ box' = [box EXCEPT ![k] = Take(box[k], n)]
                /\ ReplyWith(l, 200, Head(box[k][n]))
             \/ box' = box \/ box' = [box EXCEPT ![k] = GetOrCreate(box[k], n)]
      BY <1>5, PollStep
    <2>2. faults' = faults
      BY <1>5 DEF PollResponse, BlockWait, fault
    <2>3. ASSUME Has(box[k], n), box' = [box EXCEPT ![k] = Take(box[k], n)],
                 ReplyWith(l, 200, Head(box[k][n]))
          PROVE  Safe(m)' \/ Excused(m)'
      <3>1. CASE k # i
        BY <1>1, <1>3, <2>3, <3>1
      <3>2. CASE k = i
        <4>1. box'[i] = Take(box[i], n)
          BY <1>1, <2>3, <3>2
        <4>2. m \in Queued(box'[i], c) \/ (c = n /\ m = Head(box[i][n]))
          BY <1>1, <2>3, <3>2, <4>1, TakeHolds
        <4>3. ASSUME c = n, m = Head(box[i][n]) PROVE Safe(m)' \/ Excused(m)'
          <5>1. CASE l \in Caller
            <6>1. ReplyWith(l, 200, m)
              BY <2>3, <3>2, <4>3
            <6>2. Delivers(exch'[l], m)
              BY <2>1, <5>1, <6>1, ReplyDelivers
            <6> QED
              BY <5>1, <6>2 DEF Safe, Delivers
          <5>2. CASE l \in Ghost
            <6>1. <<"cut", c>> \in faults
              BY <2>1, <4>3, <5>2, CutCaller DEF Traced
            <6> QED
              BY <1>4, <2>2, <6>1
          <5> QED
            BY <5>1, <5>2 DEF Line
        <4> QED
          BY <1>3, <4>2, <4>3
      <3> QED
        BY <3>1, <3>2
    <2>4. ASSUME box' = box \/ box' = [box EXCEPT ![k] = GetOrCreate(box[k], n)]
          PROVE  Safe(m)'
      <3>1. box'[i] = box[i] \/ box'[i] = GetOrCreate(box[i], n)
        BY <1>1, <2>4
      <3> QED
        BY <1>3, <3>1, CreateHolds
    <2> QED
      BY <2>1, <2>3, <2>4
  <1>6. ASSUME NEW l \in Line, NEW k \in Instance, PostRequest(l, k) PROVE Safe(m)'
    <2>1. box' = [box EXCEPT ![k] = GetOrCreate(box[k], exch[l].token.name)]
      BY <1>6 DEF PostRequest
    <2>2. box'[i] = box[i] \/ box'[i] = GetOrCreate(box[i], exch[l].token.name)
      BY <1>1, <2>1
    <2> QED
      BY <1>3, <2>2, CreateHolds
  <1>7. ASSUME NEW l \in Line, NEW k \in Instance, PostResponse(l, k) PROVE Safe(m)'
    <2>1. exch[l].msg \in Msg
      BY <1>7 DEF PostResponse, At, TypeInv, Identity, Shaped
    <2>2. box' = box \/ box' = [box EXCEPT ![k] = Put(box[k], exch[l].path, exch[l].msg)]
      BY <1>7 DEF PostResponse
    <2>3. box'[i] = box[i] \/ box'[i] = Put(box[i], exch[l].path, exch[l].msg)
      BY <1>1, <2>2
    <2> QED
      BY <1>1, <1>3, <2>1, <2>3, PutHolds
  <1>8. ASSUME NEW l \in Line, NEW k \in Instance, Logoff(l, k)
        PROVE  Safe(m)' \/ Excused(m)'
    <2> DEFINE n == exch[l].token.name
    <2>1. exch[l].op = "logoff" /\ exch[l].token.role = "client"
      BY <1>8, Passed DEF Logoff, RoleOf, Op
    <2>2. box' = [box EXCEPT ![k] = Without(box[k], n)] /\ session' = session /\ faults' = faults
      BY <1>8 DEF Logoff, caller, fault
    <2>3. CASE n # c
      <3>1. box'[i] = box[i] \/ box'[i] = Without(box[i], n)
        BY <1>1, <2>2
      <3> QED
        BY <1>3, <2>3, <3>1, WithoutHolds
    <2>4. CASE n = c
      <3>1. CASE l \in Caller
        <4>1. l = c
          BY <2>1, <2>4, <3>1, TokenOfCaller
        <4>2. ~Open(c)
          BY <1>1, <2>1, <4>1 DEF Traced, CallsOpen
        <4> QED
          BY <1>4, <2>2, <4>2 DEF Open
      <3>2. CASE l \in Ghost
        <4>1. <<"cut", c>> \in faults
          BY <2>1, <2>4, <3>2, CutCaller DEF Traced
        <4> QED
          BY <1>4, <2>2, <4>1
      <3> QED
        BY <3>1, <3>2 DEF Line
    <2> QED
      BY <2>3, <2>4
  <1>9. ASSUME NEW k \in Instance, NEW d \in Client, Evict(d, k)
        PROVE  Safe(m)' \/ Excused(m)'
    <2>1. box' = [box EXCEPT ![k] = Without(box[k], d)] /\ <<"idle", d>> \in faults'
      BY <1>9 DEF Evict, Fault
    <2>2. box'[i] = box[i] \/ box'[i] = Without(box[i], d)
      BY <1>1, <2>1
    <2> QED
      BY <1>3, <1>4, <2>1, <2>2, WithoutHolds
  <1>10. ASSUME NEW k \in Instance, Crash(k) PROVE Safe(m)' \/ Excused(m)'
    <2>1. box' = [box EXCEPT ![k] = Empty] /\ crashes' = [crashes EXCEPT ![k] = @ + 1]
          /\ session' = session
      BY <1>10 DEF Crash, caller
    <2>2. CASE k # i
      BY <1>1, <1>3, <2>1, <2>2
    <2>3. CASE k = i
      <3>1. accepted[m] \in Nat /\ crashes[i] \in Nat /\ accepted[m] <= crashes[i]
        BY <1>2 DEF Traced, AcceptedHere, TypeInv, TypeOK
      <3>2. crashes'[i] = crashes[i] + 1
        BY <2>1, <2>3 DEF TypeInv, TypeOK
      <3>3. crashes'[i] > accepted'[m]
        BY <3>1, <3>2
      <3> QED
        BY <1>2, <2>1, <3>3 DEF Excused, CrashCause
    <2> QED
      BY <2>2, <2>3
  <1> QED
    BY <1>3, <1>5, <1>6, <1>7, <1>8, <1>9, <1>10, QueueSteps

\* An exchange with a reply is the caller's, until it gets the reply or loses it.
LEMMA AnsweredLine ==
  ASSUME TypeInv, [Next]_vars, NEW a \in Caller, exch[a].status # None
  PROVE  exch'[a] = exch[a] \/ Receive(a) \/ Break(a)
  <1>1. a \in Line /\ a \notin Ghost /\ exch \in [Line -> Exchange] /\ exch[a] # NoExchange
    BY SystemAssumption DEF Line, TypeInv, TypeOK, NoExchange
  <1>2. ASSUME NEW b \in Caller, Use(b) PROVE exch'[a] = exch[a]
    BY <1>1, <1>2 DEF Use, Authenticate, Stray, Close, SendRequest, PollOne, GetRequest, Drop,
       SendResponse, Ask
  <1>3. ASSUME NEW b \in Caller, Receive(b) \/ Break(b), b # a PROVE exch'[a] = exch[a]
    BY <1>1, <1>3 DEF Receive, Break
  <1>4. ASSUME NEW b \in Caller, Unreachable(b) PROVE exch'[a] = exch[a]
    BY <1>1, <1>4 DEF Unreachable
  <1>5. ASSUME NEW l \in Line, NEW i \in Instance, Serve(l, i) PROVE exch'[a] = exch[a]
    <2>1. exch[l].status = None
      BY <1>5 DEF Serve, Deny, ServiceAuth, ClientAuth, PostRequest, PollResponse, BlockWait,
         PullRequest, PostResponse, Logoff, At
    <2>2. PICK z : exch' = [exch EXCEPT ![l] = z]
      BY <1>5, ServeLine
    <2> QED
      BY <1>1, <2>1, <2>2
  <1>6. ASSUME NEW i \in Instance, Crash(i) PROVE exch'[a] = exch[a]
    BY <1>1, <1>6 DEF Crash, Pinned
  <1>7. ASSUME NEW i \in Instance, Restart(i) \/ \E c \in Client : Evict(c, i)
        PROVE  exch' = exch
    BY <1>7 DEF Restart, Evict
  <1>8. CASE UNCHANGED vars
    BY <1>8 DEF vars
  <1> QED
    BY <1>2, <1>3, <1>4, <1>5, <1>6, <1>7, <1>8 DEF Next

\* A message that is on its way to its caller gets there, unless the exchange breaks.
LEMMA DeliveryStays ==
  ASSUME TypeInv, Affine, ResponsesFollow, Traced, [Next]_vars, NEW m \in Msg,
         NEW a \in Caller, Delivers(exch[a], m)
  PROVE  Safe(m)' \/ Excused(m)'
  <1> DEFINE x == exch[a]
  <1>1. x.op \in {"pull", "poll", "wait"} /\ x.status = 200 /\ x.msg = m
    BY DEF Delivers
  <1>2. x.op = "pull" => /\ a \in Worker /\ Serves[a] = m.service
                         /\ session[m.client].pin = session[a].pin
    <2>1. ASSUME x.op = "pull" PROVE Got(x, {"pull"})
      BY <1>1, <2>1 DEF Got
    <2>2. x.op = "pull" => session[m.client].pin = x.pin
      BY <1>1 DEF Affine, LinesAtHome, Bound, Line
    <2>3. x.pin = session[a].pin
      BY <1>1, OwnCall DEF CallOf
    <2> QED
      BY <1>1, <2>1, <2>2, <2>3, PulledOwn
  <1>3. x.op \in {"poll", "wait"} => a = m.client
    <2>1. ASSUME x.op \in {"poll", "wait"} PROVE Got(x, {"poll", "wait"})
      BY <1>1, <2>1 DEF Got
    <2> QED
      BY <1>1, <2>1, PolledOwn
  <1>4. CASE exch'[a] = exch[a]
    BY <1>4 DEF Safe, Delivers
  <1>5. CASE Receive(a)
    <2>1. session' = session /\ exch'[a] = NoExchange
      BY <1>1, <1>5 DEF Receive, Got, TypeInv, TypeOK, Line
    <2>2. CASE x.op = "pull"
      <3>1. held'[a] = held[a] \cup {m}
        BY <1>1, <1>5, <2>2 DEF Receive, Got, TypeInv, TypeOK
      <3>2. Open(a)'
        BY <1>1, <2>1 DEF Traced, CallsOpen, Open
      <3>3. ~Confirms(exch'[a], m)
        BY <2>1 DEF Confirms, NoExchange
      <3> QED
        BY <1>2, <2>2, <3>1, <3>2, <3>3 DEF Safe, Confirms
    <2>3. CASE x.op \in {"poll", "wait"}
      <3>1. got' = [got EXCEPT ![a][m] = @ + 1]
        BY <1>1, <1>5, <2>3 DEF Receive, Got
      <3>2. got'[a][m] = got[a][m] + 1 /\ got[a][m] \in Nat
        BY <3>1 DEF TypeInv, TypeOK
      <3>3. got'[a][m] > 0
        BY <3>2
      <3> QED
        BY <1>3, <2>3, <3>3 DEF Safe
    <2> QED
      BY <1>1, <2>2, <2>3
  <1>6. CASE Break(a)
    <2>1. session' = session /\ <<"cut", a>> \in faults'
      BY <1>6 DEF Break, Fault, caller
    <2>2. CASE x.op = "pull"
      BY <1>2, <2>1, <2>2 DEF Excused, ConnectionCause, Attends
    <2>3. CASE x.op \in {"poll", "wait"}
      BY <1>3, <2>1, <2>3 DEF Excused, ConnectionCause
    <2> QED
      BY <1>1, <2>2, <2>3
  <1> QED
    BY <1>1, <1>4, <1>5, <1>6, AnsweredLine, StatusType

\* Only post_response confirms a response, and only when it has queued it.
LEMMA ConfirmStep ==
  ASSUME TypeInv, [Next]_vars, NEW w \in Worker, NEW m, ~Confirms(exch[w], m), Confirms(exch'[w], m)
  PROVE  \E i \in Instance : /\ At(w, i, "answer") /\ exch[w].msg = m
                             /\ box' = [box EXCEPT ![i] = Put(@, exch[w].path, m)]
  <1> DEFINE x == exch[w]
             y == exch'[w]
  <1>1. w \in Line /\ w \in Caller /\ w \notin Ghost /\ exch \in [Line -> Exchange] /\ x \in Exchange
    BY SystemAssumption DEF Line, Caller, TypeInv, TypeOK
  <1>2. y # x /\ y.op = "answer" /\ y.status = 202 /\ y.msg = m
    BY DEF Confirms
  <1>3. ASSUME NEW b \in Caller, Use(b) PROVE FALSE
    <2>1. y = x \/ y.status = None
      BY <1>1, <1>3 DEF Use, Authenticate, Stray, Close, SendRequest, PollOne, GetRequest, Drop,
         SendResponse, Ask
    <2> QED
      BY <1>2, <2>1, StatusType
  <1>4. y # NoExchange /\ y # Failed(x)
    <2>1. NoExchange.op = "none"
      BY DEF NoExchange
    <2>2. Failed(x).status = 0
      BY <1>1 DEF Failed, Exchange
    <2> QED
      BY <1>2, <2>1, <2>2
  <1>5. ASSUME NEW b \in Caller, Receive(b) \/ Break(b) \/ Unreachable(b) PROVE FALSE
    BY <1>1, <1>2, <1>4, <1>5 DEF Receive, Break, Unreachable
  <1>6. ASSUME NEW i \in Instance, Crash(i) PROVE FALSE
    BY <1>1, <1>2, <1>4, <1>6 DEF Crash
  <1>7. ASSUME NEW i \in Instance, Restart(i) \/ \E c \in Client : Evict(c, i) PROVE FALSE
    BY <1>2, <1>7 DEF Restart, Evict
  <1>8. CASE UNCHANGED vars
    BY <1>2, <1>8 DEF vars
  <1>9. ASSUME NEW l \in Line, NEW i \in Instance, Serve(l, i)
        PROVE  /\ At(w, i, "answer") /\ x.msg = m
               /\ box' = [box EXCEPT ![i] = Put(@, x.path, m)]
    <2>1. PICK z : exch' = [exch EXCEPT ![l] = z] /\ (z = NoExchange \/ Continues(exch[l], z))
      BY <1>9, ServeLine
    <2>2. l = w /\ x.op = "answer"
      BY <1>1, <1>2, <1>4, <2>1 DEF Continues
    <2>3. PostResponse(w, i) \/ Deny(w, i)
      BY <1>9, <2>2 DEF Serve, ServiceAuth, ClientAuth, PostRequest, PollResponse,
         BlockWait, PullRequest, Logoff, At
    <2>4. ASSUME NEW status, NEW n, ReplyWith(w, status, n) PROVE y.status = status /\ y.msg = n
      <3>1. y = [x EXCEPT !.status = status, !.msg = n]
        BY <1>1, <2>4 DEF ReplyWith, Reply
      <3> QED
        BY <1>1, <3>1 DEF Exchange
    <2>5. ~Deny(w, i)
      <3>1. Deny(w, i) => y.status \in {400, 403}
        BY <2>4 DEF Deny, Verdict
      <3> QED
        BY <1>2, <3>1
    <2>6. At(w, i, "answer")
      BY <2>3, <2>5 DEF PostResponse
    <2>7. \/ ReplyWith(w, 503, x.msg)
          \/ box' = [box EXCEPT ![i] = Put(@, x.path, x.msg)] /\ ReplyWith(w, 202, x.msg)
      BY <2>3, <2>5 DEF PostResponse
    <2> QED
      BY <1>2, <2>4, <2>6, <2>7
  <1> QED
    BY <1>3, <1>5, <1>6, <1>7, <1>8, <1>9 DEF Next

\* What a service holds leaves it when its response is queued, or is forgotten.
LEMMA HeldStep ==
  ASSUME TypeInv, [Next]_vars, NEW w \in Worker, NEW m \in held[w], m \notin held'[w]
  PROVE  Drop(w) \/ Confirms(exch[w], m)
  <1>1. w \in Caller /\ held \in [Caller -> SUBSET Msg] /\ held' # held
    BY DEF Caller, TypeInv, TypeOK
  <1>2. ASSUME NEW b \in Caller, Use(b) PROVE Drop(w)
    <2>1. Drop(b)
      BY <1>1, <1>2 DEF Use, Authenticate, Stray, Close, SendRequest, PollOne, GetRequest,
         SendResponse, caller
    <2>2. b = w
      BY <1>1, <2>1 DEF Drop
    <2> QED
      BY <2>1, <2>2
  <1>3. ASSUME NEW b \in Caller, Receive(b) PROVE Confirms(exch[w], m)
    <2>1. \/ held' = [held EXCEPT ![b] = @ \cup {exch[b].msg}]
          \/ /\ exch[b].op = "answer" /\ exch[b].status = 202
             /\ held' = [held EXCEPT ![b] = @ \ {exch[b].msg}]
      BY <1>1, <1>3 DEF Receive
    <2> QED
      BY <1>1, <2>1 DEF Confirms
  <1>4. ASSUME NEW b \in Caller, Break(b) \/ Unreachable(b) PROVE FALSE
    BY <1>1, <1>4 DEF Break, Unreachable, caller
  <1>5. ASSUME NEW l \in Line, NEW i \in Instance, Serve(l, i) PROVE FALSE
    BY <1>1, <1>5, ServeLine
  <1>6. ASSUME NEW i \in Instance, Crash(i) \/ Restart(i) \/ \E c \in Client : Evict(c, i)
        PROVE  FALSE
    BY <1>1, <1>6 DEF Crash, Restart, Evict, caller
  <1>7. CASE UNCHANGED vars
    BY <1>1, <1>7 DEF vars, caller
  <1> QED
    BY <1>2, <1>3, <1>4, <1>5, <1>6, <1>7 DEF Next

\* What a service holds stays there until the response to it is queued, unless the
\* service forgets it or closes.
LEMMA HeldStays ==
  ASSUME TypeInv, Affine, [Next]_vars, NEW m \in Msg,
         NEW w \in Worker, Open(w), m \in held[w], ~Confirms(exch[w], m)
  PROVE  Safe(m)' \/ Excused(m)'
  <1>1. w \in Caller /\ w \in Line /\ m.client \in Caller
    BY DEF Caller, Line, Msg
  <1>2. Attends(w, m) /\ session[w].pin \in Address /\ session[m.client].pin \in Address
    BY DEF Affine, HeldAtHome, Attends
  <1>3. Attends(w, m)'
    BY <1>1, <1>2, PinKept DEF Attends
  <1>4. <<"dropped", w>> \in faults' \/ ~Open(w)' => Excused(m)'
    BY <1>3 DEF Excused, ConnectionCause
  <1>5. CASE Drop(w)
    BY <1>4, <1>5 DEF Drop, Fault
  <1>6. CASE Confirms(exch'[w], m)
    <2>1. PICK i \in Instance : /\ At(w, i, "answer") /\ exch[w].msg = m
                                /\ box' = [box EXCEPT ![i] = Put(@, exch[w].path, m)]
      BY <1>6, ConfirmStep
    <2>2. exch[w].path = m.client
      BY <1>1, <2>1 DEF At, Affine, LinesAtHome, Bound
    <2>3. box[i] \in [DOMAIN box[i] -> Seq(Msg)] /\ box'[i] = Put(box[i], m.client, m)
      BY <2>1, <2>2 DEF TypeInv, TypeOK, Registries
    <2>4. m \in Queued(box'[i], m.client)
      BY <2>3, PutHolds
    <2> QED
      BY <2>4 DEF Safe, Queued
  <1>7. CASE m \in held'[w] /\ ~Confirms(exch'[w], m)
    BY <1>4, <1>7 DEF Safe, Confirms
  <1> QED
    BY <1>5, <1>6, <1>7, HeldStep

\* A response that has come does not go away.
LEMMA GotStays ==
  ASSUME TypeInv, [Next]_vars, NEW m \in Msg, got[m.client][m] > 0
  PROVE  Safe(m)'
  <1>1. m.client \in Caller /\ got \in [Caller -> [Msg -> Nat]]
    BY DEF Msg, Caller, TypeInv, TypeOK
  <1>2. ASSUME NEW a \in Caller, Receive(a) PROVE got'[m.client][m] > 0
    <2>1. got' = got \/ got' = [got EXCEPT ![a][exch[a].msg] = @ + 1]
      BY <1>2 DEF Receive
    <2>2. got'[m.client][m] \in {got[m.client][m], got[m.client][m] + 1}
      BY <1>1, <2>1
    <2>3. got[m.client][m] \in Nat
      BY <1>1
    <2> QED
      BY <2>2, <2>3
  <1>3. CASE \A a \in Caller : ~Receive(a)
    BY <1>3, QuietStep DEF Safe
  <1> QED
    BY <1>2, <1>3 DEF Safe

\* A request that is just accepted is in the queue of its service.
LEMMA AcceptedIsSafe ==
  ASSUME TypeInv, Affine, [Next]_vars, NEW m \in Msg, accepted'[m] # accepted[m]
  PROVE  Safe(m)'
  <1>1. PICK l \in Line, i \in Instance :
          /\ PostRequest(l, i) /\ exch[l].msg = m
          /\ squeue' = [squeue EXCEPT ![i] = Put(@, exch[l].path, m)]
    BY AcceptedStep
  <1>2. exch[l].op \in {"post", "call"} /\ exch[l].status = None
    BY <1>1 DEF PostRequest, At
  <1>3. exch[l].path = m.service
    BY <1>1, <1>2 DEF Affine, LinesAtHome, Bound
  <1>4. squeue[i] \in [DOMAIN squeue[i] -> Seq(Msg)] /\ squeue'[i] = Put(squeue[i], m.service, m)
    BY <1>1, <1>3 DEF TypeInv, TypeOK, Registries
  <1>5. m \in Queued(squeue'[i], m.service)
    BY <1>4, PutHolds
  <1> QED
    BY <1>5 DEF Safe, Queued

\* No step loses an accepted request without a cause on its own side.
LEMMA AccountedStep ==
  TypeInv /\ Affine /\ ResponsesFollow /\ Traced /\ Accounted /\ [Next]_vars => Accounted'
  <1> SUFFICES ASSUME TypeInv, Affine, ResponsesFollow, Traced, Accounted, [Next]_vars,
                      NEW m \in Msg, accepted'[m] # None
               PROVE  Safe(m)' \/ Excused(m)'
    BY DEF Accounted
  <1>1. CASE accepted'[m] # accepted[m]
    BY <1>1, AcceptedIsSafe
  <1>2. CASE accepted'[m] = accepted[m]
    <2>1. accepted[m] # None
      BY <1>2
    <2>2. CASE Excused(m)
      BY <1>2, <2>1, <2>2, ExcuseStays DEF Traced
    <2>3. CASE Safe(m)
      <3>1. ASSUME NEW i \in Instance, m \in Queued(squeue[i], m.service)
            PROVE  Safe(m)' \/ Excused(m)'
        BY <1>2, <3>1, QueuedRequestStays
      <3>2. ASSUME NEW i \in Instance, m \in Queued(box[i], m.client)
            PROVE  Safe(m)' \/ Excused(m)'
        BY <1>2, <3>2, QueuedResponseStays
      <3>3. ASSUME NEW a \in Caller, Delivers(exch[a], m)
            PROVE  Safe(m)' \/ Excused(m)'
        BY <3>3, DeliveryStays
      <3>4. ASSUME NEW w \in Worker, Open(w), m \in held[w], ~Confirms(exch[w], m)
            PROVE  Safe(m)' \/ Excused(m)'
        BY <3>4, HeldStays
      <3> QED
        BY <2>3, <3>1, <3>2, <3>3, <3>4, GotStays DEF Safe
    <2> QED
      BY <2>1, <2>2, <2>3 DEF Accounted
  <1> QED
    BY <1>1, <1>2

\* Somewhere safe is somewhere.
LEMMA SafeIsPresent ==
  ASSUME TypeInv, Accounted
  PROVE  LossHasCause
  <1> SUFFICES ASSUME NEW m \in Msg, accepted[m] # None
               PROVE  Present(m) \/ got[m.client][m] > 0 \/ ConnectionCause(m) \/ CrashCause(m)
    BY DEF LossHasCause
  <1>1. Safe(m) => Present(m) \/ got[m.client][m] > 0
    BY DEF Safe, Present, Delivers, Line
  <1> QED
    BY <1>1 DEF Accounted, Excused

\* A request that was accepted is answered, or on its way, or its own client,
\* instance or service failed it (services.py:83, 95, clients.py:34-51).
THEOREM NothingLostWithoutCause == Spec => []LossHasCause
  <1> DEFINE Inv == Refinable /\ Traced /\ Accounted
  <1>1. Init => Inv
    <2>1. Init => Accounted
      BY DEF Init, Accounted
    <2> QED
      BY <2>1, TypeInit, AffineInit, OnceInit, FollowInit, TracedInit DEF Refinable
  <1>2. Inv /\ [Next]_vars => Inv'
    BY TypeStep, AffineStep, OnceStep, FollowStep, TracedStep, AccountedStep DEF Refinable
  <1>3. Inv => LossHasCause
    BY SafeIsPresent DEF Refinable
  <1> QED
    BY <1>1, <1>2, <1>3, PTL DEF Spec

-------------------------------------------------------------------------------
(* A response is in one place until it arrives *)

\* Queue n of f has message m at most once.
OnceIn(f, n, m) ==
  n \in DOMAIN f => \A j, k \in DOMAIN f[n] : f[n][j] = m /\ f[n][k] = m => j = k

\* Queue operations that leave at most one copy.
LEMMA OnceInFewer ==
  ASSUME NEW f, NEW n, NEW k, NEW m, OnceIn(f, k, m)
  PROVE  OnceIn(GetOrCreate(f, n), k, m) /\ OnceIn(Without(f, n), k, m) /\ OnceIn(Empty, k, m)
  <1>1. OnceIn(GetOrCreate(f, n), k, m)
    <2> DEFINE g == GetOrCreate(f, n)
    <2>1. DOMAIN g = DOMAIN f \cup {n}
          /\ \A j \in DOMAIN g : g[j] = IF j \in DOMAIN f THEN f[j] ELSE <<>>
      BY DEF GetOrCreate
    <2>2. DOMAIN <<>> = {}
      OBVIOUS
    <2> HIDE DEF g
    <2>3. OnceIn(g, k, m)
      BY <2>1, <2>2 DEF OnceIn
    <2> QED
      BY <2>3 DEF g
  <1>2. OnceIn(Without(f, n), k, m)
    BY DEF OnceIn, Without
  <1>3. OnceIn(Empty, k, m)
    BY DEF OnceIn, Empty
  <1> QED
    BY <1>1, <1>2, <1>3

\* A put of another message, or of one that is not in the queue.
LEMMA OnceInPut ==
  ASSUME NEW f, f \in [DOMAIN f -> Seq(Msg)], NEW n, NEW new \in Msg, NEW k, NEW m,
         OnceIn(f, k, m), new = m => m \notin Queued(f, k)
  PROVE  OnceIn(Put(f, n, new), k, m)
  <1> DEFINE g == GetOrCreate(f, n)
             h == Put(f, n, new)
  <1>1. DOMAIN g = DOMAIN f \cup {n} /\ g \in [DOMAIN g -> Seq(Msg)]
    BY DEF GetOrCreate
  <1>2. h = [g EXCEPT ![n] = Append(@, new)]
    BY DEF Put
  <1>3. OnceIn(g, k, m)
    BY OnceInFewer
  <1>4. new = m => m \notin Queued(g, k)
    BY QueuedCreate
  <1> HIDE DEF g, h
  <1>5. DOMAIN h = DOMAIN g /\ \A j \in DOMAIN g : j # n => h[j] = g[j]
    BY <1>1, <1>2
  <1>6. CASE k # n
    BY <1>3, <1>5, <1>6 DEF OnceIn, h
  <1>7. CASE k = n
    <2> DEFINE q == g[n]
    <2>1. q \in Seq(Msg) /\ h[n] = Append(q, new)
      BY <1>1, <1>2
    <2>2. \A i, j \in DOMAIN q : q[i] = m /\ q[j] = m => i = j
      BY <1>1, <1>3, <1>7 DEF OnceIn
    <2>3. new = m => \A j \in DOMAIN q : q[j] # m
      BY <1>1, <1>4, <1>7 DEF Queued
    <2> HIDE DEF q
    <2>4. \A j \in DOMAIN h[n] : \/ j \in DOMAIN q /\ h[n][j] = q[j]
                                 \/ j = Len(q) + 1 /\ h[n][j] = new
      BY <2>1, InAppend
    <2>5. \A i, j \in DOMAIN h[n] : h[n][i] = m /\ h[n][j] = m => i = j
      BY <2>2, <2>3, <2>4
    <2>6. OnceIn(h, k, m)
      BY <1>7, <2>5 DEF OnceIn
    <2> QED
      BY <2>6 DEF h
  <1> QED
    BY <1>6, <1>7

\* What a get returns is not in the queue any more.
LEMMA OnceInTake ==
  ASSUME NEW f, f \in [DOMAIN f -> Seq(Msg)], NEW n, Has(f, n), NEW k, NEW m, OnceIn(f, k, m)
  PROVE  /\ OnceIn(Take(f, n), k, m)
         /\ k = n /\ m = Head(f[n]) => m \notin Queued(Take(f, n), n)
  <1> DEFINE g == Take(f, n)
  <1>1. n \in DOMAIN f /\ f[n] \in Seq(Msg) /\ f[n] # <<>>
    BY DEF Has
  <1>2. g = [f EXCEPT ![n] = Tail(@)]
    BY DEF Take
  <1> HIDE DEF g
  <1>3. DOMAIN g = DOMAIN f /\ g[n] = Tail(f[n]) /\ \A j \in DOMAIN f : j # n => g[j] = f[j]
    BY <1>1, <1>2
  <1>4. \A j \in DOMAIN g[n] : j + 1 \in DOMAIN f[n] /\ g[n][j] = f[n][j + 1] /\ j \in Nat \ {0}
    <2>1. \A q \in Seq(Msg) : q # <<>> =>
            \A j \in DOMAIN Tail(q) :
              j + 1 \in DOMAIN q /\ Tail(q)[j] = q[j + 1] /\ j \in Nat \ {0}
      OBVIOUS
    <2> QED
      BY <1>1, <1>3, <2>1
  <1>5. Head(f[n]) = f[n][1] /\ 1 \in DOMAIN f[n]
    BY <1>1
  <1>6. CASE k # n
    BY <1>3, <1>6 DEF OnceIn, g
  <1>7. CASE k = n
    <2>1. \A i, j \in DOMAIN f[n] : f[n][i] = m /\ f[n][j] = m => i = j
      BY <1>1, <1>7 DEF OnceIn
    <2>2. OnceIn(g, k, m)
      <3> SUFFICES ASSUME NEW i \in DOMAIN g[n], NEW j \in DOMAIN g[n], g[n][i] = m, g[n][j] = m
                   PROVE  i = j
        BY <1>7 DEF OnceIn
      <3>1. i + 1 = j + 1
        BY <1>4, <2>1
      <3> QED
        BY <1>4, <3>1
    <2>3. ASSUME m = Head(f[n]), m \in Queued(g, n) PROVE FALSE
      <3>1. PICK j \in DOMAIN g[n] : m = g[n][j]
        BY <2>3 DEF Queued
      <3>2. j + 1 = 1
        BY <1>4, <1>5, <2>1, <2>3, <3>1
      <3> QED
        BY <1>4, <3>2
    <2> QED
      BY <1>7, <2>2, <2>3 DEF g
  <1> QED
    BY <1>6, <1>7

\* Exchange x takes the response to m to its client's queue.
Responds(x, m) == x.op = "answer" /\ x.status = None /\ x.msg = m

\* Exchange x has the response to m for the client.
Brings(x, m) == x.op \in {"poll", "wait"} /\ x.status = 200 /\ x.msg = m

\* A request is with the one connection it was handed to, and only its client has
\* a response.
RunByOne ==
  /\ \A m \in Msg : ran[m] # <<>> =>
       \E w \in Worker : ran[m] = <<w>> /\ Attends(w, m) /\ session[w].pin \in Address
  /\ \A a \in Caller : \A m \in held[a] : ran[m] = <<a>>
  /\ \A a \in Caller, m \in Msg : Responds(exch[a], m) => ran[m] = <<a>>
  /\ \A a \in Caller, m \in Msg : got[a][m] > 0 => ran[m] # <<>> /\ a = m.client

\* The connection that m was handed to has been cut.
Severed(m) == \E w \in Worker : ran[m] = <<w>> /\ <<"cut", w>> \in faults

GhostsSevered == \A g \in Ghost, m \in Msg : Responds(exch[g], m) => Severed(m)

\* Requests are handed out, and counted as answered, when a caller gets a reply.
LEMMA RanStep ==
  ASSUME TypeInv, Affine, RequestOnce, [Next]_vars, NEW m \in Msg, ran'[m] # ran[m]
  PROVE  \E a \in Worker : /\ Receive(a) /\ Got(exch[a], {"pull"}) /\ exch[a].msg = m
                           /\ ran[m] = <<>> /\ ran'[m] = <<a>>
  <1>1. PICK a \in Caller : Receive(a)
    BY QuietStep
  <1>2. ran \in [Msg -> Seq(Caller)]
    BY DEF TypeInv, TypeOK
  <1>3. Got(exch[a], {"pull"}) /\ ran' = [ran EXCEPT ![exch[a].msg] = Append(@, a)]
    BY <1>1 DEF Receive
  <1>4. exch[a].msg = m
    BY <1>2, <1>3
  <1>5. ran[m] = <<>>
    BY <1>1, <1>3, <1>4, ReceiveOnce, TypeStep DEF Next
  <1>6. ran'[m] = Append(<<>>, a)
    BY <1>2, <1>3, <1>4, <1>5
  <1>7. ran'[m] = <<a>>
    BY <1>6
  <1>8. a \in Worker
    BY <1>3, PulledOwn
  <1> QED
    BY <1>1, <1>3, <1>4, <1>5, <1>7, <1>8

\* A service holds what it has pulled.
LEMMA HeldAdds ==
  ASSUME TypeInv, [Next]_vars, NEW a \in Caller, NEW m, m \in held'[a], m \notin held[a]
  PROVE  Receive(a) /\ Got(exch[a], {"pull"}) /\ exch[a].msg = m
  <1>1. held \in [Caller -> SUBSET Msg] /\ held' # held
    BY DEF TypeInv, TypeOK
  <1>2. ASSUME NEW b \in Caller, Use(b) PROVE FALSE
    <2>1. Drop(b)
      BY <1>1, <1>2 DEF Use, Authenticate, Stray, Close, SendRequest, PollOne, GetRequest,
         SendResponse, caller
    <2> QED
      BY <1>1, <2>1 DEF Drop
  <1>3. ASSUME NEW b \in Caller, Receive(b)
        PROVE  Receive(a) /\ Got(exch[a], {"pull"}) /\ exch[a].msg = m
    <2>1. \/ Got(exch[b], {"pull"}) /\ held' = [held EXCEPT ![b] = @ \cup {exch[b].msg}]
          \/ held' = [held EXCEPT ![b] = @ \ {exch[b].msg}]
      BY <1>1, <1>3 DEF Receive
    <2>2. a = b /\ Got(exch[b], {"pull"}) /\ exch[b].msg = m
      BY <1>1, <2>1
    <2> QED
      BY <1>3, <2>2
  <1>4. ASSUME NEW b \in Caller, Break(b) \/ Unreachable(b) PROVE FALSE
    BY <1>1, <1>4 DEF Break, Unreachable, caller
  <1>5. ASSUME NEW l \in Line, NEW i \in Instance, Serve(l, i) PROVE FALSE
    BY <1>1, <1>5, ServeLine
  <1>6. ASSUME NEW i \in Instance, Crash(i) \/ Restart(i) \/ \E c \in Client : Evict(c, i)
        PROVE  FALSE
    BY <1>1, <1>6 DEF Crash, Restart, Evict, caller
  <1>7. CASE UNCHANGED vars
    BY <1>1, <1>7 DEF vars, caller
  <1> QED
    BY <1>2, <1>3, <1>4, <1>5, <1>6, <1>7 DEF Next

\* A service responds to what it holds.
LEMMA RespondsAdds ==
  ASSUME TypeInv, [Next]_vars, NEW a \in Caller, NEW m, Responds(exch'[a], m), ~Responds(exch[a], m)
  PROVE  m \in held[a] /\ exch[a] = NoExchange
  <1>1. a \in Line /\ exch \in [Line -> Exchange] /\ exch'[a] # exch[a]
    BY DEF Line, TypeInv, TypeOK
  <1>2. CASE Use(a)
    <2>1. exch'[a].op = "answer" /\ exch'[a].msg = m
      BY DEF Responds
    <2>2. PICK n \in held[a] : SendResponse(a, n)
      BY <1>1, <1>2, <2>1 DEF Use, Authenticate, Stray, Close, SendRequest, PollOne, GetRequest, Drop, Ask
    <2>3. exch[a] = NoExchange /\ exch'[a].msg = n
      BY <1>1, <2>2 DEF SendResponse, Ask
    <2> QED
      BY <2>1, <2>2, <2>3
  <1>3. CASE ~Use(a)
    BY <1>1, <1>3, CallerLine DEF Continues, Responds, NoExchange
  <1> QED
    BY <1>2, <1>3

\* A response that arrives.
LEMMA GotAdds ==
  ASSUME TypeInv, [Next]_vars, NEW a \in Caller, NEW m \in Msg, got'[a][m] # got[a][m]
  PROVE  Receive(a) /\ Brings(exch[a], m) /\ got'[a][m] = got[a][m] + 1
  <1>1. got \in [Caller -> [Msg -> Nat]]
    BY DEF TypeInv, TypeOK
  <1>2. PICK b \in Caller : Receive(b)
    BY QuietStep
  <1>3. Got(exch[b], {"poll", "wait"}) /\ got' = [got EXCEPT ![b][exch[b].msg] = @ + 1]
    BY <1>2 DEF Receive
  <1>4. a = b /\ exch[b].msg = m
    BY <1>1, <1>3
  <1>5. got'[a][m] = got[a][m] + 1
    BY <1>1, <1>3, <1>4
  <1> QED
    BY <1>2, <1>3, <1>4, <1>5 DEF Brings, Got

\* A request stays with the connection that it was handed to.
LEMMA RunByOneStep ==
  ASSUME TypeInv, Affine, RequestOnce, ResponsesFollow, RunByOne, [Next]_vars
  PROVE  RunByOne'
  <1>1. \A m \in Msg : ran[m] # <<>> => ran'[m] = ran[m]
    BY RanStep
  <1>2. ASSUME NEW m \in Msg, ran'[m] # <<>>
        PROVE  \E w \in Worker : ran'[m] = <<w>> /\ Attends(w, m)' /\ session'[w].pin \in Address
    <2>1. \E w \in Worker : ran'[m] = <<w>> /\ Attends(w, m) /\ session[w].pin \in Address
      <3>1. CASE ran'[m] = ran[m]
        BY <1>2, <3>1 DEF RunByOne
      <3>2. CASE ran'[m] # ran[m]
        <4>1. PICK a \in Worker : /\ Got(exch[a], {"pull"}) /\ exch[a].msg = m
                                  /\ ran'[m] = <<a>>
          BY <3>2, RanStep
        <4>2. a \in Caller /\ a \in Line /\ exch[a].op = "pull" /\ exch[a].status = 200
          BY <4>1 DEF Got, Caller, Line
        <4>3. exch[a].pin = session[a].pin /\ session[a].pin \in Address
          BY <4>2, OwnCall DEF CallOf
        <4>4. session[m.client].pin = exch[a].pin
          BY <4>1, <4>2 DEF Affine, LinesAtHome, Bound
        <4>5. Serves[a] = m.service
          BY <4>1, <4>2, PulledOwn
        <4> QED
          BY <4>1, <4>3, <4>4, <4>5 DEF Attends
      <3> QED
        BY <3>1, <3>2
    <2>2. PICK w \in Worker : ran'[m] = <<w>> /\ Attends(w, m) /\ session[w].pin \in Address
      BY <2>1
    <2>3. w \in Caller /\ m.client \in Caller /\ session[m.client].pin \in Address
      BY <2>2 DEF Caller, Msg, Attends
    <2>4. session'[w].pin = session[w].pin /\ session'[m.client].pin = session[m.client].pin
      BY <2>2, <2>3, PinKept
    <2> QED
      BY <2>2, <2>4 DEF Attends
  <1>3. ASSUME NEW a \in Caller, NEW m \in held[a]
        PROVE  m \in Msg /\ ran[m] = <<a>> /\ ran[m] # <<>>
    <2>1. ran[m] = <<a>>
      BY DEF RunByOne
    <2>2. held \in [Caller -> SUBSET Msg]
      BY DEF TypeInv, TypeOK
    <2> QED
      BY <2>1, <2>2
  <1>4. ASSUME NEW a \in Caller, NEW m \in held'[a] PROVE ran'[m] = <<a>>
    <2>1. CASE m \in held[a]
      BY <1>1, <1>3, <2>1
    <2>2. CASE m \notin held[a]
      <3>1. Receive(a) /\ Got(exch[a], {"pull"}) /\ exch[a].msg = m
        BY <2>2, HeldAdds
      <3>2. m \in Msg /\ ran[m] = <<>>
        BY <3>1, ReceiveOnce, TypeStep DEF Next
      <3>3. ran' = [ran EXCEPT ![m] = Append(@, a)] /\ ran \in [Msg -> Seq(Caller)]
        BY <3>1 DEF Receive, TypeInv, TypeOK
      <3>4. ran'[m] = Append(<<>>, a)
        BY <3>2, <3>3
      <3> QED
        BY <3>4
    <2> QED
      BY <2>1, <2>2
  <1>5. ASSUME NEW a \in Caller, NEW m \in Msg, Responds(exch'[a], m) PROVE ran'[m] = <<a>>
    <2>1. CASE Responds(exch[a], m)
      <3>1. ran[m] = <<a>>
        BY <2>1 DEF RunByOne
      <3> QED
        BY <1>1, <3>1
    <2>2. CASE ~Responds(exch[a], m)
      <3>1. m \in held[a]
        BY <1>5, <2>2, RespondsAdds
      <3> QED
        BY <1>1, <1>3, <3>1
    <2> QED
      BY <2>1, <2>2
  <1>6. ASSUME NEW a \in Caller, NEW m \in Msg, got'[a][m] > 0
        PROVE  ran'[m] # <<>> /\ a = m.client
    <2>1. CASE got'[a][m] = got[a][m]
      BY <1>1, <1>6, <2>1 DEF RunByOne
    <2>2. CASE got'[a][m] # got[a][m]
      <3>1. Got(exch[a], {"poll", "wait"}) /\ exch[a].msg = m
        BY <2>2, GotAdds DEF Brings, Got
      <3>2. ran[m] # <<>> /\ m.client = a
        BY <3>1, PolledOwn
      <3> QED
        BY <1>1, <3>2
    <2> QED
      BY <2>1, <2>2
  <1> QED
    BY <1>2, <1>4, <1>5, <1>6 DEF RunByOne, Responds, Attends

\* A connection that was cut stays so.
LEMMA SeveredStays ==
  ASSUME TypeInv, Affine, RequestOnce, [Next]_vars, NEW m \in Msg, Severed(m)
  PROVE  Severed(m)'
  <1>1. PICK w \in Worker : ran[m] = <<w>> /\ <<"cut", w>> \in faults
    BY DEF Severed
  <1>2. ran[m] # <<>>
    BY <1>1
  <1>3. ran'[m] = ran[m]
    BY <1>2, RanStep
  <1> QED
    BY <1>1, <1>3, HistoryGrows DEF Severed

\* A cut is put down to the connection that has the request.
LEMMA CutSevers ==
  ASSUME RunByOne, [Next]_vars, NEW a \in Caller, Break(a), NEW m \in Msg, ran[m] = <<a>>
  PROVE  Severed(m)'
  <1>1. <<"cut", a>> \in faults' /\ ran' = ran /\ ran[m] # <<>>
    BY DEF Break, Fault, caller
  <1>2. PICK w \in Worker : ran[m] = <<w>>
    BY <1>1 DEF RunByOne
  <1>3. w = a
    <2>1. <<w>> = <<a>> => w = a
      OBVIOUS
    <2> QED
      BY <1>2, <2>1
  <1> QED
    BY <1>1, <1>2, <1>3 DEF Severed

\* A response that goes on without its service comes from one that was cut off.
LEMMA GhostsSeveredStep ==
  ASSUME TypeInv, Affine, RequestOnce, RunByOne, GhostsSevered, [Next]_vars
  PROVE  GhostsSevered'
  <1> SUFFICES ASSUME NEW g \in Ghost, NEW m \in Msg, Responds(exch'[g], m) PROVE Severed(m)'
    BY DEF GhostsSevered, Responds, Severed
  <1>1. ~Continues(exch[g], exch'[g]) /\ exch'[g] # NoExchange
    BY DEF Responds, Continues, NoExchange
  <1>2. CASE exch'[g] = exch[g]
    BY <1>2, SeveredStays DEF GhostsSevered
  <1>3. ASSUME NEW a \in Caller, Break(a), exch'[g] = exch[a] PROVE Severed(m)'
    <2>1. ran[m] = <<a>>
      BY <1>3 DEF RunByOne
    <2> QED
      BY <1>3, <2>1, CutSevers
  <1> QED
    BY <1>1, <1>2, <1>3, GhostLine

\* Connection a has yet to respond to m, as far as it knows.
ToAnswer(a, m) == (m \in held[a] /\ ~Confirms(exch[a], m)) \/ Responds(exch[a], m)

\* The response to m waits for its client.
Waiting(m) == \E i \in Instance : m \in Queued(box[i], m.client)

\* A response goes into its client's queue, and out of it.
Queues(l, i, m) ==
  PostResponse(l, i) /\ exch[l].msg = m /\ ~IsFull(box[i], exch[l].path, ClientQueueMax)
Fetches(l, i, m) ==
  /\ PollResponse(l, i) \/ BlockWait(l, i)
  /\ Has(box[i], exch[l].token.name) /\ m = Head(box[i][exch[l].token.name])

\* A service has a response to give because it pulled the request, or because it
\* does not get to know that its response was queued.
LEMMA ToAnswerAdds ==
  ASSUME TypeInv, [Next]_vars, NEW a \in Caller, NEW m, ToAnswer(a, m)', ~ToAnswer(a, m)
  PROVE  \/ Receive(a) /\ Got(exch[a], {"pull"}) /\ exch[a].msg = m
         \/ Break(a) /\ m \in held[a]
  <1>1. ~Confirms(NoExchange, m)
    BY DEF Confirms, NoExchange
  <1>2. CASE Responds(exch'[a], m)
    BY <1>1, <1>2, RespondsAdds DEF ToAnswer
  <1>3. CASE m \in held'[a] /\ ~Confirms(exch'[a], m)
    <2>1. CASE m \notin held[a]
      BY <1>3, <2>1, HeldAdds
    <2>2. CASE m \in held[a]
      <3>1. Confirms(exch[a], m)
        BY <2>2 DEF ToAnswer
      <3>2. exch[a].op = "answer" /\ exch[a].status = 202 /\ exch[a].msg = m
        BY <3>1 DEF Confirms
      <3>3. Receive(a) \/ Break(a)
        BY <1>3, <3>1, <3>2, AnsweredLine, StatusType
      <3>4. ~Receive(a)
        <4> SUFFICES ASSUME Receive(a) PROVE FALSE
          OBVIOUS
        <4>1. held' = [held EXCEPT ![a] = @ \ {m}]
          BY <3>2 DEF Receive, Got
        <4>2. m \notin held'[a]
          BY <4>1 DEF TypeInv, TypeOK
        <4> QED
          BY <1>3, <4>2
      <3> QED
        BY <2>2, <3>3, <3>4
    <2> QED
      BY <2>1, <2>2
  <1>4. Responds(exch'[a], m) \/ (m \in held'[a] /\ ~Confirms(exch'[a], m))
    BY DEF ToAnswer, Responds, Confirms
  <1> QED
    BY <1>2, <1>3, <1>4

\* A reply of the server has the status and the message it is given.
LEMMA ReplyIs ==
  ASSUME TypeInv, NEW a \in Caller, NEW status, NEW n, ReplyWith(a, status, n)
  PROVE  exch'[a].op = exch[a].op /\ exch'[a].status = status /\ exch'[a].msg = n
  <1>1. exch[a] \in Exchange /\ exch \in [Line -> Exchange] /\ a \in Line
    BY DEF TypeInv, TypeOK, Line
  <1>2. exch'[a] = [exch[a] EXCEPT !.status = status, !.msg = n]
    BY <1>1 DEF ReplyWith, Reply
  <1> QED
    BY <1>1, <1>2 DEF Exchange

\* A client is brought a response from the head of its queue.
LEMMA BringsAdds ==
  ASSUME TypeInv, [Next]_vars, NEW a \in Caller, NEW m, Brings(exch'[a], m), ~Brings(exch[a], m)
  PROVE  \E i \in Instance : Fetches(a, i, m)
  <1> DEFINE x == exch[a]
             y == exch'[a]
  <1>1. a \in Line /\ a \notin Ghost /\ exch \in [Line -> Exchange] /\ x \in Exchange
    BY SystemAssumption DEF Line, TypeInv, TypeOK
  <1>2. y # x /\ y.op \in {"poll", "wait"} /\ y.status = 200 /\ y.msg = m
    BY DEF Brings
  <1>3. ASSUME NEW b \in Caller, Use(b) PROVE FALSE
    <2>1. y = x \/ y.status = None
      BY <1>1, <1>3 DEF Use, Authenticate, Stray, Close, SendRequest, PollOne, GetRequest, Drop,
         SendResponse, Ask
    <2> QED
      BY <1>2, <2>1, StatusType
  <1>4. y # NoExchange /\ y # Failed(x)
    <2>1. NoExchange.op = "none"
      BY DEF NoExchange
    <2>2. Failed(x).status = 0
      BY <1>1 DEF Failed, Exchange
    <2> QED
      BY <1>2, <2>1, <2>2
  <1>5. ASSUME NEW b \in Caller, Receive(b) \/ Break(b) \/ Unreachable(b) PROVE FALSE
    BY <1>1, <1>2, <1>4, <1>5 DEF Receive, Break, Unreachable
  <1>6. ASSUME NEW i \in Instance, Crash(i) PROVE FALSE
    BY <1>1, <1>2, <1>4, <1>6 DEF Crash
  <1>7. ASSUME NEW i \in Instance, Restart(i) \/ \E c \in Client : Evict(c, i) PROVE FALSE
    BY <1>2, <1>7 DEF Restart, Evict
  <1>8. CASE UNCHANGED vars
    BY <1>2, <1>8 DEF vars
  <1>9. ASSUME NEW l \in Line, NEW i \in Instance, Serve(l, i) PROVE Fetches(a, i, m)
    <2>1. PICK z : exch' = [exch EXCEPT ![l] = z] /\ (z = NoExchange \/ Continues(exch[l], z))
      BY <1>9, ServeLine
    <2>2. l = a /\ (x.op \in {"poll", "wait", "call"})
      BY <1>1, <1>2, <1>4, <2>1 DEF Continues
    <2>3. Deny(a, i) \/ PostRequest(a, i) \/ PollResponse(a, i) \/ BlockWait(a, i)
      BY <1>9, <2>2 DEF Serve, ServiceAuth, ClientAuth, PullRequest, PostResponse, Logoff, At
    <2>4. ~Deny(a, i)
      <3>1. Deny(a, i) => y.status \in {400, 403}
        BY ReplyIs DEF Deny, Verdict
      <3> QED
        BY <1>2, <3>1
    <2>5. ~PostRequest(a, i)
      <3> SUFFICES ASSUME PostRequest(a, i) PROVE FALSE
        OBVIOUS
      <3>1. x.op \in {"post", "call"} /\ x.status = None
        BY DEF PostRequest, At
      <3>2. CASE \E status \in {202, 503} : ReplyWith(a, status, None)
        BY <1>2, <3>2, ReplyIs
      <3>3. CASE exch' = [exch EXCEPT ![a].op = "wait", ![a].msg = None]
        <4>1. y = [x EXCEPT !.op = "wait", !.msg = None]
          BY <1>1, <3>3
        <4>2. y.status = None
          BY <1>1, <3>1, <4>1 DEF Exchange
        <4> QED
          BY <1>2, <4>2, StatusType
      <3> QED
        BY <3>2, <3>3 DEF PostRequest
    <2>6. PollResponse(a, i) \/ BlockWait(a, i)
      BY <2>3, <2>4, <2>5
    <2>7. \/ /\ Has(box[i], x.token.name) /\ ReplyWith(a, 200, Head(box[i][x.token.name]))
          \/ \E status \in {202, 204} : ReplyWith(a, status, None)
      BY <1>1, <2>6, PollStep
    <2>8. ~\E status \in {202, 204} : ReplyWith(a, status, None)
      BY <1>2, ReplyIs
    <2>9. m = Head(box[i][x.token.name])
      BY <1>2, <2>7, <2>8, ReplyIs
    <2> QED
      BY <2>6, <2>7, <2>8, <2>9 DEF Fetches
  <1> QED
    BY <1>3, <1>5, <1>6, <1>7, <1>8, <1>9 DEF Next

\* What a step of the server does to the queues of instance i.
LEMMA BoxShape ==
  ASSUME TypeInv, [Next]_vars, NEW i \in Instance
  PROVE  \/ box'[i] = box[i] \/ box'[i] = Empty
         \/ \E n : box'[i] = GetOrCreate(box[i], n) \/ box'[i] = Without(box[i], n)
         \/ \E n : Has(box[i], n) /\ box'[i] = Take(box[i], n)
         \/ \E l \in Line : /\ Queues(l, i, exch[l].msg) /\ exch[l].msg \in Msg
                            /\ box'[i] = Put(box[i], exch[l].path, exch[l].msg)
  <1>1. box = [k \in Instance |-> box[k]]
    BY DEF TypeInv, TypeOK, Registries
  <1>2. ASSUME NEW l \in Line, NEW k \in Instance, PollResponse(l, k) \/ BlockWait(l, k)
        PROVE  \/ box'[i] = box[i] \/ \E n : box'[i] = GetOrCreate(box[i], n)
               \/ \E n : Has(box[i], n) /\ box'[i] = Take(box[i], n)
    <2> DEFINE n == exch[l].token.name
    <2>1. \/ Has(box[k], n) /\ box' = [box EXCEPT ![k] = Take(box[k], n)]
          \/ box' = box \/ box' = [box EXCEPT ![k] = GetOrCreate(box[k], n)]
      BY <1>2, PollStep
    <2> QED
      BY <1>1, <2>1
  <1>3. ASSUME NEW l \in Line, NEW k \in Instance, PostRequest(l, k)
        PROVE  box'[i] = box[i] \/ \E n : box'[i] = GetOrCreate(box[i], n)
    BY <1>1, <1>3 DEF PostRequest
  <1>4. ASSUME NEW l \in Line, NEW k \in Instance, PostResponse(l, k)
        PROVE  \/ box'[i] = box[i]
               \/ /\ Queues(l, i, exch[l].msg) /\ exch[l].msg \in Msg
                  /\ box'[i] = Put(box[i], exch[l].path, exch[l].msg)
    <2>1. exch[l].msg \in Msg
      BY <1>4 DEF PostResponse, At, TypeInv, Identity, Shaped
    <2>2. CASE IsFull(box[k], exch[l].path, ClientQueueMax)
      BY <1>4, <2>2 DEF PostResponse
    <2>3. CASE ~IsFull(box[k], exch[l].path, ClientQueueMax)
      <3>1. box' = [box EXCEPT ![k] = Put(box[k], exch[l].path, exch[l].msg)]
        BY <1>4, <2>3 DEF PostResponse
      <3>2. CASE k # i
        BY <1>1, <3>1, <3>2
      <3>3. CASE k = i
        BY <1>1, <1>4, <2>1, <2>3, <3>1, <3>3 DEF Queues
      <3> QED
        BY <3>2, <3>3
    <2> QED
      BY <2>2, <2>3
  <1>5. ASSUME NEW l \in Line, NEW k \in Instance, Logoff(l, k)
        PROVE  box'[i] = box[i] \/ \E n : box'[i] = Without(box[i], n)
    BY <1>1, <1>5 DEF Logoff
  <1>6. ASSUME NEW k \in Instance, NEW c \in Client, Evict(c, k)
        PROVE  box'[i] = box[i] \/ \E n : box'[i] = Without(box[i], n)
    BY <1>1, <1>6 DEF Evict
  <1>7. ASSUME NEW k \in Instance, Crash(k) PROVE box'[i] = box[i] \/ box'[i] = Empty
    BY <1>1, <1>7 DEF Crash
  <1> QED
    BY <1>2, <1>3, <1>4, <1>5, <1>6, <1>7, QueueSteps

\* Nothing but a POST of the response to m adds it to a queue.
LEMMA WaitingAdds ==
  ASSUME TypeInv, [Next]_vars, NEW m \in Msg, \A l \in Line, k \in Instance : ~Queues(l, k, m),
         NEW i \in Instance, NEW c
  PROVE  /\ m \in Queued(box'[i], c) => m \in Queued(box[i], c)
         /\ OnceIn(box[i], c, m) => OnceIn(box'[i], c, m)
  <1>1. box[i] \in [DOMAIN box[i] -> Seq(Msg)]
    BY DEF TypeInv, TypeOK, Registries
  <1>2. CASE box'[i] = box[i]
    BY <1>2
  <1>3. CASE box'[i] = Empty
    BY <1>3, QueuedEmpty DEF OnceIn, Empty
  <1>4. ASSUME NEW n, box'[i] = GetOrCreate(box[i], n) \/ box'[i] = Without(box[i], n)
        PROVE  /\ m \in Queued(box'[i], c) => m \in Queued(box[i], c)
               /\ OnceIn(box[i], c, m) => OnceIn(box'[i], c, m)
    BY <1>4, QueuedCreate, QueuedWithout, OnceInFewer
  <1>5. ASSUME NEW n, Has(box[i], n), box'[i] = Take(box[i], n)
        PROVE  /\ m \in Queued(box'[i], c) => m \in Queued(box[i], c)
               /\ OnceIn(box[i], c, m) => OnceIn(box'[i], c, m)
    BY <1>1, <1>5, QueuedTake, OnceInTake
  <1>6. ASSUME NEW l \in Line, Queues(l, i, exch[l].msg), exch[l].msg \in Msg,
               box'[i] = Put(box[i], exch[l].path, exch[l].msg)
        PROVE  /\ m \in Queued(box'[i], c) => m \in Queued(box[i], c)
               /\ OnceIn(box[i], c, m) => OnceIn(box'[i], c, m)
    <2>1. exch[l].msg # m
      BY <1>6
    <2> QED
      BY <1>1, <1>6, <2>1, QueuedPut, OnceInPut
  <1> QED
    BY <1>2, <1>3, <1>4, <1>5, <1>6, BoxShape

\* A response is still with its service, or waits, or is being brought to the
\* client, or has come, once.
Single(m) ==
  /\ (\E a \in Caller : ToAnswer(a, m)) =>
       ~Waiting(m) /\ (\A a \in Caller : ~Brings(exch[a], m)) /\ got[m.client][m] = 0
  /\ Waiting(m) => (\A a \in Caller : ~Brings(exch[a], m)) /\ got[m.client][m] = 0
  /\ (\E a \in Caller : Brings(exch[a], m)) => got[m.client][m] = 0
  /\ got[m.client][m] <= 1
  /\ \A i \in Instance : OnceIn(box[i], m.client, m)

SingleUnlessSevered == \A m \in Msg : Severed(m) \/ Single(m)

\* The response goes from its service to the queue.
LEMMA QueuesSingle ==
  ASSUME TypeInv, Affine, RunByOne, GhostsSevered, [Next]_vars, NEW m \in Msg, ~Severed(m),
         Single(m), NEW l \in Line, NEW i \in Instance, Queues(l, i, m)
  PROVE  Single(m)'
  <1> DEFINE c == m.client
  <1>1. /\ exch[l].op = "answer" /\ exch[l].status = None /\ exch[l].msg = m
        /\ box' = [box EXCEPT ![i] = Put(box[i], exch[l].path, m)] /\ ReplyWith(l, 202, m)
        /\ UNCHANGED <<held, got>>
    BY DEF Queues, PostResponse, At, caller
  <1>2. l \in Caller
    BY <1>1 DEF GhostsSevered, Responds, Line
  <1>3. ToAnswer(l, m) /\ ran[m] = <<l>>
    BY <1>1, <1>2 DEF ToAnswer, Responds, RunByOne
  <1>4. ~Waiting(m) /\ (\A a \in Caller : ~Brings(exch[a], m)) /\ got[c][m] = 0
    BY <1>2, <1>3 DEF Single
  <1>5. exch'[l].op = "answer" /\ exch'[l].status = 202 /\ exch'[l].msg = m
    BY <1>1, <1>2, ReplyIs
  <1>6. \A a \in Caller : a # l => exch'[a] = exch[a]
    BY <1>1, <1>2 DEF ReplyWith, Reply, Line, TypeInv, TypeOK
  <1>7. \A a \in Caller : ~ToAnswer(a, m)'
    <2> SUFFICES ASSUME NEW a \in Caller, ToAnswer(a, m)' PROVE FALSE
      OBVIOUS
    <2>1. a # l
      BY <1>5, StatusType DEF ToAnswer, Confirms, Responds
    <2>2. ToAnswer(a, m)
      BY <1>1, <1>6, <2>1 DEF ToAnswer, Confirms, Responds
    <2>3. ran[m] = <<a>>
      BY <2>2 DEF ToAnswer, RunByOne
    <2>4. <<a>> = <<l>> => a = l
      OBVIOUS
    <2> QED
      BY <1>3, <2>1, <2>3, <2>4
  <1>8. \A a \in Caller : ~Brings(exch'[a], m)
    BY <1>4, <1>5, <1>6 DEF Brings
  <1>9. ASSUME NEW k \in Instance PROVE OnceIn(box'[k], c, m)
    <2>1. box[k] \in [DOMAIN box[k] -> Seq(Msg)] /\ OnceIn(box[k], c, m) /\ m \notin Queued(box[k], c)
      BY <1>4 DEF TypeInv, TypeOK, Registries, Single, Waiting
    <2>2. box'[k] = box[k] \/ box'[k] = Put(box[k], exch[l].path, m)
      BY <1>1 DEF TypeInv, TypeOK, Registries
    <2> QED
      BY <2>1, <2>2, OnceInPut
  <1>10. got'[c][m] = 0
    BY <1>1, <1>4
  <1> QED
    BY <1>7, <1>8, <1>9, <1>10 DEF Single, Brings, OnceIn

\* The response goes from the queue to the client.
LEMMA FetchesSingle ==
  ASSUME TypeInv, Affine, [Next]_vars, NEW m \in Msg, Single(m),
         NEW l \in Line, NEW i \in Instance, Fetches(l, i, m)
  PROVE  Single(m)'
  <1> DEFINE c == m.client
             n == exch[l].token.name
  <1>1. (PollResponse(l, i) \/ BlockWait(l, i)) /\ Has(box[i], n) /\ m = Head(box[i][n])
    BY DEF Fetches
  <1>2. /\ exch[l].op \in {"poll", "wait"} /\ n \in Client
        /\ UNCHANGED <<held, got>>
    BY <1>1, PollStep DEF PollResponse, BlockWait, caller
  <1>3. box' = [box EXCEPT ![i] = Take(box[i], n)] /\ ReplyWith(l, 200, m)
    <2>1. exch[l].op = "poll" => exch[l].path = n
      BY <1>1, Passed DEF PollResponse, BlockWait, At, Op
    <2> QED
      BY <1>1, <2>1 DEF PollResponse, BlockWait, At
  <1>4. \A k \in Instance : box[k] \in [DOMAIN box[k] -> Seq(Msg)]
    BY DEF TypeInv, TypeOK, Registries
  <1>5. m \in Queued(box[i], n)
    BY <1>1, <1>4, QueuedHead
  <1>6. n = c /\ session[c].pin = InternalIp(i)
    BY <1>2, <1>5 DEF Affine, ResponsesAtHome
  <1>7. /\ \A a \in Caller : ~ToAnswer(a, m)
        /\ (\A a \in Caller : ~Brings(exch[a], m)) /\ got[c][m] = 0
    BY <1>5, <1>6 DEF Single, Waiting
  <1>8. \A k \in Instance : box'[k] = IF k = i THEN Take(box[i], n) ELSE box[k]
    BY <1>3 DEF TypeInv, TypeOK, Registries
  <1>9. ASSUME NEW k \in Instance PROVE OnceIn(box'[k], c, m) /\ m \notin Queued(box'[k], c)
    <2>1. OnceIn(box[k], c, m)
      BY DEF Single
    <2>2. CASE k = i
      <3>1. /\ box[i] \in [DOMAIN box[i] -> Seq(Msg)] /\ Has(box[i], n)
            /\ OnceIn(box[i], c, m) /\ c = n /\ m = Head(box[i][n])
        BY <1>1, <1>4, <1>6, <2>1, <2>2
      <3> HIDE DEF c, n
      <3>2. OnceIn(Take(box[i], n), c, m) /\ m \notin Queued(Take(box[i], n), n)
        BY <3>1, OnceInTake
      <3> QED
        BY <1>8, <2>2, <3>1, <3>2
    <2>3. CASE k # i
      <3>1. box'[k] = box[k]
        BY <1>8, <2>3
      <3>2. m \notin Queued(box[k], c)
        <4> SUFFICES ASSUME m \in Queued(box[k], c) PROVE FALSE
          OBVIOUS
        <4>1. InternalIp(k) = InternalIp(i)
          BY <1>2, <1>6 DEF Affine, ResponsesAtHome
        <4> QED
          BY <2>3, <4>1, AddressAssumption
      <3> QED
        BY <2>1, <3>1, <3>2
    <2> QED
      BY <2>2, <2>3
  <1>10. \A a \in Caller : ~ToAnswer(a, m)'
    <2> SUFFICES ASSUME NEW a \in Caller, ToAnswer(a, m)' PROVE FALSE
      OBVIOUS
    <2>1. CASE a = l
      <3>1. exch'[a].op = exch[a].op
        BY <1>3, <2>1, ReplyIs
      <3>2. ~Responds(exch'[a], m) /\ ~Confirms(exch[a], m)
        BY <1>2, <2>1, <3>1 DEF Responds, Confirms
      <3>3. m \in held[a]
        BY <1>2, <3>2 DEF ToAnswer, Responds
      <3> QED
        BY <1>7, <3>2, <3>3 DEF ToAnswer
    <2>2. CASE a # l
      <3>1. exch'[a] = exch[a]
        BY <1>3, <2>2 DEF ReplyWith, Reply, Line, TypeInv, TypeOK
      <3> QED
        BY <1>2, <1>7, <3>1 DEF ToAnswer, Responds, Confirms
    <2> QED
      BY <2>1, <2>2
  <1>11. ~Waiting(m)'
    BY <1>9 DEF Waiting, Queued
  <1>12. got'[c][m] = 0
    BY <1>2, <1>7
  <1> QED
    BY <1>9, <1>10, <1>11, <1>12 DEF Single, OnceIn

\* The response comes.
LEMMA GotSingle ==
  ASSUME TypeInv, ResponsesFollow, [Next]_vars, NEW m \in Msg, Single(m),
         got'[m.client][m] # got[m.client][m]
  PROVE  Single(m)'
  <1> DEFINE c == m.client
  <1>1. c \in Caller /\ c \in Line
    BY DEF Msg, Caller, Line
  <1>2. Receive(c) /\ Brings(exch[c], m) /\ got'[c][m] = got[c][m] + 1
    BY <1>1, GotAdds
  <1>3. /\ \A a \in Caller : ~ToAnswer(a, m)
        /\ ~Waiting(m) /\ got[c][m] = 0
    BY <1>1, <1>2 DEF Single
  <1>4. /\ box' = box /\ held' = held /\ exch'[c] = NoExchange
        /\ \A a \in Caller : a # c => exch'[a] = exch[a]
    BY <1>1, <1>2 DEF Receive, Got, Brings, server, Line, TypeInv, TypeOK
  <1>5. \A a \in Caller : ~Brings(exch'[a], m)
    <2> SUFFICES ASSUME NEW a \in Caller, Brings(exch'[a], m) PROVE FALSE
      OBVIOUS
    <2>1. a # c /\ Brings(exch[a], m)
      BY <1>4 DEF Brings, NoExchange
    <2>2. Got(exch[a], {"poll", "wait"}) /\ exch[a].msg = m
      BY <2>1 DEF Brings, Got
    <2> QED
      BY <2>1, <2>2, PolledOwn
  <1>6. \A a \in Caller : ~ToAnswer(a, m)'
    <2> SUFFICES ASSUME NEW a \in Caller, ToAnswer(a, m)' PROVE FALSE
      OBVIOUS
    <2>1. CASE a = c
      BY <1>2, <1>3, <1>4, <2>1 DEF ToAnswer, Responds, Confirms, Brings, NoExchange
    <2>2. CASE a # c
      BY <1>3, <1>4, <2>2 DEF ToAnswer, Responds, Confirms
    <2> QED
      BY <2>1, <2>2
  <1>7. ~Waiting(m)' /\ \A i \in Instance : OnceIn(box'[i], c, m)
    BY <1>3, <1>4 DEF Single, Waiting
  <1>8. got'[c][m] = 1
    BY <1>2, <1>3
  <1> QED
    BY <1>5, <1>6, <1>7, <1>8 DEF Single, Brings, OnceIn

\* A request that was handed out just now has no response yet.
LEMMA PullSingle ==
  ASSUME TypeInv, Affine, RequestOnce, ResponsesFollow, RunByOne, [Next]_vars,
         NEW m \in Msg, Single(m), NEW a \in Caller,
         Receive(a), Got(exch[a], {"pull"}), exch[a].msg = m
  PROVE  Single(m)'
  <1> DEFINE c == m.client
  <1>1. ran[m] = <<>> /\ c \in Client /\ c \in Caller
    BY ReceiveOnce, TypeStep DEF Next, Msg, Caller
  <1>2. /\ box' = box /\ got' = got
        /\ \A b \in Caller : exch'[b] = exch[b] \/ exch'[b] = NoExchange
    BY DEF Receive, Got, server, Line, TypeInv, TypeOK
  <1>3. ~Waiting(m)
    BY <1>1 DEF Waiting, ResponsesFollow, HandedOut
  <1>4. \A b \in Caller : ~Brings(exch[b], m)
    BY <1>1 DEF Brings, ResponsesFollow, HandedOut, Responding, Line
  <1>5. got[c][m] = 0
    <2>1. got[c][m] \in Nat /\ ~(got[c][m] > 0)
      BY <1>1 DEF TypeInv, TypeOK, RunByOne
    <2> QED
      BY <2>1
  <1>6. \A b \in Caller : ~Brings(exch'[b], m)
    BY <1>2, <1>4 DEF Brings, NoExchange
  <1>7. ~Waiting(m)' /\ got'[c][m] = 0 /\ \A i \in Instance : OnceIn(box'[i], c, m)
    BY <1>2, <1>3, <1>5 DEF Single, Waiting
  <1> QED
    BY <1>6, <1>7 DEF Single, Brings, OnceIn

\* Every step leaves one response, unless its service has been cut off.
LEMMA SingleStep ==
  ASSUME TypeInv, Affine, RequestOnce, ResponsesFollow, RunByOne, GhostsSevered,
         SingleUnlessSevered, [Next]_vars
  PROVE  SingleUnlessSevered'
  <1> SUFFICES ASSUME NEW m \in Msg, ~Severed(m)' PROVE Single(m)'
    BY DEF SingleUnlessSevered, Severed, Single, ToAnswer, Waiting, Brings, Confirms, Responds, OnceIn
  <1> DEFINE c == m.client
  <1>1. ~Severed(m)
    BY SeveredStays
  <1>2. Single(m)
    BY <1>1 DEF SingleUnlessSevered
  <1>3. CASE \E l \in Line, i \in Instance : Queues(l, i, m)
    BY <1>1, <1>2, <1>3, QueuesSingle
  <1>4. CASE \E l \in Line, i \in Instance : Fetches(l, i, m)
    BY <1>2, <1>4, FetchesSingle
  <1>5. CASE got'[c][m] # got[c][m]
    BY <1>2, <1>5, GotSingle
  <1>6. CASE \E a \in Caller : Receive(a) /\ Got(exch[a], {"pull"}) /\ exch[a].msg = m
    BY <1>2, <1>6, PullSingle
  <1>7. ASSUME \A l \in Line, i \in Instance : ~Queues(l, i, m),
               \A l \in Line, i \in Instance : ~Fetches(l, i, m),
               got'[c][m] = got[c][m],
               \A a \in Caller : ~(Receive(a) /\ Got(exch[a], {"pull"}) /\ exch[a].msg = m)
        PROVE  Single(m)'
    <2>1. ASSUME NEW a \in Caller, ToAnswer(a, m)' PROVE ToAnswer(a, m)
      <3>1. ASSUME Break(a), m \in held[a] PROVE FALSE
        <4>1. ran[m] = <<a>>
          BY <3>1 DEF RunByOne
        <4> QED
          BY <3>1, <4>1, CutSevers
      <3> QED
        BY <1>7, <2>1, <3>1, ToAnswerAdds
    <2>2. ASSUME NEW a \in Caller, Brings(exch'[a], m) PROVE Brings(exch[a], m)
      BY <1>7, <2>2, BringsAdds DEF Line
    <2>3. \A i \in Instance : /\ m \in Queued(box'[i], c) => m \in Queued(box[i], c)
                              /\ OnceIn(box[i], c, m) => OnceIn(box'[i], c, m)
      BY <1>7, WaitingAdds
    <2>4. Waiting(m)' => Waiting(m)
      BY <2>3 DEF Waiting, Queued
    <2>5. \A i \in Instance : OnceIn(box'[i], c, m)
      BY <1>2, <2>3 DEF Single
    <2>6. got'[c][m] = got[c][m]
      BY <1>7
    <2>7. (\E a \in Caller : ToAnswer(a, m)') => \E a \in Caller : ToAnswer(a, m)
      BY <2>1
    <2>8. \A a \in Caller : Brings(exch'[a], m) => Brings(exch[a], m)
      BY <2>2
    <2> QED
      BY <1>2, <2>4, <2>5, <2>6, <2>7, <2>8 DEF Single, Brings, OnceIn
  <1> QED
    BY <1>3, <1>4, <1>5, <1>6, <1>7

\* A second response has a cut service behind it.
LEMMA SingleIsEnough ==
  ASSUME TypeInv, RunByOne, SingleUnlessSevered
  PROVE  DuplicateNeedsCut
  <1> SUFFICES ASSUME NEW c \in Client, NEW m \in Msg, got[c][m] > 1
               PROVE  \E w \in Worker : Attends(w, m) /\ <<"cut", w>> \in faults
    BY DEF DuplicateNeedsCut
  <1>1. c \in Caller /\ got[c][m] \in Nat
    BY DEF Caller, TypeInv, TypeOK
  <1>2. got[c][m] > 0
    BY <1>1
  <1>3. c = m.client /\ ran[m] # <<>>
    BY <1>1, <1>2 DEF RunByOne
  <1>4. ~Single(m)
    BY <1>1, <1>3 DEF Single
  <1>5. PICK w \in Worker : ran[m] = <<w>> /\ <<"cut", w>> \in faults
    BY <1>4 DEF SingleUnlessSevered, Severed
  <1>6. PICK v \in Worker : ran[m] = <<v>> /\ Attends(v, m)
    BY <1>3 DEF RunByOne
  <1>7. v = w
    <2>1. <<v>> = <<w>> => v = w
      OBVIOUS
    <2> QED
      BY <1>5, <1>6, <2>1
  <1> QED
    BY <1>5, <1>6, <1>7

\* Nothing has happened at the start.
LEMMA SingleInit == Init => RunByOne /\ GhostsSevered /\ SingleUnlessSevered
  <1> SUFFICES ASSUME Init PROVE RunByOne /\ GhostsSevered /\ SingleUnlessSevered
    OBVIOUS
  <1>1. /\ \A l \in Line : exch[l] = NoExchange
        /\ \A a \in Caller : held[a] = {}
        /\ \A m \in Msg : ran[m] = <<>>
        /\ \A i \in Instance : box[i] = Empty
    BY DEF Init
  <1>2. \A a \in Caller, m \in Msg : got[a][m] = 0
    BY DEF Init
  <1>3. \A m : ~Responds(NoExchange, m) /\ ~Brings(NoExchange, m)
    BY DEF Responds, Brings, NoExchange
  <1>4. RunByOne
    BY <1>1, <1>2, <1>3 DEF RunByOne, Line
  <1>5. GhostsSevered
    BY <1>1, <1>3 DEF GhostsSevered, Line
  <1>6. ASSUME NEW m \in Msg PROVE Single(m)
    <2>1. m.client \in Caller
      BY DEF Msg, Caller
    <2>2. \A i \in Instance : OnceIn(box[i], m.client, m) /\ m \notin Queued(box[i], m.client)
      BY <1>1, QueuedEmpty DEF OnceIn, Empty
    <2> QED
      BY <1>1, <1>2, <1>3, <2>1, <2>2 DEF Single, Waiting, Line
  <1> QED
    BY <1>4, <1>5, <1>6 DEF SingleUnlessSevered

\* A client gets a second response to a request only after a call of the service
\* connection that it was handed to was cut off: a POST that was refused has left
\* nothing behind (clients.py:49-51).
THEOREM NoDuplicateWithoutCut == Spec => []DuplicateNeedsCut
  <1> DEFINE Inv == Refinable /\ RunByOne /\ GhostsSevered /\ SingleUnlessSevered
  <1>1. Init => Inv
    BY TypeInit, AffineInit, OnceInit, FollowInit, SingleInit DEF Refinable
  <1>2. Inv /\ [Next]_vars => Inv'
    BY TypeStep, AffineStep, OnceStep, FollowStep, RunByOneStep, GhostsSeveredStep, SingleStep
    DEF Refinable
  <1>3. Inv => DuplicateNeedsCut
    BY SingleIsEnough DEF Refinable
  <1> QED
    BY <1>1, <1>2, <1>3, PTL DEF Spec

-------------------------------------------------------------------------------
(* The order in which a service gets the requests of a client *)

\* Exchange x brings request m to the server, or hands it to a service.
Sends(x, m) == x.op \in {"post", "call"} /\ x.status = None /\ x.msg = m
Hands(x, m) == x.op = "pull" /\ x.status = 200 /\ x.msg = m

\* A client that was never cut off sends one request at a time, its latest.
LatestSent ==
  \A l \in Line, m \in Msg : Sends(exch[l], m) =>
    <<"cut", m.client>> \in faults \/ (l = m.client /\ m.id = minted[m.client])

\* Request n has left the queues for a service.
Gone(n) == ran[n] # <<>> \/ \E l \in Line : Hands(exch[l], n)

\* In queue s of f, n is not behind m.
Ahead(f, s, n, m) ==
  s \in DOMAIN f /\ \E j, k \in DOMAIN f[s] : j <= k /\ f[s][j] = n /\ f[s][k] = m

\* No later request of its client has overtaken one that waits.
InOrder ==
  \A i \in Instance, s \in Service, m, n \in Msg :
    m \in Queued(squeue[i], s) /\ <<"cut", m.client>> \notin faults /\ Later(n, m) =>
      ~Gone(n) /\ ~Ahead(squeue[i], s, n, m)

\* A request gets on its way when it is sent, and goes on without its caller when
\* that is cut off.
LEMMA SendsAdds ==
  ASSUME TypeInv, [Next]_vars, NEW l \in Line, NEW m \in Msg,
         Sends(exch'[l], m), ~Sends(exch[l], m)
  PROVE  \/ l \in Client /\ SendRequest(l) /\ m.client = l /\ m.id = minted[l] + 1
         \/ \E a \in Caller : Break(a) /\ Sends(exch[a], m)
  <1>1. exch \in [Line -> Exchange] /\ exch'[l] # exch[l] /\ exch'[l] # NoExchange
    BY DEF TypeInv, TypeOK, Sends, NoExchange
  <1>2. ASSUME NEW a \in Caller, Use(a)
        PROVE  l \in Client /\ SendRequest(l) /\ m.client = l /\ m.id = minted[l] + 1
    <2>1. a \in Line /\ exch'[l].op \in {"post", "call"} /\ exch'[l].msg = m
      BY DEF Sends, Line
    <2>2. a \in Client /\ SendRequest(a) /\ a = l
      BY <1>1, <1>2, <2>1 DEF Use, Authenticate, Stray, Close, PollOne, GetRequest, Drop,
         SendResponse, SendRequest, Ask
    <2>3. \E s \in Service : exch'[l].msg = [client |-> l, id |-> minted[l] + 1, service |-> s]
      BY <1>1, <2>2 DEF SendRequest, Ask
    <2> QED
      BY <2>1, <2>2, <2>3
  <1>3. ASSUME NEW a \in Caller, Receive(a) PROVE FALSE
    BY <1>1, <1>3 DEF Receive
  <1>4. ASSUME NEW a \in Caller, Unreachable(a) PROVE FALSE
    <2>1. exch'[l] = Failed(exch[l])
      BY <1>1, <1>4 DEF Unreachable
    <2> QED
      BY <2>1, <1>1, StatusType DEF Sends, Failed, Exchange
  <1>5. ASSUME NEW a \in Caller, Break(a) PROVE Sends(exch[a], m)
    <2>1. exch'[l] = Failed(exch[l]) \/ exch'[l] = exch[a]
      BY <1>1, <1>5 DEF Break
    <2>2. ~Sends(Failed(exch[l]), m)
      BY <1>1, StatusType DEF Sends, Failed, Exchange
    <2> QED
      BY <2>1, <2>2
  <1>6. ASSUME NEW k \in Line, NEW i \in Instance, Serve(k, i) PROVE FALSE
    <2>1. PICK z : exch' = [exch EXCEPT ![k] = z] /\ (z = NoExchange \/ Continues(exch[k], z))
      BY <1>6, ServeLine
    <2>2. Continues(exch[l], exch'[l])
      BY <1>1, <2>1
    <2> QED
      BY <2>2 DEF Continues, Sends
  <1>7. ASSUME NEW i \in Instance, Crash(i) PROVE FALSE
    <2>1. exch'[l] = Failed(exch[l])
      BY <1>1, <1>7 DEF Crash
    <2> QED
      BY <2>1, <1>1, StatusType DEF Sends, Failed, Exchange
  <1>8. ASSUME NEW i \in Instance, Restart(i) \/ \E c \in Client : Evict(c, i) PROVE FALSE
    BY <1>1, <1>8 DEF Restart, Evict
  <1>9. CASE UNCHANGED vars
    BY <1>1, <1>9 DEF vars
  <1> QED
    BY <1>2, <1>3, <1>4, <1>5, <1>6, <1>7, <1>8, <1>9 DEF Next

\* A new request_id is taken when a request is sent, over a line that is free.
LEMMA MintedStep ==
  ASSUME TypeInv, [Next]_vars, NEW c \in Client, minted'[c] # minted[c]
  PROVE  SendRequest(c) /\ exch[c] = NoExchange /\ minted'[c] = minted[c] + 1
  <1>1. minted' # minted /\ minted \in [Client -> 0 .. MaxRequests]
    BY DEF TypeInv, TypeOK
  <1>2. ASSUME NEW a \in Caller, Use(a)
        PROVE  SendRequest(c) /\ exch[c] = NoExchange /\ minted'[c] = minted[c] + 1
    <2>1. a \in Client /\ SendRequest(a)
      BY <1>1, <1>2 DEF Use, Authenticate, Stray, Close, PollOne, GetRequest, Drop, SendResponse, caller
    <2> QED
      BY <1>1, <2>1 DEF SendRequest, Ask
  <1>3. ASSUME NEW a \in Caller, Receive(a) \/ Break(a) \/ Unreachable(a) PROVE FALSE
    BY <1>1, <1>3 DEF Receive, Break, Unreachable, caller
  <1>4. ASSUME NEW l \in Line, NEW i \in Instance, Serve(l, i) PROVE FALSE
    BY <1>1, <1>4 DEF Serve, Deny, ServiceAuth, ClientAuth, PostRequest, PollResponse, BlockWait,
       PullRequest, PostResponse, Logoff, caller
  <1>5. ASSUME NEW i \in Instance, Crash(i) \/ Restart(i) \/ \E d \in Client : Evict(d, i)
        PROVE  FALSE
    BY <1>1, <1>5 DEF Crash, Restart, Evict, caller
  <1>6. CASE UNCHANGED vars
    BY <1>1, <1>6 DEF vars, caller
  <1> QED
    BY <1>2, <1>3, <1>4, <1>5, <1>6 DEF Next

\* Every step leaves a client at its latest request.
LEMMA LatestSentStep ==
  ASSUME TypeInv, LatestSent, [Next]_vars
  PROVE  LatestSent'
  <1> SUFFICES ASSUME NEW l \in Line, NEW m \in Msg, Sends(exch'[l], m)
               PROVE  <<"cut", m.client>> \in faults' \/ (l = m.client /\ m.id = minted'[m.client])
    BY DEF LatestSent, Sends
  <1>1. faults \subseteq faults'
    BY HistoryGrows
  <1>2. m.client \in Client
    BY DEF Msg
  <1>3. CASE Sends(exch[l], m)
    <2>1. CASE <<"cut", m.client>> \in faults
      BY <1>1, <2>1
    <2>2. CASE l = m.client /\ m.id = minted[m.client]
      <3>1. exch[m.client] # NoExchange
        BY <1>3, <2>2 DEF Sends, NoExchange
      <3>2. minted'[m.client] = minted[m.client]
        BY <1>2, <3>1, MintedStep
      <3> QED
        BY <2>2, <3>2
    <2> QED
      BY <1>3, <2>1, <2>2 DEF LatestSent
  <1>4. CASE l \in Client /\ SendRequest(l) /\ m.client = l /\ m.id = minted[l] + 1
    <2>1. minted'[l] = minted[l] + 1
      BY <1>4 DEF SendRequest, TypeInv, TypeOK
    <2> QED
      BY <1>4, <2>1
  <1>5. ASSUME NEW a \in Caller, Break(a), Sends(exch[a], m)
        PROVE  <<"cut", m.client>> \in faults'
    <2>1. <<"cut", a>> \in faults' /\ a \in Line
      BY <1>5 DEF Break, Fault, Line
    <2>2. <<"cut", m.client>> \in faults \/ a = m.client
      BY <1>5, <2>1 DEF LatestSent
    <2> QED
      BY <1>1, <2>1, <2>2
  <1> QED
    BY <1>3, <1>4, <1>5, SendsAdds

\* A request leaves the queues when it is at the head of one and is pulled.
LEMMA GoneStep ==
  ASSUME TypeInv, Affine, RequestOnce, [Next]_vars, NEW n \in Msg, Gone(n)', ~Gone(n)
  PROVE  \E k \in Line, i \in Instance :
           /\ PullRequest(k, i) /\ Has(squeue[i], exch[k].path)
           /\ n = Head(squeue[i][exch[k].path])
  <1>1. ran'[n] = ran[n]
    <2> SUFFICES ASSUME ran'[n] # ran[n] PROVE FALSE
      OBVIOUS
    <2>1. PICK a \in Worker : Got(exch[a], {"pull"}) /\ exch[a].msg = n
      BY RanStep
    <2>2. Hands(exch[a], n) /\ a \in Line
      BY <2>1 DEF Got, Hands, Line, Caller
    <2> QED
      BY <2>2 DEF Gone
  <1>2. PICK l \in Line : Hands(exch'[l], n) /\ ~Hands(exch[l], n)
    BY <1>1 DEF Gone, Hands
  <1>3. exch \in [Line -> Exchange] /\ exch'[l] # exch[l] /\ exch'[l] # NoExchange
        /\ exch'[l].op = "pull" /\ exch'[l].status = 200 /\ exch'[l].msg = n
    BY <1>2 DEF TypeInv, TypeOK, Hands, NoExchange
  <1>4. ASSUME NEW a \in Caller, Use(a) PROVE FALSE
    BY <1>3, <1>4, StatusType DEF Use, Authenticate, Stray, Close, SendRequest, PollOne, GetRequest,
       Drop, SendResponse, Ask
  <1>5. ASSUME NEW a \in Caller, Receive(a) PROVE FALSE
    BY <1>3, <1>5 DEF Receive
  <1>6. exch'[l] # Failed(exch[l])
    <2>1. Failed(exch[l]).status = 0
      BY <1>3 DEF Failed, Exchange
    <2> QED
      BY <1>3, <2>1
  <1>7. ASSUME NEW a \in Caller, Break(a) \/ Unreachable(a) PROVE FALSE
    <2>1. exch'[l] = Failed(exch[l]) \/ (exch'[l] = exch[a] /\ exch[a].status = None)
      BY <1>3, <1>7 DEF Break, Unreachable
    <2> QED
      BY <1>3, <1>6, <2>1, StatusType
  <1>8. ASSUME NEW k \in Line, NEW i \in Instance, Serve(k, i)
        PROVE  /\ PullRequest(k, i) /\ Has(squeue[i], exch[k].path)
               /\ n = Head(squeue[i][exch[k].path])
    <2>1. PICK z : exch' = [exch EXCEPT ![k] = z] /\ (z = NoExchange \/ Continues(exch[k], z))
      BY <1>8, ServeLine
    <2>2. k = l /\ exch[l].op = "pull"
      BY <1>3, <2>1 DEF Continues
    <2>3. Deny(k, i) \/ PullRequest(k, i)
      BY <1>8, <2>2 DEF Serve, ServiceAuth, ClientAuth, PostRequest, PollResponse, BlockWait,
         PostResponse, Logoff, At
    <2>4. ASSUME NEW status, NEW m, ReplyWith(k, status, m) PROVE status = 200 /\ n = m
      BY <1>3, <2>2, <2>4 DEF ReplyWith, Reply, Exchange
    <2>5. ~Deny(k, i)
      BY <2>4 DEF Deny
    <2> QED
      BY <2>3, <2>4, <2>5 DEF PullRequest
  <1>9. ASSUME NEW i \in Instance, Crash(i) PROVE FALSE
    BY <1>3, <1>6, <1>9 DEF Crash
  <1>10. ASSUME NEW i \in Instance, Restart(i) \/ \E c \in Client : Evict(c, i) PROVE FALSE
    BY <1>3, <1>10 DEF Restart, Evict
  <1>11. CASE UNCHANGED vars
    BY <1>3, <1>11 DEF vars
  <1> QED
    BY <1>4, <1>5, <1>7, <1>8, <1>9, <1>10, <1>11 DEF Next

\* What queue operations do to the order of two messages: nothing is put in front.
LEMMA AheadCreate ==
  ASSUME NEW f, NEW k, NEW s, NEW n, NEW m, Ahead(GetOrCreate(f, k), s, n, m)
  PROVE  Ahead(f, s, n, m)
  <1> DEFINE g == GetOrCreate(f, k)
  <1>1. s \in DOMAIN g => s \in DOMAIN f \/ g[s] = <<>>
    BY DEF GetOrCreate
  <1>2. s \in DOMAIN f => g[s] = f[s]
    BY DEF GetOrCreate
  <1> HIDE DEF g
  <1>3. Ahead(g, s, n, m)
    BY DEF g
  <1> QED
    BY <1>1, <1>2, <1>3 DEF Ahead

LEMMA AheadTake ==
  ASSUME NEW f, f \in [DOMAIN f -> Seq(Msg)], NEW k, Has(f, k), NEW s, NEW n, NEW m,
         Ahead(Take(f, k), s, n, m)
  PROVE  Ahead(f, s, n, m)
  <1> DEFINE g == Take(f, k)
  <1>1. DOMAIN g = DOMAIN f /\ g[k] = Tail(f[k]) /\ \A j \in DOMAIN f \ {k} : g[j] = f[j]
    BY DEF Take, Has
  <1> HIDE DEF g
  <1>2. PICK a, b \in DOMAIN g[s] : a <= b /\ g[s][a] = n /\ g[s][b] = m
    BY DEF Ahead, g
  <1>3. s \in DOMAIN f
    BY <1>1 DEF Ahead, g
  <1>4. CASE s # k
    BY <1>1, <1>2, <1>3, <1>4 DEF Ahead
  <1>5. CASE s = k
    <2> DEFINE q == f[k]
    <2>1. q \in Seq(Msg) /\ q # <<>> /\ g[s] = Tail(q)
      BY <1>1, <1>5 DEF Has
    <2> HIDE DEF q
    <2>2. \A j \in DOMAIN Tail(q) : j + 1 \in DOMAIN q /\ Tail(q)[j] = q[j + 1] /\ j \in Nat
      BY <2>1
    <2>3. a + 1 <= b + 1 /\ a + 1 \in DOMAIN q /\ b + 1 \in DOMAIN q /\ q[a + 1] = n /\ q[b + 1] = m
      BY <1>2, <2>1, <2>2
    <2> QED
      BY <1>3, <1>5, <2>3 DEF Ahead, q
  <1> QED
    BY <1>4, <1>5

LEMMA AheadPut ==
  ASSUME NEW f, f \in [DOMAIN f -> Seq(Msg)], NEW k, NEW x \in Msg, NEW s, NEW n, NEW m, n # m,
         Ahead(Put(f, k, x), s, n, m)
  PROVE  Ahead(f, s, n, m) \/ (m = x /\ n \in Queued(f, s))
  <1> DEFINE g == GetOrCreate(f, k)
             h == Put(f, k, x)
  <1>1. g \in [DOMAIN g -> Seq(Msg)] /\ k \in DOMAIN g
    BY DEF GetOrCreate
  <1>2. DOMAIN h = DOMAIN g /\ h[k] = Append(g[k], x) /\ \A j \in DOMAIN g \ {k} : h[j] = g[j]
    BY <1>1 DEF Put
  <1> HIDE DEF g, h
  <1>3. s \in DOMAIN g
    BY <1>2 DEF Ahead, h
  <1>4. PICK a, b \in DOMAIN h[s] : a <= b /\ h[s][a] = n /\ h[s][b] = m
    BY DEF Ahead, h
  <1>5. Ahead(g, s, n, m) => Ahead(f, s, n, m)
    BY AheadCreate DEF g
  <1>6. n \in Queued(g, s) => n \in Queued(f, s)
    BY QueuedCreate DEF g
  <1>7. CASE s # k
    BY <1>2, <1>3, <1>4, <1>5, <1>7 DEF Ahead
  <1>8. CASE s = k
    <2> DEFINE q == g[k]
    <2>1. q \in Seq(Msg) /\ h[s] = Append(q, x)
      BY <1>1, <1>2, <1>8
    <2> HIDE DEF q
    <2>2. \A j \in DOMAIN h[s] : \/ j \in DOMAIN q /\ h[s][j] = q[j]
                                 \/ j = Len(q) + 1 /\ h[s][j] = x
      BY <2>1, InAppend
    <2>3. Len(q) \in Nat /\ DOMAIN q = 1 .. Len(q)
      BY <2>1
    <2>4. CASE a \in DOMAIN q /\ b \in DOMAIN q
      BY <1>3, <1>4, <1>5, <1>8, <2>1, <2>2, <2>3, <2>4 DEF Ahead, q
    <2>5. CASE b = Len(q) + 1 /\ m = x
      <3>1. a \in DOMAIN q /\ n = q[a]
        BY <1>4, <2>1, <2>2, <2>5
      <3> QED
        BY <1>3, <1>6, <1>8, <2>5, <3>1 DEF Queued, q
    <2>6. CASE a = Len(q) + 1 /\ b \in DOMAIN q
      BY <1>4, <2>3, <2>6
    <2> QED
      BY <1>4, <2>1, <2>2, <2>3, <2>4, <2>5, <2>6
  <1> QED
    BY <1>7, <1>8

\* Request m arrives at the server.
Arrives(m) == \E l \in Line, k \in Instance : PostRequest(l, k) /\ Sends(exch[l], m)

\* A queue of requests gets longer at its end, by a request that arrives.
LEMMA OrderStep ==
  ASSUME TypeInv, [Next]_vars, NEW i \in Instance, NEW s \in Service, NEW m \in Msg, NEW n \in Msg,
         n # m
  PROVE  /\ m \in Queued(squeue'[i], s) => m \in Queued(squeue[i], s) \/ Arrives(m)
         /\ Ahead(squeue'[i], s, n, m) =>
              Ahead(squeue[i], s, n, m) \/ (Arrives(m) /\ n \in Queued(squeue[i], s))
  <1> DEFINE f == squeue[i]
             Goal(g) ==
               /\ m \in Queued(g, s) => m \in Queued(f, s) \/ Arrives(m)
               /\ Ahead(g, s, n, m) => Ahead(f, s, n, m) \/ (Arrives(m) /\ n \in Queued(f, s))
  <1>1. f \in [DOMAIN f -> Seq(Msg)] /\ squeue = [k \in Instance |-> squeue[k]]
    BY DEF TypeInv, TypeOK, Registries
  <1>2. Goal(f)
    OBVIOUS
  <1>3. \A k : Goal(GetOrCreate(f, k))
    BY QueuedCreate, AheadCreate
  <1>4. ASSUME NEW k \in Instance, NEW g, squeue' = [squeue EXCEPT ![k] = g], k = i => Goal(g)
        PROVE  Goal(squeue'[i])
    <2>1. squeue'[i] = IF k = i THEN g ELSE f
      BY <1>1, <1>4
    <2> QED
      BY <1>2, <1>4, <2>1
  <1>5. ASSUME NEW l \in Line, NEW k \in Instance, PullRequest(l, k) PROVE Goal(squeue'[i])
    <2> DEFINE t == exch[l].path
    <2>1. CASE Has(squeue[k], t)
      <3>1. squeue' = [squeue EXCEPT ![k] = Take(squeue[k], t)]
        BY <1>5, <2>1 DEF PullRequest
      <3>2. ASSUME k = i PROVE Goal(Take(f, t))
        <4>1. Has(f, t)
          BY <2>1, <3>2
        <4> HIDE DEF f, t
        <4>2. m \in Queued(Take(f, t), s) => m \in Queued(f, s)
          BY <1>1, <4>1, QueuedTake
        <4>3. Ahead(Take(f, t), s, n, m) => Ahead(f, s, n, m)
          BY <1>1, <4>1, AheadTake
        <4> QED
          BY <4>2, <4>3
      <3> HIDE DEF Goal, f, t
      <3>3. k = i => Goal(Take(squeue[k], t))
        BY <3>2 DEF f
      <3> QED
        BY <1>4, <3>1, <3>3
    <2>2. CASE ~Has(squeue[k], t)
      <3>1. squeue' = [squeue EXCEPT ![k] = GetOrCreate(squeue[k], t)]
        BY <1>5, <2>2 DEF PullRequest
      <3> HIDE DEF Goal, t
      <3>2. k = i => Goal(GetOrCreate(squeue[k], t))
        BY <1>3
      <3> QED
        BY <1>4, <3>1, <3>2
    <2> QED
      BY <2>1, <2>2
  <1>6. ASSUME NEW l \in Line, NEW k \in Instance, ServiceAuth(l, k) PROVE Goal(squeue'[i])
    <2>1. squeue' = [squeue EXCEPT ![k] = GetOrCreate(squeue[k], exch[l].path)]
      BY <1>6 DEF ServiceAuth
    <2>2. k = i => Goal(GetOrCreate(squeue[k], exch[l].path))
      BY <1>3
    <2> HIDE DEF Goal
    <2> QED
      BY <1>4, <2>1, <2>2
  <1>7. ASSUME NEW l \in Line, NEW k \in Instance, PostRequest(l, k) PROVE Goal(squeue'[i])
    <2> DEFINE x == exch[l].msg
               t == exch[l].path
    <2>1. CASE squeue' = squeue
      BY <1>2, <2>1
    <2>2. CASE squeue' = [squeue EXCEPT ![k] = Put(@, t, x)]
      <3>1. exch[l].op \in {"post", "call"} /\ exch[l].status = None /\ Shaped(exch[l])
        BY <1>7 DEF PostRequest, At, TypeInv, Identity
      <3>2. x \in Msg /\ Sends(exch[l], x)
        BY <3>1 DEF Shaped, Sends
      <3>3. m = x => Arrives(m)
        BY <1>7, <3>2 DEF Arrives
      <3> HIDE DEF f, t, x
      <3>4. m \in Queued(Put(f, t, x), s) => m \in Queued(f, s) \/ m = x
        BY <1>1, <3>2, QueuedPut
      <3>5. Ahead(Put(f, t, x), s, n, m) => Ahead(f, s, n, m) \/ (m = x /\ n \in Queued(f, s))
        BY <1>1, <3>2, AheadPut
      <3>6. Goal(Put(f, t, x))
        BY <3>3, <3>4, <3>5
      <3>7. squeue' = [squeue EXCEPT ![k] = Put(squeue[k], t, x)]
        BY <2>2
      <3> HIDE DEF Goal
      <3>8. k = i => Goal(Put(squeue[k], t, x))
        BY <3>6 DEF f
      <3> QED
        BY <1>4, <3>7, <3>8
    <2> QED
      BY <1>7, <2>1, <2>2 DEF PostRequest
  <1>8. ASSUME NEW k \in Instance, Crash(k) PROVE Goal(squeue'[i])
    <2>1. squeue' = [squeue EXCEPT ![k] = Empty]
      BY <1>8 DEF Crash
    <2>2. Goal(Empty)
      BY QueuedEmpty DEF Ahead, Empty
    <2> HIDE DEF Goal
    <2> QED
      BY <1>4, <2>1, <2>2
  <1>9. ASSUME squeue' = squeue PROVE Goal(squeue'[i])
    BY <1>2, <1>9
  <1>10. Goal(squeue'[i])
    <2> HIDE DEF Goal
    <2> QED
      BY <1>5, <1>6, <1>7, <1>8, <1>9, QueueSteps
  <1> QED
    BY <1>10

\* A request that arrives is the latest of its client: nothing later is anywhere.
LEMMA NothingLater ==
  ASSUME TypeInv, RequestOnce, LatestSent, NEW m \in Msg, NEW n \in Msg, Later(n, m), Arrives(m),
         <<"cut", m.client>> \notin faults
  PROVE  ~Gone(n) /\ ~Waits(squeue, n)
  <1>1. m.id = minted[m.client]
    BY DEF Arrives, LatestSent
  <1>2. m.client \in Client /\ m.id \in Nat /\ n.id \in Nat /\ n.client = m.client /\ n.id > m.id
    BY SystemAssumption DEF Msg, Later
  <1>3. ~(n.id <= minted[n.client])
    BY <1>1, <1>2
  <1>4. \A l \in Line : Hands(exch[l], n) => Carries(exch[l], n)
    BY DEF Hands, Carries
  <1> QED
    BY <1>3, <1>4 DEF RequestOnce, OnePlace, Gone

\* Every step keeps the requests of a client in order.
LEMMA InOrderStep ==
  ASSUME TypeInv, Affine, RequestOnce, LatestSent, InOrder, [Next]_vars
  PROVE  InOrder'
  <1> SUFFICES ASSUME NEW i \in Instance, NEW s \in Service, NEW m \in Msg, NEW n \in Msg,
                      m \in Queued(squeue'[i], s), <<"cut", m.client>> \notin faults', Later(n, m)
               PROVE  ~Gone(n)' /\ ~Ahead(squeue'[i], s, n, m)
    BY DEF InOrder, Queued, Later, Gone, Ahead, Hands
  <1>1. <<"cut", m.client>> \notin faults
    BY HistoryGrows
  <1>2. n # m
    BY SystemAssumption DEF Later, Msg
  <1>3. ASSUME Gone(n)', ~Gone(n)
        PROVE  \E k \in Instance, t \in Service : Has(squeue[k], t) /\ n = Head(squeue[k][t])
    <2>1. PICK l \in Line, k \in Instance : PullRequest(l, k) /\ Has(squeue[k], exch[l].path)
                                           /\ n = Head(squeue[k][exch[l].path])
      BY <1>3, GoneStep
    <2>2. exch[l].path \in Service
      BY <2>1 DEF PullRequest, At, TypeInv, Identity, Shaped
    <2> QED
      BY <2>1, <2>2
  <1>4. \A k \in Instance : squeue[k] \in [DOMAIN squeue[k] -> Seq(Msg)]
    BY DEF TypeInv, TypeOK, Registries
  <1>5. \A k \in Instance, t \in Service : Has(squeue[k], t) => Head(squeue[k][t]) \in Queued(squeue[k], t)
    BY <1>4, QueuedHead
  <1>6. CASE Arrives(m)
    <2>1. ~Gone(n) /\ ~Waits(squeue, n)
      BY <1>1, <1>6, NothingLater
    <2>2. ~Gone(n)'
      BY <1>3, <1>5, <2>1 DEF Waits
    <2>3. ~Ahead(squeue[i], s, n, m)
      BY <2>1 DEF Waits, Ahead, Queued
    <2>4. ~Ahead(squeue'[i], s, n, m)
      BY <1>2, <2>1, <2>3, OrderStep DEF Waits
    <2> QED
      BY <2>2, <2>4
  <1>7. CASE ~Arrives(m)
    <2>1. m \in Queued(squeue[i], s)
      BY <1>2, <1>7, OrderStep
    <2>2. ~Gone(n) /\ ~Ahead(squeue[i], s, n, m)
      BY <1>1, <2>1 DEF InOrder
    <2>3. ~Ahead(squeue'[i], s, n, m)
      BY <1>2, <1>7, <2>2, OrderStep
    <2>4. ~Gone(n)'
      <3> SUFFICES ASSUME Gone(n)' PROVE FALSE
        OBVIOUS
      <3>1. PICK k \in Instance, t \in Service : Has(squeue[k], t) /\ n = Head(squeue[k][t])
        BY <1>3, <2>2
      <3>2. n.service = t /\ session[n.client].pin = InternalIp(k)
        BY <1>5, <3>1 DEF Affine, RequestsAtHome
      <3>3. m.service = s /\ session[m.client].pin = InternalIp(i)
        BY <2>1 DEF Affine, RequestsAtHome
      <3>4. t = s /\ k = i
        BY <3>2, <3>3, AddressAssumption DEF Later
      <3> DEFINE q == squeue[i][s]
      <3>5. q \in Seq(Msg) /\ q # <<>> /\ n = Head(q) /\ s \in DOMAIN squeue[i]
        BY <1>4, <3>1, <3>4 DEF Has
      <3>6. PICK j \in DOMAIN q : m = q[j]
        BY <2>1 DEF Queued
      <3> HIDE DEF q
      <3>7. 1 \in DOMAIN q /\ n = q[1] /\ 1 <= j
        BY <3>5
      <3> QED
        BY <2>2, <3>5, <3>6, <3>7 DEF Ahead, q
    <2> QED
      BY <2>3, <2>4
  <1> QED
    BY <1>6, <1>7

\* Queues in order have no request behind a later one.
LEMMA OrderIsEnough ==
  ASSUME TypeInv, InOrder
  PROVE  NoOvertaking
  <1> SUFFICES ASSUME NEW i \in Instance, NEW s \in DOMAIN squeue[i], NEW p \in DOMAIN squeue[i][s],
                      <<"cut", squeue[i][s][p].client>> \notin faults,
                      NEW n \in Msg, Later(n, squeue[i][s][p])
               PROVE  ran[n] = <<>> /\ \A q \in 1 .. p : squeue[i][s][q] # n
    BY DEF NoOvertaking
  <1> DEFINE m == squeue[i][s][p]
  <1>1. s \in Service /\ squeue[i][s] \in Seq(Msg)
    BY DEF TypeInv, TypeOK, Registries
  <1>2. m \in Msg /\ m \in Queued(squeue[i], s)
    BY <1>1 DEF Queued
  <1>3. ~Gone(n) /\ ~Ahead(squeue[i], s, n, m)
    BY <1>1, <1>2 DEF InOrder
  <1>4. \A q \in 1 .. p : q \in DOMAIN squeue[i][s] /\ q <= p
    BY <1>1
  <1> QED
    BY <1>3, <1>4 DEF Gone, Ahead

\* A service gets the requests of a client in the order in which they were sent,
\* unless an exchange of the client was cut off: one exchange per connection, one
\* queue per service (services.py:71), also across crashes and other clients.
THEOREM NothingOvertakes == Spec => []NoOvertaking
  <1> DEFINE Inv == TypeInv /\ Affine /\ RequestOnce /\ LatestSent /\ InOrder
  <1>1. Init => Inv
    <2>1. Init => LatestSent
      BY DEF Init, LatestSent, Sends, NoExchange
    <2>2. Init => InOrder
      BY QueuedEmpty DEF Init, InOrder
    <2> QED
      BY <2>1, <2>2, TypeInit, AffineInit, OnceInit
  <1>2. Inv /\ [Next]_vars => Inv'
    BY TypeStep, AffineStep, OnceStep, LatestSentStep, InOrderStep
  <1>3. Inv => NoOvertaking
    BY OrderIsEnough
  <1> QED
    BY <1>1, <1>2, <1>3, PTL DEF Spec

===============================================================================
