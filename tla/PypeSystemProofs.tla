--------------------------- MODULE PypeSystemProofs ---------------------------
(***************************************************************************)
(* Proofs about PypeSystem for every number of connections, services,        *)
(* instances, requests and mishaps.                                          *)
(***************************************************************************)
EXTENDS PypeSystem, TLAPS

-------------------------------------------------------------------------------
(* Queues in registries *)

\* One instance gets other queues, well-formed and within the bound.
LEMMA RegistriesUpdate ==
  ASSUME NEW names, NEW max, NEW f, Registries(f, names, max), NEW i \in Instance,
         NEW g, DOMAIN g \subseteq names, g \in [DOMAIN g -> Seq(Msg)],
         \A n \in DOMAIN g : Len(g[n]) <= max
  PROVE  Registries([f EXCEPT ![i] = g], names, max)
  BY DEF Registries

\* get_or_create keeps a registry well-formed.
LEMMA CreateKeeps ==
  ASSUME NEW names, NEW max \in Nat \ {0}, NEW f, Registries(f, names, max),
         NEW i \in Instance, NEW n \in names
  PROVE  Registries([f EXCEPT ![i] = GetOrCreate(@, n)], names, max)
  <1>1. /\ DOMAIN f[i] \subseteq names /\ f[i] \in [DOMAIN f[i] -> Seq(Msg)]
        /\ \A k \in DOMAIN f[i] : Len(f[i][k]) <= max
    BY DEF Registries
  <1> DEFINE g == GetOrCreate(f[i], n)
  <1>2. /\ DOMAIN g \subseteq names /\ g \in [DOMAIN g -> Seq(Msg)]
        /\ \A k \in DOMAIN g : g[k] = <<>> \/ (k \in DOMAIN f[i] /\ g[k] = f[i][k])
    BY <1>1 DEF GetOrCreate
  <1> HIDE DEF g
  <1>3. \A k \in DOMAIN g : Len(g[k]) <= max
    BY <1>1, <1>2
  <1>4. [f EXCEPT ![i] = GetOrCreate(@, n)] = [f EXCEPT ![i] = g]
    BY DEF g
  <1> QED
    BY <1>2, <1>3, <1>4, RegistriesUpdate

\* A put into a queue that is not full.
LEMMA PutKeeps ==
  ASSUME NEW names, NEW max \in Nat \ {0}, NEW f, Registries(f, names, max),
         NEW i \in Instance, NEW n \in names, NEW m \in Msg, ~IsFull(f[i], n, max)
  PROVE  Registries([f EXCEPT ![i] = Put(@, n, m)], names, max)
  <1> DEFINE g == GetOrCreate(f[i], n)
             h == Put(f[i], n, m)
  <1>1. /\ DOMAIN f[i] \subseteq names /\ f[i] \in [DOMAIN f[i] -> Seq(Msg)]
        /\ \A k \in DOMAIN f[i] : Len(f[i][k]) <= max
    BY DEF Registries
  <1>2. /\ DOMAIN g = DOMAIN f[i] \cup {n} /\ g \in [DOMAIN g -> Seq(Msg)]
        /\ \A k \in DOMAIN f[i] : g[k] = f[i][k]
        /\ n \notin DOMAIN f[i] => g[n] = <<>>
    BY <1>1 DEF GetOrCreate
  <1>3. h = [g EXCEPT ![n] = Append(@, m)]
    BY DEF Put
  <1> HIDE DEF g, h
  <1>4. g[n] \in Seq(Msg) /\ Len(g[n]) < max
    <2>1. CASE n \in DOMAIN f[i]
      <3>1. g[n] = f[i][n] /\ f[i][n] \in Seq(Msg) /\ ~(Len(f[i][n]) >= max)
        BY <1>1, <1>2, <2>1 DEF IsFull
      <3> QED
        BY <3>1
    <2>2. CASE n \notin DOMAIN f[i]
      <3>1. g[n] = <<>>
        BY <1>2, <2>2
      <3> QED
        BY <3>1
    <2> QED
      BY <2>1, <2>2
  <1>5. Append(g[n], m) \in Seq(Msg) /\ Len(Append(g[n], m)) <= max
    BY <1>4
  <1>6. DOMAIN h = DOMAIN g /\ h \in [DOMAIN h -> Seq(Msg)]
    BY <1>2, <1>3, <1>5
  <1>7. ASSUME NEW k \in DOMAIN h PROVE Len(h[k]) <= max
    <2>1. CASE k = n
      BY <1>2, <1>3, <1>5, <2>1
    <2>2. CASE k # n
      <3>1. k \in DOMAIN f[i] /\ h[k] = f[i][k]
        BY <1>2, <1>3, <1>6, <2>2
      <3> QED
        BY <1>1, <3>1
    <2> QED
      BY <2>1, <2>2
  <1>8. [f EXCEPT ![i] = Put(@, n, m)] = [f EXCEPT ![i] = h]
    BY DEF h
  <1> QED
    BY <1>1, <1>2, <1>6, <1>7, <1>8, RegistriesUpdate

\* A get from a queue that is not empty, and what it returns.
LEMMA TakeKeeps ==
  ASSUME NEW names, NEW max \in Nat, NEW f, Registries(f, names, max),
         NEW i \in Instance, NEW n, Has(f[i], n)
  PROVE  Registries([f EXCEPT ![i] = Take(@, n)], names, max) /\ Head(f[i][n]) \in Msg
  <1> DEFINE h == Take(f[i], n)
  <1>1. /\ DOMAIN f[i] \subseteq names /\ f[i] \in [DOMAIN f[i] -> Seq(Msg)]
        /\ \A k \in DOMAIN f[i] : Len(f[i][k]) <= max
    BY DEF Registries
  <1>2. n \in DOMAIN f[i] /\ f[i][n] \in Seq(Msg) /\ f[i][n] # <<>> /\ Len(f[i][n]) <= max
    BY <1>1 DEF Has
  <1>3. Head(f[i][n]) \in Msg /\ Tail(f[i][n]) \in Seq(Msg) /\ Len(Tail(f[i][n])) <= max
    BY <1>2
  <1>4. h = [f[i] EXCEPT ![n] = Tail(@)]
    BY DEF Take
  <1> HIDE DEF h
  <1>5. /\ DOMAIN h = DOMAIN f[i] /\ h \in [DOMAIN h -> Seq(Msg)]
        /\ \A k \in DOMAIN h : Len(h[k]) <= max
    BY <1>1, <1>2, <1>3, <1>4
  <1>6. [f EXCEPT ![i] = Take(@, n)] = [f EXCEPT ![i] = h]
    BY DEF h
  <1> QED
    BY <1>1, <1>3, <1>5, <1>6, RegistriesUpdate

\* So does removing a queue.
LEMMA WithoutKeeps ==
  ASSUME NEW names, NEW max, NEW f, Registries(f, names, max),
         NEW i \in Instance, NEW n
  PROVE  Registries([f EXCEPT ![i] = Without(@, n)], names, max)
  <1>1. /\ DOMAIN f[i] \subseteq names /\ f[i] \in [DOMAIN f[i] -> Seq(Msg)]
        /\ \A k \in DOMAIN f[i] : Len(f[i][k]) <= max
    BY DEF Registries
  <1> DEFINE h == Without(f[i], n)
  <1>2. /\ DOMAIN h \subseteq names /\ h \in [DOMAIN h -> Seq(Msg)]
        /\ \A k \in DOMAIN h : Len(h[k]) <= max
    BY <1>1 DEF Without
  <1>3. [f EXCEPT ![i] = Without(@, n)] = [f EXCEPT ![i] = h]
    OBVIOUS
  <1> QED
    BY <1>2, <1>3, RegistriesUpdate

\* So does starting again without queues.
LEMMA EmptyKeeps ==
  ASSUME NEW names, NEW max \in Nat, NEW f, Registries(f, names, max), NEW i \in Instance
  PROVE  Registries([f EXCEPT ![i] = Empty], names, max)
  <1>1. DOMAIN Empty = {} /\ Empty \in [DOMAIN Empty -> Seq(Msg)]
    BY DEF Empty
  <1> QED
    BY <1>1, RegistriesUpdate

-------------------------------------------------------------------------------
(* Types, tokens and sessions *)

\* The claims of the token that caller a is given.
Own(a) == [role |-> IF a \in Client THEN "client" ELSE "service", name |-> Name(a)]

\* An exchange has what its endpoint needs.
Shaped(x) ==
  /\ x.op \notin {"none", "auth"} => x.token \in Token /\ x.pin \in Address
  /\ x.op = "auth" => x.path \in Client \cup Service
  /\ x.op \in {"post", "call", "pull"} => x.path \in Service
  /\ x.op \in {"poll", "answer"} => x.path \in Client
  /\ x.op \in {"post", "call", "answer"} /\ x.status = None => x.msg \in Msg
  /\ x.op \in {"poll", "wait", "pull"} /\ x.status = 200 => x.msg \in Msg

\* It goes through the session s of caller a, or is to establish that session.
OfSession(a, x, s) ==
  /\ x.op = "auth" => /\ s = NoSession /\ x.path = Name(a)
                      /\ x.status = 200 => x.token = Own(a) /\ x.pin \in Address
  /\ x.op \notin {"none", "auth"} => x.token = s.token /\ x.pin = s.pin

Authentic(a) == session[a] = NoSession \/ (session[a].token = Own(a) /\ session[a].pin \in Address)

Identity ==
  /\ \A a \in Caller : Authentic(a)
  /\ \A l \in Line : Shaped(exch[l])
  /\ \A a \in Caller : OfSession(a, exch[a], session[a])

TypeInv == TypeOK /\ Identity

\* The part of it that is about exchanges and sessions.
Sound == exch \in [Line -> Exchange] /\ Identity

\* No instance has None for an address.
LEMMA NoneIsNoAddress == None \notin Address
  BY AddressAssumption DEF Address

\* What a connection authenticates with makes a token.
LEMMA OwnType == \A a \in Caller : Own(a) \in Token /\ Name(a) \in Client \cup Service
  BY SystemAssumption DEF Own, Token, Name, Caller

\* The name in a token tells the role, as no client_id is a service name.
LEMMA OwnRole ==
  ASSUME NEW a \in Caller
  PROVE  (Name(a) \in Client <=> a \in Client) /\ (Name(a) \in Service <=> a \in Worker)
  BY SystemAssumption DEF Name, Caller

\* None is none of the numbers that a status can be.
LEMMA StatusType == None \notin Nat /\ None \in Status /\ {0, 200, 202, 204, 400, 403, 503} \subseteq Status
  BY SystemAssumption DEF Status

\* A line without an exchange is well-formed.
LEMMA NoExchangeType == NoExchange \in Exchange /\ Shaped(NoExchange)
  BY StatusType DEF NoExchange, Exchange, Shaped, Op

\* So is an exchange with a reply.
LEMMA ReplyType ==
  \A x \in Exchange, s \in Status, m \in Msg \cup {None} :
    [x EXCEPT !.status = s, !.msg = m] \in Exchange
  BY DEF Exchange

\* So is one with a token and an address.
LEMMA IssueType ==
  \A x \in Exchange, token \in Token, pin \in Address, s \in Status :
    [x EXCEPT !.status = s, !.pin = pin, !.token = token] \in Exchange
  BY DEF Exchange

\* One line changes to an exchange that fits, the sessions do not.
LEMMA LineUpdate ==
  ASSUME TypeInv, NEW l \in Line, NEW y \in Exchange, Shaped(y),
         l \in Caller => OfSession(l, y, session[l]),
         exch' = [exch EXCEPT ![l] = y], UNCHANGED session
  PROVE  Sound'
  BY DEF TypeInv, TypeOK, Identity, Authentic, Sound

\* A reply that keeps the call and does not answer an authentication.
LEMMA ReplyKeeps ==
  ASSUME TypeInv, NEW l \in Line, exch[l].op # "auth",
         NEW status \in {0, 200, 202, 204, 400, 403, 503}, NEW m \in Msg \cup {None},
         status = 200 => m \in Msg \/ exch[l].op = "logoff",
         ReplyWith(l, status, m), UNCHANGED session
  PROVE  Sound'
  <1> DEFINE x == exch[l]
             y == [x EXCEPT !.status = status, !.msg = m]
             z == IF l \in Caller THEN y ELSE NoExchange
  <1>1. x \in Exchange /\ Shaped(x) /\ status \in Status
    BY StatusType DEF TypeInv, TypeOK, Identity
  <1>2. l \in Caller => OfSession(l, x, session[l])
    BY DEF TypeInv, Identity
  <1>3. exch' = [exch EXCEPT ![l] = z]
    BY DEF ReplyWith, Reply
  <1>4. y.op = x.op /\ y.path = x.path /\ y.token = x.token /\ y.pin = x.pin
        /\ y.status = status /\ y.msg = m
    BY <1>1 DEF Exchange
  <1>5. y \in Exchange
    <2>1. x \in Exchange /\ status \in Status /\ m \in Msg \cup {None}
      BY <1>1
    <2> HIDE DEF x
    <2> QED
      BY ONLY <2>1, ReplyType, Zenon
  <1>6. x.op # "auth"
    OBVIOUS
  <1> HIDE DEF x, y
  <1>7. Shaped(y)
    BY <1>1, <1>4, <1>6, StatusType DEF Shaped, x
  <1>8. l \in Caller => OfSession(l, y, session[l])
    BY <1>2, <1>4, <1>6 DEF OfSession
  <1>9. z \in Exchange /\ Shaped(z)
    BY <1>5, <1>7, NoExchangeType
  <1>10. l \in Caller => OfSession(l, z, session[l])
    BY <1>8
  <1> HIDE DEF z
  <1>11. z \in Exchange
    BY <1>9
  <1> QED
    BY ONLY TypeInv, l \in Line, UNCHANGED session, <1>3, <1>9, <1>10, <1>11, LineUpdate

\* What an open session consists of.
LEMMA OpenSession ==
  ASSUME TypeInv, NEW a \in Caller, Open(a)
  PROVE  session[a] # NoSession /\ session[a].token = Own(a) /\ session[a].token \in Token
         /\ session[a].pin \in Address
  <1>1. session[a] # NoSession
    BY DEF Open, NoSession
  <1>2. Authentic(a)
    BY DEF TypeInv, Identity
  <1> QED
    BY <1>1, <1>2, OwnType DEF Authentic

\* A call through an open session.
LEMMA AskKeeps ==
  ASSUME TypeInv, NEW a \in Caller, Open(a),
         NEW op \in Op \ {"none", "auth", "wait"},
         NEW path \in Client \cup Service \cup {None}, NEW m \in Msg \cup {None},
         op \in {"post", "call", "pull"} => path \in Service,
         op \in {"poll", "answer"} => path \in Client,
         op \in {"post", "call", "answer"} => m \in Msg,
         Ask(a, op, path, m), UNCHANGED session
  PROVE  Sound'
  <1> DEFINE y == [op |-> op, path |-> path, token |-> session[a].token,
                   pin |-> session[a].pin, msg |-> m, status |-> None]
  <1>1. session[a].token \in Token /\ session[a].pin \in Address
    BY OpenSession
  <1>2. y \in Exchange
    BY <1>1, StatusType DEF Exchange
  <1>3. Shaped(y)
    BY <1>1, StatusType DEF Shaped
  <1>4. a \in Caller => OfSession(a, y, session[a])
    BY DEF OfSession
  <1>5. exch' = [exch EXCEPT ![a] = y]
    BY DEF Ask
  <1>6. a \in Line
    BY DEF Line
  <1> HIDE DEF y
  <1> QED
    BY ONLY TypeInv, UNCHANGED session, <1>2, <1>3, <1>4, <1>5, <1>6, LineUpdate

\* An exchange that has failed for its caller.
LEMMA FailedKeeps ==
  ASSUME TypeInv, NEW a \in Line
  PROVE  /\ Failed(exch[a]) \in Exchange /\ Shaped(Failed(exch[a]))
         /\ a \in Caller => OfSession(a, Failed(exch[a]), session[a])
  <1> DEFINE x == exch[a]
             y == Failed(x)
  <1>1. x \in Exchange /\ Shaped(x)
    BY DEF TypeInv, TypeOK, Identity
  <1>2. a \in Caller => OfSession(a, x, session[a])
    BY DEF TypeInv, Identity
  <1>3. y.op = x.op /\ y.path = x.path /\ y.token = x.token /\ y.pin = x.pin
        /\ y.status = 0 /\ y.msg = None
    BY <1>1 DEF Exchange, Failed
  <1>4. y \in Exchange
    <2>1. x \in Exchange /\ 0 \in Status /\ None \in Msg \cup {None}
      BY <1>1, StatusType
    <2>2. [x EXCEPT !.status = 0, !.msg = None] \in Exchange
      <3> HIDE DEF x
      <3> QED
        BY ONLY <2>1, ReplyType, Zenon
    <2> QED
      BY <2>2, Zenon DEF Failed
  <1> HIDE DEF x, y
  <1>5. Shaped(y)
    BY <1>1, <1>3, StatusType DEF Shaped
  <1>6. a \in Caller => OfSession(a, y, session[a])
    BY <1>2, <1>3 DEF OfSession
  <1> QED
    BY <1>4, <1>5, <1>6 DEF x, y

\* Nothing of exchanges and sessions changes.
LEMMA QuietKeeps == TypeInv /\ UNCHANGED <<exch, session>> => Sound'
  BY DEF TypeInv, TypeOK, Identity, Authentic, Sound

\* The call that is to establish a session.
LEMMA AuthenticateKeeps ==
  ASSUME TypeInv, NEW a \in Caller, Authenticate(a)
  PROVE  Sound'
  <1> DEFINE y == [op |-> "auth", path |-> Name(a), token |-> session[a].token,
                   pin |-> session[a].pin, msg |-> None, status |-> None]
  <1>1. session[a] = NoSession /\ exch' = [exch EXCEPT ![a] = y] /\ session' = session
    BY DEF Authenticate, Ask, caller
  <1>2. y.token = None /\ y.pin = None /\ Name(a) \in Client \cup Service
    BY <1>1, OwnType DEF NoSession
  <1>3. y \in Exchange
    BY <1>2, StatusType DEF Exchange, Op
  <1>4. Shaped(y)
    BY <1>2, StatusType DEF Shaped
  <1>5. OfSession(a, y, session[a])
    BY <1>1, StatusType DEF OfSession
  <1>6. a \in Line
    BY DEF Line
  <1> HIDE DEF y
  <1> QED
    BY ONLY TypeInv, <1>1, <1>3, <1>4, <1>5, <1>6, LineUpdate

\* close only marks the session, whose logoff goes through it.
LEMMA CloseKeeps ==
  ASSUME TypeInv, NEW a \in Caller, Close(a)
  PROVE  session' \in [Caller -> Session] /\ Sound'
  <1> DEFINE s == [session[a] EXCEPT !.open = FALSE]
  <1>1. Open(a) /\ session' = [session EXCEPT ![a] = s] /\ exch[a] = NoExchange
    BY DEF Close, Ask
  <1>2. session[a].token = Own(a) /\ session[a].token \in Token /\ session[a].pin \in Address
    BY <1>1, OpenSession
  <1>3. session[a] \in Session
    BY DEF TypeInv, TypeOK
  <1>4. s \in Session /\ s.token = session[a].token /\ s.pin = session[a].pin
    BY <1>3 DEF Session
  <1> DEFINE y == [op |-> "logoff", path |-> None, token |-> session[a].token,
                   pin |-> session[a].pin, msg |-> None, status |-> None]
             z == IF a \in Client THEN y ELSE NoExchange
  <1>5. exch' = [exch EXCEPT ![a] = z]
    BY <1>1 DEF Close, Ask, TypeInv, TypeOK
  <1>6. y \in Exchange
    BY <1>2, StatusType DEF Exchange, Op
  <1>7. Shaped(y)
    BY <1>2, StatusType DEF Shaped
  <1>8. OfSession(a, y, s)
    BY <1>4 DEF OfSession
  <1> HIDE DEF y, s
  <1>9. z \in Exchange /\ Shaped(z) /\ OfSession(a, z, s)
    BY <1>6, <1>7, <1>8, NoExchangeType DEF OfSession, NoExchange
  <1> HIDE DEF z
  <1>10. session' \in [Caller -> Session]
    BY <1>1, <1>4 DEF TypeInv, TypeOK
  <1>11. exch' \in [Line -> Exchange]
    BY <1>5, <1>9 DEF TypeInv, TypeOK
  <1>12. ASSUME NEW b \in Caller PROVE Authentic(b)'
    BY <1>1, <1>2, <1>4 DEF Authentic, TypeInv, TypeOK, Identity
  <1>13. ASSUME NEW l \in Line PROVE Shaped(exch'[l])
    BY <1>5, <1>9 DEF TypeInv, TypeOK, Identity
  <1>14. ASSUME NEW b \in Caller PROVE OfSession(b, exch'[b], session'[b])
    <2>1. CASE b = a
      <3>1. exch'[b] = z /\ session'[b] = s
        BY <1>1, <1>5, <2>1 DEF TypeInv, TypeOK, Line
      <3> QED
        BY <1>9, <2>1, <3>1
    <2>2. CASE b # a
      <3>1. exch'[b] = exch[b] /\ session'[b] = session[b]
        BY <1>1, <1>5, <2>2 DEF TypeInv, TypeOK, Line
      <3> QED
        BY <3>1 DEF TypeInv, Identity
    <2> QED
      BY <2>1, <2>2
  <1> QED
    BY <1>10, <1>11, <1>12, <1>13, <1>14 DEF Sound, Identity

\* The name in the token: a client_id or a service name.
LEMMA NameType ==
  ASSUME NEW a \in Caller
  PROVE  /\ a \in Client => Name(a) = a
         /\ a \in Worker => Name(a) = Serves[a] /\ Serves[a] \in Service
  BY SystemAssumption DEF Name

\* The steps that a connection takes on its own.
LEMMA UseType ==
  ASSUME TypeInv, NEW a \in Caller, Use(a)
  PROVE  TypeInv'
  <1> USE DEF TypeInv
  <1>1. CASE Authenticate(a)
    BY <1>1, AuthenticateKeeps DEF Authenticate, TypeOK, Sound, server, caller, fault
  <1>2. CASE Stray(a)
    <2>1. mishaps' \in 0 .. MaxMishaps
      BY <1>2, SystemAssumption DEF Stray, Mishap, TypeOK
    <2>2. Sound'
      <3>1. CASE \E c \in Client : Ask(a, "poll", c, None)
        BY <1>2, <3>1, AskKeeps DEF Stray, Op, caller
      <3>2. CASE \E t \in Service : Ask(a, "pull", t, None)
        BY <1>2, <3>2, AskKeeps DEF Stray, Op, caller
      <3> QED
        BY <1>2, <3>1, <3>2 DEF Stray
    <2> QED
      BY <1>2, <2>1, <2>2 DEF Stray, TypeOK, Sound, server, caller
  <1>3. CASE Close(a)
    <2>1. mishaps' \in 0 .. MaxMishaps
      BY <1>3, SystemAssumption DEF Close, Mishap, TypeOK
    <2> QED
      BY <1>3, <2>1, CloseKeeps DEF Close, TypeOK, Sound, server
  <1>4. CASE a \in Client /\ SendRequest(a)
    <2>1. minted' \in [Client -> 0 .. MaxRequests]
      BY <1>4, SystemAssumption DEF SendRequest, TypeOK
    <2>2. minted[a] + 1 \in 1 .. MaxRequests
      BY <1>4, SystemAssumption DEF SendRequest, TypeOK
    <2>3. PICK op \in {"post", "call"}, t \in Service :
            Ask(a, op, t, [client |-> a, id |-> minted[a] + 1, service |-> t])
      BY <1>4 DEF SendRequest
    <2> DEFINE m == [client |-> a, id |-> minted[a] + 1, service |-> t]
    <2>4. m \in Msg
      BY <1>4, <2>2 DEF Msg
    <2>5. Ask(a, op, t, m) /\ op \in Op \ {"none", "auth", "wait"}
      BY <2>3 DEF Op
    <2> HIDE DEF m
    <2>6. Sound'
      BY <1>4, <2>3, <2>4, <2>5, AskKeeps DEF SendRequest
    <2> QED
      BY <1>4, <2>1, <2>6 DEF SendRequest, TypeOK, Sound, server, fault
  <1>5. CASE a \in Client /\ PollOne(a)
    <2>1. Sound'
      BY <1>5, AskKeeps DEF PollOne, Op, caller
    <2> QED
      BY <1>5, <2>1 DEF PollOne, TypeOK, Sound, server, caller, fault
  <1>6. CASE a \in Worker /\ GetRequest(a)
    <2>1. Sound'
      BY <1>6, AskKeeps, NameType DEF GetRequest, Op, caller
    <2> QED
      BY <1>6, <2>1 DEF GetRequest, TypeOK, Sound, server, caller, fault
  <1>7. CASE a \in Worker /\ Drop(a)
    <2>1. held' \in [Caller -> SUBSET Msg]
      BY <1>7 DEF Drop, TypeOK
    <2>2. mishaps' \in 0 .. MaxMishaps /\ faults' \subseteq {"cut", "idle", "dropped"} \X Caller
      BY <1>7, SystemAssumption DEF Drop, Fault, Mishap, TypeOK
    <2>3. Sound'
      BY <1>7, QuietKeeps DEF Drop
    <2> QED
      BY <1>7, <2>1, <2>2, <2>3 DEF Drop, TypeOK, Sound, server
  <1>8. ASSUME NEW m \in held[a], SendResponse(a, m)
        PROVE  TypeInv'
    <2>1. m \in Msg /\ m.client \in Client
      BY DEF TypeOK, Msg
    <2>2. Sound'
      BY <1>8, <2>1, AskKeeps DEF SendResponse, Op, caller
    <2> QED
      BY <1>8, <2>2 DEF SendResponse, TypeOK, Sound, server, caller, fault
  <1> QED
    BY <1>1, <1>2, <1>3, <1>4, <1>5, <1>6, <1>7, <1>8 DEF Use

\* The headers that an authentication brings are those of the caller.
LEMMA ReceiveType ==
  ASSUME TypeInv, NEW a \in Caller, Receive(a)
  PROVE  TypeInv'
  <1> DEFINE x == exch[a]
             s == Headers(a, x)
  <1>1. x \in Exchange /\ Shaped(x) /\ OfSession(a, x, session[a]) /\ a \in Line
    BY DEF TypeInv, TypeOK, Identity, Line
  <1>2. exch' = [exch EXCEPT ![a] = NoExchange]
    BY DEF Receive
  <1>3. session' = IF Got(x, {"auth"}) THEN [session EXCEPT ![a] = s] ELSE session
    BY DEF Receive
  <1>4. Got(x, {"auth"}) => x.token = Own(a) /\ x.pin \in Address
    BY <1>1 DEF OfSession, Got
  <1>5. s = [token |-> x.token, pin |-> x.pin, open |-> TRUE]
    BY DEF Headers
  <1>6. s \in Session
    BY <1>1, <1>5 DEF Session, Exchange
  <1>7. s.token = x.token /\ s.pin = x.pin
    BY <1>5
  <1>8. Got(x, {"poll", "wait", "pull"}) => x.msg \in Msg
    BY <1>1 DEF Got, Shaped
  <1> HIDE DEF x, s
  <1>9. session' \in [Caller -> Session]
    BY <1>3, <1>6 DEF TypeInv, TypeOK
  <1>10. exch' \in [Line -> Exchange]
    BY <1>2, NoExchangeType DEF TypeInv, TypeOK
  <1>11. ASSUME NEW b \in Caller PROVE Authentic(b)'
    BY <1>3, <1>4, <1>7 DEF Authentic, TypeInv, TypeOK, Identity
  <1>12. ASSUME NEW l \in Line PROVE Shaped(exch'[l])
    BY <1>2, NoExchangeType DEF TypeInv, TypeOK, Identity
  <1>13. ASSUME NEW b \in Caller PROVE OfSession(b, exch'[b], session'[b])
    <2>1. CASE b = a
      <3>1. exch'[b] = NoExchange
        BY <1>1, <1>2, <2>1 DEF TypeInv, TypeOK
      <3> QED
        BY <3>1 DEF OfSession, NoExchange
    <2>2. CASE b # a
      <3>1. exch'[b] = exch[b] /\ session'[b] = session[b]
        BY <1>2, <1>3, <2>2 DEF TypeInv, TypeOK, Line
      <3> QED
        BY <3>1 DEF TypeInv, Identity
    <2> QED
      BY <2>1, <2>2
  <1>14. Sound'
    BY <1>10, <1>11, <1>12, <1>13 DEF Sound, Identity
  <1>15. got' \in [Caller -> [Msg -> Nat]]
    BY <1>8 DEF Receive, TypeInv, TypeOK, Got, x
  <1>16. ran' \in [Msg -> Seq(Caller)]
    BY <1>8 DEF Receive, TypeInv, TypeOK, Got, x
  <1>17. held' \in [Caller -> SUBSET Msg]
    BY <1>8 DEF Receive, TypeInv, TypeOK, Got, x
  <1> QED
    BY <1>9, <1>14, <1>15, <1>16, <1>17
    DEF Receive, TypeInv, TypeOK, Sound, server, fault

\* A caller whose exchange breaks; another line may get the exchange it had.
LEMMA BreakType ==
  ASSUME TypeInv, NEW a \in Caller, Break(a)
  PROVE  TypeInv'
  <1> DEFINE x == exch[a]
             y == Failed(exch[a])
  <1>1. x \in Exchange /\ Shaped(x) /\ a \in Line /\ session' = session
    BY DEF TypeInv, TypeOK, Identity, Line, Break, caller
  <1>2. y \in Exchange /\ Shaped(y) /\ OfSession(a, y, session[a])
    BY <1>1, FailedKeeps
  <1>3. mishaps' \in 0 .. MaxMishaps /\ faults' \subseteq {"cut", "idle", "dropped"} \X Caller
    BY SystemAssumption DEF Break, Fault, Mishap, TypeInv, TypeOK
  <1>4. \/ exch' = [exch EXCEPT ![a] = y]
        \/ \E g \in Ghost : exch' = [exch EXCEPT ![a] = y, ![g] = x]
    BY DEF Break
  <1> HIDE DEF x, y
  <1>5. CASE exch' = [exch EXCEPT ![a] = y]
    <2>1. Sound'
      BY ONLY TypeInv, <1>1, <1>2, <1>5, LineUpdate
    <2> QED
      BY <1>3, <2>1 DEF TypeInv, TypeOK, Sound, Break, server, caller
  <1>6. CASE \E g \in Ghost : exch' = [exch EXCEPT ![a] = y, ![g] = x]
    <2>1. PICK g \in Ghost : exch' = [exch EXCEPT ![a] = y, ![g] = x]
      BY <1>6
    <2>2. g \in Line /\ g \notin Caller
      BY SystemAssumption DEF Line
    <2>3. \A l \in Line : exch'[l] = IF l = g THEN x ELSE IF l = a THEN y ELSE exch[l]
      BY <1>1, <2>1, <2>2 DEF TypeInv, TypeOK
    <2>4. exch' \in [Line -> Exchange]
      BY <1>1, <1>2, <2>1, <2>2 DEF TypeInv, TypeOK
    <2>5. \A l \in Line : Shaped(exch'[l])
      BY <1>1, <1>2, <2>3 DEF TypeInv, Identity
    <2>6. \A b \in Caller : OfSession(b, exch'[b], session'[b])
      BY <1>1, <1>2, <2>2, <2>3 DEF TypeInv, Identity, Line
    <2>7. \A b \in Caller : Authentic(b)'
      BY <1>1 DEF TypeInv, Identity, Authentic
    <2>8. Sound'
      BY <2>4, <2>5, <2>6, <2>7 DEF Sound, Identity
    <2> QED
      BY <1>3, <2>8 DEF TypeInv, TypeOK, Sound, Break, server, caller
  <1> QED
    BY <1>4, <1>5, <1>6

\* A call that reaches no instance.
LEMMA UnreachableType ==
  ASSUME TypeInv, NEW a \in Caller, Unreachable(a)
  PROVE  TypeInv'
  <1> DEFINE y == Failed(exch[a])
  <1>1. a \in Line /\ session' = session /\ exch' = [exch EXCEPT ![a] = y]
    BY DEF TypeInv, TypeOK, Identity, Line, Unreachable, caller
  <1>2. y \in Exchange /\ Shaped(y) /\ OfSession(a, y, session[a])
    BY <1>1, FailedKeeps
  <1> HIDE DEF y
  <1>3. Sound'
    BY ONLY TypeInv, <1>1, <1>2, LineUpdate
  <1> QED
    BY <1>3 DEF TypeInv, TypeOK, Sound, Unreachable, server, caller, fault

\* A crash fails the calls that are pinned to the instance.
LEMMA CrashType ==
  ASSUME TypeInv, NEW i \in Instance, Crash(i)
  PROVE  TypeInv'
  <1>1. /\ up' \subseteq Instance
        /\ Registries(squeue', Service, ServiceQueueMax)
        /\ Registries(box', Client, ClientQueueMax)
        /\ crashes' \in [Instance -> Nat]
    <2>1. Registries(squeue', Service, ServiceQueueMax)
      BY EmptyKeeps, SystemAssumption DEF Crash, TypeInv, TypeOK
    <2>2. Registries(box', Client, ClientQueueMax)
      BY EmptyKeeps, SystemAssumption DEF Crash, TypeInv, TypeOK
    <2> QED
      BY <2>1, <2>2 DEF Crash, TypeInv, TypeOK
  <1>2. mishaps' \in 0 .. MaxMishaps
    BY SystemAssumption DEF Crash, Mishap, TypeInv, TypeOK
  <1>3. \A l \in Line : exch'[l] = IF ~Pinned(exch[l], i) THEN exch[l]
                                   ELSE IF l \in Caller THEN Failed(exch[l]) ELSE NoExchange
    BY DEF Crash
  <1>4. exch' = [l \in Line |-> exch'[l]]
    BY DEF Crash
  <1>5. session' = session
    BY DEF Crash, caller
  <1>6. ASSUME NEW l \in Line
        PROVE  /\ exch'[l] \in Exchange /\ Shaped(exch'[l])
               /\ l \in Caller => OfSession(l, exch'[l], session[l])
    <2>1. exch[l] \in Exchange /\ Shaped(exch[l])
          /\ (l \in Caller => OfSession(l, exch[l], session[l]))
      BY DEF TypeInv, TypeOK, Identity
    <2> QED
      BY <1>3, <2>1, FailedKeeps, NoExchangeType
  <1>7. \A b \in Caller : Authentic(b)'
    BY <1>5 DEF TypeInv, Identity, Authentic
  <1>8. exch' \in [Line -> Exchange]
    BY <1>4, <1>6
  <1>9. Sound'
    BY <1>5, <1>6, <1>7, <1>8 DEF Sound, Identity, Line
  <1> QED
    BY <1>1, <1>2, <1>9 DEF Crash, TypeInv, TypeOK, Sound, caller

\* A restart changes no queue and no exchange.
LEMMA RestartType ==
  ASSUME TypeInv, NEW i \in Instance, Restart(i)
  PROVE  TypeInv'
  <1>1. Sound'
    BY QuietKeeps DEF Restart, caller
  <1> QED
    BY <1>1 DEF Restart, TypeInv, TypeOK, Sound, caller, fault

\* The reaper removes a queue.
LEMMA EvictType ==
  ASSUME TypeInv, NEW i \in Instance, NEW c \in Client, Evict(c, i)
  PROVE  TypeInv'
  <1>1. Sound'
    BY QuietKeeps DEF Evict, caller
  <1>2. Registries(box', Client, ClientQueueMax)
    BY WithoutKeeps DEF Evict, TypeInv, TypeOK
  <1>3. mishaps' \in 0 .. MaxMishaps /\ faults' \subseteq {"cut", "idle", "dropped"} \X Caller
    BY SystemAssumption DEF Evict, Fault, Mishap, TypeInv, TypeOK, Caller
  <1> QED
    BY <1>1, <1>2, <1>3 DEF Evict, TypeInv, TypeOK, Sound, caller

\* What the checks of an endpoint tell of the call they let pass.
LEMMA Passed ==
  ASSUME TypeInv, NEW l \in Line, NEW i \in Instance,
         NEW op \in Op \ {"none", "auth"}, At(l, i, op)
  PROVE  /\ exch[l].op = op /\ exch[l].status = None
         /\ exch[l].token \in Token /\ exch[l].pin = InternalIp(i)
         /\ exch[l].token.role = RoleOf(op)
         /\ exch[l].token.role = "client" => exch[l].token.name \in Client
         /\ op \in {"poll", "pull"} => exch[l].token.name = exch[l].path
         /\ i \in up /\ Shaped(exch[l])
  <1> DEFINE x == exch[l]
  <1>1. x.op = op /\ x.status = None /\ i \in up /\ x.pin \in {None, InternalIp(i)}
        /\ Verdict(x) = 200
    BY DEF At, Routed
  <1>2. Shaped(x)
    BY DEF TypeInv, Identity
  <1> HIDE DEF x
  <1>3. x.token \in Token /\ x.pin \in Address
    BY <1>1, <1>2 DEF Shaped
  <1>4. x.pin = InternalIp(i)
    BY <1>1, <1>3, NoneIsNoAddress
  <1>5. x.token.role = RoleOf(op)
    BY <1>1 DEF Verdict
  <1>6. op \in {"poll", "pull"} => x.token.name = x.path
    BY <1>1 DEF Verdict
  <1>7. x.token.role = "client" => x.token.name \in Client
    BY <1>3 DEF Token
  <1> QED
    BY <1>1, <1>2, <1>3, <1>4, <1>5, <1>6, <1>7 DEF x

\* The token of an authentication is that of the caller.
LEMMA IssueKeeps ==
  ASSUME TypeInv, NEW l \in Line, NEW i \in Instance, exch[l].op = "auth",
         NEW role \in {"client", "service"},
         exch[l].path \in IF role = "client" THEN Client ELSE Service,
         Issue(l, i, role), UNCHANGED session
  PROVE  Sound'
  <1> DEFINE x == exch[l]
             k == [role |-> role, name |-> x.path]
             y == [x EXCEPT !.status = 200, !.pin = InternalIp(i), !.token = k]
             z == IF l \in Caller THEN y ELSE NoExchange
  <1>1. x \in Exchange /\ Shaped(x) /\ 200 \in Status /\ InternalIp(i) \in Address
    BY StatusType DEF TypeInv, TypeOK, Identity, Address
  <1>2. k \in Token
    BY DEF Token
  <1>3. l \in Caller => OfSession(l, x, session[l])
    BY DEF TypeInv, Identity
  <1>4. exch' = [exch EXCEPT ![l] = z]
    BY DEF Issue, Reply
  <1>5. l \in Caller => k = Own(l)
    <2>1. l \in Caller => x.path = Name(l)
      BY <1>3 DEF OfSession
    <2>2. l \in Caller => (role = "client" <=> l \in Client)
      BY <2>1, OwnRole, SystemAssumption DEF Caller
    <2> QED
      BY <2>1, <2>2 DEF Own
  <1>6. x.op = "auth"
    OBVIOUS
  <1> HIDE DEF x, k
  <1>7. y.op = x.op /\ y.path = x.path /\ y.token = k /\ y.pin = InternalIp(i)
        /\ y.status = 200 /\ y.msg = x.msg
    BY <1>1 DEF Exchange
  <1>8. y \in Exchange
    <2> DEFINE p == InternalIp(i)
    <2>1. x \in Exchange /\ k \in Token /\ p \in Address /\ 200 \in Status
      BY <1>1, <1>2
    <2> HIDE DEF p
    <2>2. [x EXCEPT !.status = 200, !.pin = p, !.token = k] \in Exchange
      BY ONLY <2>1, IssueType, Zenon
    <2> QED
      BY <2>2 DEF p
  <1> HIDE DEF y
  <1>9. Shaped(y)
    BY <1>1, <1>6, <1>7 DEF Shaped
  <1>10. l \in Caller => OfSession(l, y, session[l])
    BY <1>1, <1>3, <1>5, <1>6, <1>7 DEF OfSession
  <1>11. z \in Exchange /\ Shaped(z)
    BY <1>8, <1>9, NoExchangeType
  <1>12. l \in Caller => OfSession(l, z, session[l])
    BY <1>10
  <1> HIDE DEF z
  <1> QED
    BY ONLY TypeInv, l \in Line, UNCHANGED session, <1>4, <1>11, <1>12, LineUpdate

\* A block=1 call that goes on as a wait.
LEMMA WaitKeeps ==
  ASSUME TypeInv, NEW l \in Line, exch[l].op = "call", exch[l].status = None,
         exch' = [exch EXCEPT ![l].op = "wait", ![l].msg = None], UNCHANGED session
  PROVE  Sound'
  <1> DEFINE x == exch[l]
             y == [x EXCEPT !.op = "wait", !.msg = None]
  <1>1. x \in Exchange /\ Shaped(x) /\ (l \in Caller => OfSession(l, x, session[l]))
    BY DEF TypeInv, TypeOK, Identity
  <1>2. exch' = [exch EXCEPT ![l] = y]
    BY DEF TypeInv, TypeOK
  <1>3. y.op = "wait" /\ y.path = x.path /\ y.token = x.token /\ y.pin = x.pin
        /\ y.status = None
    BY <1>1 DEF Exchange
  <1>4. y \in Exchange
    BY <1>1 DEF Exchange, Op
  <1>5. x.op = "call"
    OBVIOUS
  <1> HIDE DEF x, y
  <1>6. Shaped(y)
    BY <1>1, <1>3, <1>5, StatusType DEF Shaped
  <1>7. l \in Caller => OfSession(l, y, session[l])
    BY <1>1, <1>3, <1>5 DEF OfSession
  <1> QED
    BY ONLY TypeInv, l \in Line, UNCHANGED session, <1>2, <1>4, <1>6, <1>7, LineUpdate

\* What is left to show of a handler once its reply is in place.
LEMMA ServerKeeps ==
  ASSUME TypeInv, Sound', UNCHANGED <<up, crashes, caller, fault>>,
         Registries(squeue', Service, ServiceQueueMax), Registries(box', Client, ClientQueueMax),
         accepted' \in [Msg -> Nat \cup {None}]
  PROVE  TypeInv'
  BY DEF TypeInv, TypeOK, Sound, caller, fault

\* An authentication that the server answers.
LEMMA AuthType ==
  ASSUME TypeInv, NEW l \in Line, NEW i \in Instance, ServiceAuth(l, i) \/ ClientAuth(l, i)
  PROVE  TypeInv'
  <1>1. CASE ServiceAuth(l, i)
    <2>1. Sound'
      BY <1>1, IssueKeeps DEF ServiceAuth, At, caller
    <2>2. Registries(squeue', Service, ServiceQueueMax)
      BY <1>1, CreateKeeps, SystemAssumption DEF ServiceAuth, TypeInv, TypeOK
    <2> QED
      BY <1>1, <2>1, <2>2 DEF ServiceAuth, TypeInv, TypeOK, Sound, caller, fault
  <1>2. CASE ClientAuth(l, i)
    <2>1. Sound'
      BY <1>2, IssueKeeps DEF ClientAuth, At, caller
    <2> QED
      BY <1>2, <2>1 DEF ClientAuth, TypeInv, TypeOK, Sound, server, caller, fault
  <1> QED
    BY <1>1, <1>2

\* A call that the server refuses.
LEMMA DenyType ==
  ASSUME TypeInv, NEW l \in Line, NEW i \in Instance, Deny(l, i)
  PROVE  TypeInv'
  <1>1. exch[l].op # "auth" /\ Verdict(exch[l]) \in {400, 403}
    BY DEF Deny, Verdict
  <1>2. Sound'
    BY <1>1, ReplyKeeps DEF Deny, caller
  <1> QED
    BY <1>2 DEF Deny, TypeInv, TypeOK, Sound, server, caller, fault

\* send_request and call in the server.
LEMMA PostRequestType ==
  ASSUME TypeInv, NEW l \in Line, NEW i \in Instance, PostRequest(l, i)
  PROVE  TypeInv'
  <1> DEFINE x == exch[l]
  <1>1. PICK op \in {"post", "call"} : At(l, i, op)
    BY DEF PostRequest
  <1>2. /\ x.op = op /\ x.status = None /\ x.token.name \in Client
        /\ x.path \in Service /\ x.msg \in Msg
    <2>1. op \in Op \ {"none", "auth"} /\ RoleOf(op) = "client"
      BY DEF Op, RoleOf
    <2>2. /\ x.op = op /\ x.status = None /\ x.token.role = RoleOf(op)
          /\ x.token.role = "client" => x.token.name \in Client
          /\ Shaped(x)
      BY ONLY TypeInv, l \in Line, i \in Instance, <1>1, <2>1, Passed
    <2> HIDE DEF x
    <2>3. x.token.name \in Client
      BY <2>1, <2>2
    <2>4. x.op \in {"post", "call"}
      BY <2>2
    <2> QED
      BY ONLY <2>2, <2>3, <2>4 DEF Shaped
  <1>3. box' = [box EXCEPT ![i] = GetOrCreate(@, x.token.name)]
    BY DEF PostRequest
  <1>4. session' = session
    BY DEF PostRequest, caller
  <1> HIDE DEF x
  <1>5. Registries(box', Client, ClientQueueMax)
    BY <1>2, <1>3, CreateKeeps, SystemAssumption DEF TypeInv, TypeOK
  <1>6. CASE /\ ~IsFull(squeue[i], x.path, ServiceQueueMax)
             /\ squeue' = [squeue EXCEPT ![i] = Put(@, x.path, x.msg)]
             /\ accepted' = [accepted EXCEPT ![x.msg] = crashes[i]]
             /\ IF x.op = "post" THEN ReplyWith(l, 202, None)
                ELSE exch' = [exch EXCEPT ![l].op = "wait", ![l].msg = None]
    <2>1. Registries(squeue', Service, ServiceQueueMax)
      BY <1>2, <1>6, PutKeeps, SystemAssumption DEF TypeInv, TypeOK
    <2>2. accepted' \in [Msg -> Nat \cup {None}]
      BY <1>2, <1>6 DEF TypeInv, TypeOK
    <2>3. CASE x.op = "post"
      <3>1. Sound'
        BY <1>2, <1>4, <1>6, <2>3, ReplyKeeps DEF x
      <3> QED
        BY <1>5, <2>1, <2>2, <3>1 DEF PostRequest, TypeInv, TypeOK, Sound, caller, fault
    <2>4. CASE x.op # "post"
      <3>1. Sound'
        BY <1>2, <1>4, <1>6, <2>4, WaitKeeps DEF x
      <3> QED
        BY <1>5, <2>1, <2>2, <3>1 DEF PostRequest, TypeInv, TypeOK, Sound, caller, fault
    <2> QED
      BY <2>3, <2>4
  <1>7. CASE ReplyWith(l, 503, None) /\ UNCHANGED <<squeue, accepted>>
    <2>1. Sound'
      BY <1>2, <1>4, <1>7, ReplyKeeps DEF x
    <2> QED
      BY <1>5, <1>7, <2>1 DEF PostRequest, TypeInv, TypeOK, Sound, caller, fault
  <1> QED
    BY <1>6, <1>7 DEF PostRequest, x

\* The handlers that reply with the head of a queue, or without a message.
LEMMA PollResponseType ==
  ASSUME TypeInv, NEW l \in Line, NEW i \in Instance, PollResponse(l, i)
  PROVE  TypeInv'
  <1> DEFINE n == exch[l].path
             m == Head(box[i][n])
  <1>1. exch[l].op = "poll" /\ UNCHANGED <<up, squeue, crashes, accepted, caller, fault>>
    BY DEF PollResponse, At
  <1>2. Registries(squeue', Service, ServiceQueueMax) /\ accepted' \in [Msg -> Nat \cup {None}]
    BY <1>1 DEF TypeInv, TypeOK
  <1>3. \/ /\ Has(box[i], n) /\ box' = [box EXCEPT ![i] = Take(@, n)]
           /\ ReplyWith(l, 200, m)
        \/ /\ box' = [box EXCEPT ![i] = GetOrCreate(@, n)]
           /\ ReplyWith(l, 204, None)
    BY DEF PollResponse
  <1>4. n \in Client
    <2>1. Shaped(exch[l])
      BY DEF TypeInv, Identity
    <2> QED
      BY <1>1, <2>1 DEF Shaped
  <1> HIDE DEF n
  <1>5. CASE /\ Has(box[i], n) /\ box' = [box EXCEPT ![i] = Take(@, n)]
             /\ ReplyWith(l, 200, m)
    <2>1. Registries(box', Client, ClientQueueMax) /\ m \in Msg
      BY <1>5, TakeKeeps, SystemAssumption DEF TypeInv, TypeOK
    <2> HIDE DEF m
    <2>2. ReplyWith(l, 200, m) /\ exch[l].op # "auth" /\ session' = session
      BY <1>1, <1>5 DEF caller
    <2>3. Sound'
      BY ONLY TypeInv, l \in Line, <2>1, <2>2, ReplyKeeps
    <2> QED
      BY ONLY TypeInv, <1>1, <1>2, <2>1, <2>3, ServerKeeps
  <1>6. CASE /\ box' = [box EXCEPT ![i] = GetOrCreate(@, n)]
             /\ ReplyWith(l, 204, None)
    <2>1. Registries(box', Client, ClientQueueMax)
      BY <1>4, <1>6, CreateKeeps, SystemAssumption DEF TypeInv, TypeOK
    <2>2. ReplyWith(l, 204, None) /\ exch[l].op # "auth" /\ session' = session
      BY <1>1, <1>6 DEF caller
    <2>3. Sound'
      BY ONLY TypeInv, l \in Line, <2>2, ReplyKeeps
    <2> QED
      BY ONLY TypeInv, <1>1, <1>2, <2>1, <2>3, ServerKeeps
  <1> QED
    BY <1>3, <1>5, <1>6

\* The second step of a block=1 call.
LEMMA BlockWaitType ==
  ASSUME TypeInv, NEW l \in Line, NEW i \in Instance, BlockWait(l, i)
  PROVE  TypeInv'
  <1> DEFINE n == exch[l].token.name
             m == Head(box[i][n])
  <1>1. exch[l].op = "wait" /\ UNCHANGED <<up, squeue, crashes, accepted, caller, fault>>
    BY DEF BlockWait, At
  <1>2. Registries(squeue', Service, ServiceQueueMax) /\ accepted' \in [Msg -> Nat \cup {None}]
    BY <1>1 DEF TypeInv, TypeOK
  <1>3. \/ /\ Has(box[i], n) /\ box' = [box EXCEPT ![i] = Take(@, n)]
           /\ ReplyWith(l, 200, m)
        \/ /\ UNCHANGED box
           /\ ReplyWith(l, 202, None)
    BY DEF BlockWait
  <1> HIDE DEF n
  <1>5. CASE /\ Has(box[i], n) /\ box' = [box EXCEPT ![i] = Take(@, n)]
             /\ ReplyWith(l, 200, m)
    <2>1. Registries(box', Client, ClientQueueMax) /\ m \in Msg
      BY <1>5, TakeKeeps, SystemAssumption DEF TypeInv, TypeOK
    <2> HIDE DEF m
    <2>2. ReplyWith(l, 200, m) /\ exch[l].op # "auth" /\ session' = session
      BY <1>1, <1>5 DEF caller
    <2>3. Sound'
      BY ONLY TypeInv, l \in Line, <2>1, <2>2, ReplyKeeps
    <2> QED
      BY ONLY TypeInv, <1>1, <1>2, <2>1, <2>3, ServerKeeps
  <1>6. CASE /\ UNCHANGED box
             /\ ReplyWith(l, 202, None)
    <2>1. Registries(box', Client, ClientQueueMax)
      BY <1>6 DEF TypeInv, TypeOK
    <2>2. ReplyWith(l, 202, None) /\ exch[l].op # "auth" /\ session' = session
      BY <1>1, <1>6 DEF caller
    <2>3. Sound'
      BY ONLY TypeInv, l \in Line, <2>2, ReplyKeeps
    <2> QED
      BY ONLY TypeInv, <1>1, <1>2, <2>1, <2>3, ServerKeeps
  <1> QED
    BY <1>3, <1>5, <1>6

\* get_request in the server.
LEMMA PullRequestType ==
  ASSUME TypeInv, NEW l \in Line, NEW i \in Instance, PullRequest(l, i)
  PROVE  TypeInv'
  <1> DEFINE n == exch[l].path
             m == Head(squeue[i][n])
  <1>1. exch[l].op = "pull" /\ UNCHANGED <<up, box, crashes, accepted, caller, fault>>
    BY DEF PullRequest, At
  <1>2. Registries(box', Client, ClientQueueMax) /\ accepted' \in [Msg -> Nat \cup {None}]
    BY <1>1 DEF TypeInv, TypeOK
  <1>3. \/ /\ Has(squeue[i], n) /\ squeue' = [squeue EXCEPT ![i] = Take(@, n)]
           /\ ReplyWith(l, 200, m)
        \/ /\ squeue' = [squeue EXCEPT ![i] = GetOrCreate(@, n)]
           /\ ReplyWith(l, 204, None)
    BY DEF PullRequest
  <1>4. n \in Service
    <2>1. Shaped(exch[l])
      BY DEF TypeInv, Identity
    <2> QED
      BY <1>1, <2>1 DEF Shaped
  <1> HIDE DEF n
  <1>5. CASE /\ Has(squeue[i], n) /\ squeue' = [squeue EXCEPT ![i] = Take(@, n)]
             /\ ReplyWith(l, 200, m)
    <2>1. Registries(squeue', Service, ServiceQueueMax) /\ m \in Msg
      BY <1>5, TakeKeeps, SystemAssumption DEF TypeInv, TypeOK
    <2> HIDE DEF m
    <2>2. ReplyWith(l, 200, m) /\ exch[l].op # "auth" /\ session' = session
      BY <1>1, <1>5 DEF caller
    <2>3. Sound'
      BY ONLY TypeInv, l \in Line, <2>1, <2>2, ReplyKeeps
    <2> QED
      BY ONLY TypeInv, <1>1, <1>2, <2>1, <2>3, ServerKeeps
  <1>6. CASE /\ squeue' = [squeue EXCEPT ![i] = GetOrCreate(@, n)]
             /\ ReplyWith(l, 204, None)
    <2>1. Registries(squeue', Service, ServiceQueueMax)
      BY <1>4, <1>6, CreateKeeps, SystemAssumption DEF TypeInv, TypeOK
    <2>2. ReplyWith(l, 204, None) /\ exch[l].op # "auth" /\ session' = session
      BY <1>1, <1>6 DEF caller
    <2>3. Sound'
      BY ONLY TypeInv, l \in Line, <2>2, ReplyKeeps
    <2> QED
      BY ONLY TypeInv, <1>1, <1>2, <2>1, <2>3, ServerKeeps
  <1> QED
    BY <1>3, <1>5, <1>6

\* send_response in the server.
LEMMA PostResponseType ==
  ASSUME TypeInv, NEW l \in Line, NEW i \in Instance, PostResponse(l, i)
  PROVE  TypeInv'
  <1>1. /\ exch[l].op = "answer" /\ exch[l].status = None /\ session' = session
        /\ UNCHANGED <<up, squeue, crashes, accepted, caller, fault>>
    BY DEF PostResponse, At, caller
  <1>2. exch[l].path \in Client /\ exch[l].msg \in Msg
    <2>1. Shaped(exch[l])
      BY DEF TypeInv, Identity
    <2> QED
      BY <1>1, <2>1 DEF Shaped
  <1>3. Registries(squeue', Service, ServiceQueueMax) /\ accepted' \in [Msg -> Nat \cup {None}]
    BY <1>1 DEF TypeInv, TypeOK
  <1>4. CASE IsFull(box[i], exch[l].path, ClientQueueMax)
    <2>1. ReplyWith(l, 503, exch[l].msg) /\ box' = box
      BY <1>4 DEF PostResponse
    <2>2. Registries(box', Client, ClientQueueMax)
      BY <2>1 DEF TypeInv, TypeOK
    <2>3. Sound'
      BY <1>1, <1>2, <2>1, ReplyKeeps
    <2> QED
      BY ONLY TypeInv, <1>1, <1>3, <2>2, <2>3, ServerKeeps
  <1>5. CASE ~IsFull(box[i], exch[l].path, ClientQueueMax)
    <2>1. ReplyWith(l, 202, exch[l].msg) /\ box' = [box EXCEPT ![i] = Put(@, exch[l].path, exch[l].msg)]
      BY <1>5 DEF PostResponse
    <2>2. Registries(box', Client, ClientQueueMax)
      BY <1>2, <1>5, <2>1, PutKeeps, SystemAssumption DEF TypeInv, TypeOK
    <2>3. Sound'
      BY <1>1, <1>2, <2>1, ReplyKeeps
    <2> QED
      BY ONLY TypeInv, <1>1, <1>3, <2>2, <2>3, ServerKeeps
  <1> QED
    BY <1>4, <1>5

\* logoff in the server.
LEMMA LogoffType ==
  ASSUME TypeInv, NEW l \in Line, NEW i \in Instance, Logoff(l, i)
  PROVE  TypeInv'
  <1>1. /\ exch[l].op = "logoff" /\ exch[l].op # "auth" /\ session' = session
        /\ UNCHANGED <<up, squeue, crashes, accepted, caller, fault>>
        /\ ReplyWith(l, 200, None)
    BY DEF Logoff, At, caller
  <1>2. Registries(squeue', Service, ServiceQueueMax) /\ accepted' \in [Msg -> Nat \cup {None}]
    BY <1>1 DEF TypeInv, TypeOK
  <1>3. Registries(box', Client, ClientQueueMax)
    BY WithoutKeeps DEF Logoff, TypeInv, TypeOK
  <1>4. Sound'
    BY ONLY TypeInv, l \in Line, <1>1, ReplyKeeps
  <1> QED
    BY ONLY TypeInv, <1>1, <1>2, <1>3, <1>4, ServerKeeps

\* The invariant holds at the start.
LEMMA TypeInit == Init => TypeInv
  <1> SUFFICES ASSUME Init PROVE TypeInv
    OBVIOUS
  <1>1. DOMAIN Empty = {} /\ Empty \in [DOMAIN Empty -> Seq(Msg)]
    BY DEF Empty
  <1>2. Registries(squeue, Service, ServiceQueueMax) /\ Registries(box, Client, ClientQueueMax)
    BY <1>1 DEF Init, Registries
  <1>3. session \in [Caller -> Session]
    BY DEF Init, Session, NoSession
  <1>4. exch \in [Line -> Exchange]
    BY NoExchangeType DEF Init
  <1>5. /\ minted \in [Client -> 0 .. MaxRequests] /\ mishaps \in 0 .. MaxMishaps
        /\ crashes \in [Instance -> Nat] /\ accepted \in [Msg -> Nat \cup {None}]
        /\ got \in [Caller -> [Msg -> Nat]]
    BY SystemAssumption DEF Init
  <1>6. up \subseteq Instance /\ held \in [Caller -> SUBSET Msg] /\ ran \in [Msg -> Seq(Caller)]
        /\ faults \subseteq {"cut", "idle", "dropped"} \X Caller
    BY DEF Init
  <1>7. TypeOK
    BY <1>2, <1>3, <1>4, <1>5, <1>6 DEF TypeOK
  <1>8. \A a \in Caller : Authentic(a) /\ OfSession(a, exch[a], session[a])
    BY DEF Init, Authentic, OfSession, NoExchange, Line
  <1>9. \A l \in Line : Shaped(exch[l])
    BY NoExchangeType DEF Init
  <1> QED
    BY <1>7, <1>8, <1>9 DEF TypeInv, Identity

\* Every step keeps it.
LEMMA TypeStep == TypeInv /\ [Next]_vars => TypeInv'
  <1> SUFFICES ASSUME TypeInv, [Next]_vars PROVE TypeInv'
    OBVIOUS
  <1>1. ASSUME NEW a \in Caller, Use(a) PROVE TypeInv'
    BY <1>1, UseType
  <1>2. ASSUME NEW a \in Caller, Receive(a) PROVE TypeInv'
    BY <1>2, ReceiveType
  <1>3. ASSUME NEW a \in Caller, Break(a) PROVE TypeInv'
    BY <1>3, BreakType
  <1>4. ASSUME NEW a \in Caller, Unreachable(a) PROVE TypeInv'
    BY <1>4, UnreachableType
  <1>5. ASSUME NEW l \in Line, NEW i \in Instance, Serve(l, i) PROVE TypeInv'
    BY <1>5, DenyType, AuthType, PostRequestType, PollResponseType, BlockWaitType,
       PullRequestType, PostResponseType, LogoffType DEF Serve
  <1>6. ASSUME NEW i \in Instance, Crash(i) PROVE TypeInv'
    BY <1>6, CrashType
  <1>7. ASSUME NEW i \in Instance, Restart(i) PROVE TypeInv'
    BY <1>7, RestartType
  <1>8. ASSUME NEW i \in Instance, NEW c \in Client, Evict(c, i) PROVE TypeInv'
    BY <1>8, EvictType
  <1>9. CASE UNCHANGED vars
    BY <1>9 DEF vars, server, caller, fault, TypeInv, TypeOK, Identity, Authentic
  <1> QED
    BY <1>1, <1>2, <1>3, <1>4, <1>5, <1>6, <1>7, <1>8, <1>9 DEF Next

\* Registries hold well-formed queues within the settings, and every exchange
\* carries what its endpoint needs (services.py, clients.py, auth.py).
THEOREM SystemTypeCorrect == Spec => []TypeOK
  <1>1. TypeInv => TypeOK
    BY DEF TypeInv
  <1> QED
    BY <1>1, TypeInit, TypeStep, PTL DEF Spec

\* Every session and every exchange of a connection carries its own token, and
\* the address of an instance (auth.py, and the headers of the two sessions).
THEOREM SessionsAreGenuine == Spec => []Identity
  <1>1. TypeInv => Identity
    BY DEF TypeInv
  <1> QED
    BY <1>1, TypeInit, TypeStep, PTL DEF Spec

-------------------------------------------------------------------------------
(* A message keeps to the instance of its client's session *)

\* The requests that queues q hold are of clients of their instance.
RequestsAtHome(q) ==
  \A i \in Instance, s \in Service : \A m \in Queued(q[i], s) :
    m.service = s /\ session[m.client].pin = InternalIp(i)

ResponsesAtHome(b) ==
  \A i \in Instance, c \in Client : \A m \in Queued(b[i], c) :
    m.client = c /\ session[c].pin = InternalIp(i)

\* The requests that h gives to workers are theirs to answer.
HeldAtHome(h) ==
  \A w \in Worker : \A m \in h[w] : Attends(w, m) /\ session[w].pin \in Address

\* An exchange with a message goes to the instance of the message's client.
Bound(x) ==
  LET here == session[x.msg.client].pin = x.pin IN
  /\ x.op \in {"post", "call"} /\ x.status = None => here /\ x.path = x.msg.service
  /\ x.op = "pull" /\ x.status = 200 =>
       /\ here /\ x.path = x.msg.service
       /\ x.token = [role |-> "service", name |-> x.path]
  /\ x.op = "answer" /\ x.status = None => here /\ x.path = x.msg.client

LinesAtHome(e) == \A l \in Line : Bound(e[l])

Affine == RequestsAtHome(squeue) /\ ResponsesAtHome(box) /\ HeldAtHome(held) /\ LinesAtHome(exch)

\* The same of the state after a step, under the sessions of before.
Kept == RequestsAtHome(squeue') /\ ResponsesAtHome(box') /\ HeldAtHome(held') /\ LinesAtHome(exch')

\* What a queue operation leaves in the queues.
LEMMA QueuedCreate ==
  ASSUME NEW f, NEW n, NEW k, NEW m \in Queued(GetOrCreate(f, n), k)
  PROVE  m \in Queued(f, k)
  <1> DEFINE g == GetOrCreate(f, n)
  <1>1. DOMAIN g = DOMAIN f \cup {n}
        /\ \A j \in DOMAIN g : g[j] = IF j \in DOMAIN f THEN f[j] ELSE <<>>
    BY DEF GetOrCreate
  <1> HIDE DEF g
  <1>2. k \in DOMAIN g /\ \E p \in DOMAIN g[k] : m = g[k][p]
    BY DEF Queued, g
  <1>3. k \in DOMAIN f
    <2>1. DOMAIN <<>> = {}
      OBVIOUS
    <2> QED
      BY <1>1, <1>2, <2>1
  <1> QED
    BY <1>1, <1>2, <1>3 DEF Queued

\* A put adds the message to its queue only.
LEMMA QueuedPut ==
  ASSUME NEW f, f \in [DOMAIN f -> Seq(Msg)], NEW n, NEW new \in Msg, NEW k,
         NEW m \in Queued(Put(f, n, new), k)
  PROVE  m \in Queued(f, k) \/ (m = new /\ k = n)
  <1> DEFINE g == GetOrCreate(f, n)
             h == Put(f, n, new)
  <1>1. DOMAIN g = DOMAIN f \cup {n} /\ g \in [DOMAIN g -> Seq(Msg)]
    BY DEF GetOrCreate
  <1>2. h = [g EXCEPT ![n] = Append(@, new)]
    BY DEF Put
  <1>3. Queued(g, k) \subseteq Queued(f, k)
    BY QueuedCreate
  <1> HIDE DEF g, h
  <1>4. k \in DOMAIN h /\ \E p \in DOMAIN h[k] : m = h[k][p]
    BY DEF Queued, h
  <1>5. PICK p \in DOMAIN h[k] : m = h[k][p]
    BY <1>4
  <1>6. CASE k = n
    <2>1. g[n] \in Seq(Msg) /\ h[k] = Append(g[n], new)
      BY <1>1, <1>2, <1>6
    <2>2. m = new \/ (p \in DOMAIN g[n] /\ m = g[n][p])
      BY <1>5, <2>1
    <2> QED
      BY <1>1, <1>3, <1>6, <2>2 DEF Queued
  <1>7. CASE k # n
    <2>1. h[k] = g[k] /\ k \in DOMAIN g
      BY <1>1, <1>2, <1>4, <1>7
    <2> QED
      BY <1>3, <1>5, <2>1 DEF Queued
  <1> QED
    BY <1>6, <1>7

\* A get adds nothing.
LEMMA QueuedTake ==
  ASSUME NEW f, f \in [DOMAIN f -> Seq(Msg)], NEW n, Has(f, n), NEW k,
         NEW m \in Queued(Take(f, n), k)
  PROVE  m \in Queued(f, k)
  <1> DEFINE h == Take(f, n)
  <1>1. n \in DOMAIN f /\ f[n] \in Seq(Msg) /\ f[n] # <<>>
    BY DEF Has
  <1>2. h = [f EXCEPT ![n] = Tail(@)]
    BY DEF Take
  <1> HIDE DEF h
  <1>3. k \in DOMAIN h /\ \E p \in DOMAIN h[k] : m = h[k][p]
    BY DEF Queued, h
  <1>4. PICK p \in DOMAIN h[k] : m = h[k][p]
    BY <1>3
  <1>5. CASE k = n
    <2>1. h[k] = Tail(f[n])
      BY <1>1, <1>2, <1>5
    <2>2. p + 1 \in DOMAIN f[n] /\ m = f[n][p + 1]
      BY <1>1, <1>4, <2>1
    <2> QED
      BY <1>1, <1>5, <2>2 DEF Queued
  <1>6. CASE k # n
    BY <1>2, <1>3, <1>4, <1>6 DEF Queued
  <1> QED
    BY <1>5, <1>6

\* What a get returns was in the queue.
LEMMA QueuedHead ==
  ASSUME NEW f, f \in [DOMAIN f -> Seq(Msg)], NEW n, Has(f, n)
  PROVE  Head(f[n]) \in Queued(f, n)
  <1>1. n \in DOMAIN f /\ f[n] \in Seq(Msg) /\ f[n] # <<>>
    BY DEF Has
  <1>2. 1 \in DOMAIN f[n] /\ Head(f[n]) = f[n][1]
    BY <1>1
  <1> QED
    BY <1>1, <1>2 DEF Queued

\* Removing a queue adds nothing.
LEMMA QueuedWithout ==
  ASSUME NEW f, NEW n, NEW k, NEW m \in Queued(Without(f, n), k)
  PROVE  m \in Queued(f, k)
  BY DEF Queued, Without

\* An instance that starts has nothing queued.
LEMMA QueuedEmpty == \A k : Queued(Empty, k) = {}
  BY DEF Queued, Empty

\* Queues hold messages.
LEMMA QueuedType ==
  ASSUME NEW names, NEW max, NEW f, Registries(f, names, max), NEW i \in Instance, NEW n,
         NEW m \in Queued(f[i], n)
  PROVE  m \in Msg
  <1>1. f[i] \in [DOMAIN f[i] -> Seq(Msg)]
    BY DEF Registries
  <1>2. n \in DOMAIN f[i] /\ \E p \in DOMAIN f[i][n] : m = f[i][n][p]
    BY DEF Queued
  <1>3. f[i][n] \in Seq(Msg)
    BY <1>1, <1>2
  <1> QED
    BY <1>2, <1>3

\* The address of a session does not change once it has one.
LEMMA PinKept ==
  ASSUME TypeInv, [Next]_vars, NEW a \in Caller, session[a].pin \in Address
  PROVE  session'[a].pin = session[a].pin
  <1>1. ASSUME NEW b \in Caller, Receive(b) PROVE session'[a].pin = session[a].pin
    <2>1. CASE Got(exch[b], {"auth"})
      <3>1. session[b] = NoSession
        BY <2>1 DEF TypeInv, Identity, OfSession, Got
      <3>2. a # b
        BY <3>1, NoneIsNoAddress DEF NoSession
      <3> QED
        BY <1>1, <3>2 DEF Receive, TypeInv, TypeOK
    <2>2. CASE ~Got(exch[b], {"auth"})
      BY <1>1, <2>2 DEF Receive
    <2> QED
      BY <2>1, <2>2
  <1>2. ASSUME NEW b \in Caller, Close(b) PROVE session'[a].pin = session[a].pin
    <2>1. session' = [session EXCEPT ![b] = [session[b] EXCEPT !.open = FALSE]]
      BY <1>2 DEF Close
    <2>2. session[b] \in Session /\ session \in [Caller -> Session]
      BY DEF TypeInv, TypeOK
    <2>3. [session[b] EXCEPT !.open = FALSE].pin = session[b].pin
      BY <2>2 DEF Session
    <2> QED
      BY <2>1, <2>2, <2>3
  <1>3. ASSUME NEW b \in Caller, Use(b), ~Close(b) PROVE UNCHANGED session
    BY <1>3 DEF Use, Authenticate, Stray, SendRequest, PollOne, GetRequest, Drop, SendResponse, caller
  <1>4. ASSUME NEW b \in Caller, Break(b) \/ Unreachable(b) PROVE UNCHANGED session
    BY <1>4 DEF Break, Unreachable, caller
  <1>5. ASSUME NEW l \in Line, NEW i \in Instance, Serve(l, i) PROVE UNCHANGED session
    BY <1>5 DEF Serve, Deny, ServiceAuth, ClientAuth, PostRequest, PollResponse, BlockWait,
         PullRequest, PostResponse, Logoff, caller
  <1>6. ASSUME NEW i \in Instance, Crash(i) \/ Restart(i) \/ \E c \in Client : Evict(c, i)
        PROVE  UNCHANGED session
    BY <1>6 DEF Crash, Restart, Evict, caller
  <1>7. CASE UNCHANGED vars
    BY <1>7 DEF vars, caller
  <1> QED
    BY <1>1, <1>2, <1>3, <1>4, <1>5, <1>6, <1>7 DEF Next

\* As addresses do not change, what is at home after a step stays so.
LEMMA Carry ==
  ASSUME TypeInv, TypeInv', [Next]_vars, Kept
  PROVE  Affine'
  <1>1. \A a \in Caller : session[a].pin \in Address => session'[a].pin = session[a].pin
    BY PinKept
  <1>2. \A i \in Instance : InternalIp(i) \in Address
    BY DEF Address
  <1>3. \A m \in Msg : m.client \in Caller
    BY DEF Msg, Caller
  <1>4. RequestsAtHome(squeue)'
    <2>1. ASSUME NEW i \in Instance, NEW s \in Service, NEW m \in Queued(squeue'[i], s)
          PROVE  m.service = s /\ session'[m.client].pin = InternalIp(i)
      <3>1. m.service = s /\ session[m.client].pin = InternalIp(i)
        BY DEF Kept, RequestsAtHome
      <3>2. m \in Msg
        BY QueuedType DEF TypeInv, TypeOK
      <3> QED
        BY <1>1, <1>2, <1>3, <3>1, <3>2
    <2> QED
      BY <2>1 DEF RequestsAtHome
  <1>5. ResponsesAtHome(box)'
    <2>1. ASSUME NEW i \in Instance, NEW c \in Client, NEW m \in Queued(box'[i], c)
          PROVE  m.client = c /\ session'[c].pin = InternalIp(i)
      <3>1. m.client = c /\ session[c].pin = InternalIp(i)
        BY DEF Kept, ResponsesAtHome
      <3>2. c \in Caller
        BY DEF Caller
      <3> QED
        BY <1>1, <1>2, <3>1, <3>2
    <2> QED
      BY <2>1 DEF ResponsesAtHome
  <1>6. HeldAtHome(held)'
    <2>1. ASSUME NEW w \in Worker, NEW m \in held'[w]
          PROVE  Attends(w, m)' /\ session'[w].pin \in Address
      <3>1. Attends(w, m) /\ session[w].pin \in Address
        BY DEF Kept, HeldAtHome
      <3>2. w \in Caller /\ m \in Msg
        BY DEF Caller, TypeInv, TypeOK
      <3> QED
        BY <1>1, <1>3, <3>1, <3>2 DEF Attends
    <2> QED
      BY <2>1 DEF HeldAtHome, Address
  <1>7. LinesAtHome(exch)'
    <2>1. ASSUME NEW l \in Line PROVE Bound(exch[l])'
      <3> DEFINE x == exch'[l]
      <3>1. Bound(exch'[l])
        BY DEF Kept, LinesAtHome
      <3>2. Shaped(x)
        BY DEF TypeInv, Identity
      <3> HIDE DEF x
      <3>3. ASSUME x.msg \in Msg, session[x.msg.client].pin = x.pin, x.pin \in Address
            PROVE  session'[x.msg.client].pin = x.pin
        BY <1>1, <1>3, <3>3
      <3>4. Bound(x)
        BY <3>1 DEF x
      <3>5. /\ x.op \in {"post", "call"} /\ x.status = None =>
                 session'[x.msg.client].pin = x.pin /\ x.path = x.msg.service
            /\ x.op = "pull" /\ x.status = 200 =>
                 /\ session'[x.msg.client].pin = x.pin /\ x.path = x.msg.service
                 /\ x.token = [role |-> "service", name |-> x.path]
            /\ x.op = "answer" /\ x.status = None =>
                 session'[x.msg.client].pin = x.pin /\ x.path = x.msg.client
        BY <3>2, <3>3, <3>4 DEF Bound, Shaped
      <3> QED
        BY <3>5 DEF Bound, x
    <2> QED
      BY <2>1 DEF LinesAtHome, Line, Caller
  <1> QED
    BY <1>4, <1>5, <1>6, <1>7 DEF Affine

\* A service queue of one instance changes.
LEMMA RequestsUpdate ==
  ASSUME TypeInv, Affine, NEW i \in Instance, NEW g, squeue' = [squeue EXCEPT ![i] = g],
         \A s \in Service : \A m \in Queued(g, s) :
           m \in Queued(squeue[i], s)
             \/ (m.service = s /\ session[m.client].pin = InternalIp(i))
  PROVE  RequestsAtHome(squeue')
  <1>1. ASSUME NEW k \in Instance PROVE squeue'[k] = IF k = i THEN g ELSE squeue[k]
    BY DEF TypeInv, TypeOK, Registries
  <1> QED
    BY <1>1 DEF Affine, RequestsAtHome

\* A client queue of one instance changes.
LEMMA ResponsesUpdate ==
  ASSUME TypeInv, Affine, NEW i \in Instance, NEW g, box' = [box EXCEPT ![i] = g],
         \A c \in Client : \A m \in Queued(g, c) :
           m \in Queued(box[i], c) \/ (m.client = c /\ session[c].pin = InternalIp(i))
  PROVE  ResponsesAtHome(box')
  <1>1. ASSUME NEW k \in Instance PROVE box'[k] = IF k = i THEN g ELSE box[k]
    BY DEF TypeInv, TypeOK, Registries
  <1> QED
    BY <1>1 DEF Affine, ResponsesAtHome

\* The exchange of one line changes.
LEMMA LinesUpdate ==
  ASSUME TypeInv, Affine, NEW l \in Line, NEW y, Bound(y), exch' = [exch EXCEPT ![l] = y]
  PROVE  LinesAtHome(exch')
  BY DEF TypeInv, TypeOK, Affine, LinesAtHome

\* Exchanges that carry no message.
LEMMA NothingBound ==
  ASSUME NEW x
  PROVE  /\ x.op \notin {"post", "call", "pull", "answer"} => Bound(x)
         /\ x.status \notin {None, 200} => Bound(x)
         /\ x.op = "pull" /\ x.status = None => Bound(x)
         /\ x.op \in {"post", "call", "answer"} /\ x.status = 200 => Bound(x)
  BY StatusType DEF Bound

\* A reply that hands out no request.
LEMMA ReplyBound ==
  ASSUME TypeInv, Affine, NEW l \in Line, NEW status \in {200, 202, 204, 400, 403, 503}, NEW m,
         exch[l].op # "pull" \/ status # 200, ReplyWith(l, status, m)
  PROVE  LinesAtHome(exch')
  <1> DEFINE x == exch[l]
             y == [x EXCEPT !.status = status, !.msg = m]
             z == IF l \in Caller THEN y ELSE NoExchange
  <1>1. x \in Exchange
    BY DEF TypeInv, TypeOK
  <1>2. exch' = [exch EXCEPT ![l] = z]
    BY DEF ReplyWith, Reply
  <1>3. y.op = x.op /\ y.status = status
    BY <1>1 DEF Exchange
  <1>4. x.op # "pull" \/ status # 200
    OBVIOUS
  <1> HIDE DEF x, y
  <1>5. Bound(y)
    BY <1>3, <1>4, StatusType DEF Bound
  <1>6. Bound(NoExchange)
    BY DEF NoExchange, Bound
  <1>7. Bound(z)
    BY <1>5, <1>6
  <1> HIDE DEF z
  <1> QED
    BY ONLY TypeInv, Affine, l \in Line, <1>2, <1>7, LinesUpdate

\* A call with a message of its own client, or that its caller holds.
LEMMA AskBound ==
  ASSUME TypeInv, Affine, NEW a \in Caller, NEW op, NEW path, NEW m, Ask(a, op, path, m),
         op \in {"post", "call"} => session[m.client].pin = session[a].pin /\ path = m.service,
         op = "answer" => session[m.client].pin = session[a].pin /\ path = m.client
  PROVE  LinesAtHome(exch')
  <1> DEFINE y == [op |-> op, path |-> path, token |-> session[a].token,
                   pin |-> session[a].pin, msg |-> m, status |-> None]
  <1>1. exch' = [exch EXCEPT ![a] = y] /\ a \in Line
    BY DEF Ask, Line
  <1>2. Bound(y)
    BY StatusType DEF Bound
  <1> HIDE DEF y
  <1> QED
    BY ONLY TypeInv, Affine, <1>1, <1>2, LinesUpdate

\* The steps that a connection takes on its own.
LEMMA UseKept ==
  ASSUME TypeInv, Affine, NEW a \in Caller, Use(a)
  PROVE  Kept
  <1>1. squeue' = squeue /\ box' = box
    BY DEF Use, Authenticate, Stray, Close, SendRequest, PollOne, GetRequest, Drop,
       SendResponse, server
  <1>2. \A b \in Caller : held'[b] \subseteq held[b]
    BY DEF Use, Authenticate, Stray, Close, SendRequest, PollOne, GetRequest, Drop,
       SendResponse, caller, TypeInv, TypeOK
  <1>3. RequestsAtHome(squeue') /\ ResponsesAtHome(box') /\ HeldAtHome(held')
    BY <1>1, <1>2 DEF Affine, HeldAtHome, Caller
  <1>4. LinesAtHome(exch')
    <2>1. CASE Authenticate(a)
      BY <2>1, AskBound DEF Authenticate
    <2>2. CASE Stray(a)
      BY <2>2, AskBound DEF Stray
    <2>3. CASE Close(a)
      BY <2>3, AskBound DEF Close, Affine
    <2>4. CASE a \in Client /\ SendRequest(a)
      <3>1. PICK op \in {"post", "call"}, t \in Service :
              Ask(a, op, t, [client |-> a, id |-> minted[a] + 1, service |-> t])
        BY <2>4 DEF SendRequest
      <3> DEFINE m == [client |-> a, id |-> minted[a] + 1, service |-> t]
      <3>2. m.client = a /\ m.service = t /\ op # "answer" /\ Ask(a, op, t, m)
        BY <3>1
      <3> HIDE DEF m
      <3> QED
        BY ONLY TypeInv, Affine, a \in Caller, <3>2, AskBound
    <2>5. CASE a \in Client /\ PollOne(a)
      BY <2>5, AskBound DEF PollOne
    <2>6. CASE a \in Worker /\ GetRequest(a)
      BY <2>6, AskBound DEF GetRequest
    <2>7. CASE a \in Worker /\ Drop(a)
      BY <2>7 DEF Drop, Affine
    <2>8. ASSUME a \in Worker, NEW m \in held[a], SendResponse(a, m)
          PROVE  LinesAtHome(exch')
      <3>1. session[m.client].pin = session[a].pin /\ Ask(a, "answer", m.client, m)
        BY <2>8 DEF Affine, HeldAtHome, Attends, SendResponse
      <3> QED
        BY <3>1, AskBound
    <2> QED
      BY <2>1, <2>2, <2>3, <2>4, <2>5, <2>6, <2>7, <2>8 DEF Use
  <1> QED
    BY <1>3, <1>4 DEF Kept

\* A request that a service gets is its own to answer.
LEMMA ReceiveKept ==
  ASSUME TypeInv, Affine, NEW a \in Caller, Receive(a)
  PROVE  Kept
  <1> DEFINE x == exch[a]
  <1>1. squeue' = squeue /\ box' = box
    BY DEF Receive, server
  <1>2. LinesAtHome(exch')
    <2>1. a \in Line /\ Bound(NoExchange) /\ exch' = [exch EXCEPT ![a] = NoExchange]
      BY DEF Receive, Line, Bound, NoExchange
    <2> QED
      BY <2>1, LinesUpdate
  <1>3. ASSUME NEW w \in Worker, NEW m \in held'[w], m \notin held[w]
        PROVE  Attends(w, m) /\ session[w].pin \in Address
    <2>1. a = w /\ Got(x, {"pull"}) /\ m = x.msg
      BY <1>3 DEF Receive, TypeInv, TypeOK, Caller
    <2>2. Shaped(x) /\ OfSession(w, x, session[w]) /\ Bound(x) /\ Authentic(w)
      BY <2>1 DEF TypeInv, Identity, Affine, LinesAtHome, Line, Caller
    <2> HIDE DEF x
    <2>3. /\ x.pin \in Address /\ x.token = session[w].token /\ x.pin = session[w].pin
          /\ session[m.client].pin = x.pin /\ x.path = m.service
          /\ x.token = [role |-> "service", name |-> x.path]
      BY <2>1, <2>2 DEF Got, Shaped, OfSession, Bound
    <2>4. session[w].token = Own(w)
      BY <2>2, <2>3, NoneIsNoAddress DEF Authentic, NoSession
    <2>5. Own(w).name = Serves[w]
      BY SystemAssumption DEF Own, Name
    <2>6. x.token.name = x.path
      BY <2>3
    <2>7. Serves[w] = m.service
      BY <2>3, <2>4, <2>5, <2>6
    <2> QED
      BY <2>3, <2>7 DEF Attends
  <1>4. HeldAtHome(held')
    BY <1>3 DEF Affine, HeldAtHome
  <1> QED
    BY <1>1, <1>2, <1>4 DEF Kept, Affine

\* An exchange that has failed carries nothing.
LEMMA FailedBound ==
  ASSUME TypeInv, NEW l \in Line
  PROVE  Bound(Failed(exch[l])) /\ Bound(NoExchange)
  <1>1. exch[l] \in Exchange
    BY DEF TypeInv, TypeOK
  <1>2. Failed(exch[l]).status = 0
    BY <1>1 DEF Exchange, Failed
  <1> QED
    BY <1>2, StatusType, NothingBound DEF Bound, NoExchange

\* Failures move no message.
LEMMA FailureKept ==
  ASSUME TypeInv, Affine
  PROVE  /\ \A a \in Caller : Break(a) \/ Unreachable(a) => Kept
         /\ \A i \in Instance : Crash(i) \/ Restart(i) \/ (\E c \in Client : Evict(c, i)) => Kept
  <1>1. ASSUME NEW a \in Caller, Break(a) \/ Unreachable(a) PROVE Kept
    <2>1. squeue' = squeue /\ box' = box /\ held' = held
      BY <1>1 DEF Break, Unreachable, server, caller
    <2>2. a \in Line /\ exch = [l \in Line |-> exch[l]]
      BY DEF Line, TypeInv, TypeOK
    <2>3. \/ exch' = [exch EXCEPT ![a] = Failed(exch[a])]
          \/ \E g \in Ghost : exch' = [exch EXCEPT ![a] = Failed(exch[a]), ![g] = exch[a]]
      BY <1>1 DEF Break, Unreachable
    <2>4. ASSUME NEW l \in Line
          PROVE  exch'[l] \in {exch[l], exch[a], Failed(exch[a])}
      BY <2>2, <2>3
    <2>5. LinesAtHome(exch')
      <3>1. \A l \in Line : Bound(exch[l])
        BY DEF Affine, LinesAtHome
      <3>2. Bound(Failed(exch[a]))
        BY <2>2, FailedBound
      <3> QED
        BY <2>2, <2>4, <3>1, <3>2 DEF LinesAtHome
    <2> QED
      BY <2>1, <2>5 DEF Kept, Affine
  <1>2. ASSUME NEW i \in Instance, Crash(i) PROVE Kept
    <2>1. RequestsAtHome(squeue')
      <3>1. squeue' = [squeue EXCEPT ![i] = Empty]
        BY <1>2 DEF Crash
      <3> QED
        BY <3>1, RequestsUpdate, QueuedEmpty
    <2>2. ResponsesAtHome(box')
      <3>1. box' = [box EXCEPT ![i] = Empty]
        BY <1>2 DEF Crash
      <3> QED
        BY <3>1, ResponsesUpdate, QueuedEmpty
    <2>3. LinesAtHome(exch')
      BY <1>2, FailedBound DEF Crash, Affine, LinesAtHome
    <2> QED
      BY <1>2, <2>1, <2>2, <2>3 DEF Crash, caller, Kept, Affine
  <1>3. ASSUME NEW i \in Instance, Restart(i) PROVE Kept
    BY <1>3 DEF Restart, caller, Kept, Affine
  <1>4. ASSUME NEW i \in Instance, NEW c \in Client, Evict(c, i) PROVE Kept
    <2>1. ResponsesAtHome(box')
      <3>1. box' = [box EXCEPT ![i] = Without(box[i], c)]
        BY <1>4 DEF Evict
      <3> QED
        BY <3>1, ResponsesUpdate, QueuedWithout
    <2> QED
      BY <1>4, <2>1 DEF Evict, caller, Kept, Affine
  <1> QED
    BY <1>1, <1>2, <1>3, <1>4

\* A queue operation on one instance.
LEMMA CreateAtHome ==
  ASSUME TypeInv, Affine, NEW i \in Instance, NEW n
  PROVE  /\ squeue' = [squeue EXCEPT ![i] = GetOrCreate(@, n)] => RequestsAtHome(squeue')
         /\ box' = [box EXCEPT ![i] = GetOrCreate(@, n)] => ResponsesAtHome(box')
  BY QueuedCreate, RequestsUpdate, ResponsesUpdate

\* A get leaves messages where they belong.
LEMMA TakeAtHome ==
  ASSUME TypeInv, Affine, NEW i \in Instance, NEW n
  PROVE  /\ Has(squeue[i], n) /\ squeue' = [squeue EXCEPT ![i] = Take(@, n)] => RequestsAtHome(squeue')
         /\ Has(box[i], n) /\ box' = [box EXCEPT ![i] = Take(@, n)] => ResponsesAtHome(box')
  <1>1. /\ squeue[i] \in [DOMAIN squeue[i] -> Seq(Msg)]
        /\ box[i] \in [DOMAIN box[i] -> Seq(Msg)]
    BY DEF TypeInv, TypeOK, Registries
  <1>2. ASSUME Has(squeue[i], n), squeue' = [squeue EXCEPT ![i] = Take(squeue[i], n)]
        PROVE  RequestsAtHome(squeue')
    BY <1>1, <1>2, QueuedTake, RequestsUpdate
  <1>3. ASSUME Has(box[i], n), box' = [box EXCEPT ![i] = Take(box[i], n)]
        PROVE  ResponsesAtHome(box')
    BY <1>1, <1>3, QueuedTake, ResponsesUpdate
  <1> QED
    BY <1>2, <1>3

\* So does a put of a message that belongs to the instance.
LEMMA PutAtHome ==
  ASSUME TypeInv, Affine, NEW i \in Instance, NEW n, NEW m \in Msg,
         session[m.client].pin = InternalIp(i)
  PROVE  /\ n = m.service /\ squeue' = [squeue EXCEPT ![i] = Put(@, n, m)] => RequestsAtHome(squeue')
         /\ n = m.client /\ box' = [box EXCEPT ![i] = Put(@, n, m)] => ResponsesAtHome(box')
  <1>1. /\ squeue[i] \in [DOMAIN squeue[i] -> Seq(Msg)]
        /\ box[i] \in [DOMAIN box[i] -> Seq(Msg)]
    BY DEF TypeInv, TypeOK, Registries
  <1>2. ASSUME n = m.service, squeue' = [squeue EXCEPT ![i] = Put(squeue[i], n, m)]
        PROVE  RequestsAtHome(squeue')
    <2>1. \A s \in Service : \A k \in Queued(Put(squeue[i], n, m), s) :
            k \in Queued(squeue[i], s) \/ (k = m /\ s = n)
      BY <1>1, QueuedPut
    <2> QED
      BY <1>2, <2>1, RequestsUpdate
  <1>3. ASSUME n = m.client, box' = [box EXCEPT ![i] = Put(box[i], n, m)]
        PROVE  ResponsesAtHome(box')
    <2>1. \A c \in Client : \A k \in Queued(Put(box[i], n, m), c) :
            k \in Queued(box[i], c) \/ (k = m /\ c = n)
      BY <1>1, QueuedPut
    <2> QED
      BY <1>3, <2>1, ResponsesUpdate
  <1> QED
    BY <1>2, <1>3

\* What does not change stays at home.
LEMMA SameAtHome ==
  ASSUME Affine
  PROVE  /\ UNCHANGED squeue => RequestsAtHome(squeue')
         /\ UNCHANGED box => ResponsesAtHome(box')
         /\ UNCHANGED held => HeldAtHome(held')
         /\ UNCHANGED exch => LinesAtHome(exch')
  BY DEF Affine

\* An authentication, and a refused call.
LEMMA AuthKept ==
  ASSUME TypeInv, Affine, NEW l \in Line, NEW i \in Instance,
         ServiceAuth(l, i) \/ ClientAuth(l, i) \/ Deny(l, i)
  PROVE  Kept
  <1>1. CASE ServiceAuth(l, i) \/ ClientAuth(l, i)
    <2>1. PICK role \in {"client", "service"} : exch[l].op = "auth" /\ Issue(l, i, role)
      BY <1>1 DEF ServiceAuth, ClientAuth, At
    <2> DEFINE x == exch[l]
               y == [x EXCEPT !.status = 200, !.pin = InternalIp(i),
                              !.token = [role |-> role, name |-> x.path]]
               z == IF l \in Caller THEN y ELSE NoExchange
    <2>2. x \in Exchange /\ x.op = "auth"
      BY <2>1 DEF TypeInv, TypeOK
    <2>3. exch' = [exch EXCEPT ![l] = z]
      BY <2>1 DEF Issue, Reply
    <2>4. y.op = "auth"
      BY <2>2 DEF Exchange
    <2> HIDE DEF y
    <2>5. Bound(z)
      BY <2>4 DEF Bound, NoExchange
    <2> HIDE DEF z
    <2>6. LinesAtHome(exch')
      BY ONLY TypeInv, Affine, l \in Line, <2>3, <2>5, LinesUpdate
    <2>7. RequestsAtHome(squeue')
      BY <1>1, CreateAtHome, SameAtHome DEF ServiceAuth, ClientAuth, server
    <2> QED
      BY <1>1, <2>6, <2>7, SameAtHome DEF ServiceAuth, ClientAuth, server, caller, Kept
  <1>2. CASE Deny(l, i)
    <2>1. Verdict(exch[l]) \in {400, 403} /\ ReplyWith(l, Verdict(exch[l]), None)
      BY <1>2 DEF Deny, Verdict
    <2>2. LinesAtHome(exch')
      BY <2>1, ReplyBound
    <2> QED
      BY <1>2, <2>2, SameAtHome DEF Deny, server, caller, Kept
  <1> QED
    BY <1>1, <1>2

\* A request goes into a queue of the instance that its client is pinned to.
LEMMA PostRequestKept ==
  ASSUME TypeInv, Affine, NEW l \in Line, NEW i \in Instance, PostRequest(l, i)
  PROVE  Kept
  <1>1. PICK op \in {"post", "call"} : At(l, i, op)
    BY DEF PostRequest
  <1>2. op \in Op \ {"none", "auth"}
    BY DEF Op
  <1>3. exch[l].op = op /\ exch[l].status = None /\ exch[l].pin = InternalIp(i) /\ Shaped(exch[l])
    BY ONLY TypeInv, l \in Line, i \in Instance, <1>1, <1>2, Passed
  <1>4. Bound(exch[l]) /\ exch[l] \in Exchange
    BY DEF Affine, LinesAtHome, TypeInv, TypeOK
  <1>5. /\ exch[l].msg \in Msg /\ exch[l].path = exch[l].msg.service
        /\ session[exch[l].msg.client].pin = InternalIp(i)
    BY <1>3, <1>4 DEF Shaped, Bound
  <1>6. ResponsesAtHome(box')
    BY CreateAtHome DEF PostRequest
  <1>7. RequestsAtHome(squeue')
    <2>1. \/ squeue' = squeue
          \/ squeue' = [squeue EXCEPT ![i] = Put(@, exch[l].path, exch[l].msg)]
      BY DEF PostRequest
    <2> QED
      BY <1>5, <2>1, PutAtHome, SameAtHome
  <1>8. LinesAtHome(exch')
    <2>1. CASE ReplyWith(l, 202, None) \/ ReplyWith(l, 503, None)
      BY <2>1, ReplyBound
    <2>2. CASE exch' = [exch EXCEPT ![l].op = "wait", ![l].msg = None]
      <3> DEFINE y == [exch[l] EXCEPT !.op = "wait", !.msg = None]
      <3>1. exch' = [exch EXCEPT ![l] = y]
        BY <2>2 DEF TypeInv, TypeOK
      <3>2. y.op = "wait"
        BY <1>4 DEF Exchange
      <3> HIDE DEF y
      <3>3. Bound(y)
        BY <3>2 DEF Bound
      <3> QED
        BY ONLY TypeInv, Affine, l \in Line, <3>1, <3>3, LinesUpdate
    <2> QED
      BY <2>1, <2>2 DEF PostRequest
  <1> QED
    BY <1>6, <1>7, <1>8, SameAtHome DEF PostRequest, caller, Kept

\* Polls, waits and logoffs only take from queues.
LEMMA PollKept ==
  ASSUME TypeInv, Affine, NEW l \in Line, NEW i \in Instance,
         PollResponse(l, i) \/ BlockWait(l, i) \/ Logoff(l, i)
  PROVE  Kept
  <1>1. exch[l].op # "pull" /\ squeue' = squeue /\ held' = held
    BY DEF PollResponse, BlockWait, Logoff, At, caller
  <1>2. \/ ReplyWith(l, 200, None) \/ ReplyWith(l, 202, None) \/ ReplyWith(l, 204, None)
        \/ \E c \in {exch[l].path, exch[l].token.name} : ReplyWith(l, 200, Head(box[i][c]))
    BY DEF PollResponse, BlockWait, Logoff
  <1>3. LinesAtHome(exch')
    BY <1>1, <1>2, ReplyBound
  <1>4. ResponsesAtHome(box')
    <2>1. CASE Logoff(l, i)
      BY <2>1, ResponsesUpdate, QueuedWithout DEF Logoff
    <2>2. CASE PollResponse(l, i)
      BY <2>2, TakeAtHome, CreateAtHome DEF PollResponse
    <2>3. CASE BlockWait(l, i)
      BY <2>3, TakeAtHome, SameAtHome DEF BlockWait
    <2> QED
      BY <2>1, <2>2, <2>3
  <1> QED
    BY <1>1, <1>3, <1>4, SameAtHome DEF Kept

\* A pulled request goes out on the instance where it was queued.
LEMMA PullKept ==
  ASSUME TypeInv, Affine, NEW l \in Line, NEW i \in Instance, PullRequest(l, i)
  PROVE  Kept
  <1> DEFINE x == exch[l]
             n == x.path
             m == Head(squeue[i][n])
             y == [x EXCEPT !.status = 200, !.msg = m]
             z == IF l \in Caller THEN y ELSE NoExchange
  <1>1. "pull" \in Op \ {"none", "auth"} /\ At(l, i, "pull") /\ RoleOf("pull") = "service"
    BY DEF Op, PullRequest, RoleOf
  <1>2. /\ x.op = "pull" /\ x.pin = InternalIp(i) /\ x.token \in Token
        /\ x.token.role = RoleOf("pull") /\ x.token.name = n
        /\ Shaped(x)
    BY ONLY TypeInv, l \in Line, i \in Instance, <1>1, Passed
  <1>3. x.token = [role |-> "service", name |-> n]
    <2>1. x.token.role = "service" /\ x.token.name = n
      BY <1>1, <1>2
    <2> HIDE DEF x, n
    <2> QED
      BY <1>2, <2>1 DEF Token
  <1>4. box' = box /\ held' = held
    BY DEF PullRequest, caller
  <1>5. CASE Has(squeue[i], n)
    <2>1. squeue' = [squeue EXCEPT ![i] = Take(@, n)] /\ ReplyWith(l, 200, m)
      BY <1>5 DEF PullRequest
    <2>2. RequestsAtHome(squeue')
      BY <1>5, <2>1, TakeAtHome
    <2>3. m \in Queued(squeue[i], n)
      <3>1. squeue[i] \in [DOMAIN squeue[i] -> Seq(Msg)]
        BY DEF TypeInv, TypeOK, Registries
      <3> QED
        BY <1>5, <3>1, QueuedHead
    <2>4. n \in Service
      BY <1>2 DEF Shaped
    <2>5. m.service = n /\ session[m.client].pin = InternalIp(i)
      BY <2>3, <2>4 DEF Affine, RequestsAtHome
    <2>6. exch' = [exch EXCEPT ![l] = z]
      BY <2>1 DEF ReplyWith, Reply
    <2>7. x \in Exchange
      BY DEF TypeInv, TypeOK
    <2>8. y.op = "pull" /\ y.status = 200 /\ y.msg = m /\ y.pin = InternalIp(i)
          /\ y.path = n /\ y.token = [role |-> "service", name |-> n]
      <3> HIDE DEF m, n, x
      <3>1. y.op = x.op /\ y.status = 200 /\ y.msg = m /\ y.pin = x.pin /\ y.path = x.path
            /\ y.token = x.token
        BY <2>7 DEF Exchange
      <3>2. n = x.path
        BY DEF n
      <3> QED
        BY <1>2, <1>3, <3>1, <3>2
    <2> HIDE DEF y, m, n
    <2>9. Bound(y)
      BY <2>5, <2>8, StatusType DEF Bound
    <2>10. Bound(z)
      BY <2>9 DEF Bound, NoExchange
    <2> HIDE DEF z
    <2>11. LinesAtHome(exch')
      BY ONLY TypeInv, Affine, l \in Line, <2>6, <2>10, LinesUpdate
    <2> QED
      BY <1>4, <2>2, <2>11, SameAtHome DEF Kept
  <1>6. CASE ~Has(squeue[i], n)
    <2>1. squeue' = [squeue EXCEPT ![i] = GetOrCreate(@, n)] /\ ReplyWith(l, 204, None)
      BY <1>6 DEF PullRequest
    <2>2. RequestsAtHome(squeue')
      BY <2>1, CreateAtHome
    <2>3. LinesAtHome(exch')
      BY <2>1, ReplyBound
    <2> QED
      BY <1>4, <2>2, <2>3, SameAtHome DEF Kept
  <1> QED
    BY <1>5, <1>6

\* A response goes into the queue of its client, on the instance of both.
LEMMA PostResponseKept ==
  ASSUME TypeInv, Affine, NEW l \in Line, NEW i \in Instance, PostResponse(l, i)
  PROVE  Kept
  <1>1. "answer" \in Op \ {"none", "auth"} /\ At(l, i, "answer")
    BY DEF Op, PostResponse
  <1>2. exch[l].op = "answer" /\ exch[l].status = None /\ exch[l].pin = InternalIp(i)
        /\ Shaped(exch[l])
    BY ONLY TypeInv, l \in Line, i \in Instance, <1>1, Passed
  <1>3. Bound(exch[l])
    BY DEF Affine, LinesAtHome
  <1>4. /\ exch[l].msg \in Msg /\ exch[l].path = exch[l].msg.client
        /\ session[exch[l].msg.client].pin = InternalIp(i)
    BY <1>2, <1>3 DEF Shaped, Bound
  <1>5. ResponsesAtHome(box')
    BY <1>4, PutAtHome, SameAtHome DEF PostResponse
  <1>6. LinesAtHome(exch')
    BY <1>2, ReplyBound DEF PostResponse
  <1> QED
    BY <1>5, <1>6, SameAtHome DEF PostResponse, caller, Kept

\* Nothing is anywhere at the start.
LEMMA AffineInit == Init => Affine
  <1> SUFFICES ASSUME Init PROVE Affine
    OBVIOUS
  <1>1. RequestsAtHome(squeue) /\ ResponsesAtHome(box)
    BY QueuedEmpty DEF Init, RequestsAtHome, ResponsesAtHome
  <1>2. HeldAtHome(held) /\ LinesAtHome(exch)
    BY DEF Init, HeldAtHome, LinesAtHome, Bound, NoExchange, Caller
  <1> QED
    BY <1>1, <1>2 DEF Affine

\* Every step leaves messages at home.
LEMMA AffineStep == TypeInv /\ Affine /\ [Next]_vars => Affine'
  <1> SUFFICES ASSUME TypeInv, Affine, [Next]_vars PROVE Affine'
    OBVIOUS
  <1>1. ASSUME NEW a \in Caller, Use(a) PROVE Kept
    BY <1>1, UseKept
  <1>2. ASSUME NEW a \in Caller, Receive(a) PROVE Kept
    BY <1>2, ReceiveKept
  <1>3. ASSUME NEW a \in Caller, Break(a) \/ Unreachable(a) PROVE Kept
    BY <1>3, FailureKept
  <1>4. ASSUME NEW l \in Line, NEW i \in Instance, Serve(l, i) PROVE Kept
    BY <1>4, AuthKept, PostRequestKept, PollKept, PullKept, PostResponseKept DEF Serve
  <1>5. ASSUME NEW i \in Instance, Crash(i) PROVE Kept
    BY <1>5, FailureKept
  <1>6. ASSUME NEW i \in Instance, Restart(i) PROVE Kept
    BY <1>6, FailureKept
  <1>7. ASSUME NEW i \in Instance, NEW c \in Client, Evict(c, i) PROVE Kept
    BY <1>7, FailureKept
  <1>8. ASSUME UNCHANGED vars PROVE Kept
    BY <1>8, SameAtHome DEF vars, server, caller, Kept
  <1>9. Kept
    BY <1>1, <1>2, <1>3, <1>4, <1>5, <1>6, <1>7, <1>8 DEF Next
  <1>10. TypeInv'
    BY TypeStep
  <1> QED
    BY <1>9, <1>10, Carry

\* With instances of different addresses, the requests and responses of a client
\* are only ever on the instance that its session is pinned to, and with services
\* pinned to the same one (auth.py, and the headers of the two sessions).
THEOREM SessionsStick == Spec => []Affinity
  <1>1. Affine => Affinity
    BY DEF Affine, RequestsAtHome, ResponsesAtHome, HeldAtHome, Affinity
  <1>2. Init => TypeInv /\ Affine
    BY TypeInit, AffineInit
  <1>3. TypeInv /\ Affine /\ [Next]_vars => (TypeInv /\ Affine)'
    BY TypeStep, AffineStep
  <1> QED
    BY <1>1, <1>2, <1>3, PTL DEF Spec

=============================================================================
