------------------------- MODULE PypeSystemRefinement -------------------------
(***************************************************************************)
(* A deployment implements Rendezvous, for every number of connections,      *)
(* services, instances, requests and mishaps.                                *)
(***************************************************************************)
EXTENDS PypeSystemProofs

-------------------------------------------------------------------------------
(* A request is in one place until it is handed out *)

\* Exchange x carries request m on its way to a service.
Carries(x, m) ==
  /\ x.msg = m
  /\ \/ x.op \in {"post", "call"} /\ x.status = None
     \/ x.op = "pull" /\ x.status = 200

\* No queue of q has a message twice.
Distinct(q) ==
  \A i \in Instance : \A s \in DOMAIN q[i] : \A j, k \in DOMAIN q[i][s] :
    q[i][s][j] = q[i][s][k] => j = k

Waits(q, m) == \E i \in Instance, s \in Service : m \in Queued(q[i], s)

\* A request is in one place until it is handed out, and never again after that;
\* one that was not sent yet is nowhere.
OnePlace(q, e, r, n) ==
  /\ Distinct(q)
  /\ \A l \in Line, m \in Msg : Waits(q, m) => ~Carries(e[l], m)
  /\ \A l, k \in Line, m \in Msg : Carries(e[l], m) /\ Carries(e[k], m) => l = k
  /\ \A m \in Msg : Waits(q, m) \/ (\E l \in Line : Carries(e[l], m)) => r[m] = <<>>
  /\ \A m \in Msg : Waits(q, m) \/ (\E l \in Line : Carries(e[l], m)) \/ r[m] # <<>>
                      => m.id <= n[m.client]

RequestOnce == OnePlace(squeue, exch, ran, minted)

\* No queue and no line has more than before.
LEMMA FewerPlaces ==
  ASSUME TypeInv, TypeInv', RequestOnce, Distinct(squeue'),
         \A m \in Msg : Waits(squeue', m) => Waits(squeue, m),
         \A l \in Line, m \in Msg : Carries(exch'[l], m) => Carries(exch[l], m),
         ran' = ran, \A c \in Client : minted'[c] >= minted[c]
  PROVE  RequestOnce'
  <1>1. \A m \in Msg : m.client \in Client /\ m.id \in Nat
    BY SystemAssumption DEF Msg
  <1>2. \A c \in Client : minted[c] \in Nat /\ minted'[c] \in Nat
    BY SystemAssumption DEF TypeInv, TypeOK
  <1>3. \A m \in Msg : m.id <= minted[m.client] => m.id <= minted'[m.client]
    BY <1>1, <1>2
  <1>4. OnePlace(squeue, exch, ran, minted)
    BY DEF RequestOnce
  <1>5. OnePlace(squeue', exch', ran', minted')
    BY <1>3, <1>4 DEF OnePlace
  <1> QED
    BY <1>5 DEF RequestOnce, OnePlace, Distinct, Waits, Carries

\* A line that gets an exchange without a request.
LEMMA FewerOnLine ==
  ASSUME TypeInv, NEW l \in Line, NEW y, \A m \in Msg : ~Carries(y, m),
         exch' = [exch EXCEPT ![l] = y]
  PROVE  \A k \in Line, m \in Msg : Carries(exch'[k], m) => Carries(exch[k], m)
  BY DEF TypeInv, TypeOK

\* Exchanges that carry no request to a service.
LEMMA CarriesNothing ==
  ASSUME NEW x
  PROVE  /\ x.op \notin {"post", "call", "pull"} => \A m \in Msg : ~Carries(x, m)
         /\ x.status \notin {None, 200} => \A m \in Msg : ~Carries(x, m)
         /\ x.op = "pull" /\ x.status # 200 => \A m \in Msg : ~Carries(x, m)
         /\ x.op # "pull" /\ x.status # None => \A m \in Msg : ~Carries(x, m)
  BY DEF Carries

\* A reply that hands out no request.
LEMMA ReplyCarries ==
  ASSUME TypeInv, NEW l \in Line, NEW status \in {0, 200, 202, 204, 400, 403, 503}, NEW n,
         exch[l].op # "pull" \/ status # 200, ReplyWith(l, status, n)
  PROVE  \A k \in Line, m \in Msg : Carries(exch'[k], m) => Carries(exch[k], m)
  <1> DEFINE x == exch[l]
             y == [x EXCEPT !.status = status, !.msg = n]
             z == IF l \in Caller THEN y ELSE NoExchange
  <1>1. x \in Exchange
    BY DEF TypeInv, TypeOK
  <1>2. exch' = [exch EXCEPT ![l] = z]
    BY DEF ReplyWith, Reply
  <1>3. y.op = x.op /\ y.status = status
    BY <1>1 DEF Exchange
  <1>4. x.op # "pull" \/ status # 200
    OBVIOUS
  <1> HIDE DEF x, y
  <1>5. \A m \in Msg : ~Carries(y, m)
    BY <1>3, <1>4, StatusType DEF Carries
  <1>6. \A m \in Msg : ~Carries(z, m)
    BY <1>5 DEF Carries, NoExchange
  <1> HIDE DEF z
  <1> QED
    BY ONLY TypeInv, l \in Line, <1>2, <1>6, FewerOnLine

\* An exchange that failed, or is none.
LEMMA FailedCarries ==
  ASSUME TypeInv, NEW l \in Line, NEW m \in Msg
  PROVE  ~Carries(Failed(exch[l]), m) /\ ~Carries(NoExchange, m)
  <1>1. exch[l] \in Exchange
    BY DEF TypeInv, TypeOK
  <1>2. Failed(exch[l]).status = 0
    BY <1>1 DEF Exchange, Failed
  <1> QED
    BY <1>2, StatusType DEF Carries, NoExchange

\* Queue operations leave queues without repetitions.
LEMMA DistinctUpdate ==
  ASSUME TypeInv, Distinct(squeue), NEW i \in Instance, NEW g, squeue' = [squeue EXCEPT ![i] = g],
         \A s \in DOMAIN g : \A j, k \in DOMAIN g[s] : g[s][j] = g[s][k] => j = k
  PROVE  Distinct(squeue')
  <1>1. \A k \in Instance : squeue'[k] = IF k = i THEN g ELSE squeue[k]
    BY DEF TypeInv, TypeOK, Registries
  <1> QED
    BY <1>1 DEF Distinct

\* Where a message of the new queues comes from.
LEMMA WaitsUpdate ==
  ASSUME TypeInv, NEW i \in Instance, NEW g, squeue' = [squeue EXCEPT ![i] = g], NEW m \in Msg,
         Waits(squeue', m)
  PROVE  Waits(squeue, m) \/ \E s \in Service : m \in Queued(g, s)
  <1>1. \A k \in Instance : squeue'[k] = IF k = i THEN g ELSE squeue[k]
    BY DEF TypeInv, TypeOK, Registries
  <1> QED
    BY <1>1 DEF Waits

\* get_or_create repeats nothing.
LEMMA CreateOnce ==
  ASSUME TypeInv, Distinct(squeue), NEW i \in Instance, NEW n,
         squeue' = [squeue EXCEPT ![i] = GetOrCreate(@, n)]
  PROVE  Distinct(squeue') /\ \A m \in Msg : Waits(squeue', m) => Waits(squeue, m)
  <1> DEFINE g == GetOrCreate(squeue[i], n)
  <1>1. \A s \in DOMAIN g : g[s] = <<>> \/ (s \in DOMAIN squeue[i] /\ g[s] = squeue[i][s])
    BY DEF GetOrCreate
  <1>2. \A s \in Service : \A m \in Queued(g, s) : m \in Queued(squeue[i], s)
    BY QueuedCreate
  <1>3. squeue' = [squeue EXCEPT ![i] = g]
    OBVIOUS
  <1> HIDE DEF g
  <1>4. \A s \in DOMAIN g : \A j, k \in DOMAIN g[s] : g[s][j] = g[s][k] => j = k
    BY <1>1 DEF Distinct
  <1> QED
    BY <1>2, <1>3, <1>4, DistinctUpdate, WaitsUpdate DEF Waits

\* Nor does a crash.
LEMMA EmptyOnce ==
  ASSUME TypeInv, Distinct(squeue), NEW i \in Instance, squeue' = [squeue EXCEPT ![i] = Empty]
  PROVE  Distinct(squeue') /\ \A m \in Msg : Waits(squeue', m) => Waits(squeue, m)
  <1>1. DOMAIN Empty = {}
    BY DEF Empty
  <1> QED
    BY <1>1, QueuedEmpty, DistinctUpdate, WaitsUpdate

\* A request that is taken waits nowhere any more: it was once in its queue,
\* and in no queue of another service or instance.
LEMMA TakeOnce ==
  ASSUME TypeInv, Affine, RequestOnce, NEW i \in Instance, NEW n \in Service, Has(squeue[i], n),
         squeue' = [squeue EXCEPT ![i] = Take(@, n)]
  PROVE  /\ Distinct(squeue') /\ \A m \in Msg : Waits(squeue', m) => Waits(squeue, m)
         /\ Waits(squeue, Head(squeue[i][n])) /\ ~Waits(squeue', Head(squeue[i][n]))
  <1> DEFINE f == squeue[i]
             g == Take(f, n)
             h == Head(f[n])
  <1>1. f \in [DOMAIN f -> Seq(Msg)] /\ n \in DOMAIN f /\ f[n] \in Seq(Msg) /\ f[n] # <<>>
    BY DEF TypeInv, TypeOK, Registries, Has
  <1>2. squeue' = [squeue EXCEPT ![i] = g]
    OBVIOUS
  <1>3. g = [f EXCEPT ![n] = Tail(@)]
    BY DEF Take
  <1>4. \A s \in Service : \A m \in Queued(g, s) : m \in Queued(f, s)
    BY <1>1, QueuedTake
  <1>5. h \in Queued(f, n)
    BY <1>1, QueuedHead
  <1>6. Distinct(squeue)
    BY DEF RequestOnce, OnePlace
  <1>7. \A s \in DOMAIN f : \A j, k \in DOMAIN f[s] : f[s][j] = f[s][k] => j = k
    BY <1>6 DEF Distinct
  <1>8. \A k \in Instance : squeue'[k] = IF k = i THEN g ELSE squeue[k]
    BY <1>2 DEF TypeInv, TypeOK, Registries
  <1>9. h.service = n /\ session[h.client].pin = InternalIp(i)
    BY <1>5 DEF Affine, RequestsAtHome
  <1> HIDE DEF f, g, h
  <1>10. DOMAIN g = DOMAIN f /\ g[n] = Tail(f[n]) /\ \A s \in DOMAIN f \ {n} : g[s] = f[s]
    BY <1>1, <1>3
  <1>11. \A j \in DOMAIN g[n] : j + 1 \in DOMAIN f[n] /\ g[n][j] = f[n][j + 1] /\ j \in Nat
    <2>1. f[n] \in Seq(Msg) /\ f[n] # <<>> /\ g[n] = Tail(f[n])
      BY <1>1, <1>10
    <2>2. \A q \in Seq(Msg) : q # <<>> =>
            \A j \in DOMAIN Tail(q) : j + 1 \in DOMAIN q /\ Tail(q)[j] = q[j + 1] /\ j \in Nat
      OBVIOUS
    <2> QED
      BY <2>1, <2>2
  <1>12. \A j, k \in DOMAIN g[n] : g[n][j] = g[n][k] => j = k
    <2> SUFFICES ASSUME NEW j \in DOMAIN g[n], NEW k \in DOMAIN g[n], g[n][j] = g[n][k]
                 PROVE  j = k
      OBVIOUS
    <2>1. j + 1 \in DOMAIN f[n] /\ k + 1 \in DOMAIN f[n] /\ f[n][j + 1] = f[n][k + 1]
      BY <1>11
    <2>2. j + 1 = k + 1
      BY <1>1, <1>7, <2>1
    <2> QED
      BY <1>11, <2>2
  <1>13. Distinct(squeue')
    <2>1. \A s \in DOMAIN g : \A j, k \in DOMAIN g[s] : g[s][j] = g[s][k] => j = k
      BY <1>7, <1>10, <1>12
    <2> QED
      BY ONLY TypeInv, i \in Instance, <1>2, <1>6, <2>1, DistinctUpdate
  <1>14. h = f[n][1] /\ 1 \in DOMAIN f[n]
    BY <1>1 DEF h
  <1>15. h \notin Queued(g, n)
    <2> SUFFICES ASSUME h \in Queued(g, n) PROVE FALSE
      OBVIOUS
    <2>1. PICK j \in DOMAIN g[n] : h = g[n][j]
      BY DEF Queued
    <2>2. j + 1 \in DOMAIN f[n] /\ f[n][j + 1] = f[n][1] /\ j \in Nat
      BY <1>11, <1>14, <2>1
    <2>3. j + 1 = 1
      BY <1>1, <1>7, <1>14, <2>2
    <2>4. j \in 1 .. Len(g[n])
      BY <1>1, <1>10
    <2> QED
      BY <2>2, <2>3, <2>4
  <1>16. ~Waits(squeue', h)
    <2> SUFFICES ASSUME NEW k \in Instance, NEW s \in Service, h \in Queued(squeue'[k], s)
                 PROVE  FALSE
      BY DEF Waits
    <2>1. h \in Queued(squeue[k], s)
      BY <1>4, <1>8 DEF f
    <2>2. s = n /\ InternalIp(k) = InternalIp(i)
      BY <1>9, <2>1 DEF Affine, RequestsAtHome
    <2>3. k = i
      BY <2>2, AddressAssumption
    <2> QED
      BY <1>8, <1>15, <2>2, <2>3
  <1>17. \A m \in Msg : Waits(squeue', m) => Waits(squeue, m)
    BY <1>4, <1>8 DEF Waits, f
  <1>18. Waits(squeue, h)
    BY <1>5 DEF Waits, f
  <1> QED
    BY <1>13, <1>16, <1>17, <1>18 DEF h, f

\* The elements of an appended sequence.
LEMMA InAppend ==
  ASSUME NEW q \in Seq(Msg), NEW m \in Msg, NEW j \in DOMAIN Append(q, m)
  PROVE  \/ j \in DOMAIN q /\ Append(q, m)[j] = q[j]
         \/ j = Len(q) + 1 /\ Append(q, m)[j] = m
  OBVIOUS

\* A put of a request that waits nowhere.
LEMMA PutOnce ==
  ASSUME TypeInv, Distinct(squeue), NEW i \in Instance, NEW n \in Service, NEW m \in Msg,
         ~Waits(squeue, m), squeue' = [squeue EXCEPT ![i] = Put(@, n, m)]
  PROVE  /\ Distinct(squeue')
         /\ \A x \in Msg : Waits(squeue', x) => Waits(squeue, x) \/ x = m
  <1> DEFINE f == squeue[i]
             g == GetOrCreate(f, n)
             h == Put(f, n, m)
  <1>1. f \in [DOMAIN f -> Seq(Msg)]
    BY DEF TypeInv, TypeOK, Registries
  <1>2. \A s \in Service : \A x \in Queued(h, s) : x \in Queued(f, s) \/ x = m
    BY <1>1, QueuedPut
  <1>3. squeue' = [squeue EXCEPT ![i] = h]
    OBVIOUS
  <1>4. DOMAIN g = DOMAIN f \cup {n} /\ g \in [DOMAIN g -> Seq(Msg)]
        /\ \A s \in DOMAIN g : g[s] = IF s \in DOMAIN f THEN f[s] ELSE <<>>
    BY <1>1 DEF GetOrCreate
  <1>5. h = [g EXCEPT ![n] = Append(@, m)]
    BY DEF Put
  <1>6. \A s \in DOMAIN f : \A j, k \in DOMAIN f[s] : f[s][j] = f[s][k] => j = k
    BY DEF Distinct
  <1>7. m \notin Queued(f, n)
    BY DEF Waits
  <1> HIDE DEF f, g, h
  <1>8. \A j, k \in DOMAIN g[n] : g[n][j] = g[n][k] => j = k
    BY <1>4, <1>6
  <1>9. \A j \in DOMAIN g[n] : g[n][j] # m
    BY <1>4, <1>7 DEF Queued
  <1>10. h[n] = Append(g[n], m) /\ DOMAIN h = DOMAIN g /\ \A s \in DOMAIN g \ {n} : h[s] = g[s]
    BY <1>4, <1>5
  <1>11. \A j, k \in DOMAIN h[n] : h[n][j] = h[n][k] => j = k
    <2>1. g[n] \in Seq(Msg)
      BY <1>4
    <2>2. \A j \in DOMAIN h[n] : \/ j \in DOMAIN g[n] /\ h[n][j] = g[n][j]
                                 \/ j = Len(g[n]) + 1 /\ h[n][j] = m
      <3> DEFINE q == g[n]
      <3>1. q \in Seq(Msg) /\ h[n] = Append(q, m)
        BY <1>10, <2>1
      <3> HIDE DEF q
      <3>2. \A j \in DOMAIN h[n] : \/ j \in DOMAIN q /\ h[n][j] = q[j]
                                   \/ j = Len(q) + 1 /\ h[n][j] = m
        BY <3>1, InAppend
      <3> QED
        BY <3>2 DEF q
    <2> QED
      BY <1>8, <1>9, <2>2
  <1>12. \A s \in DOMAIN h : \A j, k \in DOMAIN h[s] : h[s][j] = h[s][k] => j = k
    <2> SUFFICES ASSUME NEW s \in DOMAIN h
                 PROVE  \A j, k \in DOMAIN h[s] : h[s][j] = h[s][k] => j = k
      OBVIOUS
    <2>1. CASE s = n
      BY <1>11, <2>1
    <2>2. CASE s # n
      BY <1>4, <1>6, <1>10, <2>2
    <2> QED
      BY <2>1, <2>2
  <1>13. Distinct(squeue')
    BY <1>3, <1>12, DistinctUpdate
  <1>14. \A x \in Msg : Waits(squeue', x) => Waits(squeue, x) \/ x = m
    BY <1>2, <1>3, WaitsUpdate DEF Waits, f
  <1> QED
    BY <1>13, <1>14

\* Queues that do not change.
LEMMA SameOnce ==
  ASSUME RequestOnce
  PROVE  /\ Distinct(squeue)
         /\ squeue' = squeue =>
              Distinct(squeue') /\ \A m \in Msg : Waits(squeue', m) => Waits(squeue, m)
  BY DEF RequestOnce, OnePlace

\* A new request, with an id that was never used.
LEMMA SendRequestOnce ==
  ASSUME TypeInv, TypeInv', RequestOnce, NEW a \in Client, SendRequest(a)
  PROVE  RequestOnce'
  <1>1. PICK op \in {"post", "call"}, t \in Service :
          Ask(a, op, t, [client |-> a, id |-> minted[a] + 1, service |-> t])
    BY DEF SendRequest
  <1> DEFINE m == [client |-> a, id |-> minted[a] + 1, service |-> t]
             y == [op |-> op, path |-> t, token |-> session[a].token,
                   pin |-> session[a].pin, msg |-> m, status |-> None]
  <1>2. exch[a] = NoExchange /\ exch' = [exch EXCEPT ![a] = y] /\ a \in Line
    BY <1>1 DEF Ask, Line, Caller
  <1>3. minted' = [minted EXCEPT ![a] = @ + 1] /\ squeue' = squeue /\ ran' = ran
    BY DEF SendRequest, server
  <1>4. \A x \in Msg : Carries(y, x) => x = m
    BY DEF Carries
  <1>5. \A x \in Msg : ~Carries(NoExchange, x)
    BY DEF Carries, NoExchange
  <1>6. m.client = a /\ m.id = minted[a] + 1
    OBVIOUS
  <1> HIDE DEF m, y
  <1>7. \A l \in Line : exch'[l] = IF l = a THEN y ELSE exch[l]
    BY <1>2 DEF TypeInv, TypeOK
  <1>8. \A x \in Msg : x.client \in Client /\ x.id \in Nat
    BY SystemAssumption DEF Msg
  <1>9. \A c \in Client : minted[c] \in Nat /\ minted'[c] = IF c = a THEN minted[c] + 1 ELSE minted[c]
    BY <1>3, SystemAssumption DEF TypeInv, TypeOK
  <1>10. OnePlace(squeue, exch, ran, minted)
    BY DEF RequestOnce
  <1>11. ASSUME NEW x \in Msg, x = m
         PROVE  ~Waits(squeue, x) /\ ran[x] = <<>> /\ \A l \in Line : ~Carries(exch[l], x)
    <2>1. ~(x.id <= minted[x.client])
      BY <1>6, <1>9, <1>11
    <2> QED
      BY <1>10, <2>1 DEF OnePlace
  <1>12. \A l \in Line, x \in Msg : Carries(exch'[l], x) =>
           (l = a /\ x = m) \/ (l # a /\ x # m /\ Carries(exch[l], x))
    BY <1>4, <1>7, <1>11
  <1>13. \A x \in Msg : x.id <= minted[x.client] => x.id <= minted'[x.client]
    BY <1>8, <1>9
  <1>14. \A x \in Msg : x = m => x.id <= minted'[x.client]
    BY <1>6, <1>8, <1>9
  <1>15. Distinct(squeue')
    BY <1>3, <1>10 DEF OnePlace
  <1>16. \A l \in Line, x \in Msg : Waits(squeue', x) => ~Carries(exch'[l], x)
    BY <1>3, <1>10, <1>11, <1>12 DEF OnePlace
  <1>17. \A l, k \in Line, x \in Msg : Carries(exch'[l], x) /\ Carries(exch'[k], x) => l = k
    BY <1>10, <1>12 DEF OnePlace
  <1>18. \A x \in Msg : Waits(squeue', x) \/ (\E l \in Line : Carries(exch'[l], x)) => ran'[x] = <<>>
    BY <1>3, <1>10, <1>11, <1>12 DEF OnePlace
  <1>19. \A x \in Msg : Waits(squeue', x) \/ (\E l \in Line : Carries(exch'[l], x)) \/ ran'[x] # <<>>
           => x.id <= minted'[x.client]
    BY <1>3, <1>10, <1>12, <1>13, <1>14 DEF OnePlace
  <1>20. OnePlace(squeue', exch', ran', minted')
    BY <1>15, <1>16, <1>17, <1>18, <1>19 DEF OnePlace
  <1> QED
    BY <1>20 DEF RequestOnce, OnePlace, Distinct, Waits, Carries

\* Calls other than those that send a request.
LEMMA AskCarries ==
  ASSUME TypeInv, NEW a \in Caller, NEW op, NEW path, NEW n, op \notin {"post", "call"},
         Ask(a, op, path, n)
  PROVE  \A k \in Line, m \in Msg : Carries(exch'[k], m) => Carries(exch[k], m)
  <1> DEFINE y == [op |-> op, path |-> path, token |-> session[a].token,
                   pin |-> session[a].pin, msg |-> n, status |-> None]
  <1>1. exch' = [exch EXCEPT ![a] = y] /\ a \in Line
    BY DEF Ask, Line
  <1>2. \A m \in Msg : ~Carries(y, m)
    BY StatusType DEF Carries
  <1> HIDE DEF y
  <1> QED
    BY ONLY TypeInv, <1>1, <1>2, FewerOnLine

\* The steps that a connection takes on its own.
LEMMA UseOnce ==
  ASSUME TypeInv, TypeInv', RequestOnce, NEW a \in Caller, Use(a)
  PROVE  RequestOnce'
  <1>1. CASE a \in Client /\ SendRequest(a)
    BY <1>1, SendRequestOnce
  <1>2. CASE ~(a \in Client /\ SendRequest(a))
    <2>1. squeue' = squeue /\ ran' = ran /\ minted' = minted
      BY <1>2 DEF Use, Authenticate, Stray, Close, PollOne, GetRequest, Drop, SendResponse,
         server, caller
    <2>2. \A k \in Line, m \in Msg : Carries(exch'[k], m) => Carries(exch[k], m)
      <3>1. CASE Authenticate(a)
        BY <3>1, AskCarries DEF Authenticate
      <3>2. CASE Stray(a)
        BY <3>2, AskCarries DEF Stray
      <3>3. CASE Close(a)
        BY <3>3, AskCarries DEF Close
      <3>4. CASE PollOne(a)
        BY <3>4, AskCarries DEF PollOne
      <3>5. CASE GetRequest(a)
        BY <3>5, AskCarries DEF GetRequest
      <3>6. CASE Drop(a)
        BY <3>6 DEF Drop
      <3>7. ASSUME NEW m \in held[a], SendResponse(a, m)
            PROVE  \A k \in Line, x \in Msg : Carries(exch'[k], x) => Carries(exch[k], x)
        <4>1. Ask(a, "answer", m.client, m)
          BY <3>7 DEF SendResponse
        <4> QED
          BY <4>1, AskCarries
      <3> QED
        BY <1>2, <3>1, <3>2, <3>3, <3>4, <3>5, <3>6, <3>7 DEF Use
    <2>3. \A c \in Client : minted'[c] >= minted[c]
      BY <2>1, SystemAssumption DEF TypeInv, TypeOK
    <2>4. Distinct(squeue') /\ \A m \in Msg : Waits(squeue', m) => Waits(squeue, m)
      BY <2>1, SameOnce
    <2> QED
      BY <2>1, <2>2, <2>3, <2>4, FewerPlaces
  <1> QED
    BY <1>1, <1>2

\* Failures other than a broken exchange.
LEMMA FailureOnce ==
  ASSUME TypeInv, TypeInv', RequestOnce
  PROVE  /\ \A a \in Caller : Unreachable(a) => RequestOnce'
         /\ \A i \in Instance :
              Crash(i) \/ Restart(i) \/ (\E c \in Client : Evict(c, i)) => RequestOnce'
  <1>1. minted' = minted => \A c \in Client : minted'[c] >= minted[c]
    BY SystemAssumption DEF TypeInv, TypeOK
  <1>2. ASSUME NEW a \in Caller, Unreachable(a) PROVE RequestOnce'
    <2>1. squeue' = squeue /\ ran' = ran /\ minted' = minted /\ a \in Line
      BY <1>2 DEF Unreachable, server, caller, Line
    <2>2. exch' = [exch EXCEPT ![a] = Failed(exch[a])]
      BY <1>2 DEF Unreachable
    <2>3. \A k \in Line, m \in Msg : Carries(exch'[k], m) => Carries(exch[k], m)
      BY <2>1, <2>2, FewerOnLine, FailedCarries
    <2> QED
      BY <1>1, <2>1, <2>3, SameOnce, FewerPlaces
  <1>3. ASSUME NEW i \in Instance, Crash(i) PROVE RequestOnce'
    <2>1. squeue' = [squeue EXCEPT ![i] = Empty] /\ ran' = ran /\ minted' = minted
      BY <1>3 DEF Crash, caller
    <2>2. \A k \in Line, m \in Msg : Carries(exch'[k], m) => Carries(exch[k], m)
      BY <1>3, FailedCarries DEF Crash
    <2>3. Distinct(squeue') /\ \A m \in Msg : Waits(squeue', m) => Waits(squeue, m)
      BY <2>1, SameOnce, EmptyOnce
    <2> QED
      BY <1>1, <2>1, <2>2, <2>3, FewerPlaces
  <1>4. ASSUME NEW i \in Instance, Restart(i) \/ \E c \in Client : Evict(c, i) PROVE RequestOnce'
    <2>1. squeue' = squeue /\ ran' = ran /\ minted' = minted /\ exch' = exch
      BY <1>4 DEF Restart, Evict, caller
    <2> QED
      BY <1>1, <2>1, SameOnce, FewerPlaces
  <1> QED
    BY <1>2, <1>3, <1>4

\* A request that goes from one line to another.
LEMMA BreakOnce ==
  ASSUME TypeInv, TypeInv', RequestOnce, NEW a \in Caller, Break(a)
  PROVE  RequestOnce'
  <1>1. squeue' = squeue /\ ran' = ran /\ minted' = minted /\ a \in Line
    BY DEF Break, server, caller, Line
  <1>2. CASE exch' = [exch EXCEPT ![a] = Failed(exch[a])]
    <2>1. \A k \in Line, m \in Msg : Carries(exch'[k], m) => Carries(exch[k], m)
      BY <1>1, <1>2, FewerOnLine, FailedCarries
    <2>2. \A c \in Client : minted'[c] >= minted[c]
      BY <1>1, SystemAssumption DEF TypeInv, TypeOK
    <2> QED
      BY <1>1, <2>1, <2>2, SameOnce, FewerPlaces
  <1>3. CASE \E g \in Ghost : exch' = [exch EXCEPT ![a] = Failed(exch[a]), ![g] = exch[a]]
    <2>1. PICK g \in Ghost : exch' = [exch EXCEPT ![a] = Failed(exch[a]), ![g] = exch[a]]
      BY <1>3
    <2>2. g \in Line /\ g # a
      BY SystemAssumption DEF Line
    <2>3. \A l \in Line : exch'[l] = IF l = g THEN exch[a] ELSE IF l = a THEN Failed(exch[a]) ELSE exch[l]
      BY <1>1, <2>1, <2>2 DEF TypeInv, TypeOK
    <2> DEFINE from(l) == IF l = g THEN a ELSE l
    <2>4. \A l \in Line, m \in Msg : Carries(exch'[l], m) =>
            l # a /\ from(l) \in Line /\ Carries(exch[from(l)], m)
      BY <1>1, <2>2, <2>3, FailedCarries
    <2>5. \A l, k \in Line : l # a /\ k # a /\ from(l) = from(k) => l = k
      OBVIOUS
    <2> HIDE DEF from
    <2>6. OnePlace(squeue, exch, ran, minted)
      BY DEF RequestOnce
    <2>7. \A l, k \in Line, m \in Msg : Carries(exch'[l], m) /\ Carries(exch'[k], m) => l = k
      BY <2>4, <2>5, <2>6 DEF OnePlace
    <2>8. \A m \in Msg : (\E l \in Line : Carries(exch'[l], m)) => \E l \in Line : Carries(exch[l], m)
      BY <2>4
    <2>9. OnePlace(squeue', exch', ran', minted')
      BY <1>1, <2>4, <2>6, <2>7, <2>8 DEF OnePlace
    <2> QED
      BY <2>9 DEF RequestOnce, OnePlace, Distinct, Waits, Carries
  <1> QED
    BY <1>2, <1>3 DEF Break

\* The steps of the server that move no request.
LEMMA QuietServerOnce ==
  ASSUME TypeInv, TypeInv', RequestOnce, NEW l \in Line, NEW i \in Instance,
         \/ Deny(l, i) \/ ServiceAuth(l, i) \/ ClientAuth(l, i)
         \/ PollResponse(l, i) \/ BlockWait(l, i) \/ PostResponse(l, i) \/ Logoff(l, i)
  PROVE  RequestOnce'
  <1>1. ran' = ran /\ minted' = minted
    BY DEF Deny, ServiceAuth, ClientAuth, PollResponse, BlockWait, PostResponse, Logoff, caller
  <1>2. \A c \in Client : minted'[c] >= minted[c]
    BY <1>1, SystemAssumption DEF TypeInv, TypeOK
  <1>3. Distinct(squeue') /\ \A m \in Msg : Waits(squeue', m) => Waits(squeue, m)
    <2>1. \/ squeue' = squeue
          \/ \E n \in Service : squeue' = [squeue EXCEPT ![i] = GetOrCreate(@, n)]
      BY DEF Deny, ServiceAuth, ClientAuth, PollResponse, BlockWait, PostResponse, Logoff, server
    <2> QED
      BY <2>1, SameOnce, CreateOnce
  <1>4. \A k \in Line, m \in Msg : Carries(exch'[k], m) => Carries(exch[k], m)
    <2>1. CASE ServiceAuth(l, i) \/ ClientAuth(l, i)
      <3>1. PICK role \in {"client", "service"} : exch[l].op = "auth" /\ Issue(l, i, role)
        BY <2>1 DEF ServiceAuth, ClientAuth, At
      <3> DEFINE x == exch[l]
                 y == [x EXCEPT !.status = 200, !.pin = InternalIp(i),
                                !.token = [role |-> role, name |-> x.path]]
                 z == IF l \in Caller THEN y ELSE NoExchange
      <3>2. x \in Exchange /\ x.op = "auth"
        BY <3>1 DEF TypeInv, TypeOK
      <3>3. exch' = [exch EXCEPT ![l] = z]
        BY <3>1 DEF Issue, Reply
      <3>4. y.op = "auth"
        BY <3>2 DEF Exchange
      <3> HIDE DEF y
      <3>5. \A m \in Msg : ~Carries(z, m)
        BY <3>4 DEF Carries, NoExchange
      <3> HIDE DEF z
      <3> QED
        BY ONLY TypeInv, l \in Line, <3>3, <3>5, FewerOnLine
    <2>2. CASE Deny(l, i)
      <3>1. Verdict(exch[l]) \in {400, 403} /\ ReplyWith(l, Verdict(exch[l]), None)
        BY <2>2 DEF Deny, Verdict
      <3> QED
        BY <3>1, ReplyCarries
    <2>3. CASE PollResponse(l, i) \/ BlockWait(l, i) \/ PostResponse(l, i) \/ Logoff(l, i)
      <3>1. exch[l].op # "pull"
        BY <2>3 DEF PollResponse, BlockWait, PostResponse, Logoff, At
      <3>2. \E status \in {200, 202, 204, 503} :
              \/ ReplyWith(l, status, None) \/ ReplyWith(l, status, exch[l].msg)
              \/ ReplyWith(l, status, Head(box[i][exch[l].path]))
              \/ ReplyWith(l, status, Head(box[i][exch[l].token.name]))
        BY <2>3 DEF PollResponse, BlockWait, PostResponse, Logoff
      <3> QED
        BY <3>1, <3>2, ReplyCarries
    <2> QED
      BY <2>1, <2>2, <2>3
  <1> QED
    BY <1>1, <1>2, <1>3, <1>4, FewerPlaces

\* A request that goes from a line into a queue.
LEMMA PostRequestOnce ==
  ASSUME TypeInv, TypeInv', RequestOnce, NEW l \in Line, NEW i \in Instance, PostRequest(l, i)
  PROVE  RequestOnce'
  <1> DEFINE m == exch[l].msg
             n == exch[l].path
  <1>1. PICK op \in {"post", "call"} : At(l, i, op)
    BY DEF PostRequest
  <1>2. exch[l].op = op /\ exch[l].status = None /\ Shaped(exch[l]) /\ exch[l] \in Exchange
    BY <1>1 DEF At, TypeInv, TypeOK, Identity
  <1>3. m \in Msg /\ n \in Service
    BY <1>2 DEF Shaped
  <1>4. Carries(exch[l], m)
    BY <1>2 DEF Carries
  <1>5. ran' = ran /\ minted' = minted
    BY DEF PostRequest, caller
  <1>6. \A c \in Client : minted'[c] >= minted[c]
    BY <1>5, SystemAssumption DEF TypeInv, TypeOK
  <1>7. OnePlace(squeue, exch, ran, minted)
    BY DEF RequestOnce
  <1>8. \A k \in Line, x \in Msg : Carries(exch'[k], x) => k # l /\ Carries(exch[k], x)
    <2>1. CASE \E status \in {202, 503} : ReplyWith(l, status, None)
      <3>1. PICK status \in {202, 503} : ReplyWith(l, status, None)
        BY <2>1
      <3> DEFINE y == [exch[l] EXCEPT !.status = status, !.msg = None]
      <3>2. exch' = [exch EXCEPT ![l] = IF l \in Caller THEN y ELSE NoExchange]
        BY <3>1 DEF ReplyWith, Reply
      <3>3. y.status = status /\ y.op = exch[l].op
        BY <1>2 DEF Exchange
      <3> HIDE DEF y
      <3>4. \A x \in Msg : ~Carries(y, x) /\ ~Carries(NoExchange, x)
        BY <1>2, <3>3, StatusType DEF Carries, NoExchange
      <3>5. \A k \in Line : exch'[k] = IF k = l THEN IF l \in Caller THEN y ELSE NoExchange ELSE exch[k]
        BY <3>2 DEF TypeInv, TypeOK
      <3> QED
        BY <3>4, <3>5
    <2>2. CASE exch' = [exch EXCEPT ![l].op = "wait", ![l].msg = None]
      <3> DEFINE y == [exch[l] EXCEPT !.op = "wait", !.msg = None]
      <3>1. exch' = [exch EXCEPT ![l] = y]
        BY <2>2 DEF TypeInv, TypeOK
      <3>2. y.op = "wait"
        BY <1>2 DEF Exchange
      <3> HIDE DEF y
      <3>3. \A x \in Msg : ~Carries(y, x)
        BY <3>2 DEF Carries
      <3>4. \A k \in Line : exch'[k] = IF k = l THEN y ELSE exch[k]
        BY <3>1 DEF TypeInv, TypeOK
      <3> QED
        BY <3>3, <3>4
    <2> QED
      BY <2>1, <2>2 DEF PostRequest
  <1>9. CASE squeue' = squeue
    BY <1>5, <1>6, <1>8, <1>9, SameOnce, FewerPlaces
  <1>10. CASE squeue' = [squeue EXCEPT ![i] = Put(@, n, m)]
    <2>1. ~Waits(squeue, m)
      BY <1>3, <1>4, <1>7 DEF OnePlace
    <2> HIDE DEF m, n
    <2>2. Distinct(squeue') /\ \A x \in Msg : Waits(squeue', x) => Waits(squeue, x) \/ x = m
      BY <1>3, <1>10, <2>1, SameOnce, PutOnce
    <2>3. \A k \in Line : ~Carries(exch'[k], m)
      BY <1>3, <1>4, <1>7, <1>8 DEF OnePlace
    <2>4. ran[m] = <<>> /\ m.id <= minted[m.client]
      BY <1>3, <1>4, <1>7 DEF OnePlace
    <2>5. OnePlace(squeue', exch', ran', minted')
      BY <1>5, <1>7, <1>8, <2>2, <2>3, <2>4 DEF OnePlace
    <2> QED
      BY <2>5 DEF RequestOnce, OnePlace, Distinct, Waits, Carries
  <1> QED
    BY <1>9, <1>10 DEF PostRequest

\* A request that goes from a queue to a line.
LEMMA PullOnce ==
  ASSUME TypeInv, TypeInv', Affine, RequestOnce, NEW l \in Line, NEW i \in Instance,
         PullRequest(l, i)
  PROVE  RequestOnce'
  <1> DEFINE n == exch[l].path
             m == Head(squeue[i][n])
  <1>1. exch[l].op = "pull" /\ Shaped(exch[l]) /\ exch[l] \in Exchange
    BY DEF PullRequest, At, TypeInv, TypeOK, Identity
  <1>2. n \in Service
    BY <1>1 DEF Shaped
  <1>3. ran' = ran /\ minted' = minted
    BY DEF PullRequest, caller
  <1>4. OnePlace(squeue, exch, ran, minted)
    BY DEF RequestOnce
  <1>5. CASE Has(squeue[i], n)
    <2>1. squeue' = [squeue EXCEPT ![i] = Take(@, n)] /\ ReplyWith(l, 200, m)
      BY <1>5 DEF PullRequest
    <2>2. m \in Msg
      BY <1>5, TakeKeeps, SystemAssumption DEF TypeInv, TypeOK
    <2>3. /\ Distinct(squeue') /\ \A x \in Msg : Waits(squeue', x) => Waits(squeue, x)
          /\ Waits(squeue, m) /\ ~Waits(squeue', m)
      BY <1>2, <1>5, <2>1, TakeOnce
    <2> HIDE DEF m, n
    <2> DEFINE y == [exch[l] EXCEPT !.status = 200, !.msg = m]
               z == IF l \in Caller THEN y ELSE NoExchange
    <2>4. exch' = [exch EXCEPT ![l] = z]
      BY <2>1 DEF ReplyWith, Reply
    <2>5. y.msg = m
      BY <1>1 DEF Exchange
    <2> HIDE DEF y
    <2>6. \A x \in Msg : Carries(z, x) => x = m
      BY <2>5 DEF Carries, NoExchange
    <2> HIDE DEF z
    <2>7. \A k \in Line : exch'[k] = IF k = l THEN z ELSE exch[k]
      BY <2>4 DEF TypeInv, TypeOK
    <2>8. \A k \in Line : ~Carries(exch[k], m)
      BY <1>4, <2>2, <2>3 DEF OnePlace
    <2>9. \A k \in Line, x \in Msg : Carries(exch'[k], x) =>
            (k = l /\ x = m) \/ (x # m /\ Carries(exch[k], x))
      BY <2>6, <2>7, <2>8
    <2>10. ran[m] = <<>> /\ m.id <= minted[m.client]
      BY <1>4, <2>2, <2>3 DEF OnePlace
    <2>11. OnePlace(squeue', exch', ran', minted')
      BY <1>3, <1>4, <2>3, <2>9, <2>10 DEF OnePlace
    <2> QED
      BY <2>11 DEF RequestOnce, OnePlace, Distinct, Waits, Carries
  <1>6. CASE ~Has(squeue[i], n)
    <2>1. squeue' = [squeue EXCEPT ![i] = GetOrCreate(@, n)] /\ ReplyWith(l, 204, None)
      BY <1>6 DEF PullRequest
    <2>2. Distinct(squeue') /\ \A x \in Msg : Waits(squeue', x) => Waits(squeue, x)
      BY <2>1, SameOnce, CreateOnce
    <2>3. \A k \in Line, x \in Msg : Carries(exch'[k], x) => Carries(exch[k], x)
      BY <2>1, ReplyCarries
    <2>4. \A c \in Client : minted'[c] >= minted[c]
      BY <1>3, SystemAssumption DEF TypeInv, TypeOK
    <2> QED
      BY <1>3, <2>2, <2>3, <2>4, FewerPlaces
  <1> QED
    BY <1>5, <1>6

\* A request that is handed out.
LEMMA ReceiveOnce ==
  ASSUME TypeInv, TypeInv', RequestOnce, NEW a \in Caller, Receive(a)
  PROVE  /\ RequestOnce'
         /\ Got(exch[a], {"pull"}) => exch[a].msg \in Msg /\ ran[exch[a].msg] = <<>>
  <1> DEFINE x == exch[a]
  <1>1. squeue' = squeue /\ minted' = minted /\ a \in Line
    BY DEF Receive, server, Line
  <1>2. exch' = [exch EXCEPT ![a] = NoExchange]
    BY DEF Receive
  <1>3. ran' = IF Got(x, {"pull"}) THEN [ran EXCEPT ![x.msg] = Append(@, a)] ELSE ran
    BY DEF Receive
  <1>4. OnePlace(squeue, exch, ran, minted)
    BY DEF RequestOnce
  <1>5. \A k \in Line, m \in Msg : Carries(exch'[k], m) => k # a /\ Carries(exch[k], m)
    <2>1. \A k \in Line : exch'[k] = IF k = a THEN NoExchange ELSE exch[k]
      BY <1>1, <1>2 DEF TypeInv, TypeOK
    <2> QED
      BY <2>1 DEF Carries, NoExchange
  <1>6. CASE Got(x, {"pull"})
    <2>1. Shaped(x)
      BY <1>1 DEF TypeInv, Identity
    <2>2. x.msg \in Msg /\ Carries(x, x.msg)
      BY <1>6, <2>1 DEF Got, Shaped, Carries
    <2>3. ran[x.msg] = <<>> /\ x.msg.id <= minted[x.msg.client] /\ ~Waits(squeue, x.msg)
      BY <1>1, <1>4, <2>2 DEF OnePlace
    <2>4. \A k \in Line : ~Carries(exch'[k], x.msg)
      BY <1>1, <1>4, <1>5, <2>2 DEF OnePlace
    <2>5. \A m \in Msg : m # x.msg => ran'[m] = ran[m]
      BY <1>3, <1>6 DEF TypeInv, TypeOK
    <2> HIDE DEF x
    <2>6. OnePlace(squeue', exch', ran', minted')
      BY <1>1, <1>4, <1>5, <2>2, <2>3, <2>4, <2>5 DEF OnePlace
    <2>7. RequestOnce'
      BY <2>6 DEF RequestOnce, OnePlace, Distinct, Waits, Carries
    <2> QED
      BY <2>2, <2>3, <2>7 DEF x
  <1>7. CASE ~Got(x, {"pull"})
    <2>1. \A c \in Client : minted'[c] >= minted[c]
      BY <1>1, SystemAssumption DEF TypeInv, TypeOK
    <2>2. RequestOnce'
      BY <1>1, <1>3, <1>5, <1>7, <2>1, SameOnce, FewerPlaces
    <2> QED
      BY <1>7, <2>2
  <1> QED
    BY <1>6, <1>7

\* There is no request at the start.
LEMMA OnceInit == Init => RequestOnce
  <1> SUFFICES ASSUME Init PROVE RequestOnce
    OBVIOUS
  <1>1. DOMAIN Empty = {}
    BY DEF Empty
  <1>2. Distinct(squeue)
    BY <1>1 DEF Init, Distinct
  <1>3. \A m \in Msg : ~Waits(squeue, m)
    BY QueuedEmpty DEF Init, Waits
  <1>4. \A l \in Line, m \in Msg : ~Carries(exch[l], m)
    BY DEF Init, Carries, NoExchange
  <1>5. \A m \in Msg : ran[m] = <<>>
    BY DEF Init
  <1> QED
    BY <1>2, <1>3, <1>4, <1>5 DEF RequestOnce, OnePlace

\* Every step leaves a request in at most one place.
LEMMA OnceStep == TypeInv /\ Affine /\ RequestOnce /\ [Next]_vars => RequestOnce'
  <1> SUFFICES ASSUME TypeInv, Affine, RequestOnce, [Next]_vars PROVE RequestOnce'
    OBVIOUS
  <1>1. TypeInv'
    BY TypeStep
  <1>2. ASSUME NEW a \in Caller, Use(a) PROVE RequestOnce'
    BY <1>1, <1>2, UseOnce
  <1>3. ASSUME NEW a \in Caller, Receive(a) PROVE RequestOnce'
    BY <1>1, <1>3, ReceiveOnce
  <1>4. ASSUME NEW a \in Caller, Break(a) PROVE RequestOnce'
    BY <1>1, <1>4, BreakOnce
  <1>5. ASSUME NEW a \in Caller, Unreachable(a) PROVE RequestOnce'
    BY <1>1, <1>5, FailureOnce
  <1>6. ASSUME NEW l \in Line, NEW i \in Instance, Serve(l, i) PROVE RequestOnce'
    BY <1>1, <1>6, QuietServerOnce, PostRequestOnce, PullOnce DEF Serve
  <1>7. ASSUME NEW i \in Instance, Crash(i) PROVE RequestOnce'
    BY <1>1, <1>7, FailureOnce
  <1>8. ASSUME NEW i \in Instance, Restart(i) PROVE RequestOnce'
    BY <1>1, <1>8, FailureOnce
  <1>9. ASSUME NEW i \in Instance, NEW c \in Client, Evict(c, i) PROVE RequestOnce'
    BY <1>1, <1>9, FailureOnce
  <1>10. CASE UNCHANGED vars
    BY <1>10 DEF vars, server, caller, RequestOnce, OnePlace, Distinct, Waits, Carries
  <1> QED
    BY <1>2, <1>3, <1>4, <1>5, <1>6, <1>7, <1>8, <1>9, <1>10 DEF Next

-------------------------------------------------------------------------------
(* A response is only ever to a request that was handed out *)

\* Exchange x carries a response to a request that r says was handed out, on its
\* way from a service or to the client it is for.
Responding(x, r) ==
  /\ x.op = "answer" /\ x.status = None => r[x.msg] # <<>>
  /\ x.op \in {"poll", "wait"} /\ x.status = 200 =>
       /\ r[x.msg] # <<>>
       /\ x.token.role = "client" /\ x.token.name = x.msg.client

\* Responses are only to requests that were handed out.
HandedOut(b, h, e, r) ==
  /\ \A i \in Instance, c \in Client : \A m \in Queued(b[i], c) : r[m] # <<>>
  /\ \A a \in Caller : \A m \in h[a] : r[m] # <<>>
  /\ \A l \in Line : Responding(e[l], r)

ResponsesFollow == HandedOut(box, held, exch, ran)

\* One line changes to an exchange that fits.
LEMMA RespondingLine ==
  ASSUME TypeInv, ResponsesFollow, NEW l \in Line, NEW y, Responding(y, ran),
         exch' = [exch EXCEPT ![l] = y]
  PROVE  \A k \in Line : Responding(exch'[k], ran)
  BY DEF TypeInv, TypeOK, ResponsesFollow, HandedOut

\* Exchanges that carry no response.
LEMMA NoResponse ==
  ASSUME NEW x
  PROVE  /\ x.op \notin {"answer", "poll", "wait"} => Responding(x, ran)
         /\ x.status \notin {None, 200} => Responding(x, ran)
         /\ x.op = "answer" /\ x.status # None => Responding(x, ran)
         /\ x.op # "answer" /\ x.status # 200 => Responding(x, ran)
  BY StatusType DEF Responding

\* An exchange that failed, or is none.
LEMMA FailedNoResponse ==
  ASSUME TypeInv, NEW l \in Line
  PROVE  Responding(Failed(exch[l]), ran) /\ Responding(NoExchange, ran)
  <1>1. exch[l] \in Exchange
    BY DEF TypeInv, TypeOK
  <1>2. Failed(exch[l]).status = 0
    BY <1>1 DEF Exchange, Failed
  <1> QED
    BY <1>2, StatusType DEF Responding, NoExchange

\* A reply without a response.
LEMMA ReplyNoResponse ==
  ASSUME TypeInv, ResponsesFollow, NEW l \in Line,
         NEW status \in {200, 202, 204, 400, 403, 503}, NEW n,
         exch[l].op \notin {"poll", "wait"} \/ status # 200, ReplyWith(l, status, n)
  PROVE  \A k \in Line : Responding(exch'[k], ran)
  <1> DEFINE x == exch[l]
             y == [x EXCEPT !.status = status, !.msg = n]
             z == IF l \in Caller THEN y ELSE NoExchange
  <1>1. x \in Exchange
    BY DEF TypeInv, TypeOK
  <1>2. exch' = [exch EXCEPT ![l] = z]
    BY DEF ReplyWith, Reply
  <1>3. y.op = x.op /\ y.status = status
    BY <1>1 DEF Exchange
  <1>4. x.op \notin {"poll", "wait"} \/ status # 200
    OBVIOUS
  <1> HIDE DEF x, y
  <1>5. Responding(y, ran)
    BY <1>3, <1>4, StatusType DEF Responding
  <1>6. Responding(z, ran)
    BY <1>5, FailedNoResponse
  <1> HIDE DEF z
  <1> QED
    BY ONLY TypeInv, ResponsesFollow, l \in Line, <1>2, <1>6, RespondingLine

\* What the queues of instance i become.
LEMMA BoxUpdate ==
  ASSUME TypeInv, ResponsesFollow, NEW i \in Instance, NEW g, box' = [box EXCEPT ![i] = g],
         \A c \in Client : \A m \in Queued(g, c) : m \in Queued(box[i], c) \/ ran[m] # <<>>
  PROVE  \A k \in Instance, c \in Client : \A m \in Queued(box'[k], c) : ran[m] # <<>>
  <1>1. \A k \in Instance : box'[k] = IF k = i THEN g ELSE box[k]
    BY DEF TypeInv, TypeOK, Registries
  <1> QED
    BY <1>1 DEF ResponsesFollow, HandedOut

\* Queue operations that add no response.
LEMMA BoxFewer ==
  ASSUME TypeInv, ResponsesFollow, NEW i \in Instance, NEW n,
         \/ box' = box
         \/ box' = [box EXCEPT ![i] = GetOrCreate(@, n)]
         \/ box' = [box EXCEPT ![i] = Without(@, n)]
         \/ box' = [box EXCEPT ![i] = Empty]
         \/ Has(box[i], n) /\ box' = [box EXCEPT ![i] = Take(@, n)]
  PROVE  \A k \in Instance, c \in Client : \A m \in Queued(box'[k], c) : ran[m] # <<>>
  <1>1. box[i] \in [DOMAIN box[i] -> Seq(Msg)]
    BY DEF TypeInv, TypeOK, Registries
  <1>2. CASE box' = box
    BY <1>2 DEF ResponsesFollow, HandedOut
  <1>3. ASSUME NEW g, box' = [box EXCEPT ![i] = g],
               \A c \in Client : \A m \in Queued(g, c) : m \in Queued(box[i], c)
        PROVE  \A k \in Instance, c \in Client : \A m \in Queued(box'[k], c) : ran[m] # <<>>
    BY <1>3, BoxUpdate
  <1>4. CASE box' = [box EXCEPT ![i] = GetOrCreate(@, n)]
    <2>1. \A c \in Client : \A m \in Queued(GetOrCreate(box[i], n), c) : m \in Queued(box[i], c)
      BY QueuedCreate
    <2>2. box' = [box EXCEPT ![i] = GetOrCreate(box[i], n)]
      BY <1>4
    <2> QED
      BY ONLY <1>3, <2>1, <2>2
  <1>5. CASE box' = [box EXCEPT ![i] = Without(@, n)]
    <2>1. \A c \in Client : \A m \in Queued(Without(box[i], n), c) : m \in Queued(box[i], c)
      BY QueuedWithout
    <2>2. box' = [box EXCEPT ![i] = Without(box[i], n)]
      BY <1>5
    <2> QED
      BY ONLY <1>3, <2>1, <2>2
  <1>6. CASE box' = [box EXCEPT ![i] = Empty]
    <2>1. \A c \in Client : \A m \in Queued(Empty, c) : m \in Queued(box[i], c)
      BY QueuedEmpty
    <2> QED
      BY ONLY <1>3, <1>6, <2>1
  <1>7. CASE Has(box[i], n) /\ box' = [box EXCEPT ![i] = Take(@, n)]
    <2>1. \A c \in Client : \A m \in Queued(Take(box[i], n), c) : m \in Queued(box[i], c)
      BY <1>1, <1>7, QueuedTake
    <2>2. box' = [box EXCEPT ![i] = Take(box[i], n)]
      BY <1>7
    <2> QED
      BY ONLY <1>3, <2>1, <2>2
  <1> QED
    BY <1>2, <1>4, <1>5, <1>6, <1>7

\* No request is handed out in this step.
LEMMA SameRan ==
  ASSUME ran' = ran, ResponsesFollow,
         \A i \in Instance, c \in Client : \A m \in Queued(box'[i], c) : ran[m] # <<>>,
         \A a \in Caller : held'[a] \subseteq held[a],
         \A l \in Line : Responding(exch'[l], ran)
  PROVE  ResponsesFollow'
  <1>1. HandedOut(box', held', exch', ran')
    BY DEF ResponsesFollow, HandedOut
  <1> QED
    BY <1>1 DEF ResponsesFollow, HandedOut, Responding, Queued

\* A service responds to requests that it holds.
LEMMA UseFollows ==
  ASSUME TypeInv, ResponsesFollow, NEW a \in Caller, Use(a)
  PROVE  ResponsesFollow'
  <1>1. ran' = ran /\ box' = box
    BY DEF Use, Authenticate, Stray, Close, SendRequest, PollOne, GetRequest, Drop, SendResponse,
           server, caller
  <1>2. \A b \in Caller : held'[b] \subseteq held[b]
    BY DEF Use, Authenticate, Stray, Close, SendRequest, PollOne, GetRequest, Drop, SendResponse,
           caller, TypeInv, TypeOK
  <1>3. \A l \in Line : Responding(exch'[l], ran)
    <2>1. CASE exch' = exch
      BY <2>1 DEF ResponsesFollow, HandedOut
    <2>2. ASSUME NEW op, NEW path, NEW m, Ask(a, op, path, m), op = "answer" => m \in held[a]
          PROVE  \A l \in Line : Responding(exch'[l], ran)
      <3> DEFINE y == [op |-> op, path |-> path, token |-> session[a].token,
                       pin |-> session[a].pin, msg |-> m, status |-> None]
      <3>1. exch' = [exch EXCEPT ![a] = y] /\ a \in Line
        BY <2>2 DEF Ask, Line
      <3>2. op = "answer" => ran[m] # <<>>
        BY <2>2 DEF ResponsesFollow, HandedOut
      <3>3. Responding(y, ran)
        BY <3>2, StatusType DEF Responding
      <3> HIDE DEF y
      <3> QED
        BY ONLY TypeInv, ResponsesFollow, <3>1, <3>3, RespondingLine
    <2>3. \/ exch' = exch
          \/ \E op \in Op : \E path, m : Ask(a, op, path, m) /\ (op = "answer" => m \in held[a])
      BY DEF Use, Authenticate, Stray, Close, SendRequest, PollOne, GetRequest, Drop, SendResponse, Op
    <2> QED
      BY <2>1, <2>2, <2>3
  <1>4. \A i \in Instance, c \in Client : \A m \in Queued(box'[i], c) : ran[m] # <<>>
    BY <1>1 DEF ResponsesFollow, HandedOut
  <1> QED
    BY <1>1, <1>2, <1>3, <1>4, SameRan

\* Failures add no response.
LEMMA FailureFollows ==
  ASSUME TypeInv, ResponsesFollow
  PROVE  /\ \A a \in Caller : Break(a) \/ Unreachable(a) => ResponsesFollow'
         /\ \A i \in Instance : Crash(i) \/ Restart(i) \/ (\E c \in Client : Evict(c, i))
              => ResponsesFollow'
  <1>1. ASSUME NEW a \in Caller, Break(a) \/ Unreachable(a) PROVE ResponsesFollow'
    <2>1. ran' = ran /\ box' = box /\ held' = held /\ a \in Line
      BY <1>1 DEF Break, Unreachable, server, caller, Line
    <2>2. \A l \in Line : Responding(exch'[l], ran)
      <3>1. CASE exch' = [exch EXCEPT ![a] = Failed(@)]
        <4>1. \A l \in Line : exch'[l] = IF l = a THEN Failed(exch[a]) ELSE exch[l]
          BY <2>1, <3>1 DEF TypeInv, TypeOK
        <4> QED
          BY <4>1, FailedNoResponse DEF ResponsesFollow, HandedOut
      <3>2. CASE \E g \in Ghost : exch' = [exch EXCEPT ![a] = Failed(@), ![g] = exch[a]]
        <4>1. PICK g \in Ghost : exch' = [exch EXCEPT ![a] = Failed(@), ![g] = exch[a]]
          BY <3>2
        <4>2. g \in Line
          BY DEF Line
        <4>3. \A l \in Line : exch'[l] \in {Failed(exch[a]), exch[a], exch[l]}
          BY <2>1, <4>1, <4>2 DEF TypeInv, TypeOK
        <4> QED
          BY <2>1, <4>3, FailedNoResponse DEF ResponsesFollow, HandedOut
      <3> QED
        BY <1>1, <3>1, <3>2 DEF Break, Unreachable
    <2>3. \A i \in Instance, c \in Client : \A m \in Queued(box'[i], c) : ran[m] # <<>>
      BY <2>1 DEF ResponsesFollow, HandedOut
    <2> QED
      BY <2>1, <2>2, <2>3, SameRan
  <1>2. ASSUME NEW i \in Instance, Crash(i) \/ Restart(i) \/ \E c \in Client : Evict(c, i)
        PROVE  ResponsesFollow'
    <2>1. ran' = ran /\ held' = held
      BY <1>2 DEF Crash, Restart, Evict, caller
    <2>2. \A l \in Line : Responding(exch'[l], ran)
      <3>1. \A l \in Line : exch'[l] \in {Failed(exch[l]), NoExchange, exch[l]}
        BY <1>2 DEF Crash, Restart, Evict, TypeInv, TypeOK
      <3> QED
        BY <3>1, FailedNoResponse DEF ResponsesFollow, HandedOut
    <2>3. \E n : \/ box' = box \/ box' = [box EXCEPT ![i] = Without(@, n)]
                 \/ box' = [box EXCEPT ![i] = Empty]
      BY <1>2 DEF Crash, Restart, Evict
    <2>4. \A k \in Instance, c \in Client : \A m \in Queued(box'[k], c) : ran[m] # <<>>
      BY <2>3, BoxFewer
    <2> QED
      BY <2>1, <2>2, <2>4, SameRan
  <1> QED
    BY <1>1, <1>2

\* The server's steps that move no response.
LEMMA QuietServerFollows ==
  ASSUME TypeInv, ResponsesFollow, NEW l \in Line, NEW i \in Instance,
         \/ Deny(l, i) \/ ServiceAuth(l, i) \/ ClientAuth(l, i)
         \/ PostRequest(l, i) \/ PullRequest(l, i) \/ Logoff(l, i)
  PROVE  ResponsesFollow'
  <1>1. ran' = ran /\ held' = held
    BY DEF Deny, ServiceAuth, ClientAuth, PostRequest, PullRequest, Logoff, caller
  <1>2. \A k \in Instance, c \in Client : \A m \in Queued(box'[k], c) : ran[m] # <<>>
    <2>1. \E n : \/ box' = box \/ box' = [box EXCEPT ![i] = GetOrCreate(@, n)]
                 \/ box' = [box EXCEPT ![i] = Without(@, n)]
      BY DEF Deny, ServiceAuth, ClientAuth, PostRequest, PullRequest, Logoff, server
    <2> QED
      BY <2>1, BoxFewer
  <1>3. exch[l] \in Exchange
    BY DEF TypeInv, TypeOK
  <1>4. \A k \in Line : Responding(exch'[k], ran)
    <2>1. CASE ServiceAuth(l, i) \/ ClientAuth(l, i)
      <3>1. PICK role \in {"client", "service"} : exch[l].op = "auth" /\ Issue(l, i, role)
        BY <2>1 DEF ServiceAuth, ClientAuth, At
      <3> DEFINE x == exch[l]
                 y == [x EXCEPT !.status = 200, !.pin = InternalIp(i),
                                !.token = [role |-> role, name |-> x.path]]
                 z == IF l \in Caller THEN y ELSE NoExchange
      <3>2. x \in Exchange /\ x.op = "auth"
        BY <1>3, <3>1
      <3>3. exch' = [exch EXCEPT ![l] = z]
        BY <3>1 DEF Issue, Reply
      <3>4. y.op = "auth"
        BY <3>2 DEF Exchange
      <3> HIDE DEF y
      <3>5. Responding(z, ran)
        BY <3>4, NoResponse, FailedNoResponse
      <3> HIDE DEF z
      <3> QED
        BY ONLY TypeInv, ResponsesFollow, l \in Line, <3>3, <3>5, RespondingLine
    <2>2. CASE Deny(l, i)
      <3>1. Verdict(exch[l]) \in {400, 403} /\ ReplyWith(l, Verdict(exch[l]), None)
        BY <2>2 DEF Deny, Verdict
      <3> QED
        BY <3>1, ReplyNoResponse
    <2>3. CASE PullRequest(l, i) \/ Logoff(l, i)
      <3>1. exch[l].op \notin {"poll", "wait"}
        BY <2>3 DEF PullRequest, Logoff, At
      <3>2. \E status \in {200, 204} : \E n : ReplyWith(l, status, n)
        BY <2>3 DEF PullRequest, Logoff
      <3> QED
        BY <3>1, <3>2, ReplyNoResponse
    <2>4. CASE PostRequest(l, i)
      <3>1. exch[l].op \in {"post", "call"} /\ exch[l].status = None
        BY <2>4 DEF PostRequest, At
      <3>2. CASE exch' = [exch EXCEPT ![l].op = "wait", ![l].msg = None]
        <4> DEFINE y == [exch[l] EXCEPT !.op = "wait", !.msg = None]
        <4>1. exch' = [exch EXCEPT ![l] = y]
          BY <3>2 DEF TypeInv, TypeOK
        <4>2. y.op = "wait" /\ y.status = None
          BY <1>3, <3>1 DEF Exchange
        <4> HIDE DEF y
        <4>3. Responding(y, ran)
          BY <4>2, StatusType DEF Responding
        <4> QED
          BY ONLY TypeInv, ResponsesFollow, l \in Line, <4>1, <4>3, RespondingLine
      <3>3. CASE \E status \in {202, 503} : ReplyWith(l, status, None)
        BY <3>1, <3>3, ReplyNoResponse
      <3> QED
        BY <2>4, <3>2, <3>3 DEF PostRequest
    <2> QED
      BY <2>1, <2>2, <2>3, <2>4
  <1> QED
    BY <1>1, <1>2, <1>4, SameRan

\* A response that goes from a client's queue to the client.
LEMMA PollFollows ==
  ASSUME TypeInv, Affine, ResponsesFollow, NEW l \in Line, NEW i \in Instance,
         PollResponse(l, i) \/ BlockWait(l, i)
  PROVE  ResponsesFollow'
  <1> DEFINE x == exch[l]
             c == x.token.name
             m == Head(box[i][c])
  <1>1. ran' = ran /\ held' = held
    BY DEF PollResponse, BlockWait, caller
  <1>2. PICK op \in {"poll", "wait"} : At(l, i, op)
    BY DEF PollResponse, BlockWait
  <1>3. /\ x.op = op /\ x.token.role = "client" /\ c \in Client
        /\ op = "poll" => x.path = c
    BY <1>2, Passed DEF RoleOf, Op
  <1>4. \/ /\ Has(box[i], c) /\ box' = [box EXCEPT ![i] = Take(@, c)]
           /\ ReplyWith(l, 200, m)
        \/ /\ box' = box \/ box' = [box EXCEPT ![i] = GetOrCreate(@, c)]
           /\ \E status \in {202, 204} : ReplyWith(l, status, None)
    BY <1>2, <1>3 DEF PollResponse, BlockWait, At
  <1>5. \A k \in Instance, d \in Client : \A n \in Queued(box'[k], d) : ran[n] # <<>>
    BY <1>4, BoxFewer
  <1>6. x \in Exchange
    BY DEF TypeInv, TypeOK
  <1>7. CASE Has(box[i], c) /\ ReplyWith(l, 200, m)
    <2>1. m \in Queued(box[i], c)
      BY <1>7, QueuedHead DEF TypeInv, TypeOK, Registries
    <2>2. ran[m] # <<>> /\ m.client = c
      BY <1>3, <2>1 DEF ResponsesFollow, HandedOut, Affine, ResponsesAtHome
    <2> DEFINE y == [x EXCEPT !.status = 200, !.msg = m]
               z == IF l \in Caller THEN y ELSE NoExchange
    <2>3. exch' = [exch EXCEPT ![l] = z]
      BY <1>7 DEF ReplyWith, Reply
    <2>4. y.op = x.op /\ y.status = 200 /\ y.msg = m /\ y.token = x.token
      BY <1>6 DEF Exchange
    <2> HIDE DEF m, y
    <2>5. Responding(y, ran)
      BY <1>3, <2>2, <2>4, StatusType DEF Responding
    <2>6. Responding(z, ran)
      BY <2>5, FailedNoResponse
    <2> HIDE DEF z
    <2>7. \A k \in Line : Responding(exch'[k], ran)
      BY ONLY TypeInv, ResponsesFollow, l \in Line, <2>3, <2>6, RespondingLine
    <2> QED
      BY <1>1, <1>5, <2>7, SameRan
  <1>8. CASE \E status \in {202, 204} : ReplyWith(l, status, None)
    BY <1>1, <1>5, <1>8, ReplyNoResponse, SameRan
  <1> QED
    BY <1>4, <1>7, <1>8

\* A response that goes from a service to a client's queue.
LEMMA PostResponseFollows ==
  ASSUME TypeInv, ResponsesFollow, NEW l \in Line, NEW i \in Instance, PostResponse(l, i)
  PROVE  ResponsesFollow'
  <1> DEFINE x == exch[l]
  <1>1. ran' = ran /\ held' = held
    BY DEF PostResponse, caller
  <1>2. x.op = "answer" /\ x.status = None /\ Shaped(x)
    BY DEF PostResponse, At, TypeInv, Identity
  <1>3. x.msg \in Msg /\ ran[x.msg] # <<>>
    BY <1>2 DEF Shaped, ResponsesFollow, HandedOut, Responding
  <1>4. \A k \in Line : Responding(exch'[k], ran)
    BY <1>2, ReplyNoResponse DEF PostResponse
  <1>5. \A k \in Instance, c \in Client : \A m \in Queued(box'[k], c) : ran[m] # <<>>
    <2>1. CASE box' = box
      BY <2>1 DEF ResponsesFollow, HandedOut
    <2>2. CASE box' = [box EXCEPT ![i] = Put(@, x.path, x.msg)]
      <3> DEFINE g == Put(box[i], x.path, x.msg)
      <3>1. box[i] \in [DOMAIN box[i] -> Seq(Msg)]
        BY DEF TypeInv, TypeOK, Registries
      <3>2. \A c \in Client : \A m \in Queued(g, c) : m \in Queued(box[i], c) \/ ran[m] # <<>>
        BY <1>3, <3>1, QueuedPut
      <3>3. box' = [box EXCEPT ![i] = g]
        BY <2>2
      <3> HIDE DEF g
      <3> QED
        BY ONLY TypeInv, ResponsesFollow, i \in Instance, <3>2, <3>3, BoxUpdate
    <2> QED
      BY <2>1, <2>2 DEF PostResponse
  <1> QED
    BY <1>1, <1>4, <1>5, SameRan

\* A request that is handed out, or a response that arrives.
LEMMA ReceiveFollows ==
  ASSUME TypeInv, RequestOnce, ResponsesFollow, NEW a \in Caller, Receive(a)
  PROVE  ResponsesFollow'
  <1> DEFINE x == exch[a]
  <1>1. box' = box /\ exch' = [exch EXCEPT ![a] = NoExchange] /\ a \in Line
    BY DEF Receive, server, Line
  <1>2. ran' = IF Got(x, {"pull"}) THEN [ran EXCEPT ![x.msg] = Append(@, a)] ELSE ran
    BY DEF Receive
  <1>3. Got(x, {"pull"}) => x.msg \in Msg
    BY DEF TypeInv, Identity, Shaped, Got, Line
  <1>4. ran \in [Msg -> Seq(Caller)]
    BY DEF TypeInv, TypeOK
  <1>5. /\ \A m : ran[m] # <<>> => ran'[m] # <<>>
        /\ Got(x, {"pull"}) => ran'[x.msg] # <<>>
    <2>1. CASE Got(x, {"pull"})
      <3>1. ran[x.msg] \in Seq(Caller) /\ ran'[x.msg] = Append(ran[x.msg], a)
        BY <1>2, <1>3, <1>4, <2>1
      <3>2. ran'[x.msg] # <<>>
        BY <3>1
      <3>3. \A m : m # x.msg => ran'[m] = ran[m]
        BY <1>2, <1>4, <2>1
      <3> QED
        BY <3>2, <3>3
    <2>2. CASE ~Got(x, {"pull"})
      BY <1>2, <2>2
    <2> QED
      BY <2>1, <2>2
  <1>6. \A b \in Caller : \A m \in held'[b] : m \in held[b] \/ (Got(x, {"pull"}) /\ m = x.msg)
    BY DEF Receive, TypeInv, TypeOK
  <1>7. \A l \in Line : exch'[l] = exch[l] \/ exch'[l] = NoExchange
    BY <1>1 DEF TypeInv, TypeOK
  <1>8. \A l \in Line : Responding(exch'[l], ran)
    BY <1>7, FailedNoResponse DEF ResponsesFollow, HandedOut
  <1> HIDE DEF x
  <1>9. \A l \in Line : Responding(exch'[l], ran')
    BY <1>5, <1>8 DEF Responding
  <1>10. HandedOut(box', held', exch', ran')
    BY <1>1, <1>5, <1>6, <1>9 DEF ResponsesFollow, HandedOut
  <1> QED
    BY <1>10 DEF ResponsesFollow, HandedOut, Responding, Queued

\* Nothing is queued, held or under way at the start.
LEMMA FollowInit == Init => ResponsesFollow
  <1> SUFFICES ASSUME Init PROVE ResponsesFollow
    OBVIOUS
  <1>1. \A i \in Instance, c \in Client : Queued(box[i], c) = {}
    BY QueuedEmpty DEF Init
  <1>2. \A l \in Line : Responding(exch[l], ran)
    BY DEF Init, Responding, NoExchange
  <1>3. \A a \in Caller : held[a] = {}
    BY DEF Init
  <1> QED
    BY <1>1, <1>2, <1>3 DEF ResponsesFollow, HandedOut

\* Every step leaves only responses to requests that were handed out.
LEMMA FollowStep ==
  TypeInv /\ Affine /\ RequestOnce /\ ResponsesFollow /\ [Next]_vars => ResponsesFollow'
  <1> SUFFICES ASSUME TypeInv, Affine, RequestOnce, ResponsesFollow, [Next]_vars
               PROVE  ResponsesFollow'
    OBVIOUS
  <1>1. ASSUME NEW a \in Caller, Use(a) PROVE ResponsesFollow'
    BY <1>1, UseFollows
  <1>2. ASSUME NEW a \in Caller, Receive(a) PROVE ResponsesFollow'
    BY <1>2, ReceiveFollows
  <1>3. ASSUME NEW a \in Caller, Break(a) \/ Unreachable(a) PROVE ResponsesFollow'
    BY <1>3, FailureFollows
  <1>4. ASSUME NEW l \in Line, NEW i \in Instance, Serve(l, i) PROVE ResponsesFollow'
    BY <1>4, QuietServerFollows, PollFollows, PostResponseFollows DEF Serve
  <1>5. ASSUME NEW i \in Instance, Crash(i) \/ Restart(i) \/ \E c \in Client : Evict(c, i)
        PROVE  ResponsesFollow'
    BY <1>5, FailureFollows
  <1>6. CASE UNCHANGED vars
    BY <1>6 DEF vars, server, caller, ResponsesFollow, HandedOut, Responding, Queued
  <1> QED
    BY <1>1, <1>2, <1>3, <1>4, <1>5, <1>6 DEF Next

-------------------------------------------------------------------------------
(* The refinement *)

\* What is handed out and what is answered changes only as a caller gets a reply.
LEMMA QuietStep ==
  ASSUME [Next]_vars, \A a \in Caller : ~Receive(a)
  PROVE  UNCHANGED <<ran, got>>
  <1>1. ASSUME NEW a \in Caller, Use(a) PROVE UNCHANGED <<ran, got>>
    BY <1>1 DEF Use, Authenticate, Stray, Close, SendRequest, PollOne, GetRequest, Drop,
         SendResponse, caller
  <1>2. ASSUME NEW a \in Caller, Break(a) \/ Unreachable(a) PROVE UNCHANGED <<ran, got>>
    BY <1>2 DEF Break, Unreachable, caller
  <1>3. ASSUME NEW l \in Line, NEW i \in Instance, Serve(l, i) PROVE UNCHANGED <<ran, got>>
    BY <1>3 DEF Serve, Deny, ServiceAuth, ClientAuth, PostRequest, PollResponse, BlockWait,
         PullRequest, PostResponse, Logoff, caller
  <1>4. ASSUME NEW i \in Instance, Crash(i) \/ Restart(i) \/ \E c \in Client : Evict(c, i)
        PROVE  UNCHANGED <<ran, got>>
    BY <1>4 DEF Crash, Restart, Evict, caller
  <1>5. CASE UNCHANGED vars
    BY <1>5 DEF vars, caller
  <1> QED
    BY <1>1, <1>2, <1>3, <1>4, <1>5 DEF Next

\* The request that a caller has pulled is of its service and nobody else's.
LEMMA PulledOwn ==
  ASSUME TypeInv, Affine, NEW a \in Caller, Got(exch[a], {"pull"})
  PROVE  a \in Worker /\ Serves[a] = exch[a].msg.service
  <1> DEFINE x == exch[a]
  <1>1. Shaped(x) /\ OfSession(a, x, session[a]) /\ Bound(x) /\ Authentic(a)
    BY DEF TypeInv, Identity, Affine, LinesAtHome, Line
  <1>2. x.op = "pull" /\ x.status = 200
    BY DEF Got
  <1> HIDE DEF x
  <1>3. /\ x.pin \in Address /\ x.token = session[a].token /\ x.pin = session[a].pin
        /\ x.path = x.msg.service /\ x.token = [role |-> "service", name |-> x.path]
    BY <1>1, <1>2 DEF Shaped, OfSession, Bound
  <1>4. x.token = Own(a)
    BY <1>1, <1>3, NoneIsNoAddress DEF Authentic, NoSession
  <1>5. Own(a).role = "service" /\ Own(a).name = x.path
    BY <1>3, <1>4
  <1>6. a \notin Client /\ Name(a) = x.path
    BY <1>5 DEF Own
  <1>7. a \in Worker
    BY <1>6 DEF Caller
  <1> QED
    BY <1>3, <1>6, <1>7, NameType DEF x

\* The response that a caller has got is to a request of its own.
LEMMA PolledOwn ==
  ASSUME TypeInv, ResponsesFollow, NEW a \in Caller, Got(exch[a], {"poll", "wait"})
  PROVE  exch[a].msg \in Msg /\ ran[exch[a].msg] # <<>> /\ exch[a].msg.client = a
  <1> DEFINE x == exch[a]
  <1>1. Shaped(x) /\ OfSession(a, x, session[a]) /\ Responding(x, ran) /\ Authentic(a)
    BY DEF TypeInv, Identity, ResponsesFollow, HandedOut, Line
  <1>2. x.op \in {"poll", "wait"} /\ x.status = 200
    BY DEF Got
  <1> HIDE DEF x
  <1>3. /\ x.pin \in Address /\ x.token = session[a].token /\ x.pin = session[a].pin
        /\ x.msg \in Msg /\ ran[x.msg] # <<>>
        /\ x.token.role = "client" /\ x.token.name = x.msg.client
    BY <1>1, <1>2 DEF Shaped, OfSession, Responding
  <1>4. x.token = Own(a)
    BY <1>1, <1>3, NoneIsNoAddress DEF Authentic, NoSession
  <1>5. Own(a).role = "client" /\ Own(a).name = x.msg.client
    BY <1>3, <1>4
  <1>6. a \in Client /\ Name(a) = x.msg.client
    BY <1>5 DEF Own
  <1> QED
    BY <1>3, <1>6, NameType DEF x

\* The pairs of a caller and a request that it has got a response to.
Replies == {p \in Caller \X Msg : got[p[1]][p[2]] > 0}

\* A caller that gets a reply hands a request out, answers one, or does neither.
LEMMA ReceiveRefines ==
  ASSUME TypeInv, Affine, RequestOnce, ResponsesFollow, NEW a \in Caller, Receive(a)
  PROVE  R!Next \/ UNCHANGED <<ran, Replies>>
  <1> DEFINE m == exch[a].msg
  <1>1. /\ got' = IF Got(exch[a], {"poll", "wait"}) THEN [got EXCEPT ![a][m] = @ + 1] ELSE got
        /\ ran' = IF Got(exch[a], {"pull"}) THEN [ran EXCEPT ![m] = Append(@, a)] ELSE ran
    BY DEF Receive
  <1>2. ran \in [Msg -> Seq(Caller)] /\ got \in [Caller -> [Msg -> Nat]]
    BY DEF TypeInv, TypeOK
  <1>3. CASE Got(exch[a], {"pull"})
    <2>1. m \in Msg /\ ran[m] = <<>>
      BY <1>3, ReceiveOnce, TypeStep DEF Next
    <2>2. a \in DOMAIN Serves /\ Serves[a] = m.service
      BY <1>3, PulledOwn, SystemAssumption
    <2>3. got' = got
      BY <1>1, <1>3 DEF Got
    <2>4. ran' = [ran EXCEPT ![m] = <<a>>]
      <3>1. ran' = [ran EXCEPT ![m] = Append(ran[m], a)] /\ Append(<<>>, a) = <<a>>
        BY <1>1, <1>3
      <3> QED
        BY <2>1, <3>1
    <2>5. UNCHANGED Replies
      BY <2>3 DEF Replies
    <2>6. R!Run(m, a)
      BY <2>1, <2>2, <2>4, <2>5 DEF R!Run, Replies
    <2> QED
      BY <2>1, <2>6 DEF R!Next
  <1>4. CASE Got(exch[a], {"poll", "wait"})
    <2>1. m \in Msg /\ ran[m] # <<>> /\ m.client = a
      BY <1>4, PolledOwn
    <2>2. ran' = ran /\ got' = [got EXCEPT ![a][m] = @ + 1]
      BY <1>1, <1>4 DEF Got
    <2> HIDE DEF m
    <2>3. \A b \in Caller, n \in Msg :
            got'[b][n] = IF b = a /\ n = m THEN got[b][n] + 1 ELSE got[b][n]
      BY <1>2, <2>1, <2>2
    <2>4. \A b \in Caller, n \in Msg : got[b][n] \in Nat
      BY <1>2
    <2>5. \A b \in Caller, n \in Msg :
            got'[b][n] > 0 <=> got[b][n] > 0 \/ (b = a /\ n = m)
      BY <2>3, <2>4
    <2>6. Replies' = Replies \cup {<<m.client, m>>}
      BY <2>1, <2>5 DEF Replies
    <2>7. R!Respond(m)
      BY <2>1, <2>2, <2>6 DEF R!Respond, Replies
    <2>8. m \in Msg
      BY <2>1
    <2>9. R!Next
      BY ONLY <2>7, <2>8, Zenon DEF R!Next, R!Respond
    <2> QED
      BY <2>9
  <1>5. CASE ~Got(exch[a], {"pull"}) /\ ~Got(exch[a], {"poll", "wait"})
    BY <1>1, <1>5 DEF Replies
  <1> QED
    BY <1>3, <1>4, <1>5

\* Together, what the refinement rests on.
Refinable == TypeInv /\ Affine /\ RequestOnce /\ ResponsesFollow

\* Whatever fails, a request is handed to at most one connection, of the service
\* that it names, and only its client gets a response, after it was handed out.
THEOREM SystemImplementsRendezvous == Spec => ImplementsRendezvous
  <1>1. Init => Refinable
    BY TypeInit, AffineInit, OnceInit, FollowInit DEF Refinable
  <1>2. Refinable /\ [Next]_vars => Refinable'
    BY TypeStep, AffineStep, OnceStep, FollowStep DEF Refinable
  <1>3. Init => R!Init
    <2>1. Init => Replies = {}
      BY DEF Init, Replies
    <2> QED
      BY <2>1 DEF Init, R!Init, Replies
  <1>4. Refinable /\ [Next]_vars => R!Next \/ UNCHANGED <<ran, Replies>>
    <2>1. UNCHANGED <<ran, got>> => UNCHANGED <<ran, Replies>>
      BY DEF Replies
    <2> QED
      BY <2>1, QuietStep, ReceiveRefines DEF Refinable
  <1>5. Refinable /\ [Next]_vars => [R!Next]_<<ran, {p \in Caller \X Msg : got[p[1]][p[2]] > 0}>>
    BY <1>4 DEF Replies
  <1> QED
    BY <1>1, <1>2, <1>3, <1>5, PTL DEF Spec, ImplementsRendezvous, R!Spec

=============================================================================
