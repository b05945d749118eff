-------------------------- MODULE ClientLibraryProofs --------------------------
(***************************************************************************)
(* Proofs about ClientLibrary for every number of requests and of responses  *)
(* to each, every timeout, network buffer and clock resolution, and pauses of *)
(* any length.                                                               *)
(***************************************************************************)
EXTENDS ClientLibrary, FiniteSetTheorems, SequenceTheorems, TLAPS

-------------------------------------------------------------------------------
(* The inductive invariant *)

Exchange == {"connecting", "asked", "waiting", "replied"}

\* What a method asks the server for.
WhatOf == [send |-> "post", call |-> "block", get |-> "poll", loop |-> "poll"]

\* The methods that are about one request.
Single(o) ==
  /\ o.kind = "send" => o.need = 0
  /\ o.kind \in {"call", "back", "again", "get"} => o.need = 1 /\ \E r \in Rid : o.wanted = {r}

\* A method and its exchange belong together.
Shaped(o, h) ==
  /\ o.kind = "none" <=> h.at = "none"
  /\ o.kind = "none" => o = NoOp /\ h = NoHttp
  /\ Single(o)
  /\ h.at = "begun" => o.kind # "send"
  /\ h.at \in Exchange => o.kind \in DOMAIN WhatOf /\ h.what = WhatOf[o.kind]
  /\ h.at \in Exchange /\ o.kind \in {"send", "call"} => h.rid \in Rid
  /\ h.at = "waiting" => o.kind = "call"
  /\ h.body # None <=> (h.at = "replied" /\ h.status = 200)

\* What one exchange may add to the caller's timeout, when a pause came before it.
Overrun == Buffer * Unit + 2 * (Unit - 1) + Stall

\* The deadline in use is the caller's, but for a truncation to milliseconds, and the
\* pause before it was created; c ticks of that pause may be left.
Clocked(o, c) ==
  /\ o.due = None <=> o.budget = None
  /\ o.due # None =>
       /\ o.budget <= o.due + (Unit - 1)
       /\ o.kind \in {"call", "back"} => o.budget = o.due
       /\ o.kind \in {"get", "loop"} => o.budget >= o.due - (Unit - 1) - Stall
       /\ o.kind = "again" => o.due >= 0 /\ o.budget >= o.due - (Unit - 1) - Stall + c

\* The local timeout is what was left and the network buffer.  The server gets all of
\* it but a part of a millisecond, and has had that when it ends a poll with a 204.
Timed(o, h) ==
  /\ h.cut = None <=> o.budget = None
  /\ h.cut # None => h.cut >= 0
  /\ o.kind # "send" => Clocked(o, h.cut)
  /\ h.at = "begun" /\ h.cut # None
     => h.cut <= Stall /\ o.budget + h.spent >= h.cut - Overrun - Stall
  /\ h.at \in Exchange =>
       /\ h.limit = None <=> h.cut = None
       /\ h.cut # None => h.cut <= h.limit /\ o.budget + h.spent >= h.cut - Overrun
  /\ h.at \in {"connecting", "asked"} /\ o.kind \in {"get", "loop"} /\ o.due # None
     => h.wait # None /\ o.due - h.wait < Unit
  /\ h.at = "replied" /\ h.status = 204 /\ o.due # None => o.due < Unit

Fits(o, h) == o \in Op /\ h \in Http /\ Shaped(o, h) /\ Timed(o, h)

\* Only what was minted is anywhere, so that a new request has no response yet.
Known ==
  /\ op.wanted \subseteq Minted
  /\ cache \subseteq Minted /\ box \in Seq(Minted)
  /\ late \subseteq Minted \X {"post", "block"}
  /\ \A r \in Rid : work[r] > 0 => r \in Minted
  /\ http.rid \in Minted \cup {None} /\ http.body \in Minted \cup {None}

\* No response that the last method returned is in the cache, and none to the call
\* in progress.
Reported ==
  /\ ~Idle => result = NoResult
  /\ result.got \cap cache = {}
  /\ op.kind = "call" => op.wanted \cap cache = {}

\* The variables that are not about one method or one place.
Kept ==
  /\ nextId \in 0 .. MaxRequests /\ closed \in BOOLEAN
  /\ work \in [Rid -> Nat] /\ stray \in 0 .. MaxStray

IInv == Kept /\ Fits(op, http) /\ Known /\ Reported /\ WaitsForMissing

-------------------------------------------------------------------------------
(* Milliseconds *)

\* The clock ticks, the pauses and the network buffer are whole numbers.
LEMMA Numbers ==
  /\ Unit \in Nat /\ Unit > 0 /\ Buffer \in Nat /\ Buffer * Unit \in Nat
  /\ Stall \in Nat
  /\ Overrun \in Nat /\ Overrun = Buffer * Unit + 2 * (Unit - 1) + Stall
  /\ \A t \in Timeout : t # None => t \in Nat
  /\ \A i \in Int : i # None
  <1>1. /\ Unit \in Nat /\ Unit > 0 /\ Buffer \in Nat /\ Stall \in Nat
        /\ \A t \in Timeout : t # None => t \in Nat
        /\ \A i \in Int : i # None
    BY ClientAssumption
  <1>2. Buffer * Unit \in Nat
    BY <1>1
  <1>3. Overrun = Buffer * Unit + 2 * (Unit - 1) + Stall
    BY DEF Overrun
  <1> DEFINE b == Buffer * Unit
  <1> HIDE DEF b
  <1>4. b \in Nat /\ Overrun = b + 2 * (Unit - 1) + Stall
    BY <1>2, <1>3 DEF b
  <1>5. Overrun \in Nat
    BY <1>1, <1>4
  <1> QED BY <1>1, <1>2, <1>3, <1>5

\* Division loses less than one millisecond.
LEMMA Division ==
  ASSUME NEW a \in Nat
  PROVE  /\ a \div Unit \in Nat
         /\ (a \div Unit) * Unit \in Nat
         /\ a - (a \div Unit) * Unit \in 0 .. Unit - 1
         /\ a < Unit => a \div Unit = 0
         /\ a >= Unit => a \div Unit > 0
  <1>1. Unit \in Nat /\ Unit > 0
    BY Numbers
  <1> QED BY <1>1

\* Truncation loses less than one millisecond either way, and what is late by less
\* than one counts as in time.
LEMMA Truncation ==
  ASSUME NEW due \in Int
  PROVE  /\ Millis(due) \in Int /\ Millis(due) * Unit \in Int
         /\ due - Millis(due) * Unit \in -(Unit - 1) .. Unit - 1
         /\ Millis(due) >= 0 <=> due > -Unit
         /\ Millis(due) >= 0 => due - Millis(due) * Unit > -Unit
  <1>1. CASE due >= 0
    BY <1>1, Division, Numbers DEF Millis
  <1>2. CASE due < 0
    <2> DEFINE a == -due
               m == a \div Unit
    <2>1. a \in Nat /\ a > 0
      BY <1>2
    <2>2. m \in Nat /\ m * Unit \in Nat /\ a - m * Unit \in 0 .. Unit - 1
          /\ (a < Unit => m = 0) /\ (a >= Unit => m > 0)
      BY <2>1, Division
    <2>3. Millis(due) = -m
      BY <1>2 DEF Millis
    <2>4. (-m) * Unit = -(m * Unit)
      BY <2>2, Numbers
    <2> HIDE DEF m
    <2> QED BY <2>1, <2>2, <2>3, <2>4, Numbers
  <1> QED BY <1>1, <1>2

\* The local timeout is the time that is left and the network buffer.
LEMMA CutType ==
  ASSUME NEW ms \in Int
  PROVE  /\ ms * Unit \in Int /\ Cut(ms) \in Int
         /\ Cut(ms) = ms * Unit + Buffer * Unit
         /\ Cut(ms) # None /\ ms # None
         /\ ms >= 0 => ms * Unit >= 0
         /\ ~Rejected(ms) => Cut(ms) > 0
  <1>1. ms # None
    BY Numbers
  <1>2. ms * Unit \in Int /\ (ms >= 0 => ms * Unit >= 0)
    BY Numbers
  <1>3. (ms + Buffer) * Unit = ms * Unit + Buffer * Unit
    BY Numbers
  <1>4. Cut(ms) = ms * Unit + Buffer * Unit
    BY <1>1, <1>3 DEF Cut
  <1>5. Cut(ms) \in Int
    BY <1>2, <1>4, Numbers
  <1>6. ASSUME ~Rejected(ms)
        PROVE  Cut(ms) > 0
    <2>1. ms + Buffer \in Int /\ ms + Buffer > 0
      BY <1>1, <1>6, Numbers DEF Rejected
    <2>2. (ms + Buffer) * Unit > 0
      BY <2>1, Numbers
    <2> QED BY <1>1, <2>2 DEF Cut
  <1> QED BY <1>1, <1>2, <1>4, <1>5, <1>6, Numbers

\* A deadline when it is created.
LEMMA DeadlineType ==
  ASSUME NEW t, t # None => t \in Nat
  PROVE  /\ Deadline(t) \in Time
         /\ Deadline(t) = None <=> t = None
         /\ t # None => Deadline(t) = t * Unit /\ Deadline(t) \in Nat
  <1>1. t # None => t * Unit \in Nat
    BY Numbers
  <1> QED BY <1>1, Numbers DEF Deadline, Time

-------------------------------------------------------------------------------
(* A method and its exchange *)

\* Nothing is in progress.
LEMMA NothingFits == Fits(NoOp, NoHttp)
  <1>1. NoOp \in Op /\ NoHttp \in Http
    <2>1. 0 \in 0 .. MaxParts
      BY ClientAssumption
    <2> QED BY <2>1 DEF NoOp, NoHttp, Op, Http, Time
  <1>2. Shaped(NoOp, NoHttp)
    BY DEF NoOp, NoHttp, Shaped, Single, Exchange
  <1>3. Timed(NoOp, NoHttp)
    BY DEF NoOp, NoHttp, Timed, Clocked, Exchange
  <1> QED BY <1>1, <1>2, <1>3 DEF Fits

\* A method is about to look at its deadline.
LEMMA BegunFits ==
  ASSUME NEW k \in Op, k.kind \in {"call", "back", "again", "get", "loop"}, Single(k),
         Clocked(k, Stall), http.spent \in Nat,
         k.budget # None => k.budget + http.spent >= -Overrun
  PROVE  /\ Fits(k, Begun(k.due))
         /\ Begun(k.due).body = None /\ Begun(k.due).rid = None
         /\ Begun(k.due).at = "begun"
  <1> DEFINE h == Begun(k.due)
             c == IF k.due = None THEN None ELSE Stall
  <1>1. k.due \in Int \cup {None} /\ k.budget \in Int \cup {None}
    BY DEF Op, Time
  <1>2. c \in Time /\ (c = None <=> k.due = None) /\ (c # None => c = Stall)
    BY Numbers DEF Time
  <1> HIDE DEF c
  <1>3. h = [at |-> "begun", what |-> "none", rid |-> None, status |-> None,
             body |-> None, cut |-> c, limit |-> None, wait |-> None,
             spent |-> http.spent, parts |-> 0]
    <2>1. h = [NoHttp EXCEPT !.at = "begun", !.cut = c, !.spent = http.spent]
      BY DEF Begun, c
    <2> HIDE DEF h
    <2> QED BY <2>1 DEF NoHttp
  <1> HIDE DEF h
  <1>4. h \in Http
    <2>1. 0 \in 0 .. MaxParts
      BY ClientAssumption
    <2> QED BY <1>2, <1>3, <2>1 DEF Http
  <1>5. /\ h.at = "begun" /\ h.body = None /\ h.rid = None /\ h.cut = c
        /\ h.spent = http.spent /\ h.limit = None
    BY <1>3
  <1>6. Shaped(k, h)
    BY <1>5 DEF Shaped, Exchange
  <1>7. Timed(k, h)
    <2>1. k.due = None <=> k.budget = None
      BY DEF Clocked
    <2>2. CASE k.due = None
      BY <1>2, <1>5, <2>1, <2>2 DEF Timed, Clocked, Exchange
    <2>3. CASE k.due # None
      <3>1. k.budget \in Int /\ k.budget + http.spent >= -Overrun /\ c = Stall /\ h.cut = Stall
        BY <1>1, <1>2, <1>5, <2>1, <2>3
      <3>2. k.budget + h.spent >= h.cut - Overrun - Stall
        BY <1>5, <3>1, Numbers
      <3> QED BY <1>5, <2>1, <2>3, <3>1, <3>2, Numbers DEF Timed, Exchange
    <2> QED BY <2>2, <2>3
  <1>8. Fits(k, h)
    BY <1>4, <1>6, <1>7 DEF Fits
  <1> QED BY <1>5, <1>8 DEF h

\* An exchange begins, with ms of local time besides the network buffer.
LEMMA AskFits ==
  ASSUME NEW k \in Op, k.kind \in DOMAIN WhatOf, Single(k),
         NEW what, what = WhatOf[k.kind],
         NEW r \in Rid \cup {None}, k.kind \in {"send", "call"} => r \in Rid,
         NEW ms \in Int \cup {None}, ~Rejected(ms), ms = None <=> k.budget = None,
         k.kind # "send" => Clocked(k, Stall),
         ms # None => k.budget >= ms * Unit - 2 * (Unit - 1) - Stall,
         k.kind \in {"get", "loop"} /\ ms # None => ms >= 0 /\ k.due - ms * Unit < Unit
  PROVE  /\ Fits(k, Ask(what, r, ms))
         /\ Ask(what, r, ms).body = None /\ Ask(what, r, ms).rid = r
         /\ Ask(what, r, ms).at = "connecting"
  <1> DEFINE h == Ask(what, r, ms)
             c == Cut(ms)
             w == ServerTime(ms)
  <1>1. k.due \in Int \cup {None} /\ k.budget \in Int \cup {None}
    BY DEF Op, Time
  <1>2. /\ c \in Int \cup {None} /\ c \in (Nat \ {0}) \cup {None}
        /\ c = None <=> ms = None
        /\ c # None => c > 0 /\ c = ms * Unit + Buffer * Unit /\ ms * Unit \in Int
    <2>1. CASE ms = None
      BY <2>1 DEF Cut
    <2>2. CASE ms \in Int
      BY <2>2, CutType
    <2> QED BY <2>1, <2>2
  <1>3. /\ w \in Nat \cup {None}
        /\ ms # None /\ ms >= 0 => w = ms * Unit /\ w # None
    <2>1. CASE ms = None
      BY <2>1 DEF ServerTime
    <2>2. CASE ms \in Int
      <3>1. ms * Unit \in Int /\ (ms >= 0 => ms * Unit >= 0) /\ ms # None
            /\ (ms = 0 => ms * Unit = 0)
        BY <2>2, CutType, Numbers
      <3>2. CASE ms > 0
        BY <2>2, <3>1, <3>2, Numbers DEF ServerTime
      <3>3. CASE ~(ms > 0)
        BY <2>2, <3>1, <3>3, Numbers DEF ServerTime
      <3> QED BY <3>2, <3>3
    <2> QED BY <2>1, <2>2
  <1> HIDE DEF c, w
  <1>4. h = [at |-> "connecting", what |-> what, rid |-> r, status |-> None,
             body |-> None, cut |-> c, limit |-> c, wait |-> w,
             spent |-> 0, parts |-> 0]
    <2>1. h = [NoHttp EXCEPT !.at = "connecting", !.what = what, !.rid = r,
                             !.cut = c, !.limit = c, !.wait = w]
      BY DEF Ask, c, w
    <2> HIDE DEF h
    <2> QED BY <2>1 DEF NoHttp
  <1> HIDE DEF h
  <1>5. what \in {"none", "post", "block", "poll"}
    BY DEF WhatOf
  <1>6. h \in Http
    <2>1. 0 \in 0 .. MaxParts
      BY ClientAssumption
    <2> QED BY <1>2, <1>3, <1>4, <1>5, <2>1 DEF Http, Time
  <1>7. /\ h.at = "connecting" /\ h.what = what /\ h.body = None /\ h.rid = r
        /\ h.cut = c /\ h.limit = c /\ h.wait = w /\ h.spent = 0
    BY <1>4
  <1>8. k.kind # "none"
    BY DEF WhatOf
  <1>9. Shaped(k, h)
    BY <1>7, <1>8 DEF Shaped, Exchange
  <1>10. Timed(k, h)
    <2>1. k.kind \in {"send", "call", "get", "loop"}
      BY DEF WhatOf
    <2>2. k.kind # "send" => Clocked(k, h.cut)
      BY <2>1 DEF Clocked
    <2>3. CASE ms = None
      <3>1. k.budget = None /\ h.cut = None /\ h.limit = None
        BY <1>2, <1>7, <2>3
      <3>2. k.kind # "send" => k.due = None
        BY <3>1 DEF Clocked
      <3> QED BY <1>7, <2>2, <3>1, <3>2 DEF Timed, Exchange
    <2>4. CASE ms # None
      <3>1. /\ k.budget \in Int /\ k.budget # None /\ h.cut = h.limit
            /\ h.cut = ms * Unit + Buffer * Unit /\ h.cut > 0 /\ h.cut \in Int
            /\ ms * Unit \in Int
            /\ k.budget >= ms * Unit - 2 * (Unit - 1) - Stall
        BY <1>1, <1>2, <1>7, <2>4
      <3>2. k.budget + h.spent >= h.cut - Overrun
        <4> DEFINE m == ms * Unit
                   b == Buffer * Unit
        <4>1. /\ m \in Int /\ b \in Nat /\ h.cut = m + b
              /\ k.budget >= m - 2 * (Unit - 1) - Stall
              /\ Overrun = b + 2 * (Unit - 1) + Stall
          BY <3>1, Numbers
        <4> HIDE DEF m, b
        <4> QED BY <1>7, <3>1, <4>1, Numbers
      <3>3. k.kind \in {"get", "loop"} => h.wait # None /\ k.due - h.wait < Unit
        BY <1>3, <1>7, <2>4
      <3> HIDE DEF h
      <3>4. h.cut # None /\ h.limit # None /\ h.cut >= 0 /\ h.cut <= h.limit
        BY <1>2, <1>7, <2>4, <3>1
      <3> QED BY <1>7, <2>2, <3>1, <3>2, <3>3, <3>4 DEF Timed, Exchange
    <2> QED BY <2>3, <2>4
  <1>11. Fits(k, h)
    BY <1>6, <1>9, <1>10 DEF Fits
  <1> QED BY <1>7, <1>11 DEF h

\* An exchange whose time passes.
LEMMA HttpTick ==
  ASSUME NEW h \in Http, NEW c \in Time,
         NEW t \in Nat \cup {None},
         NEW g, g = [h EXCEPT !.cut = c, !.wait = t]
  PROVE  g \in Http
  <1> DEFINE A == {"none", "begun", "connecting", "asked", "waiting", "replied"}
             W == {"none", "post", "block", "poll"}
             S == {None, 200, 202, 204, 503}
             B == Rid \cup {None}
             L == (Nat \ {0}) \cup {None}
             T == Nat \cup {None}
             P == 0 .. MaxParts
             H == [at : A, what : W, rid : B, status : S, body : B, cut : Time,
                   limit : L, wait : T, spent : Nat, parts : P]
  <1>1. Http = H /\ h \in H /\ t \in T
    BY DEF Http
  <1> HIDE DEF A, W, S, B, L, T, P
  <1>2. [h EXCEPT !.cut = c, !.wait = t] \in H
    BY <1>1
  <1> QED BY ONLY <1>1, <1>2, g = [h EXCEPT !.cut = c, !.wait = t]

\* An exchange whose request the server has.
LEMMA HttpConnected ==
  ASSUME NEW h \in Http, NEW c \in Time, NEW n \in Nat,
         NEW g, g = [h EXCEPT !.cut = c, !.spent = n, !.at = "asked"]
  PROVE  g \in Http
  <1> DEFINE A == {"none", "begun", "connecting", "asked", "waiting", "replied"}
             W == {"none", "post", "block", "poll"}
             S == {None, 200, 202, 204, 503}
             B == Rid \cup {None}
             L == (Nat \ {0}) \cup {None}
             T == Nat \cup {None}
             P == 0 .. MaxParts
             H == [at : A, what : W, rid : B, status : S, body : B, cut : Time,
                   limit : L, wait : T, spent : Nat, parts : P]
  <1>1. Http = H /\ h \in H /\ "asked" \in A
    BY DEF Http
  <1> HIDE DEF A, W, S, B, L, T, P
  <1>2. [h EXCEPT !.cut = c, !.spent = n, !.at = "asked"] \in H
    BY <1>1
  <1> QED BY ONLY <1>1, <1>2, g = [h EXCEPT !.cut = c, !.spent = n, !.at = "asked"]

\* An exchange of which a part is done.
LEMMA HttpParts ==
  ASSUME NEW h \in Http, NEW c \in Time, NEW n \in Nat,
         NEW p \in 0 .. MaxParts,
         NEW g, g = [h EXCEPT !.cut = c, !.spent = n, !.parts = p]
  PROVE  g \in Http
  <1> DEFINE A == {"none", "begun", "connecting", "asked", "waiting", "replied"}
             W == {"none", "post", "block", "poll"}
             S == {None, 200, 202, 204, 503}
             B == Rid \cup {None}
             L == (Nat \ {0}) \cup {None}
             T == Nat \cup {None}
             P == 0 .. MaxParts
             H == [at : A, what : W, rid : B, status : S, body : B, cut : Time,
                   limit : L, wait : T, spent : Nat, parts : P]
  <1>1. Http = H /\ h \in H /\ p \in P
    BY DEF Http
  <1> HIDE DEF A, W, S, B, L, T, P
  <1>2. [h EXCEPT !.cut = c, !.spent = n, !.parts = p] \in H
    BY <1>1
  <1> QED BY ONLY <1>1, <1>2, g = [h EXCEPT !.cut = c, !.spent = n, !.parts = p]

\* The timer of an exchange starts again.
LEMMA RestartFits ==
  ASSUME NEW o, NEW h, Fits(o, h), h.at \in Exchange,
         NEW g \in Http, g.at = h.at \/ (h.at = "connecting" /\ g.at = "asked"),
         g.what = h.what, g.rid = h.rid, g.status = h.status, g.body = h.body,
         g.limit = h.limit, g.wait = h.wait, g.cut = h.limit,
         g.spent = h.spent + (IF h.limit = None THEN 0 ELSE h.limit - h.cut)
  PROVE  Fits(o, g)
  <1>1. o \in Op /\ h \in Http /\ Shaped(o, h) /\ Timed(o, h)
    BY DEF Fits
  <1>2. o.kind # "none" /\ o.kind \in DOMAIN WhatOf
    BY <1>1 DEF Shaped, Exchange, WhatOf
  <1>3. Shaped(o, g)
    BY <1>1, <1>2 DEF Shaped, Exchange
  <1>4. /\ o.budget \in Int \cup {None} /\ h.cut \in Int \cup {None}
        /\ h.limit \in (Nat \ {0}) \cup {None} /\ h.spent \in Nat
        /\ (h.limit = None <=> h.cut = None) /\ (h.cut = None <=> o.budget = None)
        /\ h.cut # None => h.cut <= h.limit /\ o.budget + h.spent >= h.cut - Overrun
    BY <1>1 DEF Op, Http, Time, Timed
  <1>5. o.kind # "send" => Clocked(o, g.cut)
    BY <1>1, <1>2 DEF Timed, Clocked, WhatOf
  <1>6. g.cut # None => g.cut >= 0 /\ o.budget + g.spent >= g.cut - Overrun
    <2> SUFFICES ASSUME g.cut # None
                 PROVE  g.cut >= 0 /\ o.budget + g.spent >= g.cut - Overrun
      OBVIOUS
    <2>1. /\ h.limit \in Nat /\ h.cut \in Int /\ o.budget \in Int /\ h.spent \in Nat
          /\ o.budget + h.spent >= h.cut - Overrun
      BY <1>4
    <2>2. g.spent = h.spent + (h.limit - h.cut) /\ g.cut = h.limit
      BY <2>1
    <2> QED BY <2>1, <2>2, Numbers
  <1>7. Timed(o, g)
    <2>1. g.at \in Exchange /\ g.at # "begun"
      BY DEF Exchange
    <2>2. g.cut # None => g.cut <= g.limit
      BY <1>4
    <2>3. /\ g.cut = None <=> o.budget = None
          /\ g.limit = None <=> g.cut = None
      BY <1>4
    <2>4. g.at \in {"connecting", "asked"} /\ o.kind \in {"get", "loop"} /\ o.due # None
          => g.wait # None /\ o.due - g.wait < Unit
      BY <1>1 DEF Timed, Exchange
    <2>5. g.at = "replied" /\ g.status = 204 /\ o.due # None => o.due < Unit
      BY <1>1 DEF Timed
    <2> QED BY <1>5, <1>6, <2>1, <2>2, <2>3, <2>4, <2>5 DEF Timed
  <1> QED BY <1>1, <1>3, <1>7 DEF Fits

\* The server replies.
LEMMA ReplyFits ==
  ASSUME NEW o, NEW h, Fits(o, h), h.at \in {"asked", "waiting"}, NEW g \in Http,
         g.at = "replied", g.what = h.what, g.rid = h.rid, g.cut = h.cut,
         g.limit = h.limit, g.spent = h.spent,
         g.body # None <=> g.status = 200,
         g.status = 204 => /\ h.at = "asked" /\ h.what = "poll"
                           /\ h.wait \in {0, None}
  PROVE  Fits(o, g)
  <1>1. o \in Op /\ h \in Http /\ Shaped(o, h) /\ Timed(o, h)
    BY DEF Fits
  <1>2. Shaped(o, g)
    BY <1>1 DEF Shaped, Exchange
  <1>3. ASSUME g.status = 204, o.due # None
        PROVE  o.due < Unit
    <2>1. o.kind \in {"get", "loop"}
      BY <1>1, <1>3 DEF Shaped, WhatOf, Exchange
    <2>2. h.wait = 0 /\ o.due - h.wait < Unit /\ o.due \in Int
      BY <1>1, <1>3, <2>1 DEF Timed, Op, Time
    <2> QED BY <2>2, Numbers
  <1>4. Timed(o, g)
    BY <1>1, <1>3 DEF Timed, Exchange
  <1> QED BY <1>1, <1>2, <1>4 DEF Fits

\* The server accepts a block=1 POST, and the client waits on.
LEMMA WaitFits ==
  ASSUME NEW o, NEW h, Fits(o, h), o.kind = "call", h.at = "asked",
         NEW g, g = [h EXCEPT !.at = "waiting"]
  PROVE  Fits(o, g) /\ g.body = None /\ g.rid = h.rid /\ g.at = "waiting"
  <1>1. o \in Op /\ h \in Http /\ Shaped(o, h) /\ Timed(o, h)
    BY DEF Fits
  <1>2. /\ g \in Http /\ g.at = "waiting" /\ g.status = h.status /\ g.body = h.body
        /\ g.what = h.what /\ g.rid = h.rid /\ g.cut = h.cut /\ g.limit = h.limit
        /\ g.spent = h.spent
    BY <1>1 DEF Http
  <1>3. Shaped(o, g) /\ g.body = None
    BY <1>1, <1>2 DEF Shaped, Exchange
  <1>4. Timed(o, g)
    BY <1>1, <1>2 DEF Timed, Exchange
  <1> QED BY <1>1, <1>2, <1>3, <1>4 DEF Fits

\* Time passes.
LEMMA TickFits ==
  ASSUME NEW o, NEW h, Fits(o, h), o.kind # "none", h.cut # None, h.cut > 0,
         NEW p \in Op, NEW g \in Http,
         p.kind = o.kind, p.wanted = o.wanted, p.need = o.need,
         p.due = (IF o.kind = "again" THEN o.due ELSE Before(o.due)),
         p.budget = Before(o.budget),
         g.at = h.at, g.what = h.what, g.rid = h.rid, g.status = h.status,
         g.body = h.body, g.limit = h.limit, g.spent = h.spent, g.cut = Before(h.cut),
         g.wait = (IF h.at = "connecting" \/ h.wait \in {0, None}
                   THEN h.wait ELSE h.wait - 1)
  PROVE  Fits(p, g)
  <1>1. o \in Op /\ h \in Http /\ Shaped(o, h) /\ Timed(o, h)
    BY DEF Fits
  <1>2. Shaped(p, g)
    BY <1>1 DEF Shaped, Single
  <1>3. /\ o.budget \in Int /\ p.budget = o.budget - 1 /\ p.budget # None
        /\ h.cut \in Int /\ g.cut = h.cut - 1 /\ g.cut # None /\ h.spent \in Nat
        /\ o.due \in Int \cup {None} /\ h.wait \in Nat \cup {None}
    BY <1>1, Numbers DEF Timed, Op, Http, Time, Before
  <1>4. CASE o.kind = "send"
    <2>1. h.at \in Exchange => /\ h.limit # None /\ h.limit \in Nat
                               /\ h.cut <= h.limit /\ o.budget + h.spent >= h.cut - Overrun
      BY <1>1, <1>3 DEF Timed, Http
    <2>2. h.at # "begun" /\ (h.at = "replied" /\ h.status = 204 /\ p.due # None => p.due < Unit)
      <3>1. p.due = Before(o.due)
        BY <1>4
      <3>2. h.at = "replied" /\ h.status = 204 /\ o.due # None => o.due < Unit
        BY <1>1 DEF Timed
      <3>3. CASE o.due = None
        BY <1>1, <1>4, <3>1, <3>3 DEF Before, Shaped
      <3>4. CASE o.due # None
        BY <1>1, <1>3, <1>4, <3>1, <3>2, <3>4, Numbers DEF Before, Shaped
      <3> QED BY <3>3, <3>4
    <2>3. Timed(p, g)
      BY <1>3, <1>4, <2>1, <2>2, Numbers DEF Timed
    <2> QED BY <1>2, <2>3 DEF Fits
  <1>5. CASE o.kind # "send"
    <2>1. Clocked(o, h.cut) /\ o.due # None /\ o.due \in Int
      BY <1>1, <1>3, <1>5 DEF Timed, Clocked
    <2>2. /\ p.due \in Int /\ p.due # None
          /\ o.kind = "again" => p.due = o.due
          /\ o.kind # "again" => p.due = o.due - 1
      BY <2>1, Numbers DEF Before
    <2>3. Clocked(p, g.cut)
      BY <1>3, <2>1, <2>2, Numbers DEF Clocked
    <2>4. /\ h.at = "begun" => g.cut <= Stall /\ p.budget + g.spent >= g.cut - Overrun - Stall
          /\ h.at \in Exchange => /\ g.limit # None /\ g.cut <= g.limit
                                  /\ p.budget + g.spent >= g.cut - Overrun
      <3>1. /\ h.at = "begun" => h.cut <= Stall /\ o.budget + h.spent >= h.cut - Overrun - Stall
            /\ h.at \in Exchange => /\ h.limit # None /\ h.limit \in Nat /\ h.cut <= h.limit
                                    /\ o.budget + h.spent >= h.cut - Overrun
        BY <1>1, <1>3 DEF Timed, Http
      <3> QED BY <1>3, <3>1, Numbers
    <2>5. h.at \in {"connecting", "asked"} /\ o.kind \in {"get", "loop"}
          => g.wait # None /\ p.due - g.wait < Unit
      <3> SUFFICES ASSUME h.at \in {"connecting", "asked"}, o.kind \in {"get", "loop"}
                   PROVE  g.wait # None /\ p.due - g.wait < Unit
        OBVIOUS
      <3>1. h.wait \in Nat /\ o.due - h.wait < Unit /\ p.due = o.due - 1
        BY <1>1, <1>3, <2>1, <2>2 DEF Timed
      <3>2. CASE h.at = "connecting" \/ h.wait = 0
        BY <2>1, <3>1, <3>2, Numbers
      <3>3. CASE h.at # "connecting" /\ h.wait # 0
        BY <2>1, <3>1, <3>3, Numbers
      <3> QED BY <3>2, <3>3
    <2>6. h.at = "replied" /\ h.status = 204 => p.due < Unit
      BY <1>1, <2>1, <2>2, Numbers DEF Timed, Shaped, Exchange, WhatOf
    <2>7. g.cut >= 0
      BY <1>3
    <2>8. Timed(p, g)
      BY <1>3, <1>5, <2>2, <2>3, <2>4, <2>5, <2>6, <2>7 DEF Timed
    <2> QED BY <1>2, <2>8 DEF Fits
  <1> QED BY <1>4, <1>5

-------------------------------------------------------------------------------
(* How a method goes on, or ends *)

\* The response that has arrived, if one has.
Here == {http.body} \ {None}

\* Nothing that the client has read is dropped or returned twice by this step.
Keeping ==
  /\ cache' \cup Returned = cache \cup Arrived
  /\ cache' \cap Returned = {}

\* A method has done something with the response that has arrived, and has ended, is
\* about to look at its deadline, or has sent a request.
Outcome ==
  /\ Fits(op', http') /\ http'.body = None
  /\ op'.wanted \subseteq Minted' /\ http'.rid \in Minted' \cup {None}
  /\ WaitsForMissing' /\ Reported'
  /\ cache' \cup Returned = cache \cup Here
  /\ cache' \cap Returned = {}

\* Request_ids are finitely many.
LEMMA RidFinite ==
  ASSUME NEW S, S \subseteq Rid
  PROVE  IsFiniteSet(S) /\ Cardinality(S) \in Nat
  <1>1. IsFiniteSet(Rid)
    BY ClientAssumption, FS_Interval DEF Rid
  <1> QED BY <1>1, FS_Subset, FS_CardinalityType

\* What the methods build on.
LEMMA Facts ==
  ASSUME IInv
  PROVE  /\ op \in Op /\ http \in Http /\ Shaped(op, http) /\ Timed(op, http)
         /\ nextId \in 0 .. MaxRequests /\ Minted \subseteq Rid
         /\ cache \subseteq Minted /\ op.wanted \subseteq Minted /\ Here \subseteq Minted
         /\ http.at # "replied" => Here = {} /\ Arrived = {}
         /\ http.at = "replied" /\ http.status = 200 => Here = {http.body}
         /\ http.status # 200 => Here = {}
         /\ http.spent \in Nat
         /\ http.at \in Exchange /\ op.budget # None => op.budget + http.spent >= -Overrun
  <1>1. /\ op \in Op /\ http \in Http /\ Shaped(op, http) /\ Timed(op, http)
        /\ nextId \in 0 .. MaxRequests /\ Known
    BY DEF IInv, Fits, Kept
  <1>2. Minted \subseteq Rid
    BY <1>1, ClientAssumption DEF Minted, Rid
  <1>3. /\ cache \subseteq Minted /\ op.wanted \subseteq Minted /\ Here \subseteq Minted
        /\ http.at # "replied" => Here = {} /\ Arrived = {}
        /\ http.at = "replied" /\ http.status = 200 => Here = {http.body}
        /\ http.status # 200 => Here = {}
    BY <1>1 DEF Known, Here, Arrived, Shaped
  <1>4. http.spent \in Nat
    BY <1>1 DEF Http
  <1>5. ASSUME http.at \in Exchange, op.budget # None
        PROVE  op.budget + http.spent >= -Overrun
    <2>1. /\ op.budget \in Int /\ http.cut \in Int /\ http.cut >= 0
          /\ op.budget + http.spent >= http.cut - Overrun
      BY <1>1, <1>5 DEF Timed, Op, Http, Time
    <2> QED BY <1>4, <2>1, Numbers
  <1> QED BY <1>1, <1>2, <1>3, <1>4, <1>5

\* Nothing has arrived for a method that is not in progress.
LEMMA NothingHere ==
  ASSUME IInv, Idle
  PROVE  http = NoHttp /\ http.spent = 0 /\ http.at = "none" /\ Here = {} /\ Arrived = {}
  <1>1. http = NoHttp
    BY Facts DEF Idle, Shaped
  <1> QED BY <1>1, Facts DEF NoHttp

\* The invariant survives a step of a method.
LEMMA OutcomeKeeps ==
  ASSUME IInv, Outcome, Arrived = Here,
         nextId' \in nextId .. MaxRequests, closed' \in BOOLEAN, UNCHANGED server
  PROVE  IInv' /\ Keeping
  <1>1. Kept /\ Known /\ nextId \in Nat
    BY DEF IInv, Kept
  <1>2. UNCHANGED <<work, box, late, stray>>
    BY DEF server
  <1>3. Minted \subseteq Minted'
    BY <1>1, ClientAssumption DEF Minted
  <1>4. Kept'
    BY <1>1, <1>2, ClientAssumption DEF Kept
  <1>5. cache' \subseteq Minted'
    BY <1>3, Facts DEF Outcome
  <1>6. box' \in Seq(Minted')
    <2>1. box \in [1 .. Len(box) -> Minted] /\ Len(box) \in Nat
      BY <1>1, LenProperties DEF Known
    <2>2. box \in [1 .. Len(box) -> Minted']
      BY <1>3, <2>1
    <2> QED BY <1>2, <2>1, <2>2, SeqDef
  <1>7. Known'
    BY <1>1, <1>2, <1>3, <1>5, <1>6 DEF Known, Outcome
  <1> QED BY <1>4, <1>7 DEF IInv, Outcome, Keeping

\* A method ends.
LEMMA EndOutcome ==
  ASSUME IInv, NEW k, NEW got, got \subseteq cache \cup Here,
         NEW status \in {"ok", "elapsed", "empty", "full", "broken", "invalid"},
         End(k, status, got), cache' = (cache \cup Here) \ got
  PROVE  /\ Outcome
         /\ op' = NoOp /\ http' = NoHttp /\ result'.status = status
         /\ result'.got = got /\ result'.wanted = k.wanted /\ result'.need = k.need
  <1>1. /\ op' = NoOp /\ http' = NoHttp /\ result'.status = status
        /\ result'.got = got /\ result'.wanted = k.wanted /\ result'.need = k.need
    BY DEF End
  <1>2. Fits(op', http')
    BY <1>1, NothingFits
  <1>3. /\ http'.body = None /\ op'.wanted = {} /\ http'.rid = None
        /\ WaitsForMissing' /\ Idle' /\ op'.kind = "none"
    BY <1>1 DEF NoHttp, NoOp, WaitsForMissing, Idle
  <1>4. Reported'
    BY <1>1, <1>3 DEF Reported
  <1>5. CASE result' # result
    BY <1>1, <1>2, <1>3, <1>4, <1>5 DEF Outcome, Returned
  <1>6. CASE result' = result
    <2>1. result.status # "none"
      BY <1>1, <1>6
    <2>2. Idle
      BY <2>1 DEF IInv, Reported, NoResult
    <2>3. Here = {} /\ got \cap cache = {}
      BY <1>1, <1>6, <2>2, NothingHere DEF IInv, Reported
    <2>4. Returned = {} /\ cache' = cache
      BY <1>6, <2>3 DEF Returned
    <2> QED BY <1>1, <1>2, <1>3, <1>4, <2>3, <2>4 DEF Outcome
  <1> QED BY <1>1, <1>5, <1>6

\* A method that goes on returns nothing.
LEMMA GoesOn ==
  ASSUME result' = NoResult
  PROVE  Returned = {} /\ result'.got = {} /\ result'.status = "none"
  BY DEF Returned, NoResult

\* A method goes on, about to look at its deadline.
LEMMA BeginOutcome ==
  ASSUME IInv, NEW k \in Op, k.kind \in {"call", "back", "again", "get", "loop"},
         Single(k), Clocked(k, Stall), k.wanted \subseteq Minted',
         k.budget # None => k.budget + http.spent >= -Overrun,
         Begin(k), cache' = cache \cup Here,
         k.kind \in {"call", "get"} => k.wanted \cap cache' = {},
         k.kind = "loop" => Cardinality(k.wanted \cap cache') < k.need
  PROVE  Outcome /\ op' = k /\ http'.at = "begun" /\ result' = NoResult
  <1>1. op' = k /\ http' = Begun(k.due) /\ result' = NoResult
    BY DEF Begin
  <1>2. http.spent \in Nat
    BY Facts
  <1>3. Fits(k, Begun(k.due)) /\ Begun(k.due).body = None /\ Begun(k.due).rid = None
        /\ Begun(k.due).at = "begun"
    BY <1>2, BegunFits
  <1>4. Fits(op', http') /\ http'.body = None /\ http'.rid = None /\ http'.at = "begun"
    BY <1>1, <1>3
  <1>5. WaitsForMissing' /\ Reported'
    BY <1>1, GoesOn DEF WaitsForMissing, Reported
  <1> QED BY <1>1, <1>4, <1>5, GoesOn DEF Outcome

\* A method sends a request, or finds that it has no time left for one.
LEMMA AttemptOutcome ==
  ASSUME IInv, Here = {}, NEW k \in Op, k.kind \in DOMAIN WhatOf, Single(k),
         k.wanted \subseteq Minted',
         NEW what, what = WhatOf[k.kind],
         NEW r \in (Rid \cap Minted') \cup {None}, k.kind \in {"send", "call"} => r \in Rid,
         NEW ms \in Int \cup {None}, ms = None <=> k.budget = None,
         k.kind # "send" => Clocked(k, Stall),
         ms # None => k.budget >= ms * Unit - 2 * (Unit - 1) - Stall,
         k.kind \in {"get", "loop"} /\ ms # None => ms >= 0 /\ k.due - ms * Unit < Unit,
         Attempt(k, what, r, ms), cache' = cache,
         k.kind \in {"call", "get"} => k.wanted \cap cache = {},
         k.kind = "loop" => Cardinality(k.wanted \cap cache) < k.need
  PROVE  /\ Outcome
         /\ \/ op' = NoOp /\ result'.status = "invalid" /\ result'.got = {}
            \/ op' = k /\ result' = NoResult
         /\ http'.at # "replied"
  <1>1. CASE Raise(k, "invalid")
    BY <1>1, EndOutcome DEF Raise, NoHttp
  <1>2. CASE /\ ~Rejected(ms) /\ op' = k /\ http' = Ask(what, r, ms)
             /\ result' = NoResult
    <2>1. Fits(k, Ask(what, r, ms)) /\ Ask(what, r, ms).body = None
          /\ Ask(what, r, ms).rid = r /\ Ask(what, r, ms).at = "connecting"
      BY <1>2, AskFits
    <2>2. Fits(op', http') /\ http'.body = None /\ http'.rid = r /\ http'.at = "connecting"
      BY <1>2, <2>1
    <2>3. WaitsForMissing' /\ Reported'
      BY <1>2, GoesOn DEF WaitsForMissing, Reported
    <2> QED BY <1>2, <2>2, <2>3, GoesOn DEF Outcome
  <1> QED BY <1>1, <1>2 DEF Attempt

\* get_response: from the cache, or by polls.
LEMMA BeginGetOutcome ==
  ASSUME IInv, Here = {}, NEW r \in Rid \cap Minted', NEW due \in Time, NEW budget \in Time,
         due = None <=> budget = None,
         due # None => /\ budget <= due + (Unit - 1)
                       /\ budget >= due - (Unit - 1) - Stall
                       /\ budget + http.spent >= -Overrun,
         BeginGet(r, due, budget)
  PROVE  Outcome /\ http'.at \in {"none", "begun"} /\ result'.status \in {"ok", "none"}
  <1> DEFINE k == GetOp(r, due, budget)
  <1>1. /\ k \in Op /\ k.kind = "get" /\ k.wanted = {r} /\ k.need = 1
        /\ k.due = due /\ k.budget = budget
    BY DEF GetOp, Op
  <1>2. CASE r \in cache /\ cache' = cache \ {r} /\ Return(k, {r})
    <2>1. End(k, "ok", {r})
      BY <1>2 DEF Return
    <2> HIDE DEF k
    <2>2. Outcome /\ http' = NoHttp /\ result'.status = "ok"
      BY <1>2, <2>1, EndOutcome
    <2> QED BY <2>2 DEF NoHttp
  <1>3. CASE r \notin cache /\ UNCHANGED cache /\ Begin(k)
    <2> HIDE DEF k
    <2>1. Single(k) /\ Clocked(k, Stall)
      BY <1>1 DEF Single, Clocked
    <2>2. Outcome /\ http'.at = "begun" /\ result' = NoResult
      BY <1>1, <1>3, <2>1, BeginOutcome
    <2> QED BY <2>2 DEF NoResult
  <1> QED BY <1>2, <1>3 DEF BeginGet

\* _loop_until with the responses of c at hand.
LEMMA LoopOutcome ==
  ASSUME IInv, NEW k \in Op, k.kind = "loop", Clocked(k, Stall), k.wanted \subseteq Minted',
         k.budget # None => k.budget + http.spent >= -Overrun,
         NEW c, c = cache \cup Here, Loop(k, c)
  PROVE  Outcome /\ http'.at \in {"none", "begun"} /\ result'.status \in {"ok", "none"}
  <1>1. k.wanted \subseteq Rid /\ k.need \in Nat
    BY DEF Op
  <1>2. CASE Done(k, c) /\ FinishLoop(k, c)
    <2>1. End(k, "ok", k.wanted \cap c) /\ cache' = c \ (k.wanted \cap c)
      BY <1>2 DEF FinishLoop, Return
    <2>2. Outcome /\ http' = NoHttp /\ result'.status = "ok"
      BY <2>1, EndOutcome
    <2> QED BY <2>2 DEF NoHttp
  <1>3. CASE ~Done(k, c) /\ cache' = c /\ Begin(k)
    <2>1. Cardinality(k.wanted \cap c) \in Nat
      BY <1>1, RidFinite
    <2>2. Cardinality(k.wanted \cap cache') < k.need
      BY <1>1, <1>3, <2>1 DEF Done
    <2>3. Single(k)
      BY DEF Single
    <2>4. Outcome /\ http'.at = "begun" /\ result' = NoResult
      BY <1>3, <2>2, <2>3, BeginOutcome
    <2> QED BY <2>4 DEF NoResult
  <1> QED BY <1>2, <1>3 DEF Loop

-------------------------------------------------------------------------------
(* The steps of the client *)

\* A method begins and ends at nothing, or at the beginning of an exchange.
LEMMA ReadyStep ==
  ASSUME IInv, Ready, Outcome, nextId' \in nextId .. MaxRequests,
         UNCHANGED <<closed, server>>
  PROVE  IInv' /\ Keeping
  <1>1. Arrived = Here
    BY NothingHere DEF Ready
  <1>2. closed' \in BOOLEAN /\ UNCHANGED server
    BY DEF IInv, Kept
  <1> QED BY <1>1, <1>2, OutcomeKeeps

\* send_request begins.
LEMMA SendRequestStep ==
  ASSUME IInv, NEW t \in Timeout, SendRequest(t)
  PROVE  IInv' /\ Keeping /\ result'.status \in {"invalid", "none"}
  <1>1. /\ Ready /\ nextId < MaxRequests /\ nextId' = nextId + 1 /\ NewId = nextId + 1
        /\ UNCHANGED <<closed, cache, server>>
    BY DEF SendRequest, NewId
  <1>2. nextId \in Nat /\ MaxRequests \in Nat
    BY Facts, ClientAssumption
  <1>3. NewId \in Rid /\ NewId \in Minted' /\ nextId' \in nextId .. MaxRequests
    BY <1>1, <1>2 DEF Rid, Minted
  <1>4. /\ t \in Int \cup {None} /\ Deadline(t) \in Time /\ (Deadline(t) = None <=> t = None)
        /\ t # None => Deadline(t) = t * Unit /\ Deadline(t) \in Nat
    BY Numbers, DeadlineType
  <1>5. PICK r, d : r = NewId /\ d = Deadline(t)
    OBVIOUS
  <1>6. PICK m : m = [kind |-> "send", wanted |-> {r}, need |-> 0, due |-> None,
                      budget |-> d]
    OBVIOUS
  <1>7. Attempt(m, "post", r, t)
    BY <1>5, <1>6 DEF SendRequest
  <1>8. /\ m \in Op /\ m.kind = "send" /\ m.wanted = {r} /\ m.need = 0 /\ m.budget = d
    BY <1>3, <1>4, <1>5, <1>6 DEF Op, Time
  <1>9. Single(m) /\ m.kind \in DOMAIN WhatOf /\ "post" = WhatOf[m.kind]
    BY <1>8 DEF Single, WhatOf
  <1>10. ASSUME t # None
         PROVE  m.budget >= t * Unit - 2 * (Unit - 1) - Stall
    <2> DEFINE b == t * Unit
    <2>1. m.budget = b /\ b \in Nat
      BY <1>4, <1>5, <1>8, <1>10
    <2> HIDE DEF b
    <2>2. m.budget >= b - 2 * (Unit - 1) - Stall
      BY <2>1, Numbers
    <2> QED BY <2>2 DEF b
  <1>11. Here = {}
    BY <1>1, NothingHere DEF Ready
  <1>12. Outcome /\ (result'.status = "invalid" \/ result' = NoResult)
    <2>1. /\ m.wanted \subseteq Minted' /\ r \in (Rid \cap Minted') \cup {None} /\ r \in Rid
          /\ (t = None <=> m.budget = None) /\ cache' = cache
      BY <1>1, <1>3, <1>4, <1>5, <1>8
    <2>2. m.kind \notin {"call", "get", "loop"} /\ m.kind = "send"
      BY <1>8
    <2> QED BY <1>4, <1>7, <1>8, <1>9, <1>10, <1>11, <2>1, <2>2, AttemptOutcome
  <1>13. IInv' /\ Keeping
    BY <1>1, <1>3, <1>12, ReadyStep
  <1> QED BY <1>12, <1>13 DEF NoResult

\* call begins.
LEMMA CallServiceStep ==
  ASSUME IInv, NEW t \in Timeout, CallService(t)
  PROVE  IInv' /\ Keeping /\ result' = NoResult
  <1>1. /\ Ready /\ nextId < MaxRequests /\ nextId' = nextId + 1 /\ NewId = nextId + 1
        /\ UNCHANGED <<closed, cache, server>>
    BY DEF CallService, NewId
  <1>2. nextId \in Nat /\ MaxRequests \in Nat
    BY Facts, ClientAssumption
  <1>3. NewId \in Rid /\ NewId \in Minted' /\ NewId \notin Minted
        /\ nextId' \in nextId .. MaxRequests
    BY <1>1, <1>2 DEF Rid, Minted
  <1>4. /\ Deadline(t) \in Time
        /\ Deadline(t) # None => Deadline(t) \in Nat
    BY Numbers, DeadlineType
  <1>5. PICK r, d : r = NewId /\ d = Deadline(t)
    OBVIOUS
  <1>6. PICK m : m = [kind |-> "call", wanted |-> {r}, need |-> 1, due |-> d, budget |-> d]
    OBVIOUS
  <1>7. Begin(m)
    BY <1>5, <1>6 DEF CallService
  <1>8. /\ m \in Op /\ m.kind = "call" /\ m.wanted = {r} /\ m.need = 1
        /\ m.due = d /\ m.budget = d
    BY <1>3, <1>4, <1>5, <1>6 DEF Op
  <1>9. Single(m) /\ Clocked(m, Stall)
    BY <1>3, <1>4, <1>5, <1>8, Numbers DEF Single, Clocked
  <1>10. Here = {} /\ http.spent = 0
    BY <1>1, NothingHere DEF Ready
  <1>11. m.budget # None => m.budget + http.spent >= -Overrun
    BY <1>4, <1>5, <1>8, <1>10, Numbers
  <1>12. cache' = cache \cup Here /\ m.wanted \cap cache' = {} /\ m.wanted \subseteq Minted'
    BY <1>1, <1>3, <1>5, <1>8, <1>10, Facts
  <1>13. Outcome /\ result' = NoResult
    BY <1>7, <1>8, <1>9, <1>11, <1>12, BeginOutcome
  <1> QED BY <1>1, <1>3, <1>13, ReadyStep

\* get_response begins.
LEMMA GetResponseStep ==
  ASSUME IInv, NEW r \in Minted, NEW t \in Timeout, GetResponse(r, t)
  PROVE  IInv' /\ Keeping /\ result'.status \in {"ok", "none"}
  <1>1. Ready /\ nextId' = nextId /\ UNCHANGED <<closed, server>>
    BY DEF GetResponse
  <1>2. /\ Deadline(t) \in Time
        /\ Deadline(t) # None => Deadline(t) \in Nat
    BY Numbers, DeadlineType
  <1>3. PICK d : d = Deadline(t)
    OBVIOUS
  <1>4. BeginGet(r, d, d) /\ d \in Time
    BY <1>2, <1>3 DEF GetResponse
  <1>5. Here = {} /\ http.spent = 0 /\ r \in Rid \cap Minted' /\ nextId' \in nextId .. MaxRequests
    BY <1>1, NothingHere, Facts, ClientAssumption DEF Ready, Minted
  <1>6. ASSUME d # None
        PROVE  d <= d + (Unit - 1) /\ d >= d - (Unit - 1) - Stall
               /\ d + http.spent >= -Overrun
    BY <1>2, <1>3, <1>5, <1>6, Numbers
  <1>7. Outcome /\ result'.status \in {"ok", "none"}
    BY <1>4, <1>5, <1>6, BeginGetOutcome
  <1> QED BY <1>1, <1>5, <1>7, ReadyStep

\* One of the methods that loop begins.
LEMMA GetResponsesStep ==
  ASSUME IInv, NEW wanted \in SUBSET Minted, NEW need \in Nat, NEW t \in Timeout,
         GetResponses(wanted, need, t)
  PROVE  IInv' /\ Keeping /\ result'.status \in {"ok", "none"}
  <1>1. Ready /\ nextId' = nextId /\ UNCHANGED <<closed, server>>
    BY DEF GetResponses
  <1>2. /\ Deadline(t) \in Time
        /\ Deadline(t) # None => Deadline(t) \in Nat
    BY Numbers, DeadlineType
  <1>3. PICK d, c : d = Deadline(t) /\ c = cache
    OBVIOUS
  <1>4. PICK k : k = [kind |-> "loop", wanted |-> wanted, need |-> need,
                      due |-> d, budget |-> d]
    OBVIOUS
  <1>5. Loop(k, c)
    BY <1>3, <1>4 DEF GetResponses
  <1>6. /\ k \in Op /\ k.kind = "loop" /\ k.due = d /\ k.budget = d /\ k.wanted = wanted
    BY <1>2, <1>3, <1>4, Facts DEF Op
  <1>7. Clocked(k, Stall)
    BY <1>2, <1>3, <1>6, Numbers DEF Clocked
  <1>8. c = cache \cup Here /\ http.spent = 0 /\ k.wanted \subseteq Minted'
        /\ nextId' \in nextId .. MaxRequests
    BY <1>1, <1>3, <1>6, NothingHere, Facts, ClientAssumption DEF Ready, Minted
  <1>9. k.budget # None => k.budget + http.spent >= -Overrun
    BY <1>2, <1>3, <1>6, <1>8, Numbers
  <1>10. Outcome /\ result'.status \in {"ok", "none"}
    BY <1>5, <1>6, <1>7, <1>8, <1>9, LoopOutcome
  <1> QED BY <1>1, <1>8, <1>10, ReadyStep

\* close ends what the server has for the client.
LEMMA CloseStep ==
  ASSUME IInv, Close
  PROVE  IInv' /\ Keeping
  <1>1. /\ UNCHANGED <<nextId, cache, op, http, result, work, late, stray>>
        /\ closed' = TRUE /\ box' \in {<<>>, box} /\ Idle
    BY DEF Close, Ready
  <1>2. Kept' /\ Fits(op', http') /\ Reported' /\ WaitsForMissing'
    BY <1>1 DEF IInv, Kept, Reported, WaitsForMissing, Idle
  <1>3. Known'
    <2>1. Known /\ Minted' = Minted /\ <<>> \in Seq(Minted)
      BY <1>1 DEF IInv, Minted
    <2> QED BY <1>1, <2>1 DEF Known
  <1>4. Arrived = {} /\ Returned = {}
    BY <1>1, NothingHere DEF Returned
  <1> QED BY <1>1, <1>2, <1>3, <1>4 DEF IInv, Keeping

\* A method that goes on or ends after it looked at its deadline.
LEMMA LookStep ==
  ASSUME IInv, http.at = "begun", Outcome, UNCHANGED <<nextId, closed, server>>
  PROVE  IInv' /\ Keeping
  <1>1. Arrived = Here
    BY Facts
  <1>2. closed' \in BOOLEAN /\ nextId' \in nextId .. MaxRequests /\ UNCHANGED server
    BY Facts, ClientAssumption DEF IInv, Kept
  <1> QED BY <1>1, <1>2, OutcomeKeeps

\* What remains of a deadline.
LEMMA RemainingType ==
  ASSUME NEW due \in Time
  PROVE  /\ Remaining(due) \in Int \cup {None}
         /\ Remaining(due) = None <=> due = None
         /\ due # None => /\ due \in Int /\ Remaining(due) \in Int
                          /\ Remaining(due) * Unit \in Int
                          /\ due - Remaining(due) * Unit \in -(Unit - 1) .. Unit - 1
                          /\ InTime(due) <=> Remaining(due) >= 0
                          /\ InTime(due) <=> due > -Unit
         /\ due = None => InTime(due)
  <1>1. CASE due = None
    BY <1>1 DEF Remaining, InTime
  <1>2. CASE due \in Int
    BY <1>2, Truncation, Numbers DEF Remaining, InTime
  <1> QED BY <1>1, <1>2 DEF Time

\* The block=1 POST of call.
LEMMA PostBlockingStep ==
  ASSUME IInv, PostBlocking
  PROVE  IInv' /\ Keeping /\ result'.status \in {"invalid", "none"}
  <1>1. /\ http.at = "begun" /\ op.kind = "call" /\ Here = {}
        /\ UNCHANGED <<nextId, closed, cache, server>>
    BY Facts DEF PostBlocking, AboutTo
  <1>2. PICK k : k = op
    OBVIOUS
  <1>3. PICK r \in k.wanted : Attempt(k, "block", r, Remaining(k.due))
    BY <1>2 DEF PostBlocking, Attempt, Raise, End, Remaining
  <1>4. PICK ms : ms = Remaining(k.due)
    OBVIOUS
  <1>5. /\ k \in Op /\ k.kind = "call" /\ Single(k) /\ Clocked(k, Stall)
        /\ k.due \in Time /\ k.budget \in Time
        /\ k.wanted \subseteq Minted' /\ k.wanted \subseteq Rid
        /\ k.wanted \cap cache = {}
    <2>1. op \in Op /\ Single(op) /\ Clocked(op, http.cut)
      BY <1>1, Facts DEF Timed, Shaped
    <2>2. op.wanted \subseteq Minted /\ Minted' = Minted /\ Minted \subseteq Rid
      BY <1>1, Facts DEF Minted
    <2>3. op.wanted \cap cache = {}
      BY <1>1 DEF IInv, Reported
    <2>4. Clocked(op, Stall)
      BY <1>1, <2>1 DEF Clocked
    <2> QED BY <1>1, <1>2, <2>1, <2>2, <2>3, <2>4 DEF Op
  <1>6. /\ ms \in Int \cup {None} /\ (ms = None <=> k.budget = None)
        /\ ms # None => k.budget >= ms * Unit - 2 * (Unit - 1) - Stall
    <2>1. ms \in Int \cup {None} /\ (ms = None <=> k.due = None)
      BY <1>4, <1>5, RemainingType
    <2>2. k.due = None <=> k.budget = None
      BY <1>5 DEF Clocked
    <2>3. ASSUME ms # None
          PROVE  k.budget >= ms * Unit - 2 * (Unit - 1) - Stall
      <3> DEFINE m == ms * Unit
      <3>1. m \in Int /\ k.due \in Int /\ k.due - m \in -(Unit - 1) .. Unit - 1
        BY <1>4, <1>5, <2>1, <2>3, RemainingType
      <3>2. k.budget = k.due
        BY <1>5, <2>1, <2>3 DEF Clocked
      <3> HIDE DEF m
      <3>3. k.budget >= m - 2 * (Unit - 1) - Stall
        BY <3>1, <3>2, Numbers
      <3> QED BY <3>3 DEF m
    <2> QED BY <2>1, <2>2, <2>3
  <1>7. Outcome /\ (result'.status = "invalid" \/ result' = NoResult)
    <2>1. Attempt(k, "block", r, ms) /\ k.kind \in DOMAIN WhatOf /\ "block" = WhatOf[k.kind]
      BY <1>3, <1>4, <1>5 DEF WhatOf
    <2>2. r \in (Rid \cap Minted') \cup {None} /\ r \in Rid /\ cache' = cache
      BY <1>1, <1>3, <1>5
    <2>3. k.kind \notin {"get", "loop"}
      BY <1>5
    <2> QED BY <1>1, <1>5, <1>6, <2>1, <2>2, <2>3, AttemptOutcome
  <1>8. IInv' /\ Keeping
    BY <1>1, <1>7, LookStep
  <1> QED BY <1>7, <1>8 DEF NoResult

\* The poll of get_response and of _loop_until, or the end of their time.
LEMMA PollOneStep ==
  ASSUME IInv, PollOne
  PROVE  /\ IInv' /\ Keeping
         /\ \/ result'.status \in {"invalid", "none"}
            \/ result'.status = "elapsed" /\ op.due \in Int /\ op.due <= -Unit
  <1>1. /\ http.at = "begun" /\ op.kind \in {"get", "loop"} /\ Here = {}
        /\ UNCHANGED <<nextId, closed, cache, server>>
    BY Facts DEF PollOne, AboutTo
  <1>2. PICK k : k = op
    OBVIOUS
  <1>3. /\ k \in Op /\ k.kind \in {"get", "loop"} /\ Single(k) /\ Clocked(k, Stall)
        /\ k.due \in Time /\ k.budget \in Time /\ k.wanted \subseteq Minted'
        /\ k.kind = "get" => k.wanted \cap cache = {}
        /\ k.kind = "loop" => Cardinality(k.wanted \cap cache) < k.need
    <2>1. op \in Op /\ Single(op) /\ Clocked(op, http.cut)
      BY <1>1, Facts DEF Timed, Shaped
    <2>2. op.wanted \subseteq Minted /\ Minted' = Minted
      BY <1>1, Facts DEF Minted
    <2>3. Clocked(op, Stall)
      BY <1>1, <2>1 DEF Clocked
    <2>4. WaitsForMissing
      BY DEF IInv
    <2> QED BY <1>1, <1>2, <2>1, <2>2, <2>3, <2>4 DEF Op, WaitsForMissing
  <1>4. CASE ~InTime(op.due) /\ Raise(op, "elapsed")
    <2>1. End(op, "elapsed", {})
      BY <1>4 DEF Raise
    <2>2. {} \subseteq cache \cup Here /\ cache' = (cache \cup Here) \ {}
      BY <1>1
    <2>3. Outcome /\ result'.status = "elapsed"
      BY <2>1, <2>2, EndOutcome
    <2>4. k.due \in Int /\ ~(k.due > -Unit)
      BY <1>2, <1>3, <1>4, RemainingType
    <2>5. op.due \in Int /\ op.due <= -Unit
      BY <1>2, <2>4, Numbers
    <2> QED BY <1>1, <2>3, <2>5, LookStep
  <1>5. CASE InTime(op.due) /\ Attempt(op, "poll", None, Remaining(op.due))
    <2>1. PICK ms : ms = Remaining(k.due)
      OBVIOUS
    <2>2. Attempt(k, "poll", None, ms) /\ InTime(k.due)
      BY <1>2, <1>5, <2>1 DEF Attempt, Raise, End
    <2>3. /\ ms \in Int \cup {None} /\ (ms = None <=> k.budget = None)
          /\ ms # None => k.budget >= ms * Unit - 2 * (Unit - 1) - Stall
          /\ ms # None => ms >= 0 /\ k.due - ms * Unit < Unit
      <3>1. ms \in Int \cup {None} /\ (ms = None <=> k.due = None)
        BY <1>3, <2>1, RemainingType
      <3>2. k.due = None <=> k.budget = None
        BY <1>3 DEF Clocked
      <3>3. ASSUME ms # None
            PROVE  /\ k.budget >= ms * Unit - 2 * (Unit - 1) - Stall
                   /\ ms >= 0 /\ k.due - ms * Unit < Unit
        <4> DEFINE m == ms * Unit
        <4>1. /\ m \in Int /\ k.due \in Int /\ k.due - m \in -(Unit - 1) .. Unit - 1
              /\ ms >= 0
          BY <1>3, <2>1, <2>2, <3>1, <3>3, RemainingType
        <4>2. k.budget >= k.due - (Unit - 1) - Stall /\ k.budget \in Int
          BY <1>3, <3>1, <3>2, <3>3 DEF Clocked, Time
        <4> HIDE DEF m
        <4>3. k.budget >= m - 2 * (Unit - 1) - Stall /\ k.due - m < Unit
          BY <4>1, <4>2, Numbers
        <4> QED BY <4>1, <4>3 DEF m
      <3> QED BY <3>1, <3>2, <3>3
    <2>4. k.kind \in DOMAIN WhatOf /\ "poll" = WhatOf[k.kind]
      BY <1>3 DEF WhatOf
    <2>5. None \in (Rid \cap Minted') \cup {None} /\ k.kind \notin {"send", "call"} /\ cache' = cache
      BY <1>1, <1>3
    <2>6. Outcome /\ (result'.status = "invalid" \/ result' = NoResult)
      BY <1>1, <1>3, <2>2, <2>3, <2>4, <2>5, AttemptOutcome
    <2>7. IInv' /\ Keeping
      BY <1>1, <2>6, LookStep
    <2> QED BY <2>6, <2>7 DEF NoResult
  <1> QED BY <1>4, <1>5 DEF PollOne

\* call looks at its deadline again, and has a whole number of milliseconds left.
LEMMA FallBackStep ==
  ASSUME IInv, FallBack
  PROVE  /\ IInv' /\ Keeping
         /\ \/ result'.status = "none"
            \/ result'.status = "elapsed" /\ op.due \in Int /\ op.due <= -Unit
  <1>1. /\ http.at = "begun" /\ op.kind = "back" /\ Here = {}
        /\ UNCHANGED <<nextId, closed, cache, server>>
    BY Facts DEF FallBack, AboutTo
  <1>2. PICK k : k = op
    OBVIOUS
  <1>3. /\ k \in Op /\ k.kind = "back" /\ Single(k)
        /\ k.due \in Time /\ k.budget \in Time /\ k.wanted \subseteq Minted'
        /\ k.due = None <=> k.budget = None
        /\ k.due # None => k.budget = k.due
    <2>1. op \in Op /\ Single(op) /\ Clocked(op, http.cut)
      BY <1>1, Facts DEF Timed, Shaped
    <2>2. op.wanted \subseteq Minted /\ Minted' = Minted
      BY <1>1, Facts DEF Minted
    <2> QED BY <1>1, <1>2, <2>1, <2>2 DEF Op, Clocked
  <1>4. CASE ~InTime(op.due) /\ Raise(op, "elapsed")
    <2>1. End(op, "elapsed", {})
      BY <1>4 DEF Raise
    <2>2. {} \subseteq cache \cup Here /\ cache' = (cache \cup Here) \ {}
      BY <1>1
    <2>3. Outcome /\ result'.status = "elapsed"
      BY <2>1, <2>2, EndOutcome
    <2>4. k.due \in Int /\ ~(k.due > -Unit)
      BY <1>2, <1>3, <1>4, RemainingType
    <2>5. op.due \in Int /\ op.due <= -Unit
      BY <1>2, <2>4, Numbers
    <2> QED BY <1>1, <2>3, <2>5, LookStep
  <1>5. CASE /\ InTime(op.due)
             /\ Begin([op EXCEPT !.kind = "again",
                                 !.due = Deadline(FallbackTimeout(Remaining(op.due)))])
    <2>1. PICK ms, d : ms = Remaining(k.due) /\ d = Deadline(ms)
      OBVIOUS
    <2>2. PICK a : a = [k EXCEPT !.kind = "again", !.due = d]
      OBVIOUS
    <2>3. Begin(a) /\ InTime(k.due)
      <3>1. a = [op EXCEPT !.kind = "again",
                           !.due = Deadline(FallbackTimeout(Remaining(op.due)))]
        BY <1>2, <2>1, <2>2 DEF FallbackTimeout
      <3> QED BY <1>2, <1>5, <3>1 DEF Begin
    <2>4. /\ ms = None <=> k.due = None
          /\ ms # None => ms \in Nat
      BY <1>3, <2>1, <2>3, RemainingType
    <2>5. d \in Time /\ (d = None <=> ms = None) /\ (ms # None => d = ms * Unit /\ d \in Nat)
      BY <2>1, <2>4, DeadlineType
    <2>6. /\ a \in Op /\ a.kind = "again" /\ a.wanted = k.wanted /\ a.need = k.need
          /\ a.due = d /\ a.budget = k.budget
      BY <1>3, <2>2, <2>5 DEF Op
    <2>7. d # None => /\ k.budget \in Int /\ d \in Nat
                      /\ k.budget <= d + (Unit - 1) /\ k.budget >= d - (Unit - 1)
      <3> SUFFICES ASSUME d # None
                   PROVE  /\ k.budget \in Int /\ d \in Nat
                          /\ k.budget <= d + (Unit - 1) /\ k.budget >= d - (Unit - 1)
        OBVIOUS
      <3>1. k.due \in Int /\ k.due - d \in -(Unit - 1) .. Unit - 1 /\ d \in Nat
        BY <1>3, <2>1, <2>4, <2>5, RemainingType
      <3> QED BY <1>3, <2>4, <2>5, <3>1, Numbers
    <2>8. Single(a)
      BY <1>3, <2>6 DEF Single
    <2>9. Clocked(a, Stall)
      <3>1. a.due = None <=> a.budget = None
        BY <1>3, <2>4, <2>5, <2>6
      <3> QED BY <2>6, <2>7, <3>1, Numbers DEF Clocked
    <2>10. a.budget # None => a.budget + http.spent >= -Overrun
      <3>1. http.spent \in Nat /\ (a.budget # None => d # None)
        BY <1>3, <2>4, <2>5, <2>6, Facts
      <3>2. PICK n : n = http.spent
        OBVIOUS
      <3>3. PICK b : b = Buffer * Unit
        OBVIOUS
      <3>4. b \in Nat /\ Overrun = b + 2 * (Unit - 1) + Stall
        BY <3>3, Numbers
      <3> QED BY <2>6, <2>7, <3>1, <3>4, Numbers
    <2>11. a.wanted \subseteq Minted' /\ cache' = cache \cup Here /\ a.kind \notin {"call", "get", "loop"}
      BY <1>1, <1>3, <2>6
    <2>12. Outcome /\ result' = NoResult
      BY <2>3, <2>6, <2>8, <2>9, <2>10, <2>11, BeginOutcome
    <2>13. IInv' /\ Keeping
      BY <1>1, <2>12, LookStep
    <2> QED BY <2>12, <2>13 DEF NoResult
  <1> QED BY <1>4, <1>5 DEF FallBack

\* The second phase of call becomes a get_response.
LEMMA FallBackGetStep ==
  ASSUME IInv, FallBackGet
  PROVE  IInv' /\ Keeping /\ result'.status \in {"ok", "none"}
  <1>1. /\ http.at = "begun" /\ op.kind = "again" /\ Here = {}
        /\ UNCHANGED <<nextId, closed, server>>
    BY Facts DEF FallBackGet, AboutTo
  <1>2. PICK due, budget : due = op.due /\ budget = op.budget
    OBVIOUS
  <1>3. PICK r \in op.wanted : BeginGet(r, due, budget)
    BY <1>2 DEF FallBackGet, BeginGet, GetOp, Return, End, Begin, Begun
  <1>4. due \in Time /\ budget \in Time /\ r \in Rid \cap Minted'
    <2>1. op \in Op /\ op.wanted \subseteq Minted /\ Minted' = Minted /\ Minted \subseteq Rid
      BY <1>1, Facts DEF Minted
    <2> QED BY <1>2, <1>3, <2>1 DEF Op
  <1>5. due = None <=> budget = None
    BY <1>1, <1>2, Facts DEF Timed, Clocked
  <1>6. ASSUME due # None
        PROVE  /\ budget <= due + (Unit - 1)
               /\ budget >= due - (Unit - 1) - Stall
               /\ budget + http.spent >= -Overrun
    <2>1. /\ due \in Int /\ budget \in Int /\ http.cut \in Int /\ http.cut >= 0
          /\ due >= 0 /\ budget >= due - (Unit - 1) - Stall + http.cut
          /\ budget <= due + (Unit - 1)
      BY <1>1, <1>2, <1>4, <1>5, <1>6, Facts DEF Timed, Clocked, Time, Http
    <2>2. PICK n, c : n = http.spent /\ c = http.cut
      OBVIOUS
    <2>3. n \in Nat
      BY <2>2, Facts
    <2>4. PICK b : b = Buffer * Unit
      OBVIOUS
    <2>5. b \in Nat /\ Overrun = b + 2 * (Unit - 1) + Stall
      BY <2>4, Numbers
    <2>6. budget >= due - (Unit - 1) - Stall /\ budget + n >= -Overrun
      BY <2>1, <2>2, <2>3, <2>5, Numbers
    <2> QED BY <2>1, <2>2, <2>6
  <1>7. Outcome /\ result'.status \in {"ok", "none"}
    BY <1>1, <1>3, <1>4, <1>5, <1>6, BeginGetOutcome
  <1> QED BY <1>1, <1>7, LookStep

\* A method that goes on or ends with a reply.
LEMMA ReceiveStep ==
  ASSUME IInv, http.at = "replied", http'.at \in {"none", "begun"},
         result'.status # "broken", Outcome, UNCHANGED <<nextId, closed, server>>
  PROVE  IInv' /\ Keeping
  <1>1. Arrived = Here
    BY DEF Arrived, Here
  <1>2. closed' \in BOOLEAN /\ nextId' \in nextId .. MaxRequests /\ UNCHANGED server
    BY Facts, ClientAssumption DEF IInv, Kept
  <1> QED BY <1>1, <1>2, OutcomeKeeps

\* A method ends with a reply: with a response that was not in the cache, or none.
LEMMA ReceiveEnds ==
  ASSUME IInv, http.at = "replied", NEW k, NEW got, got = Here, got \cap cache = {},
         NEW status \in {"ok", "empty", "full"},
         End(k, status, got), UNCHANGED <<nextId, closed, cache, server>>
  PROVE  IInv' /\ Keeping /\ result'.status = status
  <1>1. cache' = (cache \cup Here) \ got
    OBVIOUS
  <1>2. Outcome /\ http' = NoHttp /\ result'.status = status
    BY <1>1, EndOutcome
  <1>3. http'.at = "none"
    BY <1>2 DEF NoHttp
  <1> QED BY <1>2, <1>3, ReceiveStep

\* A method goes on after a reply.
LEMMA ReceiveBegins ==
  ASSUME IInv, http.at = "replied", NEW k \in Op, k.kind \in {"back", "get", "loop"},
         k.wanted = op.wanted, k.need = op.need, k.due = op.due, k.budget = op.budget,
         op.kind \in {"call", "get", "loop"},
         k.kind = (IF op.kind = "call" THEN "back" ELSE op.kind),
         Begin(k), cache' = cache \cup Here, UNCHANGED <<nextId, closed, server>>,
         k.kind = "get" => k.wanted \cap cache' = {},
         k.kind = "loop" => Cardinality(k.wanted \cap cache') < k.need
  PROVE  IInv' /\ Keeping /\ result' = NoResult
  <1>1. /\ op \in Op /\ Shaped(op, http) /\ Clocked(op, http.cut)
        /\ op.wanted \subseteq Minted /\ Minted' = Minted
        /\ op.budget # None => op.budget + http.spent >= -Overrun
    <2>1. http.at \in Exchange
      BY DEF Exchange
    <2> QED BY <2>1, Facts DEF Timed, Minted
  <1>2. Single(k)
    BY <1>1 DEF Shaped, Single
  <1>3. Clocked(k, Stall)
    BY <1>1 DEF Clocked
  <1>4. k.wanted \subseteq Minted' /\ (k.budget # None => k.budget + http.spent >= -Overrun)
    BY <1>1
  <1>5. Outcome /\ http'.at = "begun" /\ result' = NoResult
    BY <1>2, <1>3, <1>4, BeginOutcome
  <1>6. result'.status # "broken"
    BY <1>5 DEF NoResult
  <1> QED BY <1>5, <1>6, ReceiveStep

\* send_request ends.
LEMMA SendReturnsStep ==
  ASSUME IInv, SendReturns
  PROVE  IInv' /\ Keeping /\ result'.status \in {"ok", "full"}
  <1>1. http.at = "replied" /\ UNCHANGED <<nextId, closed, cache, server>>
    BY DEF SendReturns, Replied
  <1>2. CASE http.status = 202 /\ Return(op, {})
    <2>1. Here = {} /\ {} \cap cache = {} /\ End(op, "ok", {})
      BY <1>2, Facts DEF Return
    <2> QED BY <1>1, <2>1, ReceiveEnds
  <1>3. CASE http.status = 503 /\ Raise(op, "full")
    <2>1. Here = {} /\ {} \cap cache = {} /\ End(op, "full", {})
      BY <1>3, Facts DEF Raise
    <2> QED BY <1>1, <2>1, ReceiveEnds
  <1> QED BY <1>2, <1>3 DEF SendReturns

\* call goes on with the reply to its POST.
LEMMA CallReturnsStep ==
  ASSUME IInv, CallReturns
  PROVE  IInv' /\ Keeping /\ result'.status \in {"ok", "full", "none"}
  <1>1. /\ op.kind = "call" /\ http.at = "replied" /\ op \in Op
        /\ op.wanted \cap cache = {} /\ UNCHANGED <<nextId, closed, server>>
    BY Facts DEF CallReturns, Replied, IInv, Reported
  <1>2. PICK k : k = [op EXCEPT !.kind = "back"]
    OBVIOUS
  <1>3. /\ k \in Op /\ k.kind = "back" /\ k.wanted = op.wanted /\ k.need = op.need
        /\ k.due = op.due /\ k.budget = op.budget
    BY <1>1, <1>2 DEF Op
  <1>4. CASE http.status = 503 /\ Raise(op, "full") /\ UNCHANGED cache
    <2>1. Here = {} /\ {} \cap cache = {} /\ End(op, "full", {})
      BY <1>4, Facts DEF Raise
    <2> QED BY <1>1, <1>4, <2>1, ReceiveEnds
  <1>5. CASE /\ http.status = 200 /\ IsOwn(http.body)
             /\ Return(op, {http.body}) /\ UNCHANGED cache
    <2>1. Here = {http.body} /\ Here \cap cache = {} /\ End(op, "ok", Here)
      BY <1>1, <1>5, Facts DEF IsOwn, Return
    <2> QED BY <1>1, <1>5, <2>1, ReceiveEnds
  <1>6. CASE /\ http.status = 200 /\ ~IsOwn(http.body)
             /\ cache' = Cached(cache, http.body)
             /\ Begin([op EXCEPT !.kind = "back"])
    <2>1. cache' = cache \cup Here /\ Begin(k)
      BY <1>1, <1>2, <1>6, Facts DEF Cached, Begin
    <2>2. result' = NoResult /\ IInv' /\ Keeping
      BY <1>1, <1>3, <2>1, ReceiveBegins
    <2> QED BY <2>2 DEF NoResult
  <1>7. CASE /\ http.status = 202 /\ Begin([op EXCEPT !.kind = "back"])
             /\ UNCHANGED cache
    <2>1. cache' = cache \cup Here /\ Begin(k)
      BY <1>1, <1>2, <1>7, Facts DEF Begin
    <2>2. result' = NoResult /\ IInv' /\ Keeping
      BY <1>1, <1>3, <2>1, ReceiveBegins
    <2> QED BY <2>2 DEF NoResult
  <1> QED BY <1>4, <1>5, <1>6, <1>7 DEF CallReturns

\* A poll came back without a response.
LEMMA NoResponseStep ==
  ASSUME IInv, op.kind \in {"get", "loop"}, http.at = "replied", NoResponse,
         UNCHANGED <<nextId, closed, server>>
  PROVE  /\ IInv' /\ Keeping
         /\ \/ result'.status = "none"
            \/ result'.status = "empty" /\ op.due # None /\ op.due < Unit
  <1>1. Here = {} /\ op \in Op /\ UNCHANGED cache /\ http.status = 204 /\ Timed(op, http)
    BY Facts DEF NoResponse
  <1>2. CASE GivesUp /\ Raise(op, "empty")
    <2>1. {} \cap cache = {} /\ End(op, "empty", {})
      BY <1>2 DEF Raise
    <2>2. IInv' /\ Keeping /\ result'.status = "empty"
      BY <1>1, <2>1, ReceiveEnds
    <2>3. op.due # None /\ op.due < Unit
      BY <1>1, <1>2 DEF GivesUp, Timed
    <2> QED BY <2>2, <2>3
  <1>3. CASE ~GivesUp /\ Begin(op)
    <2>1. PICK k : k = op
      OBVIOUS
    <2>2. Begin(k) /\ k \in Op /\ cache' = cache \cup Here
      BY <1>1, <1>3, <2>1 DEF Begin
    <2>3. /\ k.kind = "get" => k.wanted \cap cache' = {}
          /\ k.kind = "loop" => Cardinality(k.wanted \cap cache') < k.need
      BY <1>1, <2>1 DEF IInv, WaitsForMissing
    <2>4. result' = NoResult /\ IInv' /\ Keeping
      BY <2>1, <2>2, <2>3, ReceiveBegins
    <2> QED BY <2>4 DEF NoResult
  <1> QED BY <1>2, <1>3 DEF NoResponse

\* get_response goes on with the reply to its poll.
LEMMA GetReturnsStep ==
  ASSUME IInv, GetReturns
  PROVE  /\ IInv' /\ Keeping
         /\ \/ result'.status \in {"ok", "none"}
            \/ result'.status = "empty" /\ op.due # None /\ op.due < Unit
  <1>1. /\ op.kind = "get" /\ http.at = "replied" /\ op \in Op
        /\ op.wanted \cap cache = {} /\ UNCHANGED <<nextId, closed, server>>
    BY Facts DEF GetReturns, Replied, IInv, WaitsForMissing
  <1>2. CASE NoResponse
    BY <1>1, <1>2, NoResponseStep
  <1>3. CASE /\ http.status = 200 /\ IsOwn(http.body)
             /\ Return(op, {http.body}) /\ UNCHANGED cache
    <2>1. Here = {http.body} /\ Here \cap cache = {} /\ End(op, "ok", Here)
      BY <1>1, <1>3, Facts DEF IsOwn, Return
    <2> QED BY <1>1, <1>3, <2>1, ReceiveEnds
  <1>4. CASE /\ http.status = 200 /\ ~IsOwn(http.body)
             /\ cache' = Cached(cache, http.body) /\ Begin(op)
    <2>1. PICK k : k = op
      OBVIOUS
    <2>2. Begin(k) /\ k \in Op /\ cache' = cache \cup Here /\ k.wanted \cap cache' = {}
      BY <1>1, <1>4, <2>1, Facts DEF Begin, Cached, IsOwn
    <2>3. result' = NoResult /\ IInv' /\ Keeping
      BY <1>1, <2>1, <2>2, ReceiveBegins
    <2> QED BY <2>3 DEF NoResult
  <1> QED BY <1>2, <1>3, <1>4 DEF GetReturns

\* _loop_until goes on with the reply to its poll.
LEMMA LoopReturnsStep ==
  ASSUME IInv, LoopReturns
  PROVE  /\ IInv' /\ Keeping
         /\ \/ result'.status \in {"ok", "none"}
            \/ result'.status = "empty" /\ op.due # None /\ op.due < Unit
  <1>1. /\ op.kind = "loop" /\ http.at = "replied" /\ op \in Op
        /\ UNCHANGED <<nextId, closed, server>>
    BY Facts DEF LoopReturns, Replied
  <1>2. CASE NoResponse
    BY <1>1, <1>2, NoResponseStep
  <1>3. CASE http.status = 200 /\ Loop(op, Cached(cache, http.body))
    <2>1. PICK k, c : k = op /\ c = cache \cup Here
      OBVIOUS
    <2>2. Loop(k, c)
      BY <1>1, <1>3, <2>1, Facts
         DEF Cached, Loop, FinishLoop, Return, End, Begin, Done
    <2>3. /\ k \in Op /\ k.kind = "loop" /\ Clocked(k, Stall) /\ k.wanted \subseteq Minted'
          /\ k.budget # None => k.budget + http.spent >= -Overrun
      <3>1. Clocked(op, http.cut) /\ op.wanted \subseteq Minted /\ Minted' = Minted
            /\ http.at \in Exchange
        BY <1>1, Facts DEF Timed, Minted, Exchange
      <3> QED BY <1>1, <2>1, <3>1, Facts DEF Clocked
    <2>4. Outcome /\ http'.at \in {"none", "begun"} /\ result'.status \in {"ok", "none"}
      BY <2>1, <2>2, <2>3, LoopOutcome
    <2> QED BY <1>1, <2>4, ReceiveStep
  <1> QED BY <1>2, <1>3 DEF LoopReturns

\* The exchange breaks.
LEMMA BreakStep ==
  ASSUME IInv, Break
  PROVE  IInv' /\ Keeping /\ result'.status = "broken"
  <1>1. /\ UNCHANGED <<nextId, closed, cache, work, box>>
        /\ op' = NoOp /\ http' = NoHttp /\ result'.status = "broken" /\ result'.got = {}
    BY DEF Break, Raise, End
  <1>2. Minted' = Minted /\ Known /\ Kept
    BY <1>1 DEF IInv, Minted
  <1>3. stray' \in 0 .. MaxStray
    BY <1>2, ClientAssumption DEF Break, Kept
  <1>4. late' \subseteq Minted \X {"post", "block"}
    <2>1. CASE http.at = "asked" /\ http.what # "poll"
      <3>1. op.kind \in DOMAIN WhatOf /\ http.what = WhatOf[op.kind]
            /\ (op.kind \in {"send", "call"} => http.rid \in Rid)
        BY <2>1, Facts DEF Shaped, Exchange
      <3>2. http.what \in {"post", "block"} /\ http.rid \in Rid
        BY <2>1, <3>1 DEF WhatOf
      <3>3. http.rid \in Minted
        BY <1>2, <3>2, Numbers DEF Known, Rid
      <3> QED BY <1>2, <2>1, <3>2, <3>3 DEF Break, Known
    <2>2. CASE ~(http.at = "asked" /\ http.what # "poll")
      BY <1>2, <2>2 DEF Break, Known
    <2> QED BY <2>1, <2>2
  <1>5. Fits(op', http')
    BY <1>1, NothingFits
  <1>6. Kept' /\ Known' /\ Reported' /\ WaitsForMissing'
    BY <1>1, <1>2, <1>3, <1>4 DEF Kept, Known, Reported, WaitsForMissing, NoOp, NoHttp, Idle
  <1>7. Arrived = {} /\ Returned = {}
    BY <1>1 DEF Arrived, Returned
  <1> QED BY <1>1, <1>5, <1>6, <1>7 DEF IInv, Keeping

-------------------------------------------------------------------------------
(* The steps of the network, the server, the services and time *)

\* A step that is not the client's keeps what is about the client only.
LEMMA ServerKeeps ==
  ASSUME IInv, UNCHANGED restOfClient, Fits(op, http'),
         http'.rid \in Minted \cup {None}, http'.body \in Minted \cup {None},
         http.at = "replied" => http'.at = "replied",
         work' \in [Rid -> Nat], \A r \in Rid : work'[r] > 0 => r \in Minted,
         box' \in Seq(Minted), late' \subseteq late, stray' \in 0 .. MaxStray
  PROVE  IInv' /\ Keeping
  <1>1. Kept /\ Known /\ Reported /\ WaitsForMissing
    BY DEF IInv
  <1>2. UNCHANGED <<nextId, closed, cache, op, result>> /\ Minted' = Minted
    BY DEF restOfClient, Minted
  <1>3. Kept' /\ Known' /\ Fits(op', http')
    BY <1>1, <1>2 DEF Kept, Known
  <1>4. Reported' /\ WaitsForMissing'
    BY <1>1, <1>2 DEF Reported, WaitsForMissing, Idle
  <1>5. Arrived = {} /\ Returned = {}
    BY <1>2 DEF Arrived, Returned
  <1> QED BY <1>2, <1>3, <1>4, <1>5 DEF IInv, Keeping

\* A step of the network in the exchange in progress.
LEMMA ExchangeKeeps ==
  ASSUME IInv, Fits(op, http'), UNCHANGED <<restOfClient, server>>,
         http'.rid = http.rid, http'.body = http.body,
         http.at = "replied" => http'.at = "replied"
  PROVE  IInv' /\ Keeping
  <1>1. Kept /\ Known
    BY DEF IInv
  <1>2. UNCHANGED <<work, box, late, stray>> /\ UNCHANGED restOfClient
    BY DEF server
  <1>3. /\ work' \in [Rid -> Nat] /\ \A r \in Rid : work'[r] > 0 => r \in Minted
        /\ box' \in Seq(Minted) /\ late' \subseteq late /\ stray' \in 0 .. MaxStray
        /\ http'.rid \in Minted \cup {None} /\ http'.body \in Minted \cup {None}
    BY <1>1, <1>2 DEF Kept, Known
  <1> QED BY <1>2, <1>3, ServerKeeps

\* The ticks since the timer was started are none or more.
LEMMA SinceStartType ==
  ASSUME IInv, http.at \in Exchange
  PROVE  SinceStart \in Nat /\ http.limit \in Time
  <1>1. /\ http.limit \in (Nat \ {0}) \cup {None} /\ http.cut \in Int \cup {None}
        /\ (http.limit = None <=> http.cut = None)
        /\ http.cut # None => http.cut <= http.limit
    BY Facts DEF Http, Time, Timed
  <1> QED BY <1>1 DEF SinceStart, Time

\* The server gets the request.
LEMMA ConnectedStep ==
  ASSUME IInv, Connected
  PROVE  IInv' /\ Keeping /\ UNCHANGED <<op, result>>
  <1>1. /\ http.at = "connecting" /\ http.at \in Exchange /\ http \in Http /\ Fits(op, http)
        /\ UNCHANGED <<restOfClient, server>>
    BY DEF Connected, Exchange, IInv, Fits
  <1>2. SinceStart \in Nat /\ http.limit \in Time /\ http.spent \in Nat
    BY <1>1, Facts, SinceStartType
  <1>3. PICK h, n, c, g : h = http /\ n = http.spent + SinceStart /\ c = http.limit
                          /\ g = http'
    OBVIOUS
  <1>4. g = [h EXCEPT !.cut = c, !.spent = n, !.at = "asked"] /\ n \in Nat /\ c \in Time
    BY <1>2, <1>3 DEF Connected, Restarted
  <1>5. g \in Http
    <2>1. h \in Http
      BY <1>1, <1>3
    <2> QED BY ONLY <1>4, <2>1, HttpConnected
  <1>6. /\ g.at = "asked" /\ g.what = h.what /\ g.rid = h.rid /\ g.status = h.status
        /\ g.body = h.body /\ g.limit = h.limit /\ g.wait = h.wait /\ g.cut = h.limit
        /\ g.spent = h.spent + (IF h.limit = None THEN 0 ELSE h.limit - h.cut)
    <2>1. h \in Http
      BY <1>1, <1>3
    <2>2. n = h.spent + (IF h.limit = None THEN 0 ELSE h.limit - h.cut)
      BY <1>3 DEF SinceStart
    <2> QED BY <1>3, <1>4, <2>1, <2>2 DEF Http
  <1>7. PICK o : o = op
    OBVIOUS
  <1>8. Fits(o, g)
    BY <1>1, <1>3, <1>5, <1>6, <1>7, RestartFits
  <1>9. Fits(op, http') /\ http'.rid = http.rid /\ http'.body = http.body
    BY <1>3, <1>6, <1>7, <1>8
  <1> QED BY <1>1, <1>9, ExchangeKeeps DEF restOfClient

\* A part of the exchange is done.
LEMMA ProgressStep ==
  ASSUME IInv, Progress
  PROVE  IInv' /\ Keeping /\ UNCHANGED <<op, result>>
  <1>1. /\ http.at \in Exchange /\ http \in Http /\ Fits(op, http)
        /\ http.parts < MaxParts /\ UNCHANGED <<restOfClient, server>>
    BY DEF Progress, Exchange, IInv, Fits
  <1>2. SinceStart \in Nat /\ http.limit \in Time /\ http.spent \in Nat
        /\ http.parts + 1 \in 0 .. MaxParts
    <2>1. http.parts \in 0 .. MaxParts
      BY <1>1 DEF Http
    <2> QED BY <1>1, <2>1, Facts, SinceStartType, ClientAssumption
  <1>3. PICK h, n, c, p, g : h = http /\ n = http.spent + SinceStart /\ c = http.limit
                             /\ p = http.parts + 1 /\ g = http'
    OBVIOUS
  <1>4. /\ g = [h EXCEPT !.cut = c, !.spent = n, !.parts = p]
        /\ n \in Nat /\ c \in Time /\ p \in 0 .. MaxParts
    <2>1. Restarted.parts = http.parts
      BY <1>1 DEF Restarted, Http
    <2> QED BY <1>2, <1>3, <2>1 DEF Progress, Restarted
  <1>5. g \in Http
    <2>1. h \in Http
      BY <1>1, <1>3
    <2> QED BY ONLY <1>4, <2>1, HttpParts
  <1>6. /\ g.at = h.at /\ g.what = h.what /\ g.rid = h.rid /\ g.status = h.status
        /\ g.body = h.body /\ g.limit = h.limit /\ g.wait = h.wait /\ g.cut = h.limit
        /\ g.spent = h.spent + (IF h.limit = None THEN 0 ELSE h.limit - h.cut)
    <2>1. h \in Http
      BY <1>1, <1>3
    <2>2. n = h.spent + (IF h.limit = None THEN 0 ELSE h.limit - h.cut)
      BY <1>3 DEF SinceStart
    <2> QED BY <1>3, <1>4, <2>1, <2>2 DEF Http
  <1>7. PICK o : o = op
    OBVIOUS
  <1>8. Fits(o, g)
    BY <1>1, <1>3, <1>5, <1>6, <1>7, RestartFits
  <1>9. Fits(op, http') /\ http'.rid = http.rid /\ http'.body = http.body
        /\ http'.at = http.at
    BY <1>3, <1>6, <1>7, <1>8
  <1> QED BY <1>1, <1>9, ExchangeKeeps DEF restOfClient

\* The server replies to the exchange in progress.
LEMMA Replies ==
  ASSUME IInv, http.at \in {"asked", "waiting"},
         NEW status \in {200, 202, 204, 503}, NEW body \in Rid \cup {None},
         body # None <=> status = 200,
         status = 204 => http.at = "asked" /\ http.what = "poll" /\ ServerTimeOver,
         Reply(status, body)
  PROVE  Fits(op, http') /\ http'.at = "replied" /\ http'.body = body /\ http'.rid = http.rid
  <1>1. PICK o, h, g : o = op /\ h = http /\ g = http'
    OBVIOUS
  <1>2. Fits(o, h) /\ h \in Http
    BY <1>1 DEF IInv, Fits
  <1>3. g = [h EXCEPT !.at = "replied", !.status = status, !.body = body, !.wait = None]
    BY <1>1 DEF Reply
  <1>4. g \in Http
    <2> DEFINE A == {"none", "begun", "connecting", "asked", "waiting", "replied"}
               W == {"none", "post", "block", "poll"}
               S == {None, 200, 202, 204, 503}
               B == Rid \cup {None}
               L == (Nat \ {0}) \cup {None}
               T == Nat \cup {None}
               P == 0 .. MaxParts
               H == [at : A, what : W, rid : B, status : S, body : B, cut : Time,
                     limit : L, wait : T, spent : Nat, parts : P]
    <2>1. Http = H /\ h \in H /\ "replied" \in A /\ status \in S /\ body \in B /\ None \in T
      BY <1>2 DEF Http
    <2> HIDE DEF A, W, S, B, L, T, P
    <2>2. [h EXCEPT !.at = "replied", !.status = status, !.body = body, !.wait = None] \in H
      BY <2>1
    <2> QED BY ONLY <1>3, <2>1, <2>2
  <1>5. /\ g.at = "replied" /\ g.status = status /\ g.body = body /\ g.what = h.what
        /\ g.rid = h.rid /\ g.cut = h.cut /\ g.limit = h.limit /\ g.spent = h.spent
    BY <1>2, <1>3 DEF Http
  <1>6. Fits(o, g)
    <2>1. status = 204 => h.at = "asked" /\ h.what = "poll" /\ h.wait \in {0, None}
      BY <1>1 DEF ServerTimeOver
    <2> QED BY <1>1, <1>2, <1>4, <1>5, <2>1, ReplyFits
  <1> QED BY <1>1, <1>5, <1>6

\* The server accepts a POST, or refuses it.
LEMMA ServePostStep ==
  ASSUME IInv, ServePost
  PROVE  IInv' /\ Keeping /\ UNCHANGED <<op, result>>
  <1>1. /\ http.at = "asked" /\ http.what \in {"post", "block"} /\ http \in Http
        /\ UNCHANGED <<restOfClient, box, late, stray>> /\ Kept /\ Known /\ Fits(op, http)
    BY DEF ServePost, IInv, Fits
  <1>2. op.kind = (IF http.what = "post" THEN "send" ELSE "call") /\ http.rid \in Rid
    BY <1>1, Facts DEF Shaped, WhatOf, Exchange
  <1>3. http.rid \in Minted
    BY <1>1, <1>2, Numbers DEF Known, Rid
  <1>4. /\ box' \in Seq(Minted) /\ late' \subseteq late /\ stray' \in 0 .. MaxStray
        /\ UNCHANGED restOfClient /\ UNCHANGED op /\ UNCHANGED result
    BY <1>1 DEF Known, Kept, restOfClient
  <1>5. None \in Rid \cup {None} /\ None \in Minted \cup {None}
    OBVIOUS
  <1>6. CASE ServerTimeOver /\ Reply(503, None) /\ UNCHANGED work
    <2>1. Fits(op, http') /\ http'.at = "replied" /\ http'.body = None /\ http'.rid = http.rid
      BY <1>1, <1>5, <1>6, Replies
    <2>2. work' \in [Rid -> Nat] /\ \A r \in Rid : work'[r] > 0 => r \in Minted
      BY <1>1, <1>6 DEF Kept, Known
    <2> QED BY <1>3, <1>4, <2>1, <2>2, ServerKeeps
  <1>7. CASE /\ work' = [work EXCEPT ![http.rid] = MaxAnswers[http.rid]]
             /\ IF http.what = "post" THEN Reply(202, None)
                                      ELSE http' = [http EXCEPT !.at = "waiting"]
    <2>1. work' \in [Rid -> Nat] /\ \A r \in Rid : work'[r] > 0 => r \in Minted
      <3>1. /\ work \in [Rid -> Nat] /\ MaxAnswers[http.rid] \in Nat
            /\ \A r \in Rid : work[r] > 0 => r \in Minted
        BY <1>1, <1>2, ClientAssumption DEF Kept, Known
      <3> QED BY <1>2, <1>3, <1>7, <3>1
    <2>2. Fits(op, http') /\ http'.body = None /\ http'.rid = http.rid
      <3>1. CASE http.what = "post"
        <4>1. Reply(202, None)
          BY <1>7, <3>1
        <4> QED BY <1>1, <1>5, <4>1, Replies
      <3>2. CASE http.what # "post"
        <4>1. PICK o, h, g : o = op /\ h = http /\ g = http'
          OBVIOUS
        <4>2. Fits(o, h) /\ o.kind = "call" /\ h.at = "asked" /\ g = [h EXCEPT !.at = "waiting"]
          BY <1>1, <1>2, <1>7, <3>2, <4>1
        <4>3. Fits(o, g) /\ g.body = None /\ g.rid = h.rid
          BY <4>2, WaitFits
        <4> QED BY <4>1, <4>3
      <3> QED BY <3>1, <3>2
    <2> QED BY <1>1, <1>3, <1>4, <2>1, <2>2, ServerKeeps
  <1> QED BY <1>6, <1>7 DEF ServePost

\* The server ends a wait or a poll, with the head of the queue or with nothing.
LEMMA ServeWaitStep ==
  ASSUME IInv, ServeWait
  PROVE  IInv' /\ Keeping /\ UNCHANGED <<op, result>>
  <1>1. /\ http.at = "waiting" \/ (http.at = "asked" /\ http.what = "poll")
        /\ UNCHANGED <<restOfClient, work, late, stray>> /\ Kept /\ Known
    BY DEF ServeWait, IInv
  <1>2. /\ work' \in [Rid -> Nat] /\ \A r \in Rid : work'[r] > 0 => r \in Minted
        /\ late' \subseteq late /\ stray' \in 0 .. MaxStray /\ http.rid \in Minted \cup {None}
        /\ UNCHANGED restOfClient /\ UNCHANGED op /\ UNCHANGED result
        /\ http.at \in {"asked", "waiting"} /\ http.at # "replied"
    BY <1>1 DEF Known, Kept, restOfClient
  <1>3. CASE box # <<>> /\ Reply(200, Head(box)) /\ box' = Tail(box)
    <2>1. PICK r : r = Head(box)
      OBVIOUS
    <2>2. r \in Minted /\ r \in Rid /\ r # None /\ box' \in Seq(Minted)
      <3>1. Head(box) \in Minted /\ box' \in Seq(Minted)
        BY <1>1, <1>3, HeadTailProperties DEF Known
      <3>2. Minted \subseteq Rid
        BY Facts
      <3>3. \A i \in Rid : i # None
        BY Numbers DEF Rid
      <3> QED BY <2>1, <3>1, <3>2, <3>3
    <2>3. Reply(200, r)
      BY <1>3, <2>1 DEF Reply
    <2>4. Fits(op, http') /\ http'.body = r /\ http'.rid = http.rid
      BY <1>2, <2>2, <2>3, Replies
    <2> QED BY <1>2, <2>2, <2>4, ServerKeeps
  <1>4. CASE /\ box = <<>> /\ ServerTimeOver /\ UNCHANGED box
             /\ Reply(IF http.what = "block" THEN 202 ELSE 204, None)
    <2>1. PICK status \in {202, 204} : Reply(status, None)
                                       /\ status = IF http.what = "block" THEN 202 ELSE 204
      BY <1>4
    <2>2. status = 204 => http.at = "asked" /\ http.what = "poll"
      <3>1. http.at = "waiting" => http.what = "block"
        BY Facts DEF Shaped, WhatOf, Exchange
      <3> QED BY <1>1, <2>1, <3>1
    <2>3. Fits(op, http') /\ http'.body = None /\ http'.rid = http.rid
      BY <1>2, <1>4, <2>1, <2>2, Replies
    <2>4. box' \in Seq(Minted)
      BY <1>1, <1>4 DEF Known
    <2> QED BY <1>2, <2>3, <2>4, ServerKeeps
  <1> QED BY <1>3, <1>4 DEF ServeWait

\* The server, or a service, does what has nothing to do with the exchange in progress.
LEMMA ApartStep ==
  ASSUME IInv, UNCHANGED client,
         work' \in [Rid -> Nat], \A r \in Rid : work'[r] > 0 => r \in Minted,
         box' \in Seq(Minted), late' \subseteq late, stray' \in 0 .. MaxStray
  PROVE  IInv' /\ Keeping /\ UNCHANGED <<op, result>>
  <1>1. UNCHANGED restOfClient /\ http' = http /\ op' = op /\ result' = result
    BY DEF client, restOfClient
  <1>2. Fits(op, http') /\ http'.rid \in Minted \cup {None} /\ http'.body \in Minted \cup {None}
    BY <1>1 DEF IInv, Known
  <1> QED BY <1>1, <1>2, ServerKeeps

\* The server handles a POST that the client has given up.
LEMMA ServeLateStep ==
  ASSUME IInv, ServeLate
  PROVE  IInv' /\ Keeping /\ UNCHANGED <<op, result>>
  <1>1. PICK m \in late :
          /\ late' = late \ {m}
          /\ work' \in {work, [work EXCEPT ![m[1]] = MaxAnswers[m[1]]]}
          /\ stray' = IF /\ m[2] = "block" /\ work' # work /\ stray < MaxStray
                      THEN stray + 1 ELSE stray
          /\ UNCHANGED <<client, box>>
    BY DEF ServeLate
  <1>2. Kept /\ Known /\ m[1] \in Minted /\ m[1] \in Rid
    BY Facts DEF IInv, Known
  <1>3. work' \in [Rid -> Nat] /\ \A r \in Rid : work'[r] > 0 => r \in Minted
    <2>1. /\ work \in [Rid -> Nat] /\ MaxAnswers[m[1]] \in Nat
          /\ \A r \in Rid : work[r] > 0 => r \in Minted
      BY <1>2, ClientAssumption DEF Kept, Known
    <2>2. PICK r, n : r = m[1] /\ n = MaxAnswers[m[1]]
      OBVIOUS
    <2>3. work' = work \/ work' = [work EXCEPT ![r] = n]
      BY <1>1, <2>2
    <2>4. r \in Rid /\ r \in Minted /\ n \in Nat
      BY <1>2, <2>1, <2>2
    <2> QED BY <2>1, <2>3, <2>4
  <1>4. stray' \in 0 .. MaxStray
    BY <1>1, <1>2, ClientAssumption DEF Kept
  <1>5. box' \in Seq(Minted) /\ late' \subseteq late /\ UNCHANGED client
    BY <1>1, <1>2 DEF Known
  <1> QED BY <1>3, <1>4, <1>5, ApartStep

\* A wait that nobody is interested in takes a response, or ends.
LEMMA ServeStrayStep ==
  ASSUME IInv, ServeStray
  PROVE  IInv' /\ Keeping /\ UNCHANGED <<op, result>>
  <1>1. Kept /\ Known /\ UNCHANGED <<client, work, late>>
    BY DEF IInv, ServeStray
  <1>2. /\ work' \in [Rid -> Nat] /\ \A r \in Rid : work'[r] > 0 => r \in Minted
        /\ late' \subseteq late /\ UNCHANGED client
    BY <1>1 DEF Kept, Known
  <1>3. stray' \in 0 .. MaxStray
    BY <1>1, ClientAssumption DEF ServeStray, Kept
  <1>4. box' \in Seq(Minted)
    BY <1>1, HeadTailProperties DEF ServeStray, Known
  <1> QED BY <1>2, <1>3, <1>4, ApartStep

\* A service answers a request, perhaps not for the first time.
LEMMA AnswerStep ==
  ASSUME IInv, NEW r \in Rid, Answer(r)
  PROVE  IInv' /\ Keeping /\ UNCHANGED <<op, result>>
  <1>1. Kept /\ Known /\ UNCHANGED <<client, late, stray>> /\ work[r] > 0
        /\ box' = Append(box, r)
    BY DEF IInv, Answer
  <1>2. PICK more \in {0, work[r] - 1} : work' = [work EXCEPT ![r] = more]
    BY DEF Answer
  <1>3. r \in Minted /\ work \in [Rid -> Nat] /\ more \in Nat
    BY <1>1, <1>2 DEF Kept, Known
  <1>4. work' \in [Rid -> Nat] /\ \A q \in Rid : work'[q] > 0 => q \in Minted
    BY <1>1, <1>2, <1>3 DEF Known
  <1>5. box' \in Seq(Minted)
    BY <1>1, <1>3, AppendProperties DEF Known
  <1>6. late' \subseteq late /\ stray' \in 0 .. MaxStray /\ UNCHANGED client
    BY <1>1 DEF Kept
  <1> QED BY <1>4, <1>5, <1>6, ApartStep

\* Time passes for the method in progress.
LEMMA TickStep ==
  ASSUME IInv, Tick
  PROVE  IInv' /\ Keeping /\ op'.kind = op.kind /\ UNCHANGED result
  <1>1. /\ http.cut # None /\ http.cut > 0 /\ op.kind # "none" /\ op \in Op /\ http \in Http
        /\ Fits(op, http) /\ UNCHANGED <<nextId, closed, cache, result, server>>
    BY Facts DEF Tick, Idle, IInv
  <1>2. \A t \in Time : Before(t) \in Time
    BY ClientAssumption DEF Time, Before
  <1>3. PICK o, h, p, g : o = op /\ h = http /\ p = op' /\ g = http'
    OBVIOUS
  <1>4. PICK d, b, c, w :
          /\ d = (IF o.kind = "again" THEN o.due ELSE Before(o.due))
          /\ b = Before(o.budget) /\ c = Before(h.cut)
          /\ w = (IF h.at = "connecting" \/ h.wait \in {0, None}
                  THEN h.wait ELSE h.wait - 1)
    OBVIOUS
  <1>5. p = [o EXCEPT !.due = d, !.budget = b] /\ g = [h EXCEPT !.cut = c, !.wait = w]
    BY <1>3, <1>4 DEF Tick, ServerTimeOver
  <1>6. d \in Time /\ b \in Time /\ c \in Time /\ w \in Nat \cup {None}
    <2>1. /\ o.due \in Time /\ o.budget \in Time /\ h.cut \in Time /\ h.wait \in Nat \cup {None}
      BY <1>1, <1>3 DEF Op, Http
    <2>2. w \in Nat \cup {None}
      BY <1>4, <2>1
    <2> QED BY <1>2, <1>4, <2>1, <2>2
  <1>7. /\ p \in Op /\ p.kind = o.kind /\ p.wanted = o.wanted /\ p.need = o.need
        /\ p.due = d /\ p.budget = b
    BY <1>1, <1>3, <1>5, <1>6 DEF Op
  <1>8. g \in Http
    <2>1. h \in Http
      BY <1>1, <1>3
    <2> QED BY ONLY <1>5, <1>6, <2>1, HttpTick
  <1>9. /\ g.at = h.at /\ g.what = h.what /\ g.rid = h.rid /\ g.status = h.status
        /\ g.body = h.body /\ g.limit = h.limit /\ g.spent = h.spent /\ g.cut = c
        /\ g.wait = w
    <2>1. h \in Http
      BY <1>1, <1>3
    <2> QED BY <1>5, <2>1 DEF Http
  <1>10. Fits(p, g)
    <2>1. Fits(o, h) /\ o.kind # "none" /\ h.cut # None /\ h.cut > 0
      BY <1>1, <1>3
    <2> QED BY <1>4, <1>7, <1>8, <1>9, <2>1, TickFits
  <1>11. /\ Fits(op', http') /\ op'.kind = op.kind /\ op'.wanted = op.wanted
         /\ op'.need = op.need /\ http'.at = http.at /\ http'.rid = http.rid
         /\ http'.body = http.body
    BY <1>3, <1>7, <1>9, <1>10
  <1>12. Kept' /\ Known' /\ Reported' /\ WaitsForMissing'
    <2>1. UNCHANGED <<nextId, closed, cache, result, work, box, late, stray>> /\ Minted' = Minted
      BY <1>1 DEF server, Minted
    <2> QED BY <1>11, <2>1 DEF IInv, Kept, Known, Reported, WaitsForMissing, Idle
  <1>13. Arrived = {} /\ Returned = {}
    BY <1>1, <1>11 DEF Arrived, Returned
  <1> QED BY <1>1, <1>11, <1>12, <1>13 DEF IInv, Keeping

-------------------------------------------------------------------------------
(* The invariant holds *)

\* Nothing happens.
LEMMA StutterStep ==
  ASSUME IInv, UNCHANGED vars
  PROVE  IInv'
  <1>1. UNCHANGED <<nextId, closed, cache, op, http, result, work, box, late, stray>>
    BY DEF vars, client, server
  <1>2. Kept' /\ Fits(op', http') /\ WaitsForMissing'
    BY <1>1 DEF IInv, Kept, WaitsForMissing
  <1>3. Known' /\ Reported'
    BY <1>1 DEF IInv, Known, Reported, Minted, Idle
  <1> QED BY <1>2, <1>3 DEF IInv

LEMMA InitInvariant == Init => IInv
  <1> SUFFICES ASSUME Init
               PROVE  IInv
    OBVIOUS
  <1>1. /\ nextId = 0 /\ closed = FALSE /\ cache = {} /\ op = NoOp /\ http = NoHttp
        /\ result = NoResult /\ work = [r \in Rid |-> 0] /\ box = <<>> /\ late = {}
        /\ stray = 0
    BY DEF Init
  <1>2. Kept
    <2>1. 0 \in 0 .. MaxRequests /\ 0 \in 0 .. MaxStray
      BY ClientAssumption
    <2>2. work \in [Rid -> Nat]
      BY <1>1
    <2> QED BY <1>1, <2>1, <2>2 DEF Kept
  <1>3. Fits(op, http)
    BY <1>1, NothingFits
  <1>4. Known
    <2>1. <<>> \in Seq(Minted) /\ \A r \in Rid : ~(work[r] > 0)
      BY <1>1
    <2> QED BY <1>1, <2>1 DEF Known, NoOp, NoHttp
  <1>5. Reported /\ WaitsForMissing
    BY <1>1 DEF Reported, WaitsForMissing, NoOp, NoResult, Idle
  <1> QED BY <1>2, <1>3, <1>4, <1>5 DEF IInv

\* A method begins, or the connection is closed.
LEMMA StartStep ==
  ASSUME IInv, Start
  PROVE  IInv' /\ Keeping /\ Idle
  <1>1. Minted \subseteq Rid /\ MaxRequests \in Nat
    BY Facts, ClientAssumption
  <1>2. ASSUME NEW t \in Timeout, SendRequest(t)
        PROVE  IInv' /\ Keeping /\ Idle
    BY <1>2, SendRequestStep DEF SendRequest, Ready
  <1>3. ASSUME NEW t \in Timeout, CallService(t)
        PROVE  IInv' /\ Keeping /\ Idle
    BY <1>3, CallServiceStep DEF CallService, Ready
  <1>4. ASSUME NEW t \in Timeout, NEW r \in Minted, GetResponse(r, t)
        PROVE  IInv' /\ Keeping /\ Idle
    BY <1>4, GetResponseStep DEF GetResponse, Ready
  <1>5. ASSUME NEW t \in Timeout, NEW wanted \in SUBSET Minted, NEW need \in Nat,
               GetResponses(wanted, need, t)
        PROVE  IInv' /\ Keeping /\ Idle
    BY <1>5, GetResponsesStep DEF GetResponses, Ready
  <1>6. ASSUME NEW t \in Timeout, NEW wanted \in SUBSET Minted \ {{}},
               \/ GetAnyResponses(wanted, t) \/ GetAllResponses(wanted, t)
               \/ \E quorum \in 1 .. MaxRequests + 1 : GetResponseQuorum(quorum, wanted, t)
        PROVE  IInv' /\ Keeping /\ Idle
    <2>1. PICK need \in Nat : GetResponses(wanted, need, t)
      <3>1. 1 \in Nat /\ Cardinality(wanted) \in Nat /\ 1 .. MaxRequests + 1 \subseteq Nat
        <4>1. wanted \subseteq Rid
          BY <1>1
        <4> QED BY <1>1, <4>1, RidFinite
      <3> QED BY <1>6, <3>1 DEF GetAnyResponses, GetAllResponses, GetResponseQuorum
    <2> QED BY <1>5, <2>1
  <1>7. CASE Close
    BY <1>7, CloseStep DEF Close, Ready
  <1> QED BY <1>2, <1>3, <1>4, <1>6, <1>7 DEF Start

\* Every step preserves the invariant, and keeps what the client has read.
LEMMA NextInvariant ==
  ASSUME IInv, Next
  PROVE  IInv' /\ Keeping
  <1>1. CASE Start
    BY <1>1, StartStep
  <1>2. CASE Look
    BY <1>2, PostBlockingStep, PollOneStep, FallBackStep, FallBackGetStep DEF Look
  <1>3. CASE Receive
    BY <1>3, SendReturnsStep, CallReturnsStep, GetReturnsStep, LoopReturnsStep DEF Receive
  <1>4. CASE Break
    BY <1>4, BreakStep
  <1>5. CASE Tick
    BY <1>5, TickStep
  <1>6. CASE Connected
    BY <1>6, ConnectedStep
  <1>7. CASE Progress
    BY <1>7, ProgressStep
  <1>8. CASE Serve
    BY <1>8, ServePostStep, ServeWaitStep DEF Serve
  <1>9. CASE ServeLate
    BY <1>9, ServeLateStep
  <1>10. CASE ServeStray
    BY <1>10, ServeStrayStep
  <1>11. CASE \E r \in Rid : Answer(r)
    BY <1>11, AnswerStep
  <1> QED BY <1>1, <1>2, <1>3, <1>4, <1>5, <1>6, <1>7, <1>8, <1>9, <1>10, <1>11 DEF Next

\* IInv is an invariant.
LEMMA Invariant == Spec => []IInv
  <1>1. IInv /\ [Next]_vars => IInv'
    BY NextInvariant, StutterStep
  <1> QED BY InitInvariant, <1>1, PTL DEF Spec

-------------------------------------------------------------------------------
(* What the invariant implies *)

\* No local timeout of requests is ever zero or negative, and an exchange is in
\* progress exactly while a method is: ClientConnection's state is well formed.
THEOREM TypeCorrect == Spec => []TypeOK
<1>1. IInv => TypeOK
  <2> SUFFICES ASSUME IInv
               PROVE  TypeOK
    OBVIOUS
  <2>1. Kept /\ Known /\ op \in Op /\ http \in Http /\ Shaped(op, http) /\ Minted \subseteq Rid
    BY Facts DEF IInv
  <2>2. Idle <=> http.at = "none"
    BY <2>1 DEF Shaped, Idle
  <2>3. box \in Seq(Rid)
    <3>1. box \in [1 .. Len(box) -> Minted] /\ Len(box) \in Nat
      BY <2>1, LenProperties DEF Known
    <3>2. box \in [1 .. Len(box) -> Rid]
      BY <2>1, <3>1
    <3> QED BY <3>1, <3>2, SeqDef
  <2> QED BY <2>1, <2>2, <2>3 DEF Kept, Known, TypeOK
<1> QED BY Invariant, <1>1, PTL

\* Every response that the client has read is returned once or is still in the cache:
\* call, get_* and _loop_until drop nothing and return nothing twice, however often
\* the services answer a request and however the methods end.
THEOREM NothingDropped == Spec => ReceivedKept
<1>1. IInv /\ [Next]_vars => [Keeping]_vars
  BY NextInvariant
<1> QED BY Invariant, <1>1, PTL DEF Spec, ReceivedKept, Keeping

\* get_response and _loop_until poll only for what the cache does not have.
THEOREM PollsForMissing == Spec => []WaitsForMissing
<1>1. IInv => WaitsForMissing
  BY DEF IInv
<1> QED BY Invariant, <1>1, PTL

\* No method exceeds its timeout by more than network_buffer_ms, two truncations to
\* milliseconds of _Deadline.remaining_ms and two pauses of its thread, when an
\* exchange is timed from its last connect or read: the phases of call share a
\* deadline.
THEOREM TimeoutsAreKept == Spec => []DeadlineKept
<1>1. IInv => DeadlineKept
  <2> SUFFICES ASSUME IInv, op.budget # None
               PROVE  op.budget + http.spent
                        >= -(Buffer * Unit) - 2 * (Unit - 1) - 2 * Stall
    BY DEF DeadlineKept
  <2>1. PICK b, n, c, m : b = op.budget /\ n = http.spent /\ c = http.cut
                          /\ m = Buffer * Unit
    OBVIOUS
  <2>2. b \in Int /\ n \in Nat /\ c \in Int /\ c >= 0
    BY <2>1, Facts DEF Timed, Op, Http, Time
  <2>3. m \in Nat /\ Overrun = m + 2 * (Unit - 1) + Stall
    BY <2>1, Numbers
  <2>4. b + n >= c - Overrun - Stall
    <3>1. http.at # "none"
      BY Facts DEF Shaped, NoOp
    <3>2. CASE http.at = "begun"
      <4>1. http.cut # None
        BY <2>1, <2>2, Numbers
      <4> QED BY <2>1, <3>2, <4>1, Facts DEF Timed
    <3>3. CASE http.at \in Exchange
      <4>1. http.cut # None
        BY <2>1, <2>2, Numbers
      <4>2. b + n >= c - Overrun
        BY <2>1, <3>3, <4>1, Facts DEF Timed
      <4> QED BY <2>2, <2>3, <4>2, Numbers
    <3> QED BY <3>1, <3>2, <3>3, Facts DEF Http, Exchange
  <2>5. b + n >= -m - 2 * (Unit - 1) - 2 * Stall
    BY <2>2, <2>3, <2>4, Numbers
  <2> QED BY <2>1, <2>5
<1> QED BY Invariant, <1>1, PTL

-------------------------------------------------------------------------------
(* What methods return *)

\* A method that returns now has enough of what it was asked for, and leaves none of
\* that behind.
Answers ==
  result' # result /\ result'.status = "ok" =>
    /\ result'.got \subseteq result'.wanted
    /\ Cardinality(result'.got) >= result'.need
    /\ result'.need > 0 => result'.wanted \cap cache' = {}

\* get_response returns what it was asked for.
LEMMA BeginGetAnswers ==
  ASSUME NEW r, NEW due, NEW budget, BeginGet(r, due, budget)
  PROVE  Answers
  <1> DEFINE k == GetOp(r, due, budget)
  <1>1. k.wanted = {r} /\ k.need = 1 /\ Cardinality({r}) = 1
    BY FS_Singleton DEF GetOp
  <1> HIDE DEF k
  <1>2. CASE cache' = cache \ {r} /\ Return(k, {r})
    BY <1>1, <1>2 DEF Return, End, Answers
  <1>3. CASE Begin(k)
    BY <1>3 DEF Begin, NoResult, Answers
  <1> QED BY <1>2, <1>3 DEF BeginGet, k

\* _loop_until returns those that are there once they are enough.
LEMMA LoopAnswers ==
  ASSUME NEW k, NEW c, Loop(k, c)
  PROVE  Answers
  <1>1. CASE Done(k, c) /\ FinishLoop(k, c)
    BY <1>1 DEF Done, FinishLoop, Return, End, Answers
  <1>2. CASE Begin(k)
    BY <1>2 DEF Begin, NoResult, Answers
  <1> QED BY <1>1, <1>2 DEF Loop

\* The response to the one request of a method is returned as it arrives.
LEMMA OwnAnswers ==
  ASSUME IInv, op.kind \in {"call", "get"}, IsOwn(http.body),
         Return(op, {http.body}), UNCHANGED cache
  PROVE  Answers
  <1>1. op.need = 1 /\ \E r \in Rid : op.wanted = {r}
    BY Facts DEF Shaped, Single
  <1>2. op.wanted = {http.body} /\ Cardinality({http.body}) = 1
    BY <1>1, FS_Singleton DEF IsOwn
  <1>3. op.wanted \cap cache = {}
    BY DEF IInv, WaitsForMissing, Reported
  <1> QED BY <1>1, <1>2, <1>3 DEF Return, End, Answers

\* The methods that go on with a reply.
LEMMA ReceiveAnswers ==
  ASSUME IInv, Receive
  PROVE  Answers
  <1>1. ASSUME NEW k, Begin(k) \/ (\E error \in {"full", "empty"} : Raise(k, error))
        PROVE  Answers
    BY <1>1 DEF Begin, NoResult, Raise, End, Answers
  <1>2. CASE SendReturns
    <2>1. op.need = 0 /\ Cardinality({}) = 0
      BY <1>2, Facts, FS_EmptySet DEF SendReturns, Replied, Shaped, Single
    <2>2. CASE Return(op, {})
      BY <2>1, <2>2 DEF Return, End, Answers
    <2>3. CASE Raise(op, "full")
      BY <2>3, <1>1
    <2> QED BY <1>2, <2>2, <2>3 DEF SendReturns
  <1>3. CASE CallReturns
    <2>1. op.kind = "call"
      BY <1>3 DEF CallReturns, Replied
    <2>2. CASE Raise(op, "full")
      BY <2>2, <1>1
    <2>3. CASE IsOwn(http.body) /\ Return(op, {http.body}) /\ UNCHANGED cache
      BY <2>1, <2>3, OwnAnswers
    <2>4. CASE Begin([op EXCEPT !.kind = "back"])
      BY <2>4 DEF Begin, NoResult, Answers
    <2> QED BY <1>3, <2>2, <2>3, <2>4 DEF CallReturns
  <1>4. CASE NoResponse
    BY <1>4 DEF NoResponse, Begin, NoResult, Raise, End, Answers
  <1>5. CASE GetReturns
    <2>1. op.kind = "get"
      BY <1>5 DEF GetReturns, Replied
    <2>2. CASE Begin(op)
      BY <2>2 DEF Begin, NoResult, Answers
    <2>3. CASE IsOwn(http.body) /\ Return(op, {http.body}) /\ UNCHANGED cache
      BY <2>1, <2>3, OwnAnswers
    <2> QED BY <1>4, <1>5, <2>2, <2>3 DEF GetReturns
  <1>6. CASE LoopReturns
    <2>1. PICK k, c : k = op /\ c = Cached(cache, http.body)
      OBVIOUS
    <2>2. CASE Loop(op, Cached(cache, http.body))
      <3>1. Loop(k, c)
        BY <2>1, <2>2 DEF Loop, Done, FinishLoop, Return, End, Begin
      <3> QED BY <3>1, LoopAnswers
    <2> QED BY <1>4, <1>6, <2>2 DEF LoopReturns
  <1> QED BY <1>2, <1>3, <1>5, <1>6 DEF Receive

\* A method that returns responses returns at least as many of those asked for as
\* were needed, and _pop_matching leaves none of them in the cache.
THEOREM ReturnsWhatWasAsked == Spec => ReturnsAsked
<1>1. IInv /\ [Next]_vars => [Answers]_vars
  <2> SUFFICES ASSUME IInv, Next
               PROVE  Answers
    BY DEF Answers
  <2>1. CASE Start
    <3>1. ASSUME NEW t \in Timeout, SendRequest(t) \/ CallService(t)
          PROVE  Answers
      <4>1. result'.status # "ok"
        BY <3>1, SendRequestStep, CallServiceStep DEF NoResult
      <4> QED BY <4>1 DEF Answers
    <3>2. ASSUME NEW t \in Timeout, NEW r \in Minted, GetResponse(r, t)
          PROVE  Answers
      BY <3>2, BeginGetAnswers DEF GetResponse
    <3>3. ASSUME NEW t \in Timeout, NEW wanted, NEW need, GetResponses(wanted, need, t)
          PROVE  Answers
      BY <3>3, LoopAnswers DEF GetResponses
    <3>4. CASE Close
      BY <3>4 DEF Close, Answers
    <3> QED BY <2>1, <3>1, <3>2, <3>3, <3>4
        DEF Start, GetAnyResponses, GetAllResponses, GetResponseQuorum
  <2>2. CASE Look
    <3>1. CASE PostBlocking \/ PollOne \/ FallBack
      <4>1. result'.status # "ok"
        BY <3>1, PostBlockingStep, PollOneStep, FallBackStep
      <4> QED BY <4>1 DEF Answers
    <3>2. CASE FallBackGet
      <4>1. PICK due, budget : due = op.due /\ budget = op.budget
        OBVIOUS
      <4>2. PICK r \in op.wanted : BeginGet(r, due, budget)
        BY <3>2, <4>1 DEF FallBackGet, BeginGet, GetOp, Return, End, Begin, Begun
      <4> QED BY <4>2, BeginGetAnswers
    <3> QED BY <2>2, <3>1, <3>2 DEF Look
  <2>3. CASE Receive
    BY <2>3, ReceiveAnswers
  <2>4. CASE Break
    <3>1. result'.status = "broken"
      BY <2>4, BreakStep
    <3> QED BY <3>1 DEF Answers
  <2>5. CASE UNCHANGED result
    BY <2>5 DEF Answers
  <2>6. CASE Tick \/ Connected \/ Progress \/ Serve \/ ServeLate \/ ServeStray
             \/ (\E r \in Rid : Answer(r))
    BY <2>5, <2>6, TickStep, ConnectedStep, ProgressStep, ServePostStep, ServeWaitStep,
       ServeLateStep, ServeStrayStep, AnswerStep DEF Serve
  <2> QED BY <2>1, <2>2, <2>3, <2>4, <2>6 DEF Next
<1> QED BY Invariant, <1>1, PTL DEF Spec, ReturnsAsked, Answers

-------------------------------------------------------------------------------
(* When methods give up *)

\* A method that gives up now because of its deadline, or of the server's 204, has had
\* its time.
GivesUpNow ==
  ~Idle /\ Idle' =>
    /\ result'.status = "elapsed" => /\ op.kind \in {"back", "get", "loop"}
                                     /\ op.due \in Int /\ op.due <= -Unit
    /\ result'.status = "empty" => op.due # None /\ op.due < Unit

\* Only the looks at a deadline and the replies to polls end a method like that.
LEMMA NextGivesUp ==
  ASSUME IInv, Next
  PROVE  GivesUpNow
  <1>1. CASE Start
    BY <1>1, StartStep DEF GivesUpNow
  <1>2. CASE Look
    <2>1. CASE PostBlocking \/ FallBackGet
      <3>1. result'.status \notin {"elapsed", "empty"}
        BY <2>1, PostBlockingStep, FallBackGetStep
      <3> QED BY <3>1 DEF GivesUpNow
    <2>2. CASE PollOne \/ FallBack
      <3>1. \/ result'.status \in {"invalid", "none"}
            \/ result'.status = "elapsed" /\ op.due \in Int /\ op.due <= -Unit
        BY <2>2, PollOneStep, FallBackStep
      <3>2. op.kind \in {"back", "get", "loop"}
        BY <2>2 DEF PollOne, FallBack, AboutTo
      <3> QED BY <3>1, <3>2 DEF GivesUpNow
    <2> QED BY <1>2, <2>1, <2>2 DEF Look
  <1>3. CASE Receive
    <2>1. \/ result'.status \in {"ok", "full", "none"}
          \/ result'.status = "empty" /\ op.due # None /\ op.due < Unit
      BY <1>3, SendReturnsStep, CallReturnsStep, GetReturnsStep, LoopReturnsStep DEF Receive
    <2> QED BY <2>1 DEF GivesUpNow
  <1>4. CASE Break
    <2>1. result'.status = "broken"
      BY <1>4, BreakStep
    <2> QED BY <2>1 DEF GivesUpNow
  <1>5. CASE op'.kind = op.kind
    BY <1>5 DEF GivesUpNow, Idle
  <1>6. CASE Tick \/ Connected \/ Progress \/ Serve \/ ServeLate \/ ServeStray
             \/ (\E r \in Rid : Answer(r))
    BY <1>5, <1>6, TickStep, ConnectedStep, ProgressStep, ServePostStep, ServeWaitStep,
       ServeLateStep, ServeStrayStep, AnswerStep DEF Serve
  <1> QED BY <1>1, <1>2, <1>3, <1>4, <1>6 DEF Next

\* A get_* method does not give up with a millisecond or more of its time left: a 204
\* means that the server has waited for what the client had left.
THEOREM GivesUpInTime == Spec => PatientUntilDeadline
<1> DEFINE Patient ==
      op.kind \in {"get", "loop"} /\ Idle' /\ result'.status \in {"elapsed", "empty"}
        => op.due # None /\ op.due < Unit
<1>1. IInv /\ [Next]_vars => [Patient]_vars
  <2> SUFFICES ASSUME IInv, Next
               PROVE  Patient
    OBVIOUS
  <2>1. GivesUpNow
    BY NextGivesUp
  <2>2. op.due \in Int /\ op.due <= -Unit => op.due # None /\ op.due < Unit
    BY Numbers
  <2> QED BY <2>1, <2>2 DEF GivesUpNow, Idle
<1> QED BY Invariant, <1>1, PTL DEF Spec, PatientUntilDeadline

\* When a method says that its local deadline has elapsed, the caller's timeout is
\* over, although the deadline may be one that call made of a truncated rest.
THEOREM ElapsedMeansOver == Spec => ElapsedWhenOver
<1> DEFINE Over ==
      ~Idle /\ Idle' /\ result'.status = "elapsed" => op.due <= -Unit /\ op.budget < 0
<1>1. IInv /\ [Next]_vars => [Over]_vars
  <2> SUFFICES ASSUME IInv, Next, ~Idle, Idle', result'.status = "elapsed"
               PROVE  op.due <= -Unit /\ op.budget < 0
    OBVIOUS
  <2>1. op.due \in Int /\ op.due <= -Unit /\ op.kind # "send"
    BY NextGivesUp DEF GivesUpNow
  <2>2. op.budget \in Int /\ op.budget <= op.due + (Unit - 1)
    <3>1. Clocked(op, http.cut) /\ op \in Op /\ op.due # None
      BY <2>1, Facts, Numbers DEF Timed
    <3> QED BY <3>1 DEF Clocked, Op, Time
  <2> QED BY <2>1, <2>2, Numbers
<1> QED BY Invariant, <1>1, PTL DEF Spec, ElapsedWhenOver
=============================================================================
