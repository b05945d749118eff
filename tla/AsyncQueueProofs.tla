--------------------------- MODULE AsyncQueueProofs ---------------------------
(***************************************************************************)
(* Proofs about AsyncQueue for every number of callers and items and every   *)
(* size of the queue: no wake-up is lost, and the callers see the bounded    *)
(* queue of BoundedQueue.                                                    *)
(***************************************************************************)
EXTENDS AsyncQueue, FiniteSetTheorems, SequenceTheorems, TLAPS

-------------------------------------------------------------------------------
(* The deques of futures *)

\* A deque of callers of S that holds exactly those of T, each once.
Holds(d, S, T) ==
  /\ d \in Seq(S)
  /\ \A i, j \in DOMAIN d : d[i] = d[j] => i = j
  /\ {d[i] : i \in DOMAIN d} = T

\* A caller that starts to wait goes to the end.
LEMMA AppendHolds ==
  ASSUME NEW S, NEW T, NEW d, Holds(d, S, T), NEW w \in S, w \notin T
  PROVE  Holds(Append(d, w), S, T \cup {w})
  <1>1. d \in Seq(S) /\ Len(d) \in Nat /\ DOMAIN d = 1 .. Len(d)
    BY LenProperties DEF Holds
  <1> DEFINE e == Append(d, w)
  <1>2. /\ e \in Seq(S) /\ DOMAIN e = DOMAIN d \cup {Len(d) + 1}
        /\ \A i \in DOMAIN d : e[i] = d[i]
        /\ e[Len(d) + 1] = w
        /\ Len(d) + 1 \notin DOMAIN d
    BY <1>1, AppendProperties, LenProperties
  <1> HIDE DEF e
  <1> QED BY <1>2 DEF Holds, e

\* _wakeup_next: the first leaves its deque, if there is one.
LEMMA RestHolds ==
  ASSUME NEW S, NEW T, NEW d, Holds(d, S, T)
  PROVE  /\ Holds(Rest(d), S, T \ First(d))
         /\ First(d) \subseteq T
         /\ T # {} => \E w \in T : First(d) = {w}
  <1>1. d \in Seq(S) /\ Len(d) \in Nat /\ DOMAIN d = 1 .. Len(d)
    BY LenProperties DEF Holds
  <1>2. CASE d = <<>>
    BY <1>2 DEF Holds, Rest, First
  <1>3. CASE d # <<>>
    <2> DEFINE e == Tail(d)
    <2>1. /\ Len(d) > 0 /\ Head(d) = d[1] /\ e \in Seq(S) /\ Len(e) = Len(d) - 1
          /\ DOMAIN e = 1 .. Len(d) - 1
          /\ \A i \in 1 .. Len(d) - 1 : e[i] = d[i + 1]
      BY <1>1, <1>3, EmptySeq, HeadTailProperties, LenProperties
    <2> HIDE DEF e
    <2>2. \A i, j \in DOMAIN e : e[i] = e[j] => i = j
      <3> SUFFICES ASSUME NEW i \in DOMAIN e, NEW j \in DOMAIN e, e[i] = e[j]
                   PROVE  i = j
        OBVIOUS
      <3>1. i + 1 \in DOMAIN d /\ j + 1 \in DOMAIN d /\ d[i + 1] = d[j + 1]
        BY <1>1, <2>1
      <3> QED BY <3>1, <2>1 DEF Holds
    <2>3. {e[i] : i \in DOMAIN e} = T \ {d[1]}
      <3>1. ASSUME NEW i \in DOMAIN e
            PROVE  e[i] \in T \ {d[1]}
        <4>1. i + 1 \in DOMAIN d /\ 1 \in DOMAIN d /\ i + 1 # 1 /\ e[i] = d[i + 1]
          BY <1>1, <2>1
        <4> QED BY <4>1 DEF Holds
      <3>2. ASSUME NEW w \in T \ {d[1]}
            PROVE  \E i \in DOMAIN e : e[i] = w
        <4>1. PICK k \in DOMAIN d : d[k] = w
          BY DEF Holds
        <4>2. k - 1 \in DOMAIN e /\ (k - 1) + 1 = k
          BY <1>1, <2>1, <3>2, <4>1
        <4> QED BY <4>1, <4>2, <2>1
      <3> QED BY <3>1, <3>2
    <2>4. d[1] \in T
      BY <1>1, <2>1 DEF Holds
    <2> QED BY <1>3, <2>1, <2>2, <2>3, <2>4 DEF Holds, Rest, First, e
  <1> QED BY <1>2, <1>3

\* A caller whose timer fires while it waits is skipped from then on.
LEMMA WithoutHolds ==
  ASSUME NEW S, NEW T, NEW d, Holds(d, S, T), NEW w \in T
  PROVE  Holds(Without(d, w), S, T \ {w})
  <1>1. d \in Seq(S) /\ Len(d) \in Nat /\ DOMAIN d = 1 .. Len(d)
    BY LenProperties DEF Holds
  <1> DEFINE k == CHOOSE i \in DOMAIN d : d[i] = w
             e == Without(d, w)
  <1>2. k \in DOMAIN d /\ d[k] = w
    BY DEF Holds
  <1>3. \A i \in DOMAIN d : d[i] \in S
    BY <1>1, ElementOfSeq
  <1> HIDE DEF k
  <1>4. e = [i \in 1 .. Len(d) - 1 |-> IF i < k THEN d[i] ELSE d[i + 1]]
    BY DEF Without, k
  <1>5. Len(d) - 1 \in Nat /\ k \in 1 .. Len(d)
    BY <1>1, <1>2
  <1>6. e \in [1 .. Len(d) - 1 -> S]
    BY <1>1, <1>3, <1>4, <1>5
  <1>7. e \in Seq(S) /\ DOMAIN e = 1 .. Len(d) - 1
    BY <1>5, <1>6, SeqDef
  <1>8. \A i \in DOMAIN e : e[i] = IF i < k THEN d[i] ELSE d[i + 1]
    BY <1>4, <1>7
  <1> HIDE DEF e
  <1>9. \A i, j \in DOMAIN e : e[i] = e[j] => i = j
    <2> SUFFICES ASSUME NEW i \in DOMAIN e, NEW j \in DOMAIN e, e[i] = e[j]
                 PROVE  i = j
      OBVIOUS
    <2>1. i \in DOMAIN d /\ i + 1 \in DOMAIN d /\ j \in DOMAIN d /\ j + 1 \in DOMAIN d
          /\ i \in Int /\ j \in Int /\ k \in Int
      BY <1>1, <1>5, <1>7
    <2>2. \A x, y \in DOMAIN d : d[x] = d[y] => x = y
      BY DEF Holds
    <2>3. CASE i < k /\ j < k
      BY <2>1, <2>2, <2>3, <1>8
    <2>4. CASE i < k /\ ~(j < k)
      BY <2>1, <2>2, <2>4, <1>8
    <2>5. CASE ~(i < k) /\ j < k
      BY <2>1, <2>2, <2>5, <1>8
    <2>6. CASE ~(i < k) /\ ~(j < k)
      BY <2>1, <2>2, <2>6, <1>8
    <2> QED BY <2>3, <2>4, <2>5, <2>6
  <1>10. {e[i] : i \in DOMAIN e} = T \ {w}
    <2>1. ASSUME NEW i \in DOMAIN e
          PROVE  e[i] \in T \ {w}
      <3>1. i \in DOMAIN d /\ i + 1 \in DOMAIN d /\ i \in Int /\ k \in Int
        BY <1>1, <1>5, <1>7
      <3>2. \A x, y \in DOMAIN d : d[x] = d[y] => x = y
        BY DEF Holds
      <3>3. \A x \in DOMAIN d : d[x] \in T
        BY DEF Holds
      <3>4. CASE i < k
        BY <3>1, <3>2, <3>3, <3>4, <1>2, <1>8
      <3>5. CASE ~(i < k)
        BY <3>1, <3>2, <3>3, <3>5, <1>2, <1>8
      <3> QED BY <3>4, <3>5
    <2>2. ASSUME NEW v \in T \ {w}
          PROVE  \E i \in DOMAIN e : e[i] = v
      <3>1. PICK j \in DOMAIN d : d[j] = v
        BY DEF Holds
      <3>2. j # k /\ j \in 1 .. Len(d) /\ j \in Int /\ k \in Int
        BY <1>1, <1>2, <1>5, <2>2, <3>1
      <3>3. CASE j < k
        BY <3>1, <3>2, <3>3, <1>5, <1>7, <1>8
      <3>4. CASE j > k
        <4>1. j - 1 \in DOMAIN e /\ ~(j - 1 < k) /\ (j - 1) + 1 = j
          BY <3>2, <3>4, <1>5, <1>7
        <4> QED BY <3>1, <4>1, <1>8
      <3> QED BY <3>2, <3>3, <3>4
    <2> QED BY <2>1, <2>2
  <1> QED BY <1>7, <1>9, <1>10 DEF Holds, e

-------------------------------------------------------------------------------
(* The places of the callers *)

\* The callers of S that are at a place after w went to one and D were woken.
LEMMA MovedPlaces ==
  ASSUME TypeOK, NEW w \in Caller, pc[w] # "waiting", NEW S, S \subseteq Caller,
         NEW D, D \subseteq At("waiting", Caller), pc' = Moved(w, "idle", D)
  PROVE  /\ pc' \in [Caller -> Place]
         /\ pc'[w] = "idle"
         /\ \A v \in Caller : v \notin D \cup {w} => pc'[v] = pc[v]
         /\ \A v \in D : pc[v] = "waiting" /\ pc'[v] = "woken"
         /\ At("waiting", S)' = At("waiting", S) \ D
         /\ Roused(S)' = (Roused(S) \ {w}) \cup (D \cap S)
  <1>1. \A v \in Caller : pc'[v] = IF v \in D THEN "woken"
                                  ELSE IF v = w THEN "idle" ELSE pc[v]
    BY DEF Moved
  <1>2. pc' \in [Caller -> Place]
    BY DEF Moved, TypeOK, Place
  <1>3. w \notin D /\ \A v \in D : v \in Caller /\ pc[v] = "waiting"
    BY DEF At
  <1>4. At("waiting", S)' = At("waiting", S) \ D
    BY <1>1, <1>3 DEF At
  <1>5. Roused(S)' = (Roused(S) \ {w}) \cup (D \cap S)
    BY <1>1, <1>3 DEF At, Roused
  <1> QED BY <1>1, <1>2, <1>3, <1>4, <1>5

\* The same, after w alone went to a place.
LEMMA PutAtPlace ==
  ASSUME TypeOK, NEW w \in Caller, NEW S, S \subseteq Caller,
         NEW place \in Place, pc' = [pc EXCEPT ![w] = place]
  PROVE  /\ pc' \in [Caller -> Place]
         /\ pc'[w] = place
         /\ \A v \in Caller : v # w => pc'[v] = pc[v]
         /\ At("waiting", S)' = IF place = "waiting"
                                 THEN At("waiting", S) \cup ({w} \cap S)
                                 ELSE At("waiting", S) \ {w}
         /\ Roused(S)' = IF place \in {"woken", "late"}
                         THEN Roused(S) \cup ({w} \cap S)
                         ELSE Roused(S) \ {w}
  <1>1. pc' \in [Caller -> Place] /\ pc'[w] = place
        /\ \A v \in Caller : v # w => pc'[v] = pc[v]
    BY DEF TypeOK
  <1> QED BY <1>1 DEF At, Roused

\* A deque tells who waits.
LEMMA DequeHolds ==
  ASSUME NEW d, NEW S
  PROVE  DequeOf(d, S) <=> Holds(d, S, At("waiting", S))
  BY DEF DequeOf, Holds

\* The first of a deque waits, and it is one of the deque's callers.
LEMMA FirstWaits ==
  ASSUME NEW d, NEW S, S \subseteq Caller, DequeOf(d, S)
  PROVE  /\ First(d) \subseteq At("waiting", S)
         /\ First(d) \subseteq At("waiting", Caller)
         /\ First(d) \subseteq S
         /\ At("waiting", S) # {} => \E w \in At("waiting", S) : First(d) = {w}
  <1>1. Holds(d, S, At("waiting", S))
    BY DequeHolds
  <1>2. First(d) \subseteq At("waiting", S)
        /\ (At("waiting", S) # {} => \E w \in At("waiting", S) : First(d) = {w})
    BY ONLY <1>1, RestHolds, Zenon
  <1>3. At("waiting", S) \subseteq At("waiting", Caller) /\ At("waiting", S) \subseteq S
    BY DEF At
  <1> QED BY <1>2, <1>3

-------------------------------------------------------------------------------
(* Type correctness *)

\* A getter is not a putter.
LEMMA Apart == /\ Getter \subseteq Caller /\ Putter \subseteq Caller
               /\ Getter \cap Putter = {}
  BY QueueAssumption DEF Caller

\* What put_nowait does to the queue, the deques and the callers.
LEMMA PutTyped ==
  ASSUME TypeOK, NEW p \in Putter, pc[p] # "waiting", ~Full, NEW x \in Item, Put(p, x)
  PROVE  /\ items' \in Seq(Item) /\ Len(items') = Len(items) + 1
         /\ Len(items') <= MaxSize
         /\ accepted' \in Seq(Item)
         /\ DequeOf(getters, Getter)' /\ DequeOf(putters, Putter)'
         /\ pc' \in [Caller -> Place] /\ pc'[p] = "idle"
         /\ \A v \in Putter : v # p => pc'[v] = pc[v]
  <1> DEFINE D == First(getters)
  <1>1. /\ D \subseteq At("waiting", Getter) /\ D \subseteq At("waiting", Caller)
        /\ D \subseteq Getter
    BY Apart, FirstWaits DEF TypeOK
  <1>2. p \in Caller /\ p \notin Getter
    BY Apart
  <1>3. pc' = Moved(p, "idle", D)
    BY DEF Put
  <1> HIDE DEF D
  <1>4. /\ pc' \in [Caller -> Place] /\ pc'[p] = "idle"
        /\ \A v \in Caller : v \notin D \cup {p} => pc'[v] = pc[v]
        /\ At("waiting", Getter)' = At("waiting", Getter) \ D
        /\ At("waiting", Putter)' = At("waiting", Putter) \ D
    BY <1>1, <1>2, <1>3, Apart, MovedPlaces
  <1>5. DequeOf(getters, Getter)'
    <2>1. Holds(Rest(getters), Getter, At("waiting", Getter) \ D)
      BY DequeHolds, RestHolds DEF TypeOK, D
    <2> QED BY <2>1, <1>4 DEF DequeOf, Holds, Put
  <1>6. DequeOf(putters, Putter)'
    <2>1. At("waiting", Putter)' = At("waiting", Putter) /\ putters' = putters
      BY <1>1, <1>4, Apart DEF At, Put
    <2> QED BY <2>1 DEF DequeOf, TypeOK
  <1>7. items' \in Seq(Item) /\ Len(items') = Len(items) + 1
        /\ Len(items') <= MaxSize /\ accepted' \in Seq(Item)
    BY QueueAssumption, AppendProperties, LenProperties DEF Put, Full, TypeOK
  <1> QED BY <1>1, <1>4, <1>5, <1>6, <1>7, Apart

\* What get_nowait does to them.
LEMMA GetTyped ==
  ASSUME TypeOK, NEW g \in Getter, pc[g] # "waiting", items # <<>>, Get(g)
  PROVE  /\ items' \in Seq(Item) /\ Len(items') = Len(items) - 1
         /\ taken' \in Seq(Item)
         /\ DequeOf(getters, Getter)' /\ DequeOf(putters, Putter)'
         /\ pc' \in [Caller -> Place]
         /\ \A v \in Putter : pc'[v] = "idle" <=> pc[v] = "idle"
  <1> DEFINE D == First(putters)
  <1>1. /\ D \subseteq At("waiting", Putter) /\ D \subseteq At("waiting", Caller)
        /\ D \subseteq Putter
    BY Apart, FirstWaits DEF TypeOK
  <1>2. g \in Caller /\ g \notin Putter
    BY Apart
  <1>3. pc' = Moved(g, "idle", D)
    BY DEF Get
  <1> HIDE DEF D
  <1>4. /\ pc' \in [Caller -> Place]
        /\ \A v \in Caller : v \notin D \cup {g} => pc'[v] = pc[v]
        /\ \A v \in D : pc[v] = "waiting" /\ pc'[v] = "woken"
        /\ At("waiting", Getter)' = At("waiting", Getter) \ D
        /\ At("waiting", Putter)' = At("waiting", Putter) \ D
    BY <1>1, <1>2, <1>3, Apart, MovedPlaces
  <1>5. DequeOf(putters, Putter)'
    <2>1. Holds(Rest(putters), Putter, At("waiting", Putter) \ D)
      BY DequeHolds, RestHolds DEF TypeOK, D
    <2> QED BY <2>1, <1>4 DEF DequeOf, Holds, Get
  <1>6. DequeOf(getters, Getter)'
    <2>1. At("waiting", Getter)' = At("waiting", Getter) /\ getters' = getters
      BY <1>1, <1>4, Apart DEF At, Get
    <2> QED BY <2>1 DEF DequeOf, TypeOK
  <1>7. items' \in Seq(Item) /\ Len(items') = Len(items) - 1
        /\ taken' \in Seq(Item)
    BY HeadTailProperties, AppendProperties DEF Get, TypeOK
  <1>8. \A v \in Putter : pc'[v] = "idle" <=> pc[v] = "idle"
    BY <1>1, <1>2, <1>4, Apart
  <1> QED BY <1>4, <1>5, <1>6, <1>7, <1>8

\* One caller moves: what the two deques hold after it.
LEMMA OneMoves ==
  ASSUME TypeOK, NEW w \in Caller, NEW place \in Place, pc' = [pc EXCEPT ![w] = place],
         NEW S, NEW T, S \cup T = Caller, S \cap T = {}, w \in S,
         NEW d, DequeOf(d, S), NEW e, DequeOf(e, T)
  PROVE  /\ Holds(e, T, At("waiting", T)')
         /\ place = "waiting" /\ pc[w] # "waiting"
            => Holds(Append(d, w), S, At("waiting", S)')
         /\ place # "waiting" /\ pc[w] = "waiting"
            => Holds(Without(d, w), S, At("waiting", S)')
         /\ place # "waiting" /\ pc[w] # "waiting"
            => Holds(d, S, At("waiting", S)')
  <1>1. /\ At("waiting", S)' = IF place = "waiting"
                               THEN At("waiting", S) \cup ({w} \cap S)
                               ELSE At("waiting", S) \ {w}
        /\ At("waiting", T)' = IF place = "waiting"
                               THEN At("waiting", T) \cup ({w} \cap T)
                               ELSE At("waiting", T) \ {w}
    BY PutAtPlace
  <1>2. Holds(d, S, At("waiting", S)) /\ Holds(e, T, At("waiting", T))
    BY DequeHolds
  <1>3. (w \in At("waiting", S) <=> pc[w] = "waiting") /\ w \notin At("waiting", T)
    BY DEF At
  <1>4. At("waiting", T)' = At("waiting", T)
    BY <1>1, <1>3
  <1>5. ASSUME place = "waiting", pc[w] # "waiting"
        PROVE  Holds(Append(d, w), S, At("waiting", S)')
    <2>1. At("waiting", S)' = At("waiting", S) \cup {w}
      BY <1>1, <1>5
    <2>2. Holds(Append(d, w), S, At("waiting", S) \cup {w})
      BY <1>2, <1>3, <1>5, AppendHolds
    <2> QED BY <2>1, <2>2
  <1>6. ASSUME place # "waiting", pc[w] = "waiting"
        PROVE  Holds(Without(d, w), S, At("waiting", S)')
    <2>1. At("waiting", S)' = At("waiting", S) \ {w}
      BY <1>1, <1>6
    <2>2. Holds(Without(d, w), S, At("waiting", S) \ {w})
      BY <1>2, <1>3, <1>6, WithoutHolds
    <2> QED BY <2>1, <2>2
  <1>7. ASSUME place # "waiting", pc[w] # "waiting"
        PROVE  Holds(d, S, At("waiting", S)')
    <2>1. At("waiting", S)' = At("waiting", S)
      BY <1>1, <1>3, <1>7
    <2> QED BY <2>1, <1>2
  <1> QED BY <1>2, <1>4, <1>5, <1>6, <1>7

\* A getter moves alone, and its deque follows.
LEMMA GetterMoves ==
  ASSUME TypeOK, NEW g \in Getter, NEW place \in Place, pc' = [pc EXCEPT ![g] = place],
         putters' = putters,
         \/ place = "waiting" /\ pc[g] # "waiting" /\ getters' = Append(getters, g)
         \/ place # "waiting" /\ pc[g] = "waiting" /\ getters' = Without(getters, g)
         \/ place # "waiting" /\ pc[g] # "waiting" /\ getters' = getters
  PROVE  /\ DequeOf(getters, Getter)' /\ DequeOf(putters, Putter)'
         /\ pc' \in [Caller -> Place]
         /\ \A p \in Putter : pc'[p] = pc[p]
  <1>1. g \in Caller /\ Getter \cup Putter = Caller
        /\ DequeOf(getters, Getter) /\ DequeOf(putters, Putter)
    BY Apart DEF Caller, TypeOK
  <1>2. Holds(putters', Putter, At("waiting", Putter)')
        /\ Holds(getters', Getter, At("waiting", Getter)')
    BY <1>1, Apart, OneMoves
  <1>3. DequeOf(getters, Getter)' /\ DequeOf(putters, Putter)'
    BY <1>2 DEF DequeOf, Holds
  <1> QED BY <1>1, <1>3, PutAtPlace, Apart

\* A putter moves alone, and its deque follows.
LEMMA PutterMoves ==
  ASSUME TypeOK, NEW p \in Putter, NEW place \in Place, pc' = [pc EXCEPT ![p] = place],
         getters' = getters,
         \/ place = "waiting" /\ pc[p] # "waiting" /\ putters' = Append(putters, p)
         \/ place # "waiting" /\ pc[p] = "waiting" /\ putters' = Without(putters, p)
         \/ place # "waiting" /\ pc[p] # "waiting" /\ putters' = putters
  PROVE  /\ DequeOf(getters, Getter)' /\ DequeOf(putters, Putter)'
         /\ pc' \in [Caller -> Place] /\ pc'[p] = place
         /\ \A v \in Putter : v # p => pc'[v] = pc[v]
  <1>1. p \in Caller /\ Putter \cup Getter = Caller /\ Putter \cap Getter = {}
        /\ DequeOf(getters, Getter) /\ DequeOf(putters, Putter)
    BY Apart DEF Caller, TypeOK
  <1>2. Holds(putters', Putter, At("waiting", Putter)')
        /\ Holds(getters', Getter, At("waiting", Getter)')
    BY <1>1, OneMoves
  <1>3. DequeOf(getters, Getter)' /\ DequeOf(putters, Putter)'
    BY <1>2 DEF DequeOf, Holds
  <1> QED BY <1>1, <1>3, PutAtPlace, Apart

\* A cancelled caller that passes its wake-up on to the first of its deque.
LEMMA PassedOn ==
  ASSUME TypeOK, NEW w \in Caller, pc[w] = "late",
         NEW S, NEW T, S \cup T = Caller, S \cap T = {}, w \in S,
         NEW d, DequeOf(d, S), NEW e, DequeOf(e, T),
         pc' = Moved(w, "idle", First(d))
  PROVE  /\ Holds(Rest(d), S, At("waiting", S)') /\ Holds(e, T, At("waiting", T)')
         /\ pc' \in [Caller -> Place] /\ pc'[w] = "idle"
         /\ \A v \in Caller : v # w => (pc'[v] = "idle" <=> pc[v] = "idle")
         /\ \A v \in T : pc'[v] = pc[v]
  <1> DEFINE D == First(d)
  <1>1. D \subseteq At("waiting", S) /\ D \subseteq At("waiting", Caller) /\ D \subseteq S
    BY FirstWaits
  <1>2. Holds(Rest(d), S, At("waiting", S) \ D)
    BY DequeHolds, RestHolds
  <1> HIDE DEF D
  <1>3. pc' = Moved(w, "idle", D)
    BY DEF D
  <1>4. /\ pc' \in [Caller -> Place] /\ pc'[w] = "idle"
        /\ \A v \in Caller : v \notin D \cup {w} => pc'[v] = pc[v]
        /\ \A v \in D : pc[v] = "waiting" /\ pc'[v] = "woken"
        /\ At("waiting", S)' = At("waiting", S) \ D
        /\ At("waiting", T)' = At("waiting", T) \ D
    BY <1>1, <1>3, MovedPlaces
  <1>5. At("waiting", T)' = At("waiting", T)
    BY <1>1, <1>4 DEF At
  <1>6. Holds(e, T, At("waiting", T)')
    BY <1>5, DequeHolds
  <1>7. Holds(Rest(d), S, At("waiting", S)')
    BY <1>2, <1>4
  <1> QED BY <1>1, <1>4, <1>6, <1>7

\* The offers, when one putter offers something else.
LEMMA OfferTyped ==
  ASSUME TypeOK, NEW p \in Putter, NEW y \in Item \cup {None},
         offer' = [offer EXCEPT ![p] = y], y = None <=> pc'[p] = "idle",
         \A v \in Putter : v # p => (pc'[v] = "idle" <=> pc[v] = "idle")
  PROVE  /\ offer' \in [Putter -> Item \cup {None}]
         /\ \A v \in Putter : offer'[v] = None <=> pc'[v] = "idle"
  BY DEF TypeOK

\* A putter that is in queue_put holds an item.
LEMMA OfferIsItem ==
  ASSUME TypeOK, NEW p \in Putter, pc[p] # "idle"
  PROVE  offer[p] \in Item /\ offer[p] # None
  BY DEF TypeOK

\* queue_get looks at the queue.
LEMMA RunGetType ==
  ASSUME TypeOK, NEW g \in Getter, GetNow(g) \/ StartGet(g) \/ TryGet(g)
  PROVE  TypeOK'
  <1>1. CASE /\ pc[g] \in {"idle", "try", "woken"} /\ items # <<>> /\ Get(g)
    <2>1. pc[g] # "waiting"
      BY <1>1
    <2>2. UNCHANGED <<offer, accepted, refused>>
      BY <1>1 DEF Get
    <2>3. /\ items' \in Seq(Item) /\ Len(items') = Len(items) - 1
          /\ taken' \in Seq(Item)
          /\ DequeOf(getters, Getter)' /\ DequeOf(putters, Putter)'
          /\ pc' \in [Caller -> Place]
          /\ \A v \in Putter : pc'[v] = "idle" <=> pc[v] = "idle"
      BY <1>1, <2>1, GetTyped
    <2>4. Len(items) <= MaxSize /\ Len(items) \in Nat
      BY LenProperties DEF TypeOK
    <2> QED BY <2>2, <2>3, <2>4, QueueAssumption DEF TypeOK
  <1>2. CASE StartGet(g)
    <2>1. /\ DequeOf(getters, Getter)' /\ DequeOf(putters, Putter)'
          /\ pc' \in [Caller -> Place]
          /\ \A p \in Putter : pc'[p] = pc[p]
      BY <1>2, GetterMoves DEF StartGet, Place
    <2> QED BY <1>2, <2>1 DEF StartGet, TypeOK
  <1>3. CASE /\ pc[g] \in {"try", "woken"} /\ items = <<>>
             /\ getters' = Append(getters, g)
             /\ pc' = [pc EXCEPT ![g] = "waiting"]
             /\ UNCHANGED <<items, putters, offer, accepted, refused, taken>>
    <2>1. /\ DequeOf(getters, Getter)' /\ DequeOf(putters, Putter)'
          /\ pc' \in [Caller -> Place]
          /\ \A p \in Putter : pc'[p] = pc[p]
      BY <1>3, GetterMoves DEF Place
    <2> QED BY <1>3, <2>1 DEF TypeOK
  <1> QED BY <1>1, <1>2, <1>3 DEF GetNow, TryGet

\* queue_get is cancelled by its timer.
LEMMA EndGetType ==
  ASSUME TypeOK, NEW g \in Getter, ExpireGet(g) \/ GiveUpGet(g)
  PROVE  TypeOK'
  <1>1. CASE ExpireGet(g)
    <2>1. /\ DequeOf(getters, Getter)' /\ DequeOf(putters, Putter)'
          /\ pc' \in [Caller -> Place]
          /\ \A p \in Putter : pc'[p] = pc[p]
      <3>1. PICK place \in {"idle", "late"} :
              /\ pc' = [pc EXCEPT ![g] = place] /\ putters' = putters
              /\ \/ pc[g] = "waiting" /\ getters' = Without(getters, g)
                 \/ pc[g] # "waiting" /\ getters' = getters
        BY <1>1 DEF ExpireGet
      <3>2. place \in Place /\ place # "waiting"
        BY <3>1 DEF Place
      <3> QED BY <3>1, <3>2, GetterMoves
    <2> QED BY <1>1, <2>1 DEF ExpireGet, TypeOK
  <1>2. CASE GiveUpGet(g)
    <2>1. /\ DequeOf(getters, Getter)' /\ DequeOf(putters, Putter)'
          /\ pc' \in [Caller -> Place]
          /\ \A p \in Putter : pc'[p] = pc[p]
      <3>1. CASE getters' = Rest(getters) /\ pc' = Moved(g, "idle", First(getters))
        <4>1. /\ Holds(Rest(getters), Getter, At("waiting", Getter)')
              /\ Holds(putters, Putter, At("waiting", Putter)')
              /\ pc' \in [Caller -> Place]
              /\ \A v \in Putter : pc'[v] = pc[v]
          <5>1. /\ g \in Caller /\ pc[g] = "late" /\ Getter \cup Putter = Caller
                /\ DequeOf(getters, Getter) /\ DequeOf(putters, Putter)
            BY <1>2, Apart DEF GiveUpGet, TypeOK, Caller
          <5> QED BY <3>1, <5>1, Apart, PassedOn
        <4>2. putters' = putters
          BY <1>2 DEF GiveUpGet
        <4> QED BY <3>1, <4>1, <4>2 DEF DequeOf, Holds
      <3>2. CASE getters' = getters /\ pc' = [pc EXCEPT ![g] = "idle"]
        BY <1>2, <3>2, GetterMoves DEF GiveUpGet, Place
      <3> QED BY <1>2, <3>1, <3>2 DEF GiveUpGet
    <2> QED BY <1>2, <2>1 DEF GiveUpGet, TypeOK
  <1> QED BY <1>1, <1>2

\* queue_put looks at the queue.
LEMMA RunPutType ==
  ASSUME TypeOK, NEW p \in Putter,
         TryPut(p) \/ \E x \in Item : PutNow(p, x) \/ StartPut(p, x)
  PROVE  TypeOK'
  <1>1. ASSUME NEW x \in Item, NEW y \in {None, offer[p]},
               pc[p] \in {"idle", "try", "woken"}, ~Full, Put(p, x),
               \/ offer' = offer /\ pc[p] = "idle"
               \/ offer' = [offer EXCEPT ![p] = None]
        PROVE  TypeOK'
    <2>1. pc[p] # "waiting"
      BY <1>1
    <2>2. /\ items' \in Seq(Item) /\ Len(items') = Len(items) + 1
          /\ Len(items') <= MaxSize
          /\ accepted' \in Seq(Item)
          /\ DequeOf(getters, Getter)' /\ DequeOf(putters, Putter)'
          /\ pc' \in [Caller -> Place] /\ pc'[p] = "idle"
          /\ \A v \in Putter : v # p => pc'[v] = pc[v]
      BY <1>1, <2>1, PutTyped
    <2>3. UNCHANGED <<refused, taken>>
      BY <1>1 DEF Put
    <2>4. /\ offer' \in [Putter -> Item \cup {None}]
          /\ \A v \in Putter : offer'[v] = None <=> pc'[v] = "idle"
      <3>1. CASE offer' = offer /\ pc[p] = "idle"
        BY <2>2, <3>1 DEF TypeOK
      <3>2. CASE offer' = [offer EXCEPT ![p] = None]
        BY <2>2, <3>2, OfferTyped
      <3> QED BY <1>1, <3>1, <3>2
    <2> QED BY <2>2, <2>3, <2>4 DEF TypeOK
  <1>2. CASE TryPut(p) /\ ~Full /\ Put(p, offer[p])
    BY <1>1, <1>2, OfferIsItem DEF TryPut
  <1>3. CASE /\ pc[p] \in {"try", "woken"} /\ Full
             /\ putters' = Append(putters, p)
             /\ pc' = [pc EXCEPT ![p] = "waiting"]
             /\ UNCHANGED <<items, getters, offer, accepted, refused, taken>>
    <2>1. /\ DequeOf(getters, Getter)' /\ DequeOf(putters, Putter)'
          /\ pc' \in [Caller -> Place] /\ pc'[p] = "waiting"
          /\ \A v \in Putter : v # p => pc'[v] = pc[v]
      BY <1>3, PutterMoves DEF Place
    <2> QED BY <1>3, <2>1 DEF TypeOK
  <1>4. ASSUME NEW x \in Item, PutNow(p, x)
        PROVE  TypeOK'
    <2>1. CASE ~Full
      BY <1>1, <1>4, <2>1 DEF PutNow
    <2>2. CASE Full
      BY <1>4, <2>2 DEF PutNow, TypeOK, DequeOf, At
    <2> QED BY <2>1, <2>2
  <1>5. ASSUME NEW x \in Item, StartPut(p, x)
        PROVE  TypeOK'
    <2>1. /\ DequeOf(getters, Getter)' /\ DequeOf(putters, Putter)'
          /\ pc' \in [Caller -> Place] /\ pc'[p] = "try"
          /\ \A v \in Putter : v # p => pc'[v] = pc[v]
      BY <1>5, PutterMoves DEF StartPut, Place
    <2>2. /\ offer' \in [Putter -> Item \cup {None}]
          /\ \A v \in Putter : offer'[v] = None <=> pc'[v] = "idle"
      BY <1>5, <2>1, QueueAssumption, OfferTyped DEF StartPut
    <2> QED BY <1>5, <2>1, <2>2 DEF StartPut, TypeOK
  <1> QED BY <1>2, <1>3, <1>4, <1>5 DEF TryPut

\* queue_put is cancelled by its timer.
LEMMA EndPutType ==
  ASSUME TypeOK, NEW p \in Putter, ExpirePut(p) \/ GiveUpPut(p)
  PROVE  TypeOK'
  <1>1. ASSUME /\ DequeOf(getters, Getter)' /\ DequeOf(putters, Putter)'
               /\ pc' \in [Caller -> Place] /\ pc'[p] = "idle"
               /\ \A v \in Putter : v # p => (pc'[v] = "idle" <=> pc[v] = "idle"),
               pc[p] # "idle", Refuse(p), UNCHANGED <<items, accepted, taken>>
        PROVE  TypeOK'
    <2>1. /\ offer' \in [Putter -> Item \cup {None}]
          /\ \A v \in Putter : offer'[v] = None <=> pc'[v] = "idle"
      BY <1>1, OfferTyped DEF Refuse
    <2>2. refused' \subseteq Item
      BY <1>1, OfferIsItem DEF Refuse, TypeOK
    <2> QED BY <1>1, <2>1, <2>2 DEF TypeOK
  <1>2. CASE ExpirePut(p) /\ pc[p] # "woken"
    <2>1. /\ pc' = [pc EXCEPT ![p] = "idle"] /\ getters' = getters
          /\ \/ pc[p] = "waiting" /\ putters' = Without(putters, p)
             \/ pc[p] # "waiting" /\ putters' = putters
      BY <1>2 DEF ExpirePut
    <2>2. /\ DequeOf(getters, Getter)' /\ DequeOf(putters, Putter)'
          /\ pc' \in [Caller -> Place] /\ pc'[p] = "idle"
          /\ \A v \in Putter : v # p => pc'[v] = pc[v]
      BY <2>1, PutterMoves DEF Place
    <2> QED BY <1>1, <1>2, <2>2 DEF ExpirePut
  <1>3. CASE ExpirePut(p) /\ pc[p] = "woken"
    <2>1. /\ DequeOf(getters, Getter)' /\ DequeOf(putters, Putter)'
          /\ pc' \in [Caller -> Place] /\ pc'[p] = "late"
          /\ \A v \in Putter : v # p => pc'[v] = pc[v]
      BY <1>3, PutterMoves DEF ExpirePut, Place
    <2> QED BY <1>3, <2>1 DEF ExpirePut, TypeOK
  <1>4. CASE GiveUpPut(p)
    <2>1. CASE putters' = Rest(putters) /\ pc' = Moved(p, "idle", First(putters))
      <3>1. /\ Holds(Rest(putters), Putter, At("waiting", Putter)')
            /\ Holds(getters, Getter, At("waiting", Getter)')
            /\ pc' \in [Caller -> Place] /\ pc'[p] = "idle"
            /\ \A v \in Caller : v # p => (pc'[v] = "idle" <=> pc[v] = "idle")
        <4>1. /\ p \in Caller /\ pc[p] = "late" /\ Putter \cup Getter = Caller
              /\ DequeOf(getters, Getter) /\ DequeOf(putters, Putter)
              /\ Putter \cap Getter = {}
          BY <1>4, Apart DEF GiveUpPut, TypeOK, Caller
        <4> QED BY <2>1, <4>1, PassedOn
      <3>2. getters' = getters
        BY <1>4 DEF GiveUpPut
      <3>3. DequeOf(getters, Getter)' /\ DequeOf(putters, Putter)'
        BY <2>1, <3>1, <3>2 DEF DequeOf, Holds
      <3> QED BY <1>1, <1>4, <3>1, <3>3, Apart DEF GiveUpPut
    <2>2. CASE putters' = putters /\ pc' = [pc EXCEPT ![p] = "idle"]
      <3>1. /\ DequeOf(getters, Getter)' /\ DequeOf(putters, Putter)'
            /\ pc' \in [Caller -> Place] /\ pc'[p] = "idle"
            /\ \A v \in Putter : v # p => pc'[v] = pc[v]
        BY <1>4, <2>2, PutterMoves DEF GiveUpPut, Place
      <3> QED BY <1>1, <1>4, <3>1 DEF GiveUpPut
    <2> QED BY <1>4, <2>1, <2>2 DEF GiveUpPut
  <1> QED BY <1>2, <1>3, <1>4

\* The callers, their futures, their offers and the queue fit together in every
\* state: a deque of asyncio.Queue holds exactly the callers that sleep, each
\* once, and the queue never exceeds its bound (queueing.py:7-10, 19-47).
THEOREM TypeCorrect == Spec => []TypeOK
  <1>1. Init => TypeOK
    <2> SUFFICES ASSUME Init
                 PROVE  TypeOK
      OBVIOUS
    <2>1. Len(items) = 0 /\ items \in Seq(Item) /\ accepted \in Seq(Item)
          /\ taken \in Seq(Item) /\ Len(items) <= MaxSize
      BY QueueAssumption DEF Init
    <2>2. At("waiting", Getter) = {} /\ At("waiting", Putter) = {}
          /\ pc \in [Caller -> Place]
      BY Apart DEF Init, At, Place
    <2>3. getters = <<>> /\ putters = <<>>
      BY DEF Init
    <2>4. DequeOf(getters, Getter) /\ DequeOf(putters, Putter)
      BY <2>2, <2>3 DEF DequeOf
    <2>5. \A p \in Putter : offer[p] = None /\ pc[p] = "idle"
      BY Apart DEF Init
    <2>6. offer \in [Putter -> Item \cup {None}] /\ refused \subseteq Item
      BY DEF Init
    <2> QED BY <2>1, <2>2, <2>4, <2>5, <2>6 DEF TypeOK
  <1>2. TypeOK /\ [Next]_vars => TypeOK'
    <2> SUFFICES ASSUME TypeOK, [Next]_vars
                 PROVE  TypeOK'
      OBVIOUS
    <2>1. ASSUME NEW g \in Getter, GetNow(g) \/ StartGet(g) \/ RunGet(g) \/ ExpireGet(g)
          PROVE  TypeOK'
      BY <2>1, RunGetType, EndGetType DEF RunGet
    <2>2. ASSUME NEW p \in Putter, RunPut(p) \/ ExpirePut(p)
                   \/ \E x \in Item : PutNow(p, x) \/ StartPut(p, x)
          PROVE  TypeOK'
      BY <2>2, RunPutType, EndPutType DEF RunPut
    <2>3. CASE UNCHANGED vars
      BY <2>3 DEF vars, TypeOK, DequeOf, At
    <2> QED BY <2>1, <2>2, <2>3 DEF Next
  <1> QED BY <1>1, <1>2, PTL DEF Spec

-------------------------------------------------------------------------------
(* No lost wake-up *)

\* How many are roused, when one more is, one less, or one for another.
LEMMA RousedCount ==
  ASSUME NEW R, IsFiniteSet(R), NEW v, NEW w
  PROVE  /\ Cardinality(R) \in Nat
         /\ IsFiniteSet(R \ {w}) /\ Cardinality(R \ {w}) >= Cardinality(R) - 1
         /\ Cardinality(R \ {w}) \in Nat
         /\ v \notin R => Cardinality(R \cup {v}) = Cardinality(R) + 1
         /\ v \notin R => Cardinality((R \ {w}) \cup {v}) >= Cardinality(R)
  <1>1. Cardinality(R) \in Nat
    BY FS_CardinalityType
  <1>2. /\ IsFiniteSet(R \ {w})
        /\ Cardinality(R \ {w}) = IF w \in R THEN Cardinality(R) - 1 ELSE Cardinality(R)
    BY FS_RemoveElement
  <1>3. ASSUME v \notin R
        PROVE  /\ Cardinality(R \cup {v}) = Cardinality(R) + 1
               /\ Cardinality((R \ {w}) \cup {v}) = Cardinality(R \ {w}) + 1
    BY <1>2, <1>3, FS_AddElement
  <1>4. Cardinality(R \ {w}) \in Nat
    BY <1>2, FS_CardinalityType
  <1> QED BY <1>1, <1>2, <1>3, <1>4

\* There are enough roused callers of S for n items or places.
Enough(S, n) == At("waiting", S) # {} => n <= Cardinality(Roused(S))

\* The roused callers are finitely many.
LEMMA RousedFinite ==
  ASSUME NEW S, IsFiniteSet(S)
  PROVE  IsFiniteSet(Roused(S)) /\ Cardinality(Roused(S)) \in Nat
  <1>1. Roused(S) \subseteq S
    BY DEF Roused, At
  <1> QED BY <1>1, FS_Subset, FS_CardinalityType

\* The caller w of the other side put in or took out one item, and woke the first
\* that waits in S.
LEMMA OneMoreRoused ==
  ASSUME TypeOK, NEW S, S \subseteq Caller, IsFiniteSet(S), NEW d, DequeOf(d, S),
         NEW w \in Caller, w \notin S, pc[w] # "waiting",
         pc' = Moved(w, "idle", First(d)),
         NEW n \in Int, Enough(S, n)
  PROVE  At("waiting", S)' # {} => n + 1 <= Cardinality(Roused(S)')
  <1> SUFFICES ASSUME At("waiting", S)' # {}
               PROVE  n + 1 <= Cardinality(Roused(S)')
    OBVIOUS
  <1> DEFINE D == First(d)
  <1>1. /\ D \subseteq At("waiting", S) /\ D \subseteq At("waiting", Caller)
        /\ D \subseteq S
        /\ At("waiting", S) # {} => \E v \in At("waiting", S) : D = {v}
    BY FirstWaits
  <1>2. pc' = Moved(w, "idle", D)
    OBVIOUS
  <1> HIDE DEF D
  <1>3. /\ At("waiting", S)' = At("waiting", S) \ D
        /\ Roused(S)' = (Roused(S) \ {w}) \cup (D \cap S)
    BY <1>1, <1>2, MovedPlaces
  <1>4. PICK v \in At("waiting", S) : D = {v}
    BY <1>1, <1>3
  <1>5. w \notin Roused(S) /\ v \notin Roused(S)
    BY <1>4 DEF Roused, At
  <1>6. Roused(S)' = Roused(S) \cup {v}
    BY <1>1, <1>3, <1>4, <1>5
  <1>7. Cardinality(Roused(S) \cup {v}) = Cardinality(Roused(S)) + 1
        /\ Cardinality(Roused(S)) \in Nat
    <2>1. IsFiniteSet(Roused(S))
      BY RousedFinite
    <2> QED BY <1>5, <2>1, FS_AddElement, FS_CardinalityType
  <1>8. n <= Cardinality(Roused(S))
    BY <1>4 DEF Enough
  <1> QED BY <1>6, <1>7, <1>8

\* The caller w of S took an item or filled a place, and woke others of the other side.
LEMMA OneLessRoused ==
  ASSUME TypeOK, NEW S, S \subseteq Caller, IsFiniteSet(S),
         NEW w \in Caller, pc[w] # "waiting",
         NEW D, D \subseteq At("waiting", Caller), D \cap S = {},
         pc' = Moved(w, "idle", D),
         NEW n \in Int, Enough(S, n)
  PROVE  At("waiting", S)' # {} => n - 1 <= Cardinality(Roused(S)')
  <1>1. /\ At("waiting", S)' = At("waiting", S) \ D
        /\ Roused(S)' = (Roused(S) \ {w}) \cup (D \cap S)
    BY MovedPlaces
  <1>2. At("waiting", S)' = At("waiting", S) /\ Roused(S)' = Roused(S) \ {w}
    BY <1>1 DEF At
  <1>3. Cardinality(Roused(S) \ {w}) >= Cardinality(Roused(S)) - 1
        /\ Cardinality(Roused(S)) \in Nat /\ Cardinality(Roused(S) \ {w}) \in Nat
    BY RousedFinite, RousedCount
  <1>4. At("waiting", S) # {} => n <= Cardinality(Roused(S))
    BY DEF Enough
  <1> QED BY <1>2, <1>3, <1>4

\* The caller w of S was cancelled after it was woken, and woke the next in its place.
LEMMA AnotherRoused ==
  ASSUME TypeOK, NEW S, S \subseteq Caller, IsFiniteSet(S), NEW d, DequeOf(d, S),
         NEW w \in Caller, pc[w] # "waiting",
         pc' = Moved(w, "idle", First(d)),
         NEW n \in Int, Enough(S, n)
  PROVE  At("waiting", S)' # {} => n <= Cardinality(Roused(S)')
  <1> SUFFICES ASSUME At("waiting", S)' # {}
               PROVE  n <= Cardinality(Roused(S)')
    OBVIOUS
  <1> DEFINE D == First(d)
  <1>1. /\ D \subseteq At("waiting", S) /\ D \subseteq At("waiting", Caller)
        /\ D \subseteq S
        /\ At("waiting", S) # {} => \E v \in At("waiting", S) : D = {v}
    BY FirstWaits
  <1>2. pc' = Moved(w, "idle", D)
    OBVIOUS
  <1> HIDE DEF D
  <1>3. /\ At("waiting", S)' = At("waiting", S) \ D
        /\ Roused(S)' = (Roused(S) \ {w}) \cup (D \cap S)
    BY <1>1, <1>2, MovedPlaces
  <1>4. PICK v \in At("waiting", S) : D = {v}
    BY <1>1, <1>3
  <1>5. v \notin Roused(S)
    BY <1>4 DEF Roused, At
  <1>6. Roused(S)' = (Roused(S) \ {w}) \cup {v}
    BY <1>1, <1>3, <1>4
  <1>7. Cardinality((Roused(S) \ {w}) \cup {v}) >= Cardinality(Roused(S))
        /\ Cardinality(Roused(S)) \in Nat
        /\ IsFiniteSet((Roused(S) \ {w}) \cup {v})
    BY <1>5, RousedFinite, RousedCount, FS_AddElement
  <1>8. n <= Cardinality(Roused(S)) /\ Cardinality((Roused(S) \ {w}) \cup {v}) \in Nat
    BY <1>4, <1>7, FS_CardinalityType DEF Enough
  <1> QED BY <1>6, <1>7, <1>8

\* A caller moved that was not roused, or stays so; nobody was woken.
LEMMA SameRoused ==
  ASSUME TypeOK, NEW S, S \subseteq Caller, NEW w \in Caller, NEW place \in Place,
         place # "waiting", pc' = [pc EXCEPT ![w] = place],
         pc[w] \in {"woken", "late"} <=> place \in {"woken", "late"},
         NEW n \in Int, Enough(S, n)
  PROVE  At("waiting", S)' # {} => n <= Cardinality(Roused(S)')
  <1>1. /\ At("waiting", S)' = At("waiting", S) \ {w}
        /\ Roused(S)' = IF place \in {"woken", "late"}
                        THEN Roused(S) \cup ({w} \cap S) ELSE Roused(S) \ {w}
    BY PutAtPlace
  <1>2. place \in {"woken", "late"} => Roused(S) \cup ({w} \cap S) = Roused(S)
    BY DEF Roused, At
  <1>3. place \notin {"woken", "late"} => Roused(S) \ {w} = Roused(S)
    BY DEF Roused, At
  <1>4. Roused(S)' = Roused(S)
    BY <1>1, <1>2, <1>3
  <1> QED BY <1>1, <1>4 DEF Enough

\* The callers of the other side are where they were.
LEMMA OthersRoused ==
  ASSUME NEW S, \A v \in S : pc'[v] = pc[v], NEW n \in Int, Enough(S, n)
  PROVE  At("waiting", S)' # {} => n <= Cardinality(Roused(S)')
  <1>1. At("waiting", S)' = At("waiting", S) /\ Roused(S)' = Roused(S)
    BY DEF At, Roused
  <1> QED BY <1>1 DEF Enough

\* A getter in get_nowait takes an item from the queue, and frees a place.
LEMMA GetKeepsWakeups ==
  ASSUME TypeOK, NoLostWakeup, NEW g \in Getter, pc[g] # "waiting", items # <<>>, Get(g)
  PROVE  NoLostWakeup'
  <1> DEFINE D == First(putters)
  <1>1. D \subseteq At("waiting", Caller) /\ D \cap Getter = {}
    BY Apart, FirstWaits DEF TypeOK
  <1>2. pc' = Moved(g, "idle", D)
    BY DEF Get
  <1>3. g \in Caller /\ g \notin Putter /\ IsFiniteSet(Getter) /\ IsFiniteSet(Putter)
        /\ DequeOf(putters, Putter)
    BY Apart, QueueAssumption DEF TypeOK
  <1>4. Len(items) \in Int /\ MaxSize \in Int /\ Len(items') = Len(items) - 1
    BY GetTyped, QueueAssumption DEF TypeOK
  <1>5. Enough(Getter, Len(items)) /\ Enough(Putter, MaxSize - Len(items))
    BY DEF NoLostWakeup, Enough
  <1>6. At("waiting", Putter)' # {}
        => (MaxSize - Len(items)) + 1 <= Cardinality(Roused(Putter)')
    BY <1>2, <1>3, <1>4, <1>5, Apart, OneMoreRoused
  <1> HIDE DEF D
  <1>7. At("waiting", Getter)' # {} => Len(items) - 1 <= Cardinality(Roused(Getter)')
    BY <1>1, <1>2, <1>3, <1>4, <1>5, Apart, OneLessRoused
  <1>8. (MaxSize - Len(items)) + 1 = MaxSize - Len(items')
    BY <1>4
  <1> QED BY <1>4, <1>6, <1>7, <1>8 DEF NoLostWakeup

\* A putter in put_nowait fills a place, and adds an item.
LEMMA PutKeepsWakeups ==
  ASSUME TypeOK, NoLostWakeup, NEW p \in Putter, pc[p] # "waiting", ~Full,
         NEW x \in Item, Put(p, x)
  PROVE  NoLostWakeup'
  <1> DEFINE D == First(getters)
  <1>1. D \subseteq At("waiting", Caller) /\ D \cap Putter = {}
    BY Apart, FirstWaits DEF TypeOK
  <1>2. pc' = Moved(p, "idle", D)
    BY DEF Put
  <1>3. p \in Caller /\ p \notin Getter /\ IsFiniteSet(Getter) /\ IsFiniteSet(Putter)
        /\ DequeOf(getters, Getter)
    BY Apart, QueueAssumption DEF TypeOK
  <1>4. Len(items) \in Int /\ MaxSize \in Int /\ Len(items') = Len(items) + 1
    BY PutTyped, QueueAssumption DEF TypeOK
  <1>5. Enough(Getter, Len(items)) /\ Enough(Putter, MaxSize - Len(items))
    BY DEF NoLostWakeup, Enough
  <1>6. At("waiting", Getter)' # {} => Len(items) + 1 <= Cardinality(Roused(Getter)')
    BY <1>2, <1>3, <1>4, <1>5, Apart, OneMoreRoused
  <1> HIDE DEF D
  <1>7. At("waiting", Putter)' # {}
        => (MaxSize - Len(items)) - 1 <= Cardinality(Roused(Putter)')
    BY <1>1, <1>2, <1>3, <1>4, <1>5, Apart, OneLessRoused
  <1>8. (MaxSize - Len(items)) - 1 = MaxSize - Len(items')
    BY <1>4
  <1> QED BY <1>4, <1>6, <1>7, <1>8 DEF NoLostWakeup

\* The places and items that the roused callers must cover.
LEMMA Covered ==
  ASSUME TypeOK, NoLostWakeup
  PROVE  /\ Len(items) \in Int /\ MaxSize - Len(items) \in Int /\ MaxSize \in Int
         /\ Enough(Getter, Len(items)) /\ Enough(Putter, MaxSize - Len(items))
         /\ IsFiniteSet(Getter) /\ IsFiniteSet(Putter)
         /\ DequeOf(getters, Getter) /\ DequeOf(putters, Putter)
  BY QueueAssumption DEF TypeOK, NoLostWakeup, Enough

\* Nobody has to be roused for an empty queue, or for a full one.
LEMMA NothingToCover ==
  /\ TypeOK /\ TypeOK' /\ items' = <<>> => Len(items') <= Cardinality(Roused(Getter)')
  /\ TypeOK /\ TypeOK' /\ items' = items /\ Full
     => MaxSize - Len(items') <= Cardinality(Roused(Putter)')
  <1>1. Cardinality(Roused(Getter)') \in Nat /\ Cardinality(Roused(Putter)') \in Nat
    <2>1. Roused(Getter)' \subseteq Getter /\ Roused(Putter)' \subseteq Putter
      BY DEF Roused, At
    <2> QED BY <2>1, QueueAssumption, FS_Subset, FS_CardinalityType
  <1>2. TypeOK => Len(items) \in Int
    BY DEF TypeOK
  <1> QED BY <1>1, <1>2, QueueAssumption DEF Full

\* A getter starts, or starts to wait, or its timer fires.
LEMMA GetterKeepsWakeups ==
  ASSUME TypeOK, TypeOK', NoLostWakeup, NEW g \in Getter,
         StartGet(g) \/ (TryGet(g) /\ items = <<>>) \/ ExpireGet(g)
         \/ (GiveUpGet(g) /\ items = <<>>)
  PROVE  NoLostWakeup'
  <1>1. PICK place \in Place : pc' = [pc EXCEPT ![g] = place] /\ items' = items
    <2>1. \/ pc' = [pc EXCEPT ![g] = "try"] \/ pc' = [pc EXCEPT ![g] = "waiting"]
          \/ pc' = [pc EXCEPT ![g] = "idle"] \/ pc' = [pc EXCEPT ![g] = "late"]
      BY DEF StartGet, TryGet, ExpireGet, GiveUpGet
    <2>2. items' = items
      BY DEF StartGet, TryGet, ExpireGet, GiveUpGet
    <2> QED BY <2>1, <2>2 DEF Place
  <1>2. g \in Caller /\ g \notin Putter
    BY Apart
  <1>3. At("waiting", Putter)' # {}
        => MaxSize - Len(items) <= Cardinality(Roused(Putter)')
    <2>1. \A v \in Putter : pc'[v] = pc[v]
      BY <1>1, <1>2, PutAtPlace, Apart
    <2> QED BY <2>1, Covered, OthersRoused
  <1>4. At("waiting", Getter)' # {} => Len(items) <= Cardinality(Roused(Getter)')
    <2>1. CASE items = <<>>
      BY <1>1, <2>1, NothingToCover
    <2>2. CASE items # <<>>
      <3>1. \/ pc' = [pc EXCEPT ![g] = "try"] /\ pc[g] = "idle"
            \/ pc' = [pc EXCEPT ![g] = "idle"] /\ pc[g] \in {"try", "waiting"}
            \/ pc' = [pc EXCEPT ![g] = "late"] /\ pc[g] = "woken"
        BY <2>2 DEF StartGet, ExpireGet
      <3>2. PICK q \in Place :
              /\ q # "waiting" /\ pc' = [pc EXCEPT ![g] = q]
              /\ pc[g] \in {"woken", "late"} <=> q \in {"woken", "late"}
        BY <3>1 DEF Place
      <3> QED BY <1>2, <3>2, Apart, Covered, SameRoused
    <2> QED BY <2>1, <2>2
  <1> QED BY <1>1, <1>3, <1>4 DEF NoLostWakeup

\* A putter starts, or starts to wait, or its timer fires.
LEMMA PutterKeepsWakeups ==
  ASSUME TypeOK, TypeOK', NoLostWakeup, NEW p \in Putter,
         (\E x \in Item : StartPut(p, x)) \/ (TryPut(p) /\ Full) \/ ExpirePut(p)
         \/ (GiveUpPut(p) /\ Full)
  PROVE  NoLostWakeup'
  <1>1. PICK place \in Place : pc' = [pc EXCEPT ![p] = place] /\ items' = items
    <2>1. \/ pc' = [pc EXCEPT ![p] = "try"] \/ pc' = [pc EXCEPT ![p] = "waiting"]
          \/ pc' = [pc EXCEPT ![p] = "idle"] \/ pc' = [pc EXCEPT ![p] = "late"]
      BY DEF StartPut, TryPut, ExpirePut, GiveUpPut
    <2>2. items' = items
      BY DEF StartPut, TryPut, ExpirePut, GiveUpPut
    <2> QED BY <2>1, <2>2 DEF Place
  <1>2. p \in Caller /\ p \notin Getter
    BY Apart
  <1>3. At("waiting", Getter)' # {} => Len(items) <= Cardinality(Roused(Getter)')
    <2>1. \A v \in Getter : pc'[v] = pc[v]
      BY <1>1, <1>2, PutAtPlace, Apart
    <2> QED BY <2>1, Covered, OthersRoused
  <1>4. At("waiting", Putter)' # {}
        => MaxSize - Len(items) <= Cardinality(Roused(Putter)')
    <2>1. CASE Full
      BY <1>1, <2>1, NothingToCover
    <2>2. CASE ~Full
      <3>1. \/ pc' = [pc EXCEPT ![p] = "try"] /\ pc[p] = "idle"
            \/ pc' = [pc EXCEPT ![p] = "idle"] /\ pc[p] \in {"try", "waiting"}
            \/ pc' = [pc EXCEPT ![p] = "late"] /\ pc[p] = "woken"
        BY <2>2 DEF StartPut, ExpirePut
      <3>2. PICK q \in Place :
              /\ q # "waiting" /\ pc' = [pc EXCEPT ![p] = q]
              /\ pc[p] \in {"woken", "late"} <=> q \in {"woken", "late"}
        BY <3>1 DEF Place
      <3> QED BY <1>2, <3>2, Apart, Covered, SameRoused
    <2> QED BY <2>1, <2>2
  <1> QED BY <1>1, <1>3, <1>4 DEF NoLostWakeup

\* A getter that was woken and cancelled wakes the next one.
LEMMA GetterPassesOn ==
  ASSUME TypeOK, NoLostWakeup, NEW g \in Getter, GiveUpGet(g), items # <<>>
  PROVE  NoLostWakeup'
  <1>1. /\ pc[g] = "late" /\ pc' = Moved(g, "idle", First(getters)) /\ items' = items
        /\ g \in Caller
    BY Apart DEF GiveUpGet
  <1>2. At("waiting", Getter)' # {} => Len(items) <= Cardinality(Roused(Getter)')
    BY <1>1, Apart, Covered, AnotherRoused
  <1>3. At("waiting", Putter)' # {}
        => MaxSize - Len(items) <= Cardinality(Roused(Putter)')
    <2>1. \A v \in Putter : v \notin First(getters) /\ v # g
      BY Apart, Covered, FirstWaits
    <2>2. \A v \in Putter : pc'[v] = pc[v]
      BY <1>1, <2>1, Apart DEF Moved
    <2> QED BY <2>2, Covered, OthersRoused
  <1> QED BY <1>1, <1>2, <1>3 DEF NoLostWakeup

\* A putter that was woken and cancelled wakes the next one.
LEMMA PutterPassesOn ==
  ASSUME TypeOK, NoLostWakeup, NEW p \in Putter, GiveUpPut(p), ~Full
  PROVE  NoLostWakeup'
  <1>1. /\ pc[p] = "late" /\ pc' = Moved(p, "idle", First(putters)) /\ items' = items
        /\ p \in Caller
    BY Apart DEF GiveUpPut
  <1>2. At("waiting", Putter)' # {}
        => MaxSize - Len(items) <= Cardinality(Roused(Putter)')
    BY <1>1, Apart, Covered, AnotherRoused
  <1>3. At("waiting", Getter)' # {} => Len(items) <= Cardinality(Roused(Getter)')
    <2>1. \A v \in Getter : v \notin First(putters) /\ v # p
      BY Apart, Covered, FirstWaits
    <2>2. \A v \in Getter : pc'[v] = pc[v]
      BY <1>1, <2>1, Apart DEF Moved
    <2> QED BY <2>2, Covered, OthersRoused
  <1> QED BY <1>1, <1>2, <1>3 DEF NoLostWakeup

\* No wake-up is lost, for any number of callers: while one sleeps, as many are
\* roused as there are items to get (free places to fill), whatever the order of
\* puts, gets, timers and cancellations (wait_for in queueing.py:28,45).
THEOREM WakeupsAreKept == Spec => []NoLostWakeup
  <1>1. Init => NoLostWakeup
    BY Apart DEF Init, NoLostWakeup, At
  <1>2. TypeOK /\ TypeOK' /\ NoLostWakeup /\ [Next]_vars => NoLostWakeup'
    <2> SUFFICES ASSUME TypeOK, TypeOK', NoLostWakeup, [Next]_vars
                 PROVE  NoLostWakeup'
      OBVIOUS
    <2>1. ASSUME NEW g \in Getter, GetNow(g) \/ StartGet(g) \/ RunGet(g) \/ ExpireGet(g)
          PROVE  NoLostWakeup'
      <3>1. CASE items # <<>> /\ (GetNow(g) \/ TryGet(g))
        <4>1. pc[g] # "waiting" /\ Get(g)
          BY <3>1 DEF GetNow, TryGet
        <4> QED BY <3>1, <4>1, GetKeepsWakeups
      <3>2. CASE GiveUpGet(g) /\ items # <<>>
        BY <3>2, GetterPassesOn
      <3>3. CASE StartGet(g) \/ (TryGet(g) /\ items = <<>>) \/ ExpireGet(g)
                 \/ (GiveUpGet(g) /\ items = <<>>)
        BY <3>3, GetterKeepsWakeups
      <3> QED BY <2>1, <3>1, <3>2, <3>3 DEF GetNow, RunGet
    <2>2. ASSUME NEW p \in Putter, RunPut(p) \/ ExpirePut(p)
                   \/ \E x \in Item : PutNow(p, x) \/ StartPut(p, x)
          PROVE  NoLostWakeup'
      <3>1. ASSUME NEW x \in Item, PutNow(p, x)
            PROVE  NoLostWakeup'
        <4>1. CASE ~Full
          BY <3>1, <4>1, PutKeepsWakeups DEF PutNow
        <4>2. CASE Full
          BY <3>1, <4>2 DEF PutNow, NoLostWakeup, Roused, At
        <4> QED BY <4>1, <4>2
      <3>2. CASE TryPut(p) /\ ~Full
        <4>1. pc[p] \in {"try", "woken"} /\ Put(p, offer[p])
          BY <3>2 DEF TryPut
        <4>2. pc[p] # "waiting" /\ offer[p] \in Item
          BY <4>1, OfferIsItem
        <4> QED BY <3>2, <4>1, <4>2, PutKeepsWakeups
      <3>3. CASE GiveUpPut(p) /\ ~Full
        BY <3>3, PutterPassesOn
      <3>4. CASE (\E x \in Item : StartPut(p, x)) \/ (TryPut(p) /\ Full) \/ ExpirePut(p)
                 \/ (GiveUpPut(p) /\ Full)
        BY <3>4, PutterKeepsWakeups
      <3> QED BY <2>2, <3>1, <3>2, <3>3, <3>4 DEF RunPut
    <2>3. CASE UNCHANGED vars
      BY <2>3 DEF vars, NoLostWakeup, Roused, At
    <2> QED BY <2>1, <2>2, <2>3 DEF Next
  <1> QED BY <1>1, <1>2, TypeCorrect, PTL DEF Spec

-------------------------------------------------------------------------------
(* The callers see a bounded queue *)

\* What the callers of queue_put offer, as BoundedQueue sees it.
Offered == {offer[p] : p \in Putter} \ {None}

\* No two of them offer the same item.
OffersDiffer ==
  \A p, q \in Putter : offer[p] = offer[q] /\ offer[p] # None => p = q

\* One putter's queue_put returns: its offer is withdrawn, and no other.
LEMMA OfferWithdrawn ==
  ASSUME TypeOK, OffersDiffer, NEW p \in Putter, pc[p] # "idle",
         offer' = [offer EXCEPT ![p] = None]
  PROVE  /\ offer[p] \in Offered
         /\ Offered' = Offered \ {offer[p]}
         /\ OffersDiffer'
  <1>1. offer[p] # None /\ offer \in [Putter -> Item \cup {None}]
    BY DEF TypeOK
  <1>2. offer'[p] = None /\ \A q \in Putter : q # p => offer'[q] = offer[q]
    BY <1>1
  <1>3. \A q \in Putter : q # p => offer[q] # offer[p]
    BY <1>1 DEF OffersDiffer
  <1> QED BY <1>1, <1>2, <1>3 DEF Offered, OffersDiffer

\* One putter that is in no call offers an item that no other offers.
LEMMA OfferMade ==
  ASSUME TypeOK, OffersDiffer, NEW p \in Putter, pc[p] = "idle",
         NEW x \in Item, Fresh(x), offer' = [offer EXCEPT ![p] = x]
  PROVE  Offered' = Offered \cup {x} /\ OffersDiffer'
  <1>1. offer[p] = None /\ offer \in [Putter -> Item \cup {None}] /\ x # None
    BY QueueAssumption DEF TypeOK
  <1>2. offer'[p] = x /\ \A q \in Putter : q # p => offer'[q] = offer[q]
    BY <1>1
  <1>3. \A q \in Putter : offer[q] # x
    BY DEF Fresh
  <1> QED BY <1>1, <1>2, <1>3 DEF Offered, OffersDiffer

\* The offers differ as long as the program runs.
LEMMA OffersStayApart == Spec => []OffersDiffer
  <1>1. Init => OffersDiffer
    BY DEF Init, OffersDiffer
  <1>2. TypeOK /\ OffersDiffer /\ [Next]_vars => OffersDiffer'
    <2> SUFFICES ASSUME TypeOK, OffersDiffer, [Next]_vars
                 PROVE  OffersDiffer'
      OBVIOUS
    <2>1. CASE UNCHANGED offer
      BY <2>1 DEF OffersDiffer
    <2>2. ASSUME NEW g \in Getter, GetNow(g) \/ StartGet(g) \/ RunGet(g) \/ ExpireGet(g)
          PROVE  UNCHANGED offer
      BY <2>2 DEF GetNow, StartGet, RunGet, TryGet, GiveUpGet, ExpireGet, Get
    <2>3. ASSUME NEW p \in Putter, NEW x \in Item, StartPut(p, x)
          PROVE  OffersDiffer'
      BY <2>3, OfferMade DEF StartPut
    <2>4. ASSUME NEW p \in Putter, RunPut(p) \/ ExpirePut(p) \/ \E x \in Item : PutNow(p, x)
          PROVE  UNCHANGED offer
                 \/ (pc[p] # "idle" /\ offer' = [offer EXCEPT ![p] = None])
      BY <2>4 DEF RunPut, TryPut, GiveUpPut, ExpirePut, Refuse, PutNow
    <2>5. ASSUME NEW p \in Putter, RunPut(p) \/ ExpirePut(p) \/ \E x \in Item : PutNow(p, x)
          PROVE  OffersDiffer'
      BY <2>1, <2>4, <2>5, OfferWithdrawn
    <2> QED BY <2>1, <2>2, <2>3, <2>5 DEF Next, vars
  <1> QED BY <1>1, <1>2, TypeCorrect, PTL DEF Spec

\* An item that is fresh to the program is fresh to the contract.
LEMMA FreshItem ==
  ASSUME NEW x \in Item, Fresh(x)
  PROVE  Abstract!Fresh(x) /\ x \notin Offered
  BY DEF Fresh, Abstract!Fresh, Offered

\* put_nowait, at once or at the end of a wait, accepts an item.
LEMMA PutAccepts ==
  ASSUME TypeOK, OffersDiffer, NEW p \in Putter, NEW x \in Item, Put(p, x), ~Full,
         x \in Offered \/ Fresh(x), Offered' = Offered \ {x}
  PROVE  Abstract!Accept(x)
  <1>1. Len(items) < MaxSize
    BY QueueAssumption DEF Full, TypeOK
  <1> QED BY <1>1, FreshItem DEF Put, Abstract!Accept, Offered

\* What a caller of queue_put and queue_get sees, in any number and whatever the
\* interleaving with timers and wake-ups, is a bounded first-in-first-out queue:
\* queue_put returns True for exactly the items that enter it (queueing.py:19-47).
THEOREM QueueRefinesContract == Spec => ImplementsBoundedQueue
  <1>1. Init => Abstract!Init
    BY DEF Init, Abstract!Init
  <1>2. TypeOK /\ OffersDiffer /\ [Next]_vars => [Abstract!Next]_(Abstract!vars)
    <2> SUFFICES ASSUME TypeOK, OffersDiffer, [Next]_vars
                 PROVE  [Abstract!Next]_(Abstract!vars)
      OBVIOUS
    <2>1. CASE UNCHANGED <<items, offer, accepted, refused, taken>>
      BY <2>1 DEF Abstract!vars
    <2>2. ASSUME NEW g \in Getter, items # <<>>, Get(g)
          PROVE  Abstract!Take
      BY <2>2 DEF Get, Abstract!Take
    <2>3. ASSUME NEW g \in Getter, GetNow(g) \/ StartGet(g) \/ RunGet(g) \/ ExpireGet(g)
          PROVE  \/ Abstract!Take
                 \/ UNCHANGED <<items, offer, accepted, refused, taken>>
      BY <2>2, <2>3 DEF GetNow, StartGet, RunGet, TryGet, GiveUpGet, ExpireGet
    <2>4. ASSUME NEW p \in Putter, NEW x \in Item, StartPut(p, x)
          PROVE  Abstract!Offer(x)
      <3>1. Offered' = Offered \cup {x}
        BY <2>4, OfferMade DEF StartPut
      <3> QED BY <2>4, <3>1, FreshItem DEF StartPut, Abstract!Offer, Offered
    <2>5. ASSUME NEW p \in Putter, NEW x \in Item, PutNow(p, x)
          PROVE  Abstract!Accept(x) \/ Abstract!Refuse(x)
      <3>1. Fresh(x) /\ Offered' = Offered \ {x}
        BY <2>5, FreshItem DEF PutNow, Offered
      <3>2. CASE ~Full
        BY <2>5, <3>1, <3>2, PutAccepts DEF PutNow
      <3>3. CASE Full
        BY <2>5, <3>1, <3>3, FreshItem DEF PutNow, Abstract!Refuse, Offered
      <3> QED BY <3>2, <3>3
    <2>6. ASSUME NEW p \in Putter, TryPut(p), ~Full
          PROVE  \E x \in Item : Abstract!Accept(x)
      <3>1. pc[p] # "idle" /\ offer' = [offer EXCEPT ![p] = None]
        BY <2>6 DEF TryPut
      <3>2. /\ offer[p] \in Offered /\ Offered' = Offered \ {offer[p]}
            /\ offer[p] \in Item
        BY <3>1, OfferWithdrawn, OfferIsItem
      <3>3. PICK x \in Item : x = offer[p]
        BY <3>2
      <3>4. Put(p, x)
        BY <2>6, <3>3 DEF TryPut, Put
      <3>5. Abstract!Accept(x)
        BY <2>6, <3>2, <3>3, <3>4, PutAccepts
      <3> QED BY <3>5
    <2>7. ASSUME NEW p \in Putter, Refuse(p), pc[p] # "idle", UNCHANGED <<items, accepted, taken>>
          PROVE  \E x \in Item : Abstract!Refuse(x)
      <3>1. /\ offer[p] \in Offered /\ Offered' = Offered \ {offer[p]}
            /\ offer[p] \in Item
        BY <2>7, OfferWithdrawn, OfferIsItem DEF Refuse
      <3>2. PICK x \in Item : x = offer[p]
        BY <3>1
      <3>3. Abstract!Refuse(x)
        BY <2>7, <3>1, <3>2 DEF Refuse, Abstract!Refuse, Offered
      <3> QED BY <3>3
    <2>8. ASSUME NEW p \in Putter, RunPut(p) \/ ExpirePut(p)
          PROVE  \/ \E x \in Item : Abstract!Accept(x) \/ Abstract!Refuse(x)
                 \/ UNCHANGED <<items, offer, accepted, refused, taken>>
      <3>1. CASE TryPut(p) /\ ~Full
        BY <2>6, <3>1
      <3>2. CASE (TryPut(p) /\ Full) \/ (ExpirePut(p) /\ pc[p] = "woken")
        BY <3>2 DEF TryPut, ExpirePut
      <3>3. CASE GiveUpPut(p) \/ (ExpirePut(p) /\ pc[p] # "woken")
        <4>1. Refuse(p) /\ pc[p] # "idle" /\ UNCHANGED <<items, accepted, taken>>
          BY <3>3 DEF GiveUpPut, ExpirePut
        <4> QED BY <2>7, <4>1
      <3> QED BY <2>8, <3>1, <3>2, <3>3 DEF RunPut
    <2>9. CASE UNCHANGED vars
      BY <2>1, <2>9 DEF vars
    <2> QED BY <2>1, <2>3, <2>4, <2>5, <2>8, <2>9 DEF Next, Abstract!Next
  <1> QED BY <1>1, <1>2, TypeCorrect, OffersStayApart, PTL
          DEF Spec, ImplementsBoundedQueue, Abstract!Spec

-------------------------------------------------------------------------------
(* What follows from the contract *)

Contract == INSTANCE BoundedQueueProofs WITH contents <- items, offered <- Offered

\* The contract that is implemented is the one that is proved about.
LEMMA ContractKept == Spec => Contract!Spec
  <1>1. Abstract!Spec <=> Contract!Spec
    BY DEF Abstract!Spec, Abstract!Init, Abstract!Next, Abstract!vars, Abstract!Fresh,
           Abstract!Offer, Abstract!Accept, Abstract!Refuse, Abstract!Take,
           Contract!Spec, Contract!Init, Contract!Next, Contract!vars, Contract!Fresh,
           Contract!Offer, Contract!Accept, Contract!Refuse, Contract!Take, Offered
  <1> QED BY <1>1, QueueRefinesContract DEF ImplementsBoundedQueue

\* What was accepted is what was taken followed by what is still queued, in that
\* order: no item is lost, taken twice, or overtaken (queueing.py:19-47).
THEOREM QueueIsFifo == Spec => []Fifo
  <1>1. Contract!Spec => []Contract!Fifo
    BY QueueAssumption, Contract!ContractFifo
  <1>2. Contract!Fifo <=> Fifo
    BY DEF Contract!Fifo, Fifo, Abstract!Fifo
  <1> QED BY <1>1, <1>2, ContractKept, PTL

\* queue_put that returned False left nothing behind, not even when a free place
\* came at the moment of its timeout (queueing.py:27-34).
THEOREM RefusalIsFinal == Spec => []RefusedStaysOut
  <1>1. Contract!Spec => []Contract!RefusedStaysOut
    BY QueueAssumption, Contract!ContractRefusal
  <1>2. Contract!RefusedStaysOut <=> RefusedStaysOut
    BY DEF Contract!RefusedStaysOut, RefusedStaysOut, Abstract!RefusedStaysOut
  <1> QED BY <1>1, <1>2, ContractKept, PTL

\* No item is handed to two callers of queue_get, or to one of them twice.
THEOREM ItemsTakenOnce ==
  Spec => [](\A i, j \in DOMAIN taken : taken[i] = taken[j] => i = j)
  <1>1. Contract!Spec => []Contract!TakenOnce
    BY QueueAssumption, Contract!ContractTakesOnce
  <1>2. Contract!TakenOnce <=> \A i, j \in DOMAIN taken : taken[i] = taken[j] => i = j
    BY DEF Contract!TakenOnce
  <1> QED BY <1>1, <1>2, ContractKept, PTL
=============================================================================
