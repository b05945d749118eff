--------------------------- MODULE ReaperSweepProofs ---------------------------
(***************************************************************************)
(* Proofs about ReaperSweep for every number of clients, every threshold,    *)
(* minimum batch and target that satisfy its assumptions.                    *)
(***************************************************************************)
EXTENDS ReaperSweep, FiniteSetTheorems, FunctionTheorems, SequenceTheorems, TLAPS

-------------------------------------------------------------------------------
(* Rounding up *)

\* The parameters are whole numbers.
LEMMA Parameters ==
  /\ BatchSize \in Nat /\ BatchSize > 0 /\ TicksPerSweep \in Nat /\ TicksPerSweep > 0
  /\ Threshold \in Nat /\ MaxAge \in Nat /\ MaxAge > Threshold
  /\ Cardinality(Client) \in Nat
  BY ReaperAssumption, FS_CardinalityType

\* More batches hold more, by at least one batch.
LEMMA Batches ==
  ASSUME NEW a \in Nat, NEW b \in Nat, NEW d \in Nat
  PROVE  /\ d * a \in Nat
         /\ a < b => d * a + d <= d * b
  <1>1. d * a \in Nat /\ d * b \in Nat /\ d * (a + 1) = d * a + d
    OBVIOUS
  <1>2. ASSUME a < b
        PROVE  d * (a + 1) <= d * b
    <2>1. PICK e \in Nat : b = a + 1 + e
      <3>1. b - (a + 1) \in Nat /\ b = a + 1 + (b - (a + 1))
        BY <1>2
      <3> QED BY <3>1
    <2>2. d * b = d * (a + 1) + d * e /\ d * e \in Nat /\ d * (a + 1) \in Nat
      BY <2>1
    <2> QED BY <2>2
  <1> QED BY <1>1, <1>2

\* The batches of d that n keys need.
LEMMA Ceiling ==
  ASSUME NEW n \in Nat, NEW d \in Nat \ {0}
  PROVE  /\ Ceil(n, d) \in Nat
         /\ n <= d * Ceil(n, d) /\ d * Ceil(n, d) < n + d
         /\ n > 0 => Ceil(n, d) >= 1
         /\ n = 0 => Ceil(n, d) = 0
  <1> DEFINE q == (n + d - 1) \div d
  <1>1. n + d - 1 \in Nat /\ d \in Nat /\ d > 0
    OBVIOUS
  <1>2. q \in Nat /\ d * q <= n + d - 1 /\ n + d - 1 < d * q + d
    BY <1>1
  <1> HIDE DEF q
  <1>3. n <= d * q /\ d * q < n + d
    <2>1. d * q \in Nat
      BY <1>1, <1>2
    <2> QED BY <1>1, <1>2, <2>1
  <1>4. n > 0 => q >= 1
    <2>1. q = 0 => d * q = 0
      BY <1>1
    <2> QED BY <1>2, <1>3, <2>1
  <1>5. n = 0 => q = 0
    <2>1. 0 < q => d * 0 + d <= d * q
      BY <1>1, <1>2, Batches
    <2>2. d * 0 = 0
      BY <1>1
    <2> QED BY <1>1, <1>2, <1>3, <2>1, <2>2
  <1> QED BY <1>2, <1>3, <1>4, <1>5 DEF Ceil, q

\* Fewer keys need no more batches, and a batch less of them needs one less.
LEMMA FewerBatches ==
  ASSUME NEW m \in Nat, NEW n \in Nat, NEW d \in Nat \ {0}, m <= n
  PROVE  /\ Ceil(m, d) <= Ceil(n, d)
         /\ m + d <= n => Ceil(m, d) + 1 <= Ceil(n, d)
  <1>1. PICK p \in Nat : p = Ceil(m, d) /\ m <= d * p /\ d * p < m + d
    BY Ceiling
  <1>2. PICK q \in Nat : q = Ceil(n, d) /\ n <= d * q /\ d * q < n + d
    BY Ceiling
  <1>3. d * p \in Nat /\ d * q \in Nat /\ d \in Nat
    OBVIOUS
  <1>4. q < p => d * q + d <= d * p
    BY <1>3, Batches
  <1>5. ~(q < p)
    BY <1>1, <1>2, <1>3, <1>4
  <1>6. ASSUME m + d <= n
        PROVE  p # q
    BY <1>1, <1>2, <1>3, <1>6
  <1> QED BY <1>1, <1>2, <1>5, <1>6

\* _effective_batch_size is at least the minimum, and enough for the target.
LEMMA BatchIsEnough ==
  ASSUME NEW n \in Nat
  PROVE  /\ EffectiveBatch(n) \in Nat /\ EffectiveBatch(n) >= BatchSize
         /\ EffectiveBatch(n) >= Ceil(n, TicksPerSweep)
  <1>1. Ceil(n, TicksPerSweep) \in Nat
    BY Ceiling, Parameters
  <1> QED BY <1>1, Parameters DEF EffectiveBatch, Ceil

-------------------------------------------------------------------------------
(* Keys that leave the registry *)

\* The elements of a sequence.
Elems(s) == {s[i] : i \in DOMAIN s}

\* Positions in a finite set of numbers: each has one, and each is taken.
LEMMA Ranks ==
  ASSUME NEW n \in Nat, NEW kept \in SUBSET (1 .. n)
  PROVE  /\ Cardinality(kept) \in Nat
         /\ \A p \in 1 .. Cardinality(kept) :
              \E i \in kept : Cardinality({j \in kept : j <= i}) = p
  <1> DEFINE UpTo(i) == {j \in kept : j <= i}
             rank == [i \in kept |-> Cardinality(UpTo(i))]
             m == Cardinality(kept)
  <1>1. IsFiniteSet(kept) /\ m \in Nat
    <2>1. IsFiniteSet(1 .. n)
      BY FS_Interval
    <2> QED BY <2>1, FS_Subset, FS_CardinalityType
  <1>2. ASSUME NEW i \in kept
        PROVE  /\ IsFiniteSet(UpTo(i)) /\ Cardinality(UpTo(i)) \in 1 .. m
    <2>1. UpTo(i) \in SUBSET kept /\ i \in UpTo(i)
      OBVIOUS
    <2> HIDE DEF UpTo
    <2>2. IsFiniteSet(UpTo(i)) /\ Cardinality(UpTo(i)) \in Nat
          /\ Cardinality(UpTo(i)) <= m
      BY <1>1, <2>1, FS_Subset, FS_CardinalityType
    <2>3. Cardinality(UpTo(i)) # 0
      BY <2>1, <2>2, FS_EmptySet
    <2> QED BY <1>1, <2>2, <2>3
  <1>3. ASSUME NEW i \in kept, NEW j \in kept, i < j
        PROVE  rank[i] # rank[j]
    <2>0. \A k \in kept : k \in Int
      OBVIOUS
    <2>1. UpTo(i) \in SUBSET UpTo(j) /\ j \in UpTo(j) /\ j \notin UpTo(i)
      <3>1. \A k \in kept : k <= i => k <= j
        BY <1>3, <2>0
      <3>2. j <= j /\ ~(j <= i)
        BY <1>3, <2>0
      <3> QED BY <3>1, <3>2
    <2> HIDE DEF UpTo
    <2>2. IsFiniteSet(UpTo(j))
      BY <1>2
    <2>3. PICK S, T : S = UpTo(i) /\ T = UpTo(j)
      OBVIOUS
    <2>4. S \in SUBSET T /\ S # T /\ IsFiniteSet(T)
      BY <2>1, <2>2, <2>3
    <2>5. Cardinality(S) # Cardinality(T)
      BY <2>4, FS_Subset
    <2>6. rank[i] = Cardinality(UpTo(i)) /\ rank[j] = Cardinality(UpTo(j))
      OBVIOUS
    <2> QED BY <2>3, <2>5, <2>6
  <1>4. rank \in [kept -> 1 .. m]
    BY <1>2
  <1> HIDE DEF m
  <1>5. rank \in Injection(kept, 1 .. m)
    <2>1. \A i, j \in kept : rank[i] = rank[j] => i = j
      <3>1. \A i, j \in kept : i < j \/ j < i \/ i = j
        OBVIOUS
      <3> HIDE DEF rank
      <3> QED BY <1>3, <3>1
    <2> HIDE DEF rank
    <2> QED BY <1>4, <2>1 DEF Injection, IsInjective
  <1>6. rank \in Surjection(kept, 1 .. m)
    <2>1. IsFiniteSet(1 .. m) /\ Cardinality(1 .. m) = m
      BY <1>1, FS_Interval
    <2> HIDE DEF rank
    <2> QED BY <1>5, <2>1, FS_Injection DEF m
  <1>7. \A p \in 1 .. m : \E i \in kept : rank[i] = p
    <2> HIDE DEF rank
    <2> QED BY <1>6, Fun_SurjectionProperties
  <1>8. \A i \in kept : rank[i] = Cardinality(UpTo(i))
    OBVIOUS
  <1> HIDE DEF rank
  <1>9. \A p \in 1 .. m : \E i \in kept : Cardinality(UpTo(i)) = p
    BY <1>7, <1>8
  <1> QED BY <1>1, <1>9 DEF m

\* ClientRegistry.remove leaves the other keys, each as often as it was there.
LEMMA KeysWithout ==
  ASSUME keys \in Seq(Client), Distinct(keys), NEW gone
  PROVE  /\ Without(gone) \in Seq(Client)
         /\ Distinct(Without(gone))
         /\ Elems(Without(gone)) \subseteq Registered \ gone
  <1> DEFINE kept == {i \in DOMAIN keys : keys[i] \notin gone}
             m == Cardinality(kept)
             Rank(i) == Cardinality({j \in kept : j <= i})
             nth == [p \in 1 .. m |-> CHOOSE i \in kept : Rank(i) = p]
             rest == [p \in 1 .. m |-> keys[nth[p]]]
  <1>1. Len(keys) \in Nat /\ DOMAIN keys = 1 .. Len(keys)
        /\ \A i \in DOMAIN keys : keys[i] \in Client
    BY LenProperties, ElementOfSeq
  <1>2. kept \in SUBSET (1 .. Len(keys))
    BY <1>1
  <1>3. m \in Nat /\ \A p \in 1 .. m : \E i \in kept : Rank(i) = p
    <2> HIDE DEF kept
    <2> QED BY <1>1, <1>2, Ranks
  <1>4. ASSUME NEW p \in 1 .. m
        PROVE  nth[p] \in kept /\ Rank(nth[p]) = p
    <2>1. PICK i \in kept : Rank(i) = p
      BY <1>3
    <2> HIDE DEF kept, m, Rank
    <2> QED BY <2>1
  <1>5. Without(gone) = rest
    BY DEF Without
  <1>6. ASSUME NEW p \in 1 .. m
        PROVE  rest[p] \in Client /\ rest[p] \in Registered \ gone
    <2>1. rest[p] = keys[nth[p]] /\ nth[p] \in DOMAIN keys /\ keys[nth[p]] \notin gone
      BY <1>4
    <2> HIDE DEF rest, nth, kept, m
    <2> QED BY <1>1, <2>1 DEF Registered
  <1>7. ASSUME NEW p \in 1 .. m, NEW q \in 1 .. m, rest[p] = rest[q]
        PROVE  p = q
    <2>1. rest[p] = keys[nth[p]] /\ rest[q] = keys[nth[q]]
          /\ nth[p] \in DOMAIN keys /\ nth[q] \in DOMAIN keys
          /\ Rank(nth[p]) = p /\ Rank(nth[q]) = q
      BY <1>4
    <2> HIDE DEF rest, nth, kept, m, Rank
    <2>2. nth[p] = nth[q]
      BY <1>7, <2>1 DEF Distinct
    <2> QED BY <2>1, <2>2
  <1>8. DOMAIN rest = 1 .. m
    OBVIOUS
  <1>9. rest \in [1 .. m -> Client]
    <2>1. rest = [p \in 1 .. m |-> rest[p]]
      OBVIOUS
    <2> HIDE DEF rest, m
    <2> QED BY <1>6, <2>1
  <1> HIDE DEF kept, m, Rank, nth, rest
  <1>10. rest \in Seq(Client)
    BY <1>3, <1>9
  <1>11. Distinct(rest) /\ Elems(rest) \subseteq Registered \ gone
    BY <1>6, <1>7, <1>8 DEF Distinct, Elems
  <1> QED BY <1>5, <1>10, <1>11

\* A dict, and a snapshot of its keys, have no more keys than there are clients.
LEMMA NoMoreThanClients ==
  ASSUME NEW s \in Seq(Client), Distinct(s)
  PROVE  Len(s) \in Nat /\ Len(s) <= Cardinality(Client)
  <1>1. Len(s) \in Nat /\ DOMAIN s = 1 .. Len(s) /\ s \in [1 .. Len(s) -> Client]
    BY LenProperties
  <1>2. s \in Injection(1 .. Len(s), Client)
    BY <1>1 DEF Distinct, Injection, IsInjective
  <1>3. Cardinality(1 .. Len(s)) <= Cardinality(Client)
    BY <1>2, FS_Injection, ReaperAssumption
  <1>4. Cardinality(1 .. Len(s)) = Len(s)
    BY <1>1, FS_Interval
  <1> QED BY <1>1, <1>3, <1>4

-------------------------------------------------------------------------------
(* The steps, and the types *)

\* What a tick of the reaper works on, how far it gets, and whom it evicts.
Snapshot == IF Pending THEN cursor ELSE keys
Batch == EffectiveBatch(Len(keys))
To == IF StartOfSweep + Batch < Len(Snapshot) THEN StartOfSweep + Batch
                                              ELSE Len(Snapshot)
Stale == {c \in Examined(Snapshot, StartOfSweep, To) :
            c \in Registered /\ age[c] > Threshold}

\* Registered clients are the elements of the dict.
LEMMA RegisteredElems ==
  Registered = Elems(keys) /\ Registered' = Elems(keys')
  BY DEF Registered, Elems

\* A tick moves on by a batch, or to the end of its snapshot, and evicts what is stale.
LEMMA TickEffect ==
  ASSUME TypeOK, ReaperTick
  PROVE  /\ cursor' = Snapshot /\ idx' = To
         /\ keys' \in Seq(Client) /\ Distinct(keys') /\ Registered' \subseteq Registered \ Stale
         /\ age' = [c \in Client |->
                      IF c \in Registered \ Stale
                      THEN IF age[c] < MaxAge THEN age[c] + 1 ELSE age[c]
                      ELSE 0]
         /\ ticks' = (IF Pending THEN ticks + 1 ELSE 1)
         /\ shrunk' = ((Pending /\ shrunk) \/ Len(keys) < Len(Snapshot))
         /\ Snapshot \in Seq(Client) /\ Distinct(Snapshot)
         /\ Len(Snapshot) \in Nat /\ Len(Snapshot) <= Cardinality(Client)
         /\ Len(keys) \in Nat
         /\ Batch \in Nat /\ Batch >= BatchSize /\ Batch >= Ceil(Len(keys), TicksPerSweep)
         /\ StartOfSweep \in 0 .. Len(Snapshot)
         /\ To \in StartOfSweep .. Len(Snapshot)
  <1>1. /\ cursor' = Snapshot /\ idx' = To /\ keys' = Without(Stale)
        /\ age' = [c \in Client |->
                     IF c \in Registered \ Stale
                     THEN IF age[c] < MaxAge THEN age[c] + 1 ELSE age[c]
                     ELSE 0]
        /\ ticks' = (IF Pending THEN ticks + 1 ELSE 1)
        /\ shrunk' = ((Pending /\ shrunk) \/ Len(keys) < Len(Snapshot))
    BY DEF ReaperTick, Snapshot, Batch, To, Stale
  <1>2. PICK stale : stale = Stale
    OBVIOUS
  <1>3. keys' \in Seq(Client) /\ Distinct(keys') /\ Registered' \subseteq Registered \ Stale
    <2>1. keys \in Seq(Client) /\ Distinct(keys) /\ keys' = Without(stale)
      BY <1>1, <1>2 DEF TypeOK, Without
    <2>2. /\ Without(stale) \in Seq(Client) /\ Distinct(Without(stale))
          /\ Elems(Without(stale)) \subseteq Registered \ stale
      BY <2>1, KeysWithout
    <2>3. Registered' = Elems(Without(stale))
      BY <2>1, RegisteredElems
    <2> QED BY <1>2, <2>1, <2>2, <2>3
  <1>4. Snapshot \in Seq(Client) /\ Distinct(Snapshot)
    BY DEF TypeOK, Snapshot
  <1>5. Len(Snapshot) \in Nat /\ Len(Snapshot) <= Cardinality(Client)
    BY <1>4, NoMoreThanClients
  <1>6. Len(keys) \in Nat
    BY LenProperties DEF TypeOK
  <1>7. Batch \in Nat /\ Batch >= BatchSize /\ Batch >= Ceil(Len(keys), TicksPerSweep)
    BY <1>6, BatchIsEnough DEF Batch
  <1>8. StartOfSweep \in 0 .. Len(Snapshot)
    BY <1>5 DEF StartOfSweep, Snapshot, Pending, TypeOK
  <1>9. To \in StartOfSweep .. Len(Snapshot)
    BY <1>5, <1>7, <1>8, Parameters DEF To
  <1> QED BY <1>1, <1>3, <1>4, <1>5, <1>6, <1>7, <1>8, <1>9

\* A client calls, for the first time or again.
LEMMA CallEffect ==
  ASSUME TypeOK, NEW c \in Client, Call(c)
  PROVE  /\ keys' \in Seq(Client) /\ Distinct(keys') /\ Registered' = Registered \cup {c}
         /\ age' = [age EXCEPT ![c] = 0] /\ UNCHANGED <<cursor, idx, ticks, shrunk>>
  <1>1. keys' = Inserted(c) /\ keys \in Seq(Client) /\ Distinct(keys)
    BY DEF Call, TypeOK
  <1>2. CASE c \in Registered
    BY <1>1, <1>2, RegisteredElems DEF Inserted, Call
  <1>3. CASE c \notin Registered
    <2>1. keys' = Append(keys, c)
      BY <1>1, <1>3 DEF Inserted
    <2>2. /\ Append(keys, c) \in Seq(Client)
          /\ DOMAIN Append(keys, c) = DOMAIN keys \cup {Len(keys) + 1}
          /\ \A i \in DOMAIN keys : Append(keys, c)[i] = keys[i]
          /\ Append(keys, c)[Len(keys) + 1] = c
          /\ Len(keys) + 1 \notin DOMAIN keys
      BY <1>1, AppendProperties, LenProperties
    <2>3. Distinct(keys')
      BY <1>1, <1>3, <2>1, <2>2 DEF Distinct, Registered
    <2>4. Registered' = Registered \cup {c}
      BY <2>1, <2>2, RegisteredElems DEF Elems
    <2> QED BY <2>1, <2>2, <2>3, <2>4 DEF Call
  <1> QED BY <1>2, <1>3

\* A client logs off.
LEMMA LogoffEffect ==
  ASSUME TypeOK, NEW c \in Client, Logoff(c)
  PROVE  /\ keys' \in Seq(Client) /\ Distinct(keys') /\ Registered' \subseteq Registered \ {c}
         /\ age' = [age EXCEPT ![c] = 0] /\ UNCHANGED <<cursor, idx, ticks, shrunk>>
  <1>1. keys' = Without({c}) /\ keys \in Seq(Client) /\ Distinct(keys)
    BY DEF Logoff, TypeOK
  <1>2. /\ Without({c}) \in Seq(Client) /\ Distinct(Without({c}))
        /\ Elems(Without({c})) \subseteq Registered \ {c}
    BY <1>1, KeysWithout
  <1>3. Registered' = Elems(Without({c}))
    BY <1>1, RegisteredElems
  <1> QED BY <1>1, <1>2, <1>3 DEF Logoff

\* A dict and a snapshot of its keys hold each key once, and the cursor stays in the
\* snapshot, whatever get_or_create, remove and _tick do.
THEOREM TypeCorrect == Spec => []TypeOK
<1>1. Init => TypeOK
  <2> SUFFICES ASSUME Init
               PROVE  TypeOK
    OBVIOUS
  <2>1. <<>> \in Seq(Client) /\ Distinct(<<>>) /\ Len(<<>>) = 0
    BY DEF Distinct
  <2>2. age \in [Client -> 0 .. MaxAge]
    BY Parameters DEF Init
  <2>3. shrunk \in BOOLEAN
    BY Zenon DEF Init
  <2>4. ticks \in Nat /\ idx \in 0 .. Len(cursor)
    BY <2>1 DEF Init
  <2>5. keys = <<>> /\ cursor = <<>>
    BY DEF Init
  <2> QED BY <2>1, <2>2, <2>3, <2>4, <2>5 DEF TypeOK
<1>2. TypeOK /\ [Next]_vars => TypeOK'
  <2> SUFFICES ASSUME TypeOK, [Next]_vars
               PROVE  TypeOK'
    OBVIOUS
  <2>1. ASSUME NEW c \in Client, Call(c) \/ Logoff(c)
        PROVE  TypeOK'
    <3>1. /\ keys' \in Seq(Client) /\ Distinct(keys')
          /\ age' = [age EXCEPT ![c] = 0] /\ UNCHANGED <<cursor, idx, ticks, shrunk>>
      BY <2>1, CallEffect, LogoffEffect
    <3>2. age' \in [Client -> 0 .. MaxAge]
      BY <3>1, Parameters DEF TypeOK
    <3> QED BY <3>1, <3>2 DEF TypeOK
  <2>2. CASE ReaperTick
    <3>1. idx' \in 0 .. Len(cursor')
      <4>1. cursor' = Snapshot /\ idx' = To /\ Len(Snapshot) \in Nat
            /\ StartOfSweep \in 0 .. Len(Snapshot) /\ To \in StartOfSweep .. Len(Snapshot)
        BY <2>2, TickEffect
      <4> QED BY <4>1
    <3>2. age' \in [Client -> 0 .. MaxAge]
      <4>1. age' = [c \in Client |->
                      IF c \in Registered \ Stale
                      THEN IF age[c] < MaxAge THEN age[c] + 1 ELSE age[c]
                      ELSE 0]
        BY <2>2, TickEffect
      <4>2. \A c \in Client : age[c] \in 0 .. MaxAge
        BY DEF TypeOK
      <4> QED BY <4>1, <4>2, Parameters
    <3>3. ticks' \in Nat /\ shrunk' \in BOOLEAN
      <4>1. ticks' = (IF Pending THEN ticks + 1 ELSE 1)
            /\ shrunk' = ((Pending /\ shrunk) \/ Len(keys) < Len(Snapshot))
        BY <2>2, TickEffect
      <4>2. shrunk' = TRUE \/ shrunk' = FALSE
        BY <4>1, Zenon
      <4> QED BY <4>1, <4>2 DEF TypeOK
    <3>4. keys' \in Seq(Client) /\ cursor' \in Seq(Client) /\ Distinct(keys') /\ Distinct(cursor')
      BY <2>2, TickEffect
    <3> QED BY <3>1, <3>2, <3>3, <3>4 DEF TypeOK
  <2>3. CASE UNCHANGED vars
    BY <2>3 DEF vars, TypeOK
  <2> QED BY <2>1, <2>2, <2>3 DEF Next
<1> QED BY <1>1, <1>2, PTL DEF Spec

-------------------------------------------------------------------------------
(* How long a sweep takes *)

\* Whatever clients do, _tick moves its cursor on by client_reaper_batch_size keys
\* at least, so that no sweep takes more ticks than its snapshot needs at that.
THEOREM SweepsProgress == Spec => []SweepProgress
<1>1. Init => SweepProgress
  BY DEF Init, SweepProgress, Pending
<1>2. TypeOK /\ SweepProgress /\ [Next]_vars => SweepProgress'
  <2> SUFFICES ASSUME TypeOK, SweepProgress, [Next]_vars, Pending'
               PROVE  idx' >= ticks' * BatchSize
    BY DEF SweepProgress
  <2>1. idx \in Int /\ ticks \in Nat /\ ticks * BatchSize \in Nat
    BY Parameters DEF TypeOK
  <2>2. CASE ReaperTick
    <3>1. /\ idx' = To /\ cursor' = Snapshot /\ Batch \in Nat /\ Batch >= BatchSize
          /\ ticks' = (IF Pending THEN ticks + 1 ELSE 1)
      BY <2>2, TickEffect
    <3>2. idx' = StartOfSweep + Batch
      BY <3>1 DEF Pending, To
    <3>3. CASE Pending
      <4>1. (ticks + 1) * BatchSize = ticks * BatchSize + BatchSize
        BY <2>1, Parameters
      <4>2. idx >= ticks * BatchSize /\ idx' = idx + Batch /\ ticks' = ticks + 1
        BY <3>1, <3>2, <3>3 DEF SweepProgress, StartOfSweep
      <4> QED BY <2>1, <3>1, <4>1, <4>2, Parameters
    <3>4. CASE ~Pending
      BY <3>1, <3>2, <3>4, Parameters DEF StartOfSweep
    <3> QED BY <3>3, <3>4
  <2>3. CASE UNCHANGED <<cursor, idx, ticks>>
    BY <2>3 DEF Pending, SweepProgress
  <2> QED BY <2>2, <2>3 DEF Next, Call, Logoff, vars
<1> QED BY <1>1, <1>2, TypeCorrect, PTL DEF Spec

\* As long as the registry is no smaller than the snapshot, every tick of the sweep
\* did its share of it.
OnTarget == Pending /\ ~shrunk => idx >= Ceil(Len(cursor), TicksPerSweep) * ticks

\* While no tick sees a registry smaller than its snapshot, _effective_batch_size
\* gets the sweep done within the ticks of target_sweep_seconds.
THEOREM SweepsMeetTarget == Spec => []SweepWithinTargetUnlessShrunk
<1>1. Init => OnTarget
  BY DEF Init, OnTarget, Pending
<1>2. TypeOK /\ OnTarget /\ [Next]_vars => OnTarget'
  <2> SUFFICES ASSUME TypeOK, OnTarget, [Next]_vars, Pending', ~shrunk'
               PROVE  idx' >= Ceil(Len(cursor'), TicksPerSweep) * ticks'
    BY DEF OnTarget
  <2>1. CASE ReaperTick
    <3>1. /\ idx' = To /\ cursor' = Snapshot /\ Batch \in Nat
          /\ Batch >= Ceil(Len(keys), TicksPerSweep)
          /\ ticks' = (IF Pending THEN ticks + 1 ELSE 1)
          /\ shrunk' = ((Pending /\ shrunk) \/ Len(keys) < Len(Snapshot))
          /\ Len(keys) \in Nat /\ Len(Snapshot) \in Nat
      BY <2>1, TickEffect
    <3>2. idx' = StartOfSweep + Batch
      BY <3>1 DEF Pending, To
    <3>3. ~(Len(keys) < Len(Snapshot)) /\ (Pending => ~shrunk)
      BY <3>1, Zenon
    <3>4. PICK share : share = Ceil(Len(Snapshot), TicksPerSweep)
      OBVIOUS
    <3>5. share \in Nat /\ Ceil(Len(keys), TicksPerSweep) \in Nat
          /\ share <= Ceil(Len(keys), TicksPerSweep)
      BY <3>1, <3>3, <3>4, Ceiling, FewerBatches, Parameters
    <3>6. share <= Batch
      BY <3>1, <3>5
    <3>7. CASE Pending
      <4>1. ticks \in Nat /\ idx \in Int
        BY DEF TypeOK
      <4>2. share * (ticks + 1) = share * ticks + share /\ share * ticks \in Nat
        BY <3>5, <4>1
      <4>3. idx >= share * ticks /\ idx' = idx + Batch /\ ticks' = ticks + 1
        BY <3>1, <3>2, <3>3, <3>4, <3>7 DEF OnTarget, StartOfSweep, Snapshot
      <4>4. idx' >= share * ticks'
        BY <3>1, <3>5, <3>6, <4>1, <4>2, <4>3
      <4> QED BY <3>1, <3>4, <4>4
    <3>8. CASE ~Pending
      <4>1. idx' >= share * ticks'
        BY <3>1, <3>2, <3>5, <3>6, <3>8 DEF StartOfSweep
      <4> QED BY <3>1, <3>4, <4>1
    <3> QED BY <3>7, <3>8
  <2>2. CASE UNCHANGED <<cursor, idx, ticks, shrunk>>
    BY <2>2 DEF Pending, OnTarget
  <2> QED BY <2>1, <2>2 DEF Next, Call, Logoff, vars
<1>3. TypeOK /\ OnTarget => SweepWithinTargetUnlessShrunk
  <2> SUFFICES ASSUME TypeOK, OnTarget, Pending, ~shrunk
               PROVE  ticks < TicksPerSweep
    BY DEF SweepWithinTargetUnlessShrunk
  <2>1. PICK share : share = Ceil(Len(cursor), TicksPerSweep)
    OBVIOUS
  <2>2. /\ Len(cursor) \in Nat /\ idx \in Int /\ idx < Len(cursor) /\ ticks \in Nat
        /\ idx >= share * ticks
    BY <2>1, LenProperties DEF TypeOK, OnTarget, Pending
  <2>3. share \in Nat /\ Len(cursor) <= TicksPerSweep * share
    BY <2>1, <2>2, Ceiling, Parameters
  <2>4. TicksPerSweep * share = share * TicksPerSweep
        /\ share * TicksPerSweep \in Nat /\ share * ticks \in Nat
    BY <2>2, <2>3, Parameters
  <2>5. share * ticks < share * TicksPerSweep
    BY <2>2, <2>3, <2>4
  <2>6. TicksPerSweep < ticks => share * TicksPerSweep + share <= share * ticks
    BY <2>2, <2>3, Batches, Parameters
  <2>7. ~(TicksPerSweep < ticks) /\ TicksPerSweep # ticks
    BY <2>3, <2>4, <2>5, <2>6
  <2> QED BY <2>2, <2>7, Parameters
<1> QED BY <1>1, <1>2, <1>3, TypeCorrect, PTL DEF Spec

-------------------------------------------------------------------------------
(* When a silent client goes *)

\* The batches that the sweep has still to do, and whether client c is in them.
ToCome == Ceil(Len(cursor) - idx, BatchSize)
Ahead(c) == \E i \in idx + 1 .. Len(cursor) : cursor[i] = c

\* A client's age and the periods until it is examined next, at the latest, are no
\* more than the threshold and two sweeps.
Timely ==
  \A c \in Registered :
    /\ age[c] + ToCome <= Threshold + 2 * LongestSweep
    /\ ~Ahead(c) => age[c] + ToCome + LongestSweep <= Threshold + 2 * LongestSweep

\* No sweep needs more batches than the longest one.
LEMMA SweepBound ==
  ASSUME TypeOK
  PROVE  /\ LongestSweep \in Nat /\ ToCome \in Nat /\ ToCome <= LongestSweep
         /\ \A c \in Registered : c \in Client /\ age[c] \in Nat
         /\ Registered # {} => LongestSweep >= 1
  <1>1. /\ Len(cursor) \in Nat /\ Len(cursor) - idx \in Nat
        /\ Len(cursor) - idx <= Cardinality(Client)
    BY NoMoreThanClients, Parameters DEF TypeOK
  <1>2. LongestSweep \in Nat /\ ToCome \in Nat /\ ToCome <= LongestSweep
    BY <1>1, Ceiling, FewerBatches, Parameters DEF LongestSweep, ToCome
  <1>3. Registered \subseteq Client
    BY ElementOfSeq, LenProperties DEF TypeOK, Registered
  <1>4. \A c \in Client : age[c] \in Nat
    BY Parameters DEF TypeOK
  <1>5. ASSUME Registered # {}
        PROVE  LongestSweep >= 1
    <2>1. Client # {}
      BY <1>3, <1>5
    <2>2. Cardinality(Client) > 0
      BY <2>1, FS_EmptySet, ReaperAssumption, Parameters
    <2> QED BY <2>2, Ceiling, Parameters DEF LongestSweep
  <1> QED BY <1>2, <1>3, <1>4, <1>5

\* A tick does at least one of the batches that are still to come, or are to come of
\* the snapshot that it takes.
LEMMA OneBatchLess ==
  ASSUME TypeOK, ReaperTick
  PROVE  /\ ToCome' \in Nat /\ ToCome \in Nat
         /\ Pending => ToCome' + 1 <= ToCome
         /\ ~Pending => ToCome = 0
         /\ Cardinality(Client) > 0 => ToCome' + 1 <= LongestSweep
  <1>1. /\ cursor' = Snapshot /\ idx' = To /\ Len(Snapshot) \in Nat
        /\ Len(Snapshot) <= Cardinality(Client)
        /\ Batch \in Nat /\ Batch >= BatchSize
        /\ StartOfSweep \in 0 .. Len(Snapshot) /\ To \in StartOfSweep .. Len(Snapshot)
    BY TickEffect
  <1>2. PICK left, start : left = Len(Snapshot) - To /\ start = Len(Snapshot) - StartOfSweep
    OBVIOUS
  <1>3. /\ left \in Nat /\ start \in Nat /\ left <= start /\ start <= Cardinality(Client)
        /\ left > 0 => left + BatchSize <= start
    BY <1>1, <1>2, Parameters DEF To
  <1>4. ToCome' = Ceil(left, BatchSize)
    BY <1>1, <1>2 DEF ToCome, Ceil
  <1>5. PICK less, all, most : /\ less = Ceil(left, BatchSize) /\ all = Ceil(start, BatchSize)
                               /\ most = LongestSweep
    OBVIOUS
  <1>6. less \in Nat /\ all \in Nat /\ most \in Nat /\ all <= most
    BY <1>3, <1>5, Ceiling, FewerBatches, Parameters DEF LongestSweep
  <1>7. start > 0 => less + 1 <= all
    <2>1. CASE left > 0
      BY <1>3, <1>5, <2>1, FewerBatches, Parameters
    <2>2. CASE left = 0
      BY <1>3, <1>5, <1>6, <2>2, Ceiling, Parameters
    <2> QED BY <1>3, <2>1, <2>2
  <1>8. Pending => start > 0 /\ ToCome = all
    BY <1>1, <1>2, <1>5 DEF Pending, Snapshot, StartOfSweep, TypeOK, ToCome
  <1>9. ~Pending => ToCome = 0
    <2>1. ~Pending => Len(cursor) - idx = 0
      BY LenProperties DEF TypeOK, Pending
    <2> QED BY <2>1, Ceiling, Parameters DEF ToCome
  <1>10. Cardinality(Client) > 0 => less + 1 <= most
    <2>1. CASE start > 0
      BY <1>6, <1>7, <2>1
    <2>2. CASE start = 0
      <3>1. less = 0
        BY <1>3, <1>5, <2>2, Ceiling, Parameters
      <3>2. Cardinality(Client) > 0 => most >= 1
        BY <1>5, Ceiling, Parameters DEF LongestSweep
      <3> QED BY <1>6, <3>1, <3>2
    <2> QED BY <1>3, <2>1, <2>2
  <1>11. ToCome \in Nat
    BY SweepBound
  <1> QED BY <1>4, <1>5, <1>6, <1>7, <1>8, <1>9, <1>10, <1>11

\* A client that is not Ahead after a tick was not before, or was examined by it.
LEMMA ExaminedByTick ==
  ASSUME TypeOK, ReaperTick, NEW c \in Registered, ~Ahead(c)'
  PROVE  \/ c \in Examined(Snapshot, StartOfSweep, To)
         \/ Pending /\ ~Ahead(c)
  <1>1. /\ cursor' = Snapshot /\ idx' = To /\ Len(Snapshot) \in Nat
        /\ StartOfSweep \in 0 .. Len(Snapshot) /\ To \in StartOfSweep .. Len(Snapshot)
    BY TickEffect
  <1>2. \A i \in To + 1 .. Len(Snapshot) : Snapshot[i] # c
    BY <1>1 DEF Ahead
  <1>3. ASSUME NEW i \in StartOfSweep + 1 .. Len(Snapshot), Snapshot[i] = c
        PROVE  c \in Examined(Snapshot, StartOfSweep, To)
    <2>1. i \in StartOfSweep + 1 .. To
      BY <1>1, <1>2, <1>3
    <2> QED BY <1>3, <2>1 DEF Examined
  <1>4. CASE Pending
    BY <1>3, <1>4 DEF Ahead, Snapshot, StartOfSweep
  <1>5. CASE ~Pending
    <2>1. PICK i \in DOMAIN keys : keys[i] = c
      BY DEF Registered
    <2>2. i \in StartOfSweep + 1 .. Len(Snapshot) /\ Snapshot[i] = c
      BY <1>5, <2>1, LenProperties DEF TypeOK, Snapshot, StartOfSweep
    <2> QED BY <1>3, <2>2
  <1> QED BY <1>4, <1>5

\* Time for a client starts again when it calls.
LEMMA CallTimely ==
  ASSUME TypeOK, Timely, NEW d \in Client, Call(d) \/ Logoff(d), NEW c \in Registered'
  PROVE  /\ age'[c] + ToCome' <= Threshold + 2 * LongestSweep
         /\ ~Ahead(c)' => age'[c] + ToCome' + LongestSweep <= Threshold + 2 * LongestSweep
  <1>1. /\ Registered' \subseteq Registered \cup {d} /\ age' = [age EXCEPT ![d] = 0]
        /\ UNCHANGED <<cursor, idx>>
    BY CallEffect, LogoffEffect
  <1>2. ToCome' = ToCome /\ Ahead(c)' = Ahead(c)
    BY <1>1 DEF ToCome, Ahead, Ceil
  <1>3. CASE c = d
    <2>1. age'[c] = 0
      BY <1>1, <1>3 DEF TypeOK
    <2> QED BY <1>2, <2>1, SweepBound, Parameters
  <1>4. CASE c # d
    <2>1. c \in Registered /\ age'[c] = age[c]
      BY <1>1, <1>4 DEF TypeOK
    <2> QED BY <1>2, <2>1 DEF Timely
  <1> QED BY <1>3, <1>4

\* One period more of age, one batch less to come: the sums that a tick makes.
LEMMA OnePeriodMore ==
  ASSUME NEW a \in Nat, NEW b \in Nat, b <= a + 1, NEW x \in Nat, NEW y \in Nat,
         NEW l \in Nat, y + 1 <= l
  PROVE  /\ y + 1 <= x /\ a + x <= Threshold + 2 * l => b + y <= Threshold + 2 * l
         /\ a + 0 + l <= Threshold + 2 * l => b + y <= Threshold + 2 * l
         /\ y + 1 <= x /\ a + x + l <= Threshold + 2 * l => b + y + l <= Threshold + 2 * l
         /\ a <= Threshold => b + y + l <= Threshold + 2 * l
  BY Parameters

\* A client that a tick leaves registered was not stale, or was not examined.
LEMMA TickTimely ==
  ASSUME TypeOK, Timely, ReaperTick, NEW c \in Registered'
  PROVE  /\ age'[c] + ToCome' <= Threshold + 2 * LongestSweep
         /\ ~Ahead(c)' => age'[c] + ToCome' + LongestSweep <= Threshold + 2 * LongestSweep
  <1>1. c \in Registered \ Stale
    BY TickEffect
  <1>2. c \in Client /\ age[c] \in Nat /\ LongestSweep \in Nat /\ Cardinality(Client) > 0
    <2>1. c \in Client /\ age[c] \in Nat /\ LongestSweep \in Nat
      BY <1>1, SweepBound
    <2> QED BY <2>1, FS_EmptySet, ReaperAssumption, Parameters
  <1>3. age'[c] \in Nat /\ age'[c] <= age[c] + 1
    <2>1. age'[c] = IF age[c] < MaxAge THEN age[c] + 1 ELSE age[c]
      BY <1>1, <1>2, TickEffect
    <2> QED BY <1>2, <2>1, Parameters
  <1>4. /\ ToCome' \in Nat /\ ToCome \in Nat /\ ToCome' + 1 <= LongestSweep
        /\ Pending => ToCome' + 1 <= ToCome
        /\ ~Pending => ToCome = 0
    BY <1>2, OneBatchLess
  <1>5. /\ age[c] + ToCome <= Threshold + 2 * LongestSweep
        /\ ~Ahead(c) => age[c] + ToCome + LongestSweep <= Threshold + 2 * LongestSweep
    BY <1>1 DEF Timely
  <1>6. ~Pending => ~Ahead(c)
    BY LenProperties DEF Pending, Ahead, TypeOK
  <1>7. PICK a, b, x, y, l : /\ a = age[c] /\ b = age'[c] /\ x = ToCome /\ y = ToCome'
                             /\ l = LongestSweep
    OBVIOUS
  <1>8. a \in Nat /\ b \in Nat /\ x \in Nat /\ y \in Nat /\ l \in Nat
        /\ b <= a + 1 /\ y + 1 <= l
    BY <1>2, <1>3, <1>4, <1>7
  <1>9. b + y <= Threshold + 2 * l
    <2>1. CASE Pending
      <3>1. y + 1 <= x /\ a + x <= Threshold + 2 * l
        BY <1>4, <1>5, <1>7, <2>1
      <3> QED BY <1>8, <3>1, OnePeriodMore
    <2>2. CASE ~Pending
      <3>1. a + 0 + l <= Threshold + 2 * l
        BY <1>4, <1>5, <1>6, <1>7, <2>2
      <3> QED BY <1>8, <3>1, OnePeriodMore
    <2> QED BY <2>1, <2>2
  <1>10. ASSUME ~Ahead(c)'
         PROVE  b + y + l <= Threshold + 2 * l
    <2>1. CASE c \in Examined(Snapshot, StartOfSweep, To)
      <3>1. ~(age[c] > Threshold)
        BY <1>1, <2>1 DEF Stale
      <3>2. a <= Threshold
        BY <1>7, <1>8, <3>1, Parameters
      <3> QED BY <1>8, <3>2, OnePeriodMore
    <2>2. CASE Pending /\ ~Ahead(c)
      <3>1. y + 1 <= x /\ a + x + l <= Threshold + 2 * l
        BY <1>4, <1>5, <1>7, <2>2
      <3> QED BY <1>8, <3>1, OnePeriodMore
    <2>3. c \in Registered
      BY <1>1
    <2> QED BY <1>10, <2>1, <2>2, <2>3, ExaminedByTick
  <1> QED BY <1>7, <1>9, <1>10

\* Nobody stays registered for the threshold and two of the longest sweeps without a
\* sign of life: _tick evicts an entry that crosses the threshold just behind the
\* cursor by the end of the next sweep, whoever comes and goes meanwhile.
THEOREM SilentClientsGo == Spec => []EvictedInTime
<1>1. Init => Timely
  BY DEF Init, Timely, Registered
<1>2. TypeOK /\ Timely /\ [Next]_vars => Timely'
  <2> SUFFICES ASSUME TypeOK, Timely, [Next]_vars
               PROVE  Timely'
    OBVIOUS
  <2>1. ASSUME NEW d \in Client, Call(d) \/ Logoff(d)
        PROVE  Timely'
    <3>1. LongestSweep' = LongestSweep
      BY DEF LongestSweep
    <3> QED BY <2>1, <3>1, CallTimely DEF Timely
  <2>2. CASE ReaperTick
    <3>1. LongestSweep' = LongestSweep
      BY DEF LongestSweep
    <3> QED BY <2>2, <3>1, TickTimely DEF Timely
  <2>3. CASE UNCHANGED vars
    BY <2>3 DEF vars, Timely, Registered, ToCome, Ahead, Ceil, LongestSweep
  <2> QED BY <2>1, <2>2, <2>3 DEF Next
<1>3. TypeOK /\ Timely => EvictedInTime
  <2> SUFFICES ASSUME TypeOK, Timely, NEW c \in Registered
               PROVE  age[c] < Threshold + 2 * LongestSweep
    BY DEF EvictedInTime
  <2>1. age[c] \in Nat /\ LongestSweep \in Nat /\ LongestSweep >= 1 /\ ToCome \in Nat
    BY SweepBound
  <2>2. /\ age[c] + ToCome <= Threshold + 2 * LongestSweep
        /\ ~Ahead(c) => age[c] + ToCome + LongestSweep <= Threshold + 2 * LongestSweep
    BY DEF Timely
  <2>3. Ahead(c) => ToCome >= 1
    <3>1. Ahead(c) => Len(cursor) - idx \in Nat /\ Len(cursor) - idx > 0
      BY LenProperties DEF Ahead, TypeOK
    <3> QED BY <3>1, Ceiling, Parameters DEF ToCome
  <2>4. CASE Ahead(c)
    BY <2>1, <2>2, <2>3, <2>4, Parameters
  <2>5. CASE ~Ahead(c)
    BY <2>1, <2>2, <2>5, Parameters
  <2> QED BY <2>4, <2>5
<1> QED BY <1>1, <1>2, <1>3, TypeCorrect, PTL DEF Spec
=============================================================================
