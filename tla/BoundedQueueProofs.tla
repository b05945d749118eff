-------------------------- MODULE BoundedQueueProofs --------------------------
(***************************************************************************)
(* What the contract of a queue promises its callers, for every set of items *)
(* and every size.  AsyncQueueProofs shows that the code keeps the contract. *)
(***************************************************************************)
EXTENDS BoundedQueue, SequenceTheorems, TLAPS

\* A queue that has taken in one more item.
LEMMA Appended ==
  ASSUME NEW S, NEW q \in Seq(S), NEW x \in S
  PROVE  /\ Append(q, x) \in Seq(S) /\ Len(Append(q, x)) = Len(q) + 1
         /\ DOMAIN Append(q, x) = DOMAIN q \cup {Len(q) + 1}
         /\ Len(q) + 1 \notin DOMAIN q
         /\ \A i \in DOMAIN q : Append(q, x)[i] = q[i]
         /\ Append(q, x)[Len(q) + 1] = x
  OBVIOUS

\* An item that arrives at the tail is the last of what has ever passed.
LEMMA FifoOfAppend ==
  ASSUME NEW s \in Seq(Item), NEW q \in Seq(Item), NEW x \in Item
  PROVE  Append(s \o q, x) = s \o Append(q, x)
  <1>1. s \o q \in Seq(Item) /\ <<x>> \in Seq(Item)
    BY ConcatProperties
  <1>2. Append(s \o q, x) = (s \o q) \o <<x>>
    BY <1>1, AppendIsConcat
  <1>3. Append(q, x) = q \o <<x>>
    BY AppendIsConcat
  <1> QED BY <1>1, <1>2, <1>3, ConcatAssociative

\* The head moves from the queue to what was taken.
LEMMA FifoOfTake ==
  ASSUME NEW S, NEW s \in Seq(S), NEW q \in Seq(S), q # <<>>
  PROVE  s \o q = Append(s, Head(q)) \o Tail(q)
  <1>1. Head(q) \in S /\ Tail(q) \in Seq(S) /\ <<Head(q)>> \in Seq(S)
    BY HeadTailProperties
  <1>2. q = <<Head(q)>> \o Tail(q)
    <2>1. Len(q) \in Nat /\ Len(q) > 0 /\ q[1] = Head(q)
      BY EmptySeq, LenProperties
    <2>2. SubSeq(q, 1, Len(q)) = <<q[1]>> \o SubSeq(q, 2, Len(q))
      BY <2>1, SubSeqRecursiveFirst
    <2> QED BY <2>1, <2>2, SubSeqFull, TailIsSubSeq
  <1>3. Append(s, Head(q)) = s \o <<Head(q)>>
    BY <1>1, AppendIsConcat
  <1>4. (s \o <<Head(q)>>) \o Tail(q) = s \o (<<Head(q)>> \o Tail(q))
    BY <1>1, ConcatAssociative
  <1> QED BY <1>2, <1>3, <1>4

-------------------------------------------------------------------------------
\* The queue holds items, and never more than it may (queueing.py:7-10).
THEOREM ContractTyped ==
  ASSUME MaxSize \in Nat
  PROVE  Spec => []TypeOK
  <1>1. Init => TypeOK
    BY DEF Init, TypeOK
  <1>2. ASSUME TypeOK, [Next]_vars
        PROVE  TypeOK'
    <2>1. CASE Take
      BY <1>2, <2>1, HeadTailProperties, AppendProperties DEF Take, TypeOK
    <2>2. ASSUME NEW x \in Item, Offer(x)
          PROVE  TypeOK'
      BY <1>2, <2>2 DEF Offer, TypeOK
    <2>3. ASSUME NEW x \in Item, Accept(x)
          PROVE  TypeOK'
      BY <1>2, <2>3, AppendProperties DEF Accept, TypeOK
    <2>4. ASSUME NEW x \in Item, Refuse(x)
          PROVE  TypeOK'
      BY <1>2, <2>4 DEF Refuse, TypeOK
    <2>5. CASE UNCHANGED vars
      BY <1>2, <2>5 DEF vars, TypeOK
    <2> QED BY <1>2, <2>1, <2>2, <2>3, <2>4, <2>5 DEF Next
  <1> QED BY <1>1, <1>2, PTL DEF Spec

\* Items leave the queue in the order of their acceptance, none is lost, and
\* none is taken twice (queue_get, queueing.py:36-47).
THEOREM ContractFifo ==
  ASSUME MaxSize \in Nat
  PROVE  Spec => []Fifo
  <1>1. Init => Fifo
    BY DEF Init, Fifo
  <1>2. ASSUME TypeOK, Fifo, [Next]_vars
        PROVE  Fifo'
    <2>1. CASE Take
      BY <1>2, <2>1, FifoOfTake DEF Take, TypeOK, Fifo
    <2>2. ASSUME NEW x \in Item, Offer(x) \/ Refuse(x)
          PROVE  Fifo'
      BY <1>2, <2>2 DEF Offer, Refuse, Fifo
    <2>3. ASSUME NEW x \in Item, Accept(x)
          PROVE  Fifo'
      <3>1. /\ taken \in Seq(Item) /\ contents \in Seq(Item) /\ accepted = taken \o contents
            /\ taken' = taken /\ contents' = Append(contents, x)
            /\ accepted' = Append(accepted, x)
        BY <1>2, <2>3 DEF Accept, TypeOK, Fifo
      <3>2. Append(taken \o contents, x) = taken \o Append(contents, x)
        BY <3>1, FifoOfAppend, Zenon
      <3>3. accepted' = taken' \o contents'
        BY <3>1, <3>2
      <3> QED BY <3>3 DEF Fifo
    <2>4. CASE UNCHANGED vars
      BY <1>2, <2>4 DEF vars, Fifo
    <2> QED BY <1>2, <2>1, <2>2, <2>3, <2>4 DEF Next
  <1> QED BY <1>1, <1>2, ContractTyped, PTL DEF Spec

-------------------------------------------------------------------------------
\* Every item has one fate at a time: on offer, refused, or accepted once.
OneFate ==
  /\ offered \cap refused = {}
  /\ \A i \in DOMAIN accepted : accepted[i] \notin offered \cup refused
  /\ \A i, j \in DOMAIN accepted : accepted[i] = accepted[j] => i = j

\* An item changes its fate only as its queue_put returns.
LEMMA FateIsKept ==
  ASSUME MaxSize \in Nat
  PROVE  Spec => []OneFate
  <1>1. Init => OneFate
    BY DEF Init, OneFate
  <1>2. ASSUME TypeOK, OneFate, [Next]_vars
        PROVE  OneFate'
    <2>1. CASE Take
      BY <1>2, <2>1 DEF Take, OneFate
    <2>2. ASSUME NEW x \in Item, Offer(x)
          PROVE  OneFate'
      BY <1>2, <2>2 DEF Offer, Fresh, OneFate
    <2>3. ASSUME NEW x \in Item, Accept(x)
          PROVE  OneFate'
      <3>1. /\ DOMAIN accepted' = DOMAIN accepted \cup {Len(accepted) + 1}
            /\ \A i \in DOMAIN accepted : accepted'[i] = accepted[i]
            /\ accepted'[Len(accepted) + 1] = x
        BY <1>2, <2>3, Appended DEF Accept, TypeOK
      <3>2. x \notin refused /\ \A i \in DOMAIN accepted : accepted[i] # x
        BY <1>2, <2>3 DEF Accept, Fresh, OneFate
      <3>3. offered' = offered \ {x} /\ refused' = refused
        BY <2>3 DEF Accept
      <3> QED BY <1>2, <3>1, <3>2, <3>3 DEF OneFate
    <2>4. ASSUME NEW x \in Item, Refuse(x)
          PROVE  OneFate'
      BY <1>2, <2>4 DEF Refuse, Fresh, OneFate
    <2>5. CASE UNCHANGED vars
      BY <1>2, <2>5 DEF vars, OneFate
    <2> QED BY <1>2, <2>1, <2>2, <2>3, <2>4, <2>5 DEF Next
  <1> QED BY <1>1, <1>2, ContractTyped, PTL DEF Spec

\* An item that queue_put refused never enters the queue (queueing.py:27-34).
THEOREM ContractRefusal ==
  ASSUME MaxSize \in Nat
  PROVE  Spec => []RefusedStaysOut
  <1>1. OneFate => RefusedStaysOut
    BY DEF OneFate, RefusedStaysOut
  <1> QED BY <1>1, FateIsKept, PTL

\* No two callers of queue_get are handed the same item.
TakenOnce == \A i, j \in DOMAIN taken : taken[i] = taken[j] => i = j

\* An item that was accepted once is taken at most once, whoever takes it
\* (queueing.py:36-47).
THEOREM ContractTakesOnce ==
  ASSUME MaxSize \in Nat
  PROVE  Spec => []TakenOnce
  <1>1. ASSUME TypeOK, Fifo, OneFate
        PROVE  TakenOnce
    <2> SUFFICES ASSUME NEW i \in DOMAIN taken, NEW j \in DOMAIN taken,
                        taken[i] = taken[j]
                 PROVE  i = j
      BY DEF TakenOnce
    <2>1. /\ accepted = taken \o contents
          /\ taken \in Seq(Item) /\ contents \in Seq(Item) /\ accepted \in Seq(Item)
      BY <1>1 DEF TypeOK, Fifo
    <2>2. \A k \in DOMAIN taken : k \in DOMAIN accepted /\ accepted[k] = taken[k]
      BY <2>1, ConcatProperties, LenProperties
    <2> QED BY <1>1, <2>2 DEF OneFate
  <1> QED BY <1>1, ContractTyped, ContractFifo, FateIsKept, PTL
=============================================================================
