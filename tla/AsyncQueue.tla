------------------------------ MODULE AsyncQueue ------------------------------
(***************************************************************************)
(* queue_put and queue_get of queueing.py at the grain of the event loop:    *)
(* the futures and wake-ups of asyncio.Queue and the cancellation by         *)
(* asyncio.wait_for, as CPython implements them.                             *)
(*                                                                           *)
(* A caller that finds the queue empty (full) appends a future to a deque    *)
(* and sleeps.  A put (get) sets the result of the first future that is not  *)
(* done yet, which only schedules the caller: it looks at the queue again    *)
(* when it runs, and another caller may have been faster.  When the timer of *)
(* wait_for fires between the two, the caller is woken to be cancelled, and  *)
(* has to pass its wake-up on.                                               *)
(*                                                                           *)
(* The deques hold the futures that are not done; a cancelled one, which     *)
(* asyncio leaves in its deque until its caller runs, is skipped there.      *)
(***************************************************************************)
EXTENDS Integers, Sequences, FiniteSets

CONSTANTS
  Getter,   \* callers of queue_get
  Putter,   \* callers of queue_put
  Item,     \* what they exchange; each item is offered once
  MaxSize,  \* maxsize of the queue
  None

ASSUME QueueAssumption ==
  /\ MaxSize \in Nat \ {0}
  /\ Getter \cap Putter = {}
  /\ None \notin Item
  /\ IsFiniteSet(Getter) /\ IsFiniteSet(Putter)

Caller == Getter \cup Putter

VARIABLES
  items,     \* Queue._queue
  getters,   \* Queue._getters: callers whose future is not done
  putters,   \* Queue._putters
  pc,        \* where each caller is
  offer,     \* the item that a putter in queue_put holds
  accepted,  \* history, as in BoundedQueue
  refused, taken

vars == <<items, getters, putters, pc, offer, accepted, refused, taken>>

\* idle:    not in a call
\* try:     about to look at the queue, in the task that wait_for created
\* waiting: its future is in the deque
\* woken:   its future is done, and it will look at the queue again
\* late:    woken too, but wait_for cancelled it before it could run
Place == {"idle", "try", "waiting", "woken", "late"}

At(place, S) == {w \in S : pc[w] = place}
Roused(S) == At("woken", S) \cup At("late", S)

\* A deque holds exactly the callers that wait, each once.
DequeOf(d, S) ==
  /\ d \in Seq(S)
  /\ \A i, j \in DOMAIN d : d[i] = d[j] => i = j
  /\ {d[i] : i \in DOMAIN d} = At("waiting", S)

TypeOK ==
  /\ items \in Seq(Item) /\ Len(items) <= MaxSize
  /\ DequeOf(getters, Getter) /\ DequeOf(putters, Putter)
  /\ pc \in [Caller -> Place]
  /\ offer \in [Putter -> Item \cup {None}]
  /\ \A p \in Putter : offer[p] = None <=> pc[p] = "idle"
  /\ accepted \in Seq(Item) /\ taken \in Seq(Item)
  /\ refused \subseteq Item

Init ==
  /\ items = <<>> /\ getters = <<>> /\ putters = <<>>
  /\ pc = [w \in Caller |-> "idle"]
  /\ offer = [p \in Putter |-> None]
  /\ accepted = <<>> /\ refused = {} /\ taken = <<>>

-------------------------------------------------------------------------------
(* asyncio.Queue *)

\* Faulty variant: one item too many.
FullOffByOne == Len(items) > MaxSize

Full == Len(items) >= MaxSize

\* The callers that _wakeup_next rouses: the first of the deque, if there is one.
First(d) == IF d = <<>> THEN {} ELSE {Head(d)}
Rest(d) == IF d = <<>> THEN <<>> ELSE Tail(d)

\* The new places, when w goes to "place" and the callers of S are woken.
Moved(w, place, S) ==
  [v \in Caller |-> IF v \in S THEN "woken" ELSE IF v = w THEN place ELSE pc[v]]

\* Faulty variant: a put that wakes nobody.
PutSilently(w, x) ==
  /\ items' = Append(items, x)
  /\ accepted' = Append(accepted, x)
  /\ pc' = Moved(w, "idle", {})
  /\ UNCHANGED <<getters, putters, refused, taken>>

\* put_nowait(x) by w, which has found room, and wakes a getter.
Put(w, x) ==
  /\ items' = Append(items, x)
  /\ accepted' = Append(accepted, x)
  /\ getters' = Rest(getters)
  /\ pc' = Moved(w, "idle", First(getters))
  /\ UNCHANGED <<putters, refused, taken>>

\* Faulty variant: last in, first out.
GetNewest(w) ==
  /\ items' = SubSeq(items, 1, Len(items) - 1)
  /\ taken' = Append(taken, items[Len(items)])
  /\ putters' = Rest(putters)
  /\ pc' = Moved(w, "idle", First(putters))
  /\ UNCHANGED <<getters, offer, accepted, refused>>

\* get_nowait by w, which has found an item, and wakes a putter.
Get(w) ==
  /\ items' = Tail(items)
  /\ taken' = Append(taken, Head(items))
  /\ putters' = Rest(putters)
  /\ pc' = Moved(w, "idle", First(putters))
  /\ UNCHANGED <<getters, offer, accepted, refused>>

Without(d, w) ==
  LET k == CHOOSE i \in DOMAIN d : d[i] = w
  IN [i \in 1 .. Len(d) - 1 |-> IF i < k THEN d[i] ELSE d[i + 1]]

-------------------------------------------------------------------------------
(* queue_get *)

\* timeout 0: get_nowait, or None at once.
GetNow(g) == pc[g] = "idle" /\ items # <<>> /\ Get(g)

StartGet(g) ==
  /\ pc[g] = "idle"
  /\ pc' = [pc EXCEPT ![g] = "try"]
  /\ UNCHANGED <<items, getters, putters, offer, accepted, refused, taken>>

\* The loop "while self.empty()" of Queue.get.
TryGet(g) ==
  /\ pc[g] \in {"try", "woken"}
  /\ \/ items # <<>> /\ Get(g)
     \/ /\ items = <<>>
        /\ getters' = Append(getters, g)
        /\ pc' = [pc EXCEPT ![g] = "waiting"]
        /\ UNCHANGED <<items, putters, offer, accepted, refused, taken>>

\* The timer of wait_for fires; None, but for a getter that is woken already.
ExpireGet(g) ==
  /\ \/ /\ pc[g] = "try"
        /\ pc' = [pc EXCEPT ![g] = "idle"] /\ UNCHANGED getters
     \/ /\ pc[g] = "waiting"
        /\ pc' = [pc EXCEPT ![g] = "idle"] /\ getters' = Without(getters, g)
     \/ /\ pc[g] = "woken"
        /\ pc' = [pc EXCEPT ![g] = "late"] /\ UNCHANGED getters
  /\ UNCHANGED <<items, putters, offer, accepted, refused, taken>>

\* Faulty variant: the wake-up of a cancelled getter is lost.
GiveUpGetSilently(g) ==
  /\ pc[g] = "late"
  /\ pc' = [pc EXCEPT ![g] = "idle"]
  /\ UNCHANGED <<items, getters, putters, offer, accepted, refused, taken>>

\* The exception handler of Queue.get passes the wake-up on, if there is an item.
GiveUpGet(g) ==
  /\ pc[g] = "late"
  /\ \/ /\ items # <<>>
        /\ getters' = Rest(getters)
        /\ pc' = Moved(g, "idle", First(getters))
     \/ /\ items = <<>>
        /\ pc' = [pc EXCEPT ![g] = "idle"] /\ UNCHANGED getters
  /\ UNCHANGED <<items, putters, offer, accepted, refused, taken>>

-------------------------------------------------------------------------------
(* queue_put *)

Fresh(x) ==
  /\ x \notin refused /\ \A p \in Putter : offer[p] # x
  /\ \A i \in DOMAIN accepted : accepted[i] # x

\* timeout 0: put_nowait, or False at once.
PutNow(p, x) ==
  /\ pc[p] = "idle" /\ Fresh(x)
  /\ \/ ~Full /\ Put(p, x) /\ UNCHANGED offer
     \/ /\ Full
        /\ refused' = refused \cup {x}
        /\ UNCHANGED <<items, getters, putters, pc, offer, accepted, taken>>

StartPut(p, x) ==
  /\ pc[p] = "idle" /\ Fresh(x)
  /\ pc' = [pc EXCEPT ![p] = "try"]
  /\ offer' = [offer EXCEPT ![p] = x]
  /\ UNCHANGED <<items, getters, putters, accepted, refused, taken>>

\* The loop "while self.full()" of Queue.put.
TryPut(p) ==
  /\ pc[p] \in {"try", "woken"}
  /\ \/ /\ ~Full
        /\ Put(p, offer[p])
        /\ offer' = [offer EXCEPT ![p] = None]
     \/ /\ Full
        /\ putters' = Append(putters, p)
        /\ pc' = [pc EXCEPT ![p] = "waiting"]
        /\ UNCHANGED <<items, getters, offer, accepted, refused, taken>>

\* queue_put returns False.
Refuse(p) ==
  /\ refused' = refused \cup {offer[p]}
  /\ offer' = [offer EXCEPT ![p] = None]

\* Faulty variant: the caller gives up, and its put is not cancelled.
ExpirePutUncancelled(p) ==
  /\ pc[p] \in {"waiting", "woken"}
  /\ refused' = refused \cup {offer[p]}
  /\ UNCHANGED <<items, getters, putters, pc, offer, accepted, taken>>

\* The timer of wait_for fires; False, but for a putter that is woken already.
ExpirePut(p) ==
  /\ \/ /\ pc[p] = "try"
        /\ pc' = [pc EXCEPT ![p] = "idle"]
        /\ Refuse(p) /\ UNCHANGED putters
     \/ /\ pc[p] = "waiting"
        /\ pc' = [pc EXCEPT ![p] = "idle"]
        /\ Refuse(p) /\ putters' = Without(putters, p)
     \/ /\ pc[p] = "woken"
        /\ pc' = [pc EXCEPT ![p] = "late"]
        /\ UNCHANGED <<putters, offer, refused>>
  /\ UNCHANGED <<items, getters, accepted, taken>>

\* The exception handler of Queue.put passes the wake-up on, if there is room.
GiveUpPut(p) ==
  /\ pc[p] = "late" /\ Refuse(p)
  /\ \/ /\ ~Full
        /\ putters' = Rest(putters)
        /\ pc' = Moved(p, "idle", First(putters))
     \/ /\ Full
        /\ pc' = [pc EXCEPT ![p] = "idle"] /\ UNCHANGED putters
  /\ UNCHANGED <<items, getters, accepted, taken>>

-------------------------------------------------------------------------------
\* The event loop runs what is scheduled.
RunGet(g) == TryGet(g) \/ GiveUpGet(g)
RunPut(p) == TryPut(p) \/ GiveUpPut(p)

Next ==
  \/ \E g \in Getter : GetNow(g) \/ StartGet(g) \/ RunGet(g) \/ ExpireGet(g)
  \/ \E p \in Putter : RunPut(p) \/ ExpirePut(p)
                       \/ \E x \in Item : PutNow(p, x) \/ StartPut(p, x)

Spec == Init /\ [][Next]_vars

\* What is scheduled runs; nothing is assumed of the timers.
FairSpec ==
  /\ Spec
  /\ \A g \in Getter : WF_vars(RunGet(g))
  /\ \A p \in Putter : WF_vars(RunPut(p))

-------------------------------------------------------------------------------
\* No wake-up is lost: while a getter sleeps there is a roused one for every item
\* in the queue, and while a putter sleeps one for every free place, although
\* roused callers may find the queue changed, and may be cancelled before they
\* run (wait_for in queueing.py:28,45).
NoLostWakeup ==
  /\ At("waiting", Getter) # {} => Len(items) <= Cardinality(Roused(Getter))
  /\ At("waiting", Putter) # {}
     => MaxSize - Len(items) <= Cardinality(Roused(Putter))

\* What a caller sees of all this is a bounded FIFO queue.
Abstract == INSTANCE BoundedQueue
              WITH contents <- items,
                   offered <- {offer[p] : p \in Putter} \ {None}

ImplementsBoundedQueue == Abstract!Spec
Fifo == Abstract!Fifo
RefusedStaysOut == Abstract!RefusedStaysOut

\* An item does not stay at the head of the queue while a getter sleeps, and a
\* putter does not sleep on beside a free place, even if no timer ever fires.
SleepersServed ==
  /\ \A x \in Item :
       items # <<>> /\ Head(items) = x /\ At("waiting", Getter) # {}
       ~> \/ \E i \in DOMAIN taken : taken[i] = x
          \/ At("waiting", Getter) = {}
  /\ ~Full /\ At("waiting", Putter) # {} ~> Full \/ At("waiting", Putter) = {}
=============================================================================
