----------------------------- MODULE BoundedQueue -----------------------------
(***************************************************************************)
(* What queue_put and queue_get promise their callers: a FIFO queue of at     *)
(* most MaxSize items.  An item that is offered is either accepted, once, or  *)
(* refused, and then it never enters the queue; an accepted item is taken at  *)
(* most once, in the order of acceptance, and a get that finds nothing in     *)
(* time takes nothing.  A handler of PypeServer uses its queues this way.     *)
(***************************************************************************)
EXTENDS Integers, Sequences

CONSTANTS Item, MaxSize

VARIABLES
  contents,  \* the items in the queue
  offered,   \* items whose queue_put has not returned
  accepted,  \* history: items whose queue_put returned True, in that order
  refused,   \* history: items whose queue_put returned False
  taken      \* history: items that a queue_get returned, in that order

vars == <<contents, offered, accepted, refused, taken>>

Init ==
  /\ contents = <<>> /\ offered = {}
  /\ accepted = <<>> /\ refused = {} /\ taken = <<>>

Fresh(x) ==
  /\ x \notin offered \cup refused
  /\ \A i \in DOMAIN accepted : accepted[i] # x

Offer(x) ==
  /\ Fresh(x)
  /\ offered' = offered \cup {x}
  /\ UNCHANGED <<contents, accepted, refused, taken>>

\* At once, or at the end of a wait.
Accept(x) ==
  /\ x \in offered \/ Fresh(x)
  /\ Len(contents) < MaxSize
  /\ contents' = Append(contents, x)
  /\ accepted' = Append(accepted, x)
  /\ offered' = offered \ {x}
  /\ UNCHANGED <<refused, taken>>

Refuse(x) ==
  /\ x \in offered \/ Fresh(x)
  /\ refused' = refused \cup {x}
  /\ offered' = offered \ {x}
  /\ UNCHANGED <<contents, accepted, taken>>

Take ==
  /\ contents # <<>>
  /\ contents' = Tail(contents)
  /\ taken' = Append(taken, Head(contents))
  /\ UNCHANGED <<offered, accepted, refused>>

Next == Take \/ \E x \in Item : Offer(x) \/ Accept(x) \/ Refuse(x)

Spec == Init /\ [][Next]_vars

-------------------------------------------------------------------------------
TypeOK ==
  /\ contents \in Seq(Item) /\ accepted \in Seq(Item) /\ taken \in Seq(Item)
  /\ offered \subseteq Item /\ refused \subseteq Item
  /\ Len(contents) <= MaxSize

\* First in, first out, and nothing lost or taken twice: what was accepted is
\* what was taken followed by what is still there (queueing.py:19-47).
Fifo == accepted = taken \o contents

\* queue_put that returned False left nothing behind, not even when the space it
\* was waiting for came at the moment of its timeout (queueing.py:27-34).
RefusedStaysOut == \A i \in DOMAIN accepted : accepted[i] \notin refused
=============================================================================
