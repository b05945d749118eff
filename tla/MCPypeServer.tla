----------------------------- MODULE MCPypeServer -----------------------------
(* Small instances of PypeServer for TLC. *)
EXTENDS PypeServer, TLC, SequencesExt

\* Handlers, entries and request_ids are interchangeable, and so are clients
\* where none of them, or all of them, may log off.
Symmetry == Permutations(Handler) \cup Permutations(Entry) \cup Permutations(Request)
ClientSymmetry == Symmetry \cup Permutations(Client)

-------------------------------------------------------------------------------
(***************************************************************************)
(* Calls that wait for each other's full queues.  It takes four messages to   *)
(* close the circle, more than a run from Init can have without symmetry, so   *)
(* the run starts where both queues are full already: of one client, one       *)
(* response is ready, a second request is being served and a third is queued.  *)
(* Server and client have a past (the client logged off, and was evicted,      *)
(* before it came back), so that the history variables stay as they are.       *)
(***************************************************************************)
FullQueues ==
  LET c == CHOOSE x \in Client : TRUE
      e == CHOOSE x \in Entry : TRUE
      s == CHOOSE x \in Service : TRUE
      ids == SetToSeq(Request)
      served == [m \in Msg |-> CASE m = <<c, ids[1]>> -> "ready"
                                 [] m = <<c, ids[2]>> -> "taken"
                                 [] m = <<c, ids[3]>> -> "queued"
                                 [] OTHER -> "new"]
  IN /\ entry = [x \in Client |-> IF x = c THEN e ELSE None]
     /\ age = [x \in Client |-> 0]
     /\ queue = [x \in Entry |-> IF x = e THEN <<<<c, ids[1]>>>> ELSE <<>>]
     /\ squeue = [x \in Service |-> IF x = s THEN <<<<c, ids[3]>>>> ELSE <<>>]
     /\ call = [h \in Handler |-> NoCall]
     /\ pending = {}
     /\ stage = served
     /\ gone = Leaver /\ evicted = Client
     /\ handed = [m \in Msg |-> IF served[m] \in {"taken", "ready"} THEN 1 ELSE 0]
     /\ delivered = [x \in Client |-> [m \in Msg |-> 0]]

FullQueuesSpec == FullQueues /\ [][Next]_vars /\ Fairness
=============================================================================
