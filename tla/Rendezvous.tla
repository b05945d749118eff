------------------------------ MODULE Rendezvous ------------------------------
(***************************************************************************)
(* What pype promises of a request, whatever fails on the way: it is handed  *)
(* to at most one connection, one of the service it names, and only its      *)
(* client ever gets a response to it, once it has been handed out.           *)
(***************************************************************************)
EXTENDS Sequences

CONSTANTS
  Caller,   \* connections of clients and services
  Msg,      \* requests, records with the fields client and service
  Serves    \* service connections, each with the name it authenticated with

VARIABLES
  ran,      \* request -> the connections that it was handed to
  answered  \* pairs of a caller and a request whose response it has got

Init ==
  /\ ran = [m \in Msg |-> <<>>]
  /\ answered = {}

Run(m, w) ==
  /\ ran[m] = <<>>
  /\ w \in DOMAIN Serves /\ Serves[w] = m.service
  /\ ran' = [ran EXCEPT ![m] = <<w>>]
  /\ UNCHANGED answered

Respond(m) ==
  /\ ran[m] # <<>>
  /\ answered' = answered \cup {<<m.client, m>>}
  /\ UNCHANGED ran

Next == \E m \in Msg : Respond(m) \/ \E w \in Caller : Run(m, w)

Spec == Init /\ [][Next]_<<ran, answered>>
=============================================================================
