--------------------------- MODULE MCClientLibrary ---------------------------
(* A small instance of ClientLibrary for TLC. *)
EXTENDS ClientLibrary

\* The service of the first request may miss a 202 and respond to it again.
FirstTwice == [r \in Rid |-> IF r = 1 THEN 2 ELSE 1]
=============================================================================
