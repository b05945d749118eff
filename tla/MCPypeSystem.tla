----------------------------- MODULE MCPypeSystem -----------------------------
(* Small instances of PypeSystem for TLC. *)
EXTENDS PypeSystem, TLC

CONSTANTS i1, i2, s1, s2, w1, private1, private2

\* Hosts whose names resolve to the loopback address first, as on Debian.
OneHost == i1 :> <<Loopback, private1>>
TwoHosts == OneHost @@ i2 :> <<Loopback, private2>>

OneService == w1 :> s1

\* The instances are interchangeable, with their addresses, and so are the clients.
Symmetry ==
  Permutations(Client)
    \cup {i1 :> i2 @@ i2 :> i1 @@ private1 :> private2 @@ private2 :> private1}
=============================================================================
