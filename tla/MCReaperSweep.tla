---------------------------- MODULE MCReaperSweep -----------------------------
(* A small instance of ReaperSweep for TLC. *)
EXTENDS ReaperSweep, TLC

Symmetry == Permutations(Client)
=============================================================================
