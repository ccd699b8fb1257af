----------------------------- MODULE MCStateFile -----------------------------
(* An instance of StateFile for TLC. *)
EXTENDS StateFile, TLC

CONSTANTS u1, u2

Symmetry == Permutations({u1, u2})
=============================================================================
