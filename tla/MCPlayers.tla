----------------------------- MODULE MCPlayers -----------------------------
(* Instances of Players for TLC. *)
EXTENDS Players, TLC

PlayerSymmetry == Permutations(Callers) \cup Permutations(Sessions)
=============================================================================
