----------------------------- MODULE MCPayload -----------------------------
(* Instances of Payload for TLC. *)
EXTENDS Payload, TLC

Symmetry ==
  Permutations(Listeners) \cup Permutations(Callers) \cup Permutations(Payloads)
=============================================================================
