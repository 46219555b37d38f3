----------------------------- MODULE MCConnect -----------------------------
(* An instance of Connect for TLC, in units of 50 ms. *)
EXTENDS Connect, TLC
=============================================================================
