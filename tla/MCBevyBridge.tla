---------------------------- MODULE MCBevyBridge ----------------------------
(* Instances of BevyBridge for TLC. *)
EXTENDS BevyBridge

CONSTANT Capacities

(* No list, and a list with room for a few players. *)
MCLists ==
  [exists : {FALSE}, capacity : {0}, values : {{}}] \cup
  [exists : {TRUE}, capacity : Capacities, values : {{}}]
=============================================================================
