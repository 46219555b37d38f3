---------------------------- MODULE MCTcpServer ----------------------------
(* Instances of TcpServer for TLC. *)
EXTENDS TcpServer

CONSTANT Capacities

(* No list, a list with room for a few players, and one without a limit. *)
MCLists ==
  [exists : {FALSE}, capacity : {0}, values : {{}}] \cup
  [exists : {TRUE}, capacity : Capacities, values : {{}}]
=============================================================================
