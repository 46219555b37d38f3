------------------------------- MODULE Handle -------------------------------
(***************************************************************************)
(* What a GameFlow handle promises to the game server that shares it, as   *)
(* far as the lifecycle goes, without requests, guards or heartbeat.       *)
(*                                                                         *)
(* The state goes from CONNECTED over READY to SHUTTING_DOWN and SHUTDOWN. *)
(* One shutdown() carries the handle through the last two; the others      *)
(* return as soon as they find it claimed.  A ready() succeeds only on     *)
(* account of a /ready the runtime has carried out, and moves the state    *)
(* only from CONNECTED.  A call that begins after SHUTDOWN is refused.     *)
(***************************************************************************)
EXTENDS Naturals

CONSTANT Callers

VARIABLES
  state,      \* the lifecycle state
  told,       \* the runtime has carried out a /ready
  stage,      \* per caller: how far its call is
  op,         \* per caller: the call
  answer      \* per caller: what the last call returned

vars == <<state, told, stage, op, answer>>

CONNECTED     == 0
READY         == 1
SHUTTING_DOWN == 2
SHUTDOWN      == 3

Ops == {"ready", "shutdown", "info", "players"}

Init ==
  /\ state = CONNECTED
  /\ told = FALSE
  /\ stage = [c \in Callers |-> "idle"]
  /\ op = [c \in Callers |-> "none"]
  /\ answer = [c \in Callers |-> "none"]

Answer(c, from, a) ==
  /\ stage[c] = from
  /\ stage' = [stage EXCEPT ![c] = "idle"]
  /\ answer' = [answer EXCEPT ![c] = a]

(* A call begins. *)
Open(c, o) ==
  /\ stage[c] = "idle"
  /\ stage' = [stage EXCEPT ![c] =
                 IF state = SHUTDOWN /\ o # "shutdown" THEN "refused" ELSE "open"]
  /\ op' = [op EXCEPT ![c] = o]
  /\ answer' = [answer EXCEPT ![c] = "none"]
  /\ UNCHANGED <<state, told>>

(* The runtime carries out a /ready; the call learns of it, or fails. *)
Tell(c) ==
  /\ op[c] = "ready" /\ stage[c] = "open"
  /\ told' = TRUE
  /\ UNCHANGED <<stage, answer>> \/ Answer(c, "open", "Err")
  /\ UNCHANGED <<state, op>>

(* The state moves to READY, and the call returns now or later. *)
BecomeReady(c) ==
  /\ op[c] = "ready" /\ stage[c] = "open"
  /\ told /\ state = CONNECTED
  /\ state' = READY
  /\ UNCHANGED <<stage, answer>> \/ Answer(c, "open", "Ok")
  /\ UNCHANGED <<told, op>>

(* This shutdown is the one that counts. *)
Claim(c) ==
  /\ op[c] = "shutdown" /\ stage[c] = "open"
  /\ state < SHUTTING_DOWN
  /\ state' = SHUTTING_DOWN
  /\ stage' = [stage EXCEPT ![c] = "claimed"]
  /\ UNCHANGED <<told, op, answer>>

Complete(c) ==
  /\ state' = SHUTDOWN
  /\ Answer(c, "claimed", "Ok")
  /\ UNCHANGED <<told, op>>

(* The call returns without a change of the state. *)
Return(c) ==
  /\ \/ op[c] = "shutdown" /\ state >= SHUTTING_DOWN /\ Answer(c, "open", "Ok")
     \/ op[c] = "ready" /\ told /\ state >= READY /\ Answer(c, "open", "Ok")
     \/ op[c] \in {"info", "players"} /\ Answer(c, "open", "Ok")
     \/ op[c] # "shutdown" /\ Answer(c, "open", "Err")
     \/ op[c] # "shutdown" /\ state >= SHUTTING_DOWN /\ Answer(c, "open", "NotConnected")
     \/ Answer(c, "refused", "NotConnected")
  /\ UNCHANGED <<state, told, op>>

Step(c) ==
  Tell(c) \/ BecomeReady(c) \/ Claim(c) \/ Complete(c) \/ Return(c)

Next ==
  \/ \E c \in Callers, o \in Ops : Open(c, o)
  \/ \E c \in Callers : Step(c)

Spec == Init /\ [][Next]_vars
=============================================================================
