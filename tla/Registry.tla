------------------------------ MODULE Registry ------------------------------
(***************************************************************************)
(* What player tracking promises (docs/spec.md, section Players), without  *)
(* requests, caches or streams.                                            *)
(*                                                                         *)
(* There is one list.  A call takes effect at most once, at one instant    *)
(* between its begin and its return, and a definite refusal is true of the *)
(* list at such an instant.  Only an error leaves open whether the call    *)
(* took effect.                                                            *)
(***************************************************************************)
EXTENDS Integers, FiniteSets

CONSTANTS
  Callers,
  Sessions,
  Lists       \* records [exists, capacity, values]

VARIABLES
  list,       \* the players list
  stage,      \* per caller: how far its call is
  op,         \* per caller: the call
  session,    \* per caller: its session id
  answer      \* per caller: what the last call returned

vars == <<list, stage, op, session, answer>>

Stages == {"idle", "open", "applied", "disabled"}

Room == list.capacity < 0 \/ Cardinality(list.values) < list.capacity

Init ==
  /\ list \in Lists
  /\ stage = [c \in Callers |-> "idle"]
  /\ op \in [Callers -> {"none"}]
  /\ session \in [Callers -> Sessions]
  /\ answer = [c \in Callers |-> "none"]

Move(c, from, to) ==
  /\ stage[c] = from
  /\ stage' = [stage EXCEPT ![c] = to]

Answer(c, from, a) ==
  /\ Move(c, from, "idle")
  /\ answer' = [answer EXCEPT ![c] = a]
  /\ UNCHANGED <<list, op, session>>

(* A call begins. *)
Open(c, o, s) ==
  /\ Move(c, "idle", "open")
  /\ op' = [op EXCEPT ![c] = o]
  /\ session' = [session EXCEPT ![c] = s]
  /\ answer' = [answer EXCEPT ![c] = "none"]
  /\ UNCHANGED list

(* A disconnect is refused without a look at the list. *)
OpenRefused(c, s) ==
  /\ stage[c] = "idle"
  /\ op' = [op EXCEPT ![c] = "disconnect"]
  /\ session' = [session EXCEPT ![c] = s]
  /\ answer' = [answer EXCEPT ![c] = "TrackingDisabled"]
  /\ UNCHANGED <<list, stage>>

(* What the call of c does to the list. *)
Effect(c) ==
  \/ /\ op[c] = "connect"
     /\ list.exists /\ session[c] \notin list.values /\ Room
     /\ list' = [list EXCEPT !.values = @ \cup {session[c]}]
  \/ /\ op[c] = "disconnect"
     /\ session[c] \in list.values
     /\ list' = [list EXCEPT !.values = @ \ {session[c]}]

(* The call takes effect. *)
Apply(c) ==
  /\ Move(c, "open", "applied")
  /\ Effect(c)
  /\ UNCHANGED <<op, session, answer>>

(* The call takes effect, and fails. *)
ApplyAndFail(c) ==
  /\ Move(c, "open", "idle")
  /\ Effect(c)
  /\ answer' = [answer EXCEPT ![c] = "Err"]
  /\ UNCHANGED <<op, session>>

(* A connect finds that there is no list. *)
FindDisabled(c) ==
  /\ op[c] = "connect" /\ ~list.exists
  /\ Move(c, "open", "disabled")
  /\ UNCHANGED <<list, op, session, answer>>

(* A definite refusal is true of the list now. *)
Refuse(c) ==
  \/ /\ op[c] = "connect" /\ session[c] \in list.values
     /\ Answer(c, "open", "AlreadyConnected")
  \/ /\ op[c] = "connect" /\ list.exists /\ ~Room
     /\ Answer(c, "open", "ServerFull")
  \/ /\ op[c] = "disconnect" /\ session[c] \notin list.values
     /\ Answer(c, "open", "False")

(* The call returns. *)
Return(c) ==
  \/ \E a \in {"Ok", "Err"} : Answer(c, "applied", a)
  \/ Answer(c, "disabled", "TrackingDisabled")
  \/ Answer(c, "open", "Err")
  \/ op[c] = "refresh" /\ Answer(c, "open", "Ok")

(* The platform changes the list. *)
Change ==
  /\ list' \in Lists
  /\ UNCHANGED <<stage, op, session, answer>>

Next ==
  \/ \E c \in Callers, s \in Sessions :
       \/ \E o \in {"connect", "disconnect", "refresh"} : Open(c, o, s)
       \/ OpenRefused(c, s)
  \/ \E c \in Callers :
       Apply(c) \/ ApplyAndFail(c) \/ FindDisabled(c) \/ Refuse(c) \/ Return(c)
  \/ Change

Spec == Init /\ [][Next]_vars
=============================================================================
