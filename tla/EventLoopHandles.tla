-------------------------- MODULE EventLoopHandles --------------------------
(***************************************************************************)
(* The handles of the two SDKs that run on one thread, side by side: a     *)
(* game server links one of them (`sdk`), and both owe it the same.        *)
(* Neither looks at the state again when an answer arrives, so that a late *)
(* answer to ready() or start() reopens a handle that was being shut down. *)
(* The properties say what holds nevertheless, and how far the damage of   *)
(* each such reopening goes.                                               *)
(***************************************************************************)
EXTENDS Naturals, FiniteSets

CONSTANTS Callers, DegradedThreshold

ASSUME HandlesAssumption ==
  /\ IsFiniteSet(Callers)
  /\ DegradedThreshold \in Nat \ {0}

VARIABLES sdk, mode, started, state, pc, op, res, running, timer, chain,
          failures, degraded, watchOpen, shutdownRequests, reopened, alarms

TypeScript == INSTANCE TypeScriptHandle
Godot      == INSTANCE GodotHandle

vars == <<sdk, started, TypeScript!vars>>

Init ==
  \/ sdk = "TypeScript" /\ started = TRUE /\ TypeScript!Init
  \/ sdk = "Godot" /\ timer = {} /\ Godot!Init

TypeScriptStep(c) ==
  /\ sdk = "TypeScript"
  /\ TypeScript!Call(c) \/ TypeScript!Answered(c) \/ TypeScript!Heartbeat(c)
  /\ UNCHANGED <<sdk, started>>

GodotStep(c) ==
  /\ sdk = "Godot"
  /\ Godot!Call(c) \/ Godot!Answered(c) \/ Godot!Heartbeat(c)
  /\ UNCHANGED <<sdk, timer>>

Next == \E c \in Callers : TypeScriptStep(c) \/ GodotStep(c)

Spec == Init /\ [][Next]_vars

(* Every request is answered or times out, and timers and sleeps end.      *)
(* Nothing obliges the game server to make a call.                         *)
AnswerStep(c) ==
  \/ sdk = "TypeScript" /\ TypeScript!Answered(c) /\ UNCHANGED <<sdk, started>>
  \/ sdk = "Godot" /\ Godot!Answered(c) /\ UNCHANGED <<sdk, timer>>

HeartbeatStep(c) ==
  \/ sdk = "TypeScript" /\ TypeScript!Heartbeat(c) /\ UNCHANGED <<sdk, started>>
  \/ sdk = "Godot" /\ Godot!Heartbeat(c) /\ UNCHANGED <<sdk, timer>>

FairSpec ==
  /\ Spec
  /\ \A c \in Callers : WF_vars(AnswerStep(c)) /\ WF_vars(HeartbeatStep(c))

-----------------------------------------------------------------------------
(* Properties.                                                             *)

Closing == state \in {"shutting-down", "shutdown"}

Active == {l \in Callers : chain[l] \notin {"none", "done"}}

TypeOK ==
  /\ sdk \in {"TypeScript", "Godot"}
  /\ mode \in {"", "sidecar", "local"}
  /\ started \in BOOLEAN
  /\ state \in {"idle", "connected", "ready", "shutting-down", "shutdown"}
  /\ pc \in [Callers -> {"idle", "await"}]
  /\ op \in [Callers -> {"none", "start", "ready", "info", "players", "other", "shutdown"}]
  /\ res \in [Callers -> {"none", "Ok", "NotConnected", "Err"}]
  /\ running \in BOOLEAN
  /\ timer \in SUBSET Callers
  /\ chain \in [Callers -> {"none", "ping", "refused", "timer", "sleep", "done"}]
  /\ failures \in 0..DegradedThreshold
  /\ degraded \in BOOLEAN
  /\ watchOpen \in BOOLEAN
  /\ shutdownRequests \in Nat
  /\ reopened \in Nat
  /\ alarms \in 0..2

(* POST /shutdown goes out once, and once more for each time a late answer *)
(* reopened the handle (gameflow.ts:137-149, gameflow.gd:163-178).         *)
OneRequestPerOpening == shutdownRequests <= 1 + reopened

(* A ping is sent only after the previous one has settled, and there is    *)
(* one chain of pings, unless a late answer has started another beside one *)
(* that was winding down (health.ts:13-14, health_loop.gd:2-3).            *)
PingsDoNotPileUp == Cardinality(Active) <= 1 + reopened

(* The degraded callback runs once per outage even when two chains count   *)
(* on the same counter and across a restart (health.ts:62-72).             *)
OneAlarmPerOutage == alarms = IF failures = DegradedThreshold THEN 1 ELSE 0

(* From the claim of a shutdown on, nothing beats any more unless the      *)
(* handle was reopened: the flag is clear, and no timer is left that could *)
(* fire (gameflow.ts:139-141, gameflow.gd:169-171).                        *)
ClosedStaysQuiet ==
  (Closing /\ reopened = 0)
    => ~running /\ \A l \in Callers : chain[l] # "timer"

(* A claimed shutdown ends in 'shutdown' even when POST /shutdown fails    *)
(* and a late answer gets in between.                                      *)
ShutdownCompletes == (state = "shutting-down") ~> (state = "shutdown")
=============================================================================
