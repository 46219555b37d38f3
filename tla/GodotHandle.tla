---------------------------- MODULE GodotHandle ----------------------------
(***************************************************************************)
(* The lifecycle and the heartbeat of the Godot SDK                        *)
(* (sdk/godot/addons/gameflow/gameflow.gd, internal/health_loop.gd).       *)
(*                                                                         *)
(* Coroutines run on the main loop, each up to its next await.  A sidecar  *)
(* request suspends its caller; the local transport answers without        *)
(* suspending, so that a local call is one action.  Unlike the other SDKs  *)
(* the handle exists before it is connected: start() is a call of its own, *)
(* and `mode` is empty before it.                                          *)
(***************************************************************************)
EXTENDS Naturals

CONSTANTS
  Callers,            \* calls that can be under way at the same time
  DegradedThreshold   \* consecutive failed pings before the alarm

VARIABLES
  mode,       \* "", then "sidecar" or "local"
  started,    \* _started
  state,      \* _shared.state
  pc,         \* per caller: "await" while its request is on the wire
  op,         \* per caller: the call it runs or ran last
  res,        \* per caller: the outcome of its last call
  running,    \* _HealthLoop._running
  chain,      \* per coroutine of _run: where it is
  failures,   \* _consecutive_failures
  degraded,   \* _degraded
  watchOpen,  \* FALSE once _watcher.stop() has run
  (* ghost state *)
  shutdownRequests, \* how often POST /shutdown was sent
  reopened,   \* how often a late answer reopened a closing or closed handle
  alarms      \* degraded signals since the last good ping

callVars   == <<pc, op, res>>
healthVars == <<running, chain, failures, degraded, alarms>>
vars == <<mode, started, state, callVars, healthVars, watchOpen,
          shutdownRequests, reopened>>

(* GameFlow.new() *)
Init ==
  /\ mode = ""
  /\ started = FALSE
  /\ state = "idle"
  /\ pc = [c \in Callers |-> "idle"]
  /\ op = [c \in Callers |-> "none"]
  /\ res = [c \in Callers |-> "none"]
  /\ running = FALSE
  /\ chain = [c \in Callers |-> "none"]
  /\ failures = 0
  /\ degraded = FALSE
  /\ watchOpen = TRUE
  /\ shutdownRequests = 0
  /\ reopened = 0
  /\ alarms = 0

-----------------------------------------------------------------------------
(* The heartbeat.                                                          *)

Closing == state \in {"shutting-down", "shutdown"}
Usable  == state \in {"connected", "ready"}

(* start() of the health loop: _run() sends the first ping at once. *)
HealthStart(c) ==
  /\ running' = TRUE
  /\ chain' = IF running THEN chain ELSE [chain EXCEPT ![c] = "ping"]

RaisesAlarm(n) == n >= DegradedThreshold /\ ~degraded

PingSucceeds ==
  /\ failures' = 0
  /\ degraded' = FALSE
  /\ alarms' = 0

(* The count is only compared with the threshold and kept there; the ghost *)
(* counter stops at 2.                                                     *)
PingFails ==
  LET n == IF failures < DegradedThreshold THEN failures + 1 ELSE failures
  IN  /\ failures' = n
      /\ degraded' = (degraded \/ RaisesAlarm(n))
      /\ alarms' = IF RaisesAlarm(n) /\ alarms < 2 THEN alarms + 1 ELSE alarms

(* _run after the await of the ping, up to the sleep. *)
Settle(l) ==
  /\ chain[l] = "ping"
  /\ \/ /\ running
        /\ PingSucceeds \/ PingFails
        /\ chain' = [chain EXCEPT ![l] = "sleep"]
     \/ /\ ~running
        /\ chain' = [chain EXCEPT ![l] = "done"]
        /\ UNCHANGED <<failures, degraded, alarms>>
  /\ UNCHANGED <<mode, started, state, callVars, running, watchOpen,
                 shutdownRequests, reopened>>

(* _run after the sleep, which nothing cuts short: the head of the loop.   *)
(* The transport has no guard, a ping is sent whatever the state.          *)
Wakes(l) ==
  /\ chain[l] = "sleep"
  /\ chain' = [chain EXCEPT ![l] = IF running THEN "ping" ELSE "done"]
  /\ UNCHANGED <<mode, started, state, callVars, running, failures, degraded,
                 alarms, watchOpen, shutdownRequests, reopened>>

-----------------------------------------------------------------------------
(* The calls.                                                              *)

Returns(c, o, outcome) ==
  /\ pc[c] = "idle"
  /\ op' = [op EXCEPT ![c] = o]
  /\ res' = [res EXCEPT ![c] = outcome]
  /\ UNCHANGED pc

Awaits(c, o) ==
  /\ pc[c] = "idle"
  /\ pc' = [pc EXCEPT ![c] = "await"]
  /\ op' = [op EXCEPT ![c] = o]
  /\ res' = [res EXCEPT ![c] = "none"]

Resolves(c, o, outcome) ==
  /\ pc[c] = "await"
  /\ op[c] = o
  /\ pc' = [pc EXCEPT ![c] = "idle"]
  /\ res' = [res EXCEPT ![c] = outcome]
  /\ UNCHANGED op

(* The assignment of the state after an answer, which looks at nothing. *)
SetState(s) ==
  /\ state' = s
  /\ reopened' = IF Closing THEN reopened + 1 ELSE reopened

(* start() up to the probe; the mode is resolved here. *)
CallStart(c) ==
  \/ /\ started
     /\ Returns(c, "start", "Err")
     /\ UNCHANGED <<mode, started, state, healthVars, watchOpen, shutdownRequests, reopened>>
  \/ /\ ~started
     /\ started' = TRUE
     /\ \/ mode' = "sidecar" /\ Awaits(c, "start") /\ UNCHANGED <<state, reopened>>
        \/ mode' = "local" /\ Returns(c, "start", "Ok") /\ SetState("connected")
     /\ UNCHANGED <<healthVars, watchOpen, shutdownRequests>>

(* The probe has reached the runtime; module Connect says how it tries. *)
StartAnswered(c) ==
  /\ Resolves(c, "start", "Ok")
  /\ SetState("connected")
  /\ UNCHANGED <<mode, started, healthVars, watchOpen, shutdownRequests>>

CallReady(c) ==
  \/ /\ \/ ~Usable         /\ Returns(c, "ready", "NotConnected")
        \/ state = "ready" /\ Returns(c, "ready", "Ok")
        \/ state = "connected" /\ mode = "sidecar" /\ Awaits(c, "ready")
     /\ UNCHANGED <<mode, started, state, healthVars, watchOpen, shutdownRequests, reopened>>
  \/ /\ state = "connected" /\ mode = "local"
     /\ Returns(c, "ready", "Ok")
     /\ SetState("ready")
     /\ UNCHANGED <<mode, started, healthVars, watchOpen, shutdownRequests>>

(* ready() after its await. *)
ReadyAnswered(c) ==
  /\ Resolves(c, "ready", "Ok")
  /\ SetState("ready")
  /\ HealthStart(c)
  /\ UNCHANGED <<mode, started, failures, degraded, alarms, watchOpen, shutdownRequests>>

(* payload(), info() and the player calls have the same guard; what        *)
(* untrack() looks up in the cache first is left out.                      *)
CallOther(c) ==
  /\ \/ ~Usable /\ Returns(c, "other", "NotConnected")
     \/ Usable /\ mode = "local" /\ Returns(c, "other", "Ok")
     \/ Usable /\ mode = "sidecar" /\ Awaits(c, "other")
  /\ UNCHANGED <<mode, started, state, healthVars, watchOpen, shutdownRequests, reopened>>

(* The other calls, and start() and ready() when they have failed. *)
OtherAnswered(c) ==
  /\ \/ Resolves(c, "other", "Ok")
     \/ \E o \in {"start", "ready", "other"} : Resolves(c, o, "Err")
  /\ UNCHANGED <<mode, started, state, healthVars, watchOpen, shutdownRequests, reopened>>

(* shutdown() up to its await, or all of it when nothing was started or    *)
(* the transport is local.                                                 *)
CallShutdown(c) ==
  \/ /\ Closing
     /\ Returns(c, "shutdown", "Ok")
     /\ UNCHANGED <<mode, started, state, healthVars, watchOpen, shutdownRequests, reopened>>
  \/ /\ ~Closing /\ ~started
     /\ Returns(c, "shutdown", "Ok")
     /\ state' = "shutdown"
     /\ UNCHANGED <<mode, started, healthVars, watchOpen, shutdownRequests, reopened>>
  \/ /\ ~Closing /\ started
     /\ \/ mode = "sidecar" /\ Awaits(c, "shutdown") /\ state' = "shutting-down"
        \/ mode = "local" /\ Returns(c, "shutdown", "Ok") /\ state' = "shutdown"
     /\ running' = FALSE
     /\ watchOpen' = FALSE
     /\ shutdownRequests' = shutdownRequests + 1
     /\ UNCHANGED <<mode, started, chain, failures, degraded, alarms, reopened>>

(* shutdown() after its await, whether or not the request failed. *)
ShutdownAnswered(c) ==
  /\ Resolves(c, "shutdown", "Ok")
  /\ state' = "shutdown"
  /\ UNCHANGED <<mode, started, healthVars, watchOpen, shutdownRequests, reopened>>

Call(c) == CallStart(c) \/ CallReady(c) \/ CallOther(c) \/ CallShutdown(c)
Answered(c) ==
  StartAnswered(c) \/ ReadyAnswered(c) \/ OtherAnswered(c) \/ ShutdownAnswered(c)
Heartbeat(l) == Settle(l) \/ Wakes(l)

Next == \E c \in Callers : Call(c) \/ Answered(c) \/ Heartbeat(c)
=============================================================================
