-------------------------- MODULE TypeScriptHandle --------------------------
(***************************************************************************)
(* The lifecycle and the heartbeat of the TypeScript SDK                   *)
(* (sdk/typescript/src/gameflow.ts, health.ts).                            *)
(*                                                                         *)
(* Everything runs on one event loop: a call runs without interruption up  *)
(* to its first await and, once the answer is there, from the await to its *)
(* end.  Each of these stretches is an action.  The heartbeat is a chain   *)
(* of ticks and timers, named by the caller whose ready() started it.  A   *)
(* degraded callback that shuts the handle down is the tick followed at    *)
(* once by that call: either order of clearing and not setting the timer   *)
(* leaves the chain without one.                                           *)
(***************************************************************************)
EXTENDS Naturals

CONSTANTS
  Callers,            \* calls that can be under way at the same time
  DegradedThreshold   \* consecutive failed pings before the alarm

VARIABLES
  mode,       \* "sidecar" or "local"
  state,      \* GameFlow.state
  pc,         \* per caller: "await" while its request is on the wire
  op,         \* per caller: the call it runs or ran last
  res,        \* per caller: the outcome of its last call
  running,    \* HealthLoop.running
  timer,      \* HealthLoop.timer: {} or {l}, the chain that set it last
  chain,      \* per chain of ticks: where it is
  failures,   \* HealthLoop.consecutiveFailures
  degraded,   \* HealthLoop.degraded
  watchOpen,  \* FALSE once watcher.stop() has run
  (* ghost state *)
  shutdownRequests, \* how often POST /shutdown was sent
  reopened,   \* how often a late answer reopened a closing or closed handle
  alarms      \* degraded callbacks since the last good ping

callVars   == <<pc, op, res>>
healthVars == <<running, timer, chain, failures, degraded, alarms>>
vars == <<mode, state, callVars, healthVars, watchOpen, shutdownRequests, reopened>>

(* connect() has resolved. *)
Init ==
  /\ mode \in {"sidecar", "local"}
  /\ state = "connected"
  /\ pc = [c \in Callers |-> "idle"]
  /\ op = [c \in Callers |-> "none"]
  /\ res = [c \in Callers |-> "none"]
  /\ running = FALSE
  /\ timer = {}
  /\ chain = [c \in Callers |-> "none"]
  /\ failures = 0
  /\ degraded = FALSE
  /\ watchOpen = TRUE
  /\ shutdownRequests = 0
  /\ reopened = 0
  /\ alarms = 0

-----------------------------------------------------------------------------
(* The heartbeat.                                                          *)

Usable    == state \notin {"shutting-down", "shutdown"}
GuardOpen == state # "shutdown"

HealthStart_Unguarded(c) ==
  /\ running' = TRUE
  /\ chain' = [chain EXCEPT ![c] = "ping"]

(* HealthLoop.start: the first tick sends its ping at once; ready() has    *)
(* just set the state, so the guard lets it through.                       *)
HealthStart(c) ==
  /\ running' = TRUE
  /\ chain' = IF running THEN chain ELSE [chain EXCEPT ![c] = "ping"]

HealthStop_OnlyTimer ==
  /\ UNCHANGED running
  /\ timer' = {}
  /\ chain' = [l \in Callers |->
                 IF l \in timer /\ chain[l] = "timer" THEN "done" ELSE chain[l]]

(* HealthLoop.stop: clear the flag and the timer set last, which may have  *)
(* fired already.                                                          *)
HealthStop ==
  /\ running' = FALSE
  /\ timer' = {}
  /\ chain' = [l \in Callers |->
                 IF l \in timer /\ chain[l] = "timer" THEN "done" ELSE chain[l]]

RaisesAlarm_EveryPing(n) == n >= DegradedThreshold

RaisesAlarm(n) == n >= DegradedThreshold /\ ~degraded

PingSucceeds ==
  /\ failures' = 0
  /\ degraded' = FALSE
  /\ alarms' = 0

(* The count is only compared with the threshold and kept there; the ghost *)
(* counter stops at 2.                                                     *)
PingFails ==
  LET n == IF failures < DegradedThreshold THEN failures + 1 ELSE failures
  IN  /\ failures' = n
      /\ degraded' = (degraded \/ RaisesAlarm(n))
      /\ alarms' = IF RaisesAlarm(n) /\ alarms < 2 THEN alarms + 1 ELSE alarms

(* The rest of tick() after its await, and schedule().  A ping that the    *)
(* guard refused can only fail.                                            *)
Settle(l) ==
  /\ \/ chain[l] = "ping" /\ PingSucceeds
     \/ chain[l] \in {"ping", "refused"} /\ PingFails
  /\ \/ running  /\ chain' = [chain EXCEPT ![l] = "timer"] /\ timer' = {l}
     \/ ~running /\ chain' = [chain EXCEPT ![l] = "done"]  /\ UNCHANGED timer
  /\ UNCHANGED <<mode, state, callVars, running, watchOpen, shutdownRequests, reopened>>

(* The timer of chain l fires: tick() up to its await. *)
TimerFires(l) ==
  /\ chain[l] = "timer"
  /\ chain' = [chain EXCEPT ![l] = IF ~running THEN "done"
                                   ELSE IF GuardOpen THEN "ping" ELSE "refused"]
  /\ UNCHANGED <<mode, state, callVars, running, timer, failures, degraded, alarms,
                 watchOpen, shutdownRequests, reopened>>

-----------------------------------------------------------------------------
(* The calls.                                                              *)

Returns(c, o, outcome) ==
  /\ pc[c] = "idle"
  /\ op' = [op EXCEPT ![c] = o]
  /\ res' = [res EXCEPT ![c] = outcome]
  /\ UNCHANGED pc

Awaits(c, o) ==
  /\ pc[c] = "idle"
  /\ pc' = [pc EXCEPT ![c] = "await"]
  /\ op' = [op EXCEPT ![c] = o]
  /\ res' = [res EXCEPT ![c] = "none"]

Resolves(c, o, outcome) ==
  /\ pc[c] = "await"
  /\ op[c] = o
  /\ pc' = [pc EXCEPT ![c] = "idle"]
  /\ res' = [res EXCEPT ![c] = outcome]
  /\ UNCHANGED op

CallReady(c) ==
  /\ \/ ~Usable             /\ Returns(c, "ready", "NotConnected")
     \/ state = "ready"     /\ Returns(c, "ready", "Ok")
     \/ state = "connected" /\ Awaits(c, "ready")
  /\ UNCHANGED <<mode, state, healthVars, watchOpen, shutdownRequests, reopened>>

(* payload() and info(): assertUsable, then the guard, which it implies. *)
CallInfo(c) ==
  /\ \/ ~Usable /\ Returns(c, "info", "NotConnected")
     \/ Usable  /\ Awaits(c, "info")
  /\ UNCHANGED <<mode, state, healthVars, watchOpen, shutdownRequests, reopened>>

(* The player calls reach the transport through its guard only; what       *)
(* disconnect() looks up in the cache first is left out.                   *)
CallPlayers(c) ==
  /\ \/ ~GuardOpen /\ Returns(c, "players", "NotConnected")
     \/ GuardOpen  /\ Awaits(c, "players")
  /\ UNCHANGED <<mode, state, healthVars, watchOpen, shutdownRequests, reopened>>

CallShutdown_ClosedOnly(c) ==
  \/ /\ state = "shutdown"
     /\ Returns(c, "shutdown", "Ok")
     /\ UNCHANGED <<mode, state, healthVars, watchOpen, shutdownRequests, reopened>>
  \/ /\ state # "shutdown"
     /\ Awaits(c, "shutdown")
     /\ state' = "shutting-down"
     /\ HealthStop
     /\ watchOpen' = FALSE
     /\ shutdownRequests' = shutdownRequests + 1
     /\ UNCHANGED <<mode, failures, degraded, alarms, reopened>>

(* shutdown() up to its await. *)
CallShutdown(c) ==
  \/ /\ ~Usable
     /\ Returns(c, "shutdown", "Ok")
     /\ UNCHANGED <<mode, state, healthVars, watchOpen, shutdownRequests, reopened>>
  \/ /\ Usable
     /\ Awaits(c, "shutdown")
     /\ state' = "shutting-down"
     /\ HealthStop
     /\ watchOpen' = FALSE
     /\ shutdownRequests' = shutdownRequests + 1
     /\ UNCHANGED <<mode, failures, degraded, alarms, reopened>>

(* ready() after its await: whatever has become of the state meanwhile, it *)
(* is set to 'ready'.                                                      *)
ReadyAnswered(c) ==
  /\ Resolves(c, "ready", "Ok")
  /\ state' = "ready"
  /\ reopened' = IF Usable THEN reopened ELSE reopened + 1
  /\ \/ mode = "sidecar" /\ HealthStart(c)
     \/ mode = "local"   /\ UNCHANGED <<running, chain>>
  /\ UNCHANGED <<mode, timer, failures, degraded, alarms, watchOpen, shutdownRequests>>

ShutdownAnswered_ErrorsPropagate(c) ==
  /\ \/ Resolves(c, "shutdown", "Ok") /\ state' = "shutdown"
     \/ Resolves(c, "shutdown", "Err") /\ UNCHANGED state
  /\ UNCHANGED <<mode, healthVars, watchOpen, shutdownRequests, reopened>>

(* shutdown() after its await, whether or not the request failed. *)
ShutdownAnswered(c) ==
  /\ Resolves(c, "shutdown", "Ok")
  /\ state' = "shutdown"
  /\ UNCHANGED <<mode, healthVars, watchOpen, shutdownRequests, reopened>>

(* The other calls, and a ready() whose request failed; in local mode no   *)
(* request fails.                                                          *)
OtherAnswered(c) ==
  /\ \/ \E o \in {"info", "players"} : Resolves(c, o, "Ok")
     \/ mode = "sidecar" /\ \E o \in {"ready", "info", "players"} : Resolves(c, o, "Err")
  /\ UNCHANGED <<mode, state, healthVars, watchOpen, shutdownRequests, reopened>>

Call(c)     == CallReady(c) \/ CallInfo(c) \/ CallPlayers(c) \/ CallShutdown(c)
Answered(c) == ReadyAnswered(c) \/ ShutdownAnswered(c) \/ OtherAnswered(c)
Heartbeat(l) == Settle(l) \/ TimerFires(l)

Next == \E c \in Callers : Call(c) \/ Answered(c) \/ Heartbeat(c)
=============================================================================
