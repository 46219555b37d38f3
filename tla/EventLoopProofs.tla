-------------------------- MODULE EventLoopProofs --------------------------
(***************************************************************************)
(* The safety properties of EventLoopHandles, for every number of          *)
(* concurrent calls and every threshold.                                   *)
(*                                                                         *)
(* The two SDKs have nineteen actions but only five effects on what the    *)
(* properties are about (StepEffects): a claim of the shutdown, an answer  *)
(* that opens the handle, one that closes it, the end of a ping, and a     *)
(* tick; everything else leaves it alone.  The invariants are then         *)
(* preserved by each effect.                                               *)
(***************************************************************************)
EXTENDS EventLoopHandles, TLAPS, FiniteSetTheorems

USE DEF TypeScript!callVars, TypeScript!healthVars, Godot!callVars, Godot!healthVars

ShuttingDown(c) == pc[c] = "await" /\ op[c] = "shutdown"

(* The five effects. *)

counters == <<failures, degraded, alarms>>
others   == <<state, shutdownRequests, reopened>>

Claims ==
  /\ ~Closing /\ Closing'
  /\ ~running'
  /\ shutdownRequests' \in {shutdownRequests, shutdownRequests + 1}
  /\ \A l \in Callers : chain'[l] # chain[l] => chain'[l] = "done"
  /\ \A l \in timer : chain'[l] # "timer"
  /\ UNCHANGED <<reopened, counters>>

Opens(c) ==
  /\ ~Closing'
  /\ reopened' = IF Closing THEN reopened + 1 ELSE reopened
  /\ \/ UNCHANGED <<running, chain>>
     \/ /\ running'
        /\ chain' = IF running THEN chain ELSE [chain EXCEPT ![c] = "ping"]
  /\ UNCHANGED <<timer, shutdownRequests, counters>>

Closes(c) ==
  /\ ShuttingDown(c)
  /\ Closing'
  /\ UNCHANGED <<running, timer, chain, shutdownRequests, reopened, counters>>

PingEnds(l) ==
  /\ chain[l] \in {"ping", "refused"}
  /\ \/ TypeScript!PingSucceeds
     \/ TypeScript!PingFails
     \/ UNCHANGED counters
  /\ \/ running /\ chain' = [chain EXCEPT ![l] = "timer"] /\ timer' = {l}
     \/ running /\ chain' = [chain EXCEPT ![l] = "sleep"] /\ UNCHANGED timer
     \/ chain' = [chain EXCEPT ![l] = "done"] /\ UNCHANGED timer
  /\ UNCHANGED <<others, running, pc, op>>

Ticks(l) ==
  /\ chain[l] \in {"timer", "sleep"}
  /\ \E at \in {"ping", "refused", "done"} : chain' = [chain EXCEPT ![l] = at]
  /\ UNCHANGED <<others, running, timer, counters, pc, op>>

Nothing == UNCHANGED <<others, running, timer, chain, counters>>

(* What a step does to the calls: it starts a shutdown only with a claim.  *)
NoNewShutdown ==
  \A d \in Callers : ShuttingDown(d)' => ShuttingDown(d)

Effect ==
  \/ Claims
  \/ NoNewShutdown /\ \E c \in Callers : Opens(c) \/ Closes(c) \/ PingEnds(c) \/ Ticks(c)
  \/ NoNewShutdown /\ Nothing

-----------------------------------------------------------------------------
OpNames  == {"none", "start", "ready", "info", "players", "other", "shutdown"}
Outcomes == {"none", "Ok", "NotConnected", "Err"}

(* The type invariant in four parts. *)
CallsTyped ==
  /\ pc \in [Callers -> {"idle", "await"}]
  /\ op \in [Callers -> OpNames]
  /\ res \in [Callers -> Outcomes]

ChainTyped == chain \in [Callers -> {"none", "ping", "refused", "timer", "sleep", "done"}]

CountersTyped == failures \in 0..DegradedThreshold /\ degraded \in BOOLEAN /\ alarms \in 0..2

RestTyped ==
  /\ sdk \in {"TypeScript", "Godot"}
  /\ mode \in {"", "sidecar", "local"}
  /\ started \in BOOLEAN
  /\ state \in {"idle", "connected", "ready", "shutting-down", "shutdown"}
  /\ running \in BOOLEAN
  /\ timer \in SUBSET Callers
  /\ watchOpen \in BOOLEAN
  /\ shutdownRequests \in Nat
  /\ reopened \in Nat

LEMMA TypeParts ==
  /\ TypeOK <=> CallsTyped /\ ChainTyped /\ CountersTyped /\ RestTyped
  /\ TypeOK' <=> CallsTyped' /\ ChainTyped' /\ CountersTyped' /\ RestTyped'
BY Zenon DEF TypeOK, CallsTyped, ChainTyped, CountersTyped, RestTyped, OpNames, Outcomes

(* A step of a call, in either SDK. *)
CallStep(c) ==
  \E o \in OpNames, r \in Outcomes :
    TypeScript!Returns(c, o, r) \/ TypeScript!Awaits(c, o) \/ TypeScript!Resolves(c, o, r)

(* Calling and answering keep the tables of the calls well-typed. *)
LEMMA CallTypes ==
  ASSUME CallsTyped, NEW c \in Callers, CallStep(c)
  PROVE  CallsTyped'
<1>0. PICK o \in OpNames, r \in Outcomes :
        \/ TypeScript!Returns(c, o, r)
        \/ TypeScript!Awaits(c, o)
        \/ TypeScript!Resolves(c, o, r)
  BY DEF CallStep
<1>1. "none" \in Outcomes
  BY DEF Outcomes
<1>2. CASE TypeScript!Returns(c, o, r)
  BY <1>2 DEF CallsTyped, TypeScript!Returns
<1>3. CASE TypeScript!Awaits(c, o)
  BY <1>1, <1>3 DEF CallsTyped, TypeScript!Awaits
<1>4. CASE TypeScript!Resolves(c, o, r)
  BY <1>4 DEF CallsTyped, TypeScript!Resolves
<1>. QED
  BY <1>0, <1>2, <1>3, <1>4

(* So do the results of a ping the counters. *)
LEMMA PingTypes ==
  ASSUME CountersTyped,
         \/ TypeScript!PingSucceeds
         \/ TypeScript!PingFails
         \/ UNCHANGED counters
  PROVE  CountersTyped'
<1>. USE HandlesAssumption DEF CountersTyped
<1>1. CASE TypeScript!PingSucceeds
  <2>1. degraded' \in BOOLEAN
    BY <1>1 DEF TypeScript!PingSucceeds
  <2>2. failures' = 0 /\ alarms' = 0
    BY <1>1 DEF TypeScript!PingSucceeds
  <2>. QED
    BY <2>1, <2>2
<1>2. CASE TypeScript!PingFails
  <2>1. degraded' \in BOOLEAN
    BY <1>2, Zenon DEF TypeScript!PingFails
  <2>2. failures' \in 0..DegradedThreshold
    BY <1>2 DEF TypeScript!PingFails
  <2>3. alarms' \in 0..2
    BY <1>2 DEF TypeScript!PingFails
  <2>. QED
    BY <2>1, <2>2, <2>3
<1>3. CASE UNCHANGED counters
  BY <1>3 DEF counters
<1>. QED
  BY <1>1, <1>2, <1>3

(* Both SDKs count pings and move calls in the same way. *)
LEMMA GodotPings ==
  /\ Godot!PingSucceeds <=> TypeScript!PingSucceeds
  /\ Godot!PingFails <=> TypeScript!PingFails
BY Zenon DEF Godot!PingSucceeds, Godot!PingFails, Godot!RaisesAlarm,
       TypeScript!PingSucceeds, TypeScript!PingFails, TypeScript!RaisesAlarm

LEMMA GodotCalls ==
  ASSUME NEW c, NEW o, NEW r
  PROVE  /\ Godot!Returns(c, o, r) <=> TypeScript!Returns(c, o, r)
         /\ Godot!Awaits(c, o) <=> TypeScript!Awaits(c, o)
         /\ Godot!Resolves(c, o, r) <=> TypeScript!Resolves(c, o, r)
BY Zenon DEF Godot!Returns, Godot!Awaits, Godot!Resolves,
       TypeScript!Returns, TypeScript!Awaits, TypeScript!Resolves

-----------------------------------------------------------------------------
(* A handle is always well-typed; the counters of the health loop stay     *)
(* within the threshold.                                                   *)
THEOREM TypeCorrect == Spec => []TypeOK
<1>1. Init => TypeOK
  <2> SUFFICES ASSUME Init PROVE TypeOK
    OBVIOUS
  <2>0. 0 \in 0..DegradedThreshold
    BY HandlesAssumption
  <2>1. CASE sdk = "TypeScript" /\ started = TRUE /\ TypeScript!Init
    <3>1. CallsTyped /\ ChainTyped
      BY <2>1 DEF TypeScript!Init, CallsTyped, ChainTyped, OpNames, Outcomes
    <3>2. degraded \in BOOLEAN /\ failures = 0 /\ alarms = 0
      BY <2>1 DEF TypeScript!Init
    <3>3. RestTyped
      BY <2>1 DEF TypeScript!Init, RestTyped
    <3>. QED
      BY <2>0, <3>1, <3>2, <3>3, TypeParts DEF CountersTyped
  <2>2. CASE sdk = "Godot" /\ timer = {} /\ Godot!Init
    <3>1. CallsTyped /\ ChainTyped
      BY <2>2 DEF Godot!Init, CallsTyped, ChainTyped, OpNames, Outcomes
    <3>2. degraded \in BOOLEAN /\ failures = 0 /\ alarms = 0
      BY <2>2 DEF Godot!Init
    <3>3. RestTyped
      BY <2>2 DEF Godot!Init, RestTyped
    <3>. QED
      BY <2>0, <3>1, <3>2, <3>3, TypeParts DEF CountersTyped
  <2>. QED
    BY <2>1, <2>2 DEF Init
<1>2. TypeOK /\ [Next]_vars => TypeOK'
  <2> SUFFICES ASSUME TypeOK, [Next]_vars PROVE TypeOK'
    OBVIOUS
  <2>0. CallsTyped /\ ChainTyped /\ CountersTyped /\ RestTyped
    BY TypeParts
  <2>00. shutdownRequests \in Nat /\ reopened \in Nat
    BY <2>0, Zenon DEF RestTyped
  <2>1. ASSUME NEW c \in Callers, TypeScriptStep(c) PROVE TypeOK'
    <3>1. CASE TypeScript!CallReady(c)
      <4>1. CallsTyped' BY <2>0, <3>1, CallTypes DEF TypeScript!CallReady, CallStep, OpNames, Outcomes
      <4>2. ChainTyped' BY <2>0, <3>1 DEF TypeScript!CallReady, ChainTyped
      <4>3. CountersTyped' BY <2>0, <3>1 DEF TypeScript!CallReady, CountersTyped
      <4>4. RestTyped' BY <2>0, <2>1, <3>1 DEF TypeScript!CallReady, RestTyped, TypeScriptStep
      <4>. QED BY <4>1, <4>2, <4>3, <4>4, TypeParts
    <3>2. CASE TypeScript!CallInfo(c)
      <4>1. CallsTyped' BY <2>0, <3>2, CallTypes DEF TypeScript!CallInfo, CallStep, OpNames, Outcomes
      <4>2. ChainTyped' BY <2>0, <3>2 DEF TypeScript!CallInfo, ChainTyped
      <4>3. CountersTyped' BY <2>0, <3>2 DEF TypeScript!CallInfo, CountersTyped
      <4>4. RestTyped' BY <2>0, <2>1, <3>2 DEF TypeScript!CallInfo, RestTyped, TypeScriptStep
      <4>. QED BY <4>1, <4>2, <4>3, <4>4, TypeParts
    <3>3. CASE TypeScript!CallPlayers(c)
      <4>1. CallsTyped' BY <2>0, <3>3, CallTypes DEF TypeScript!CallPlayers, CallStep, OpNames, Outcomes
      <4>2. ChainTyped' BY <2>0, <3>3 DEF TypeScript!CallPlayers, ChainTyped
      <4>3. CountersTyped' BY <2>0, <3>3 DEF TypeScript!CallPlayers, CountersTyped
      <4>4. RestTyped' BY <2>0, <2>1, <3>3 DEF TypeScript!CallPlayers, RestTyped, TypeScriptStep
      <4>. QED BY <4>1, <4>2, <4>3, <4>4, TypeParts
    <3>4. CASE TypeScript!CallShutdown(c)
      <4>1. CallsTyped' BY <2>0, <3>4, CallTypes DEF TypeScript!CallShutdown, CallStep, OpNames, Outcomes
      <4>2. ChainTyped' BY <2>0, <3>4 DEF TypeScript!CallShutdown, ChainTyped, TypeScript!HealthStop
      <4>3. CountersTyped' BY <2>0, <3>4 DEF TypeScript!CallShutdown, CountersTyped
      <4>4. /\ shutdownRequests' \in {shutdownRequests, shutdownRequests + 1}
            /\ reopened' \in {reopened, reopened + 1}
        BY <2>1, <3>4, ZenonT(30) DEF TypeScript!CallShutdown, TypeScriptStep, TypeScript!HealthStop
      <4>5. shutdownRequests' \in Nat /\ reopened' \in Nat
        BY <2>00, <4>4
      <4>6. running' \in BOOLEAN /\ started' \in BOOLEAN /\ watchOpen' \in BOOLEAN
        BY <2>0, <2>1, <3>4, ZenonT(30) DEF TypeScript!CallShutdown, RestTyped, TypeScriptStep, TypeScript!HealthStop
      <4>7. RestTyped'
        BY <2>0, <2>1, <3>4, <4>5, <4>6 DEF TypeScript!CallShutdown, RestTyped, TypeScriptStep, TypeScript!HealthStop
      <4>. QED BY <4>1, <4>2, <4>3, <4>7, TypeParts
    <3>5. CASE TypeScript!ReadyAnswered(c)
      <4>1. CallsTyped' BY <2>0, <3>5, CallTypes DEF TypeScript!ReadyAnswered, CallStep, OpNames, Outcomes
      <4>2. ChainTyped' BY <2>0, <3>5 DEF TypeScript!ReadyAnswered, ChainTyped, TypeScript!HealthStart
      <4>3. CountersTyped' BY <2>0, <3>5 DEF TypeScript!ReadyAnswered, CountersTyped
      <4>4. /\ shutdownRequests' \in {shutdownRequests, shutdownRequests + 1}
            /\ reopened' \in {reopened, reopened + 1}
        BY <2>1, <3>5, ZenonT(30) DEF TypeScript!ReadyAnswered, TypeScriptStep, TypeScript!HealthStart
      <4>5. shutdownRequests' \in Nat /\ reopened' \in Nat
        BY <2>00, <4>4
      <4>6. running' \in BOOLEAN /\ started' \in BOOLEAN /\ watchOpen' \in BOOLEAN
        BY <2>0, <2>1, <3>5, ZenonT(30) DEF TypeScript!ReadyAnswered, RestTyped, TypeScriptStep, TypeScript!HealthStart
      <4>7. RestTyped'
        BY <2>0, <2>1, <3>5, <4>5, <4>6 DEF TypeScript!ReadyAnswered, RestTyped, TypeScriptStep, TypeScript!HealthStart
      <4>. QED BY <4>1, <4>2, <4>3, <4>7, TypeParts
    <3>6. CASE TypeScript!ShutdownAnswered(c)
      <4>1. CallsTyped' BY <2>0, <3>6, CallTypes DEF TypeScript!ShutdownAnswered, CallStep, OpNames, Outcomes
      <4>2. ChainTyped' BY <2>0, <3>6 DEF TypeScript!ShutdownAnswered, ChainTyped
      <4>3. CountersTyped' BY <2>0, <3>6 DEF TypeScript!ShutdownAnswered, CountersTyped
      <4>4. RestTyped' BY <2>0, <2>1, <3>6 DEF TypeScript!ShutdownAnswered, RestTyped, TypeScriptStep
      <4>. QED BY <4>1, <4>2, <4>3, <4>4, TypeParts
    <3>7. CASE TypeScript!OtherAnswered(c)
      <4>1. CallsTyped' BY <2>0, <3>7, CallTypes DEF TypeScript!OtherAnswered, CallStep, OpNames, Outcomes
      <4>2. ChainTyped' BY <2>0, <3>7 DEF TypeScript!OtherAnswered, ChainTyped
      <4>3. CountersTyped' BY <2>0, <3>7 DEF TypeScript!OtherAnswered, CountersTyped
      <4>4. RestTyped' BY <2>0, <2>1, <3>7 DEF TypeScript!OtherAnswered, RestTyped, TypeScriptStep
      <4>. QED BY <4>1, <4>2, <4>3, <4>4, TypeParts
    <3>8. CASE TypeScript!Settle(c)
      <4>1. CallsTyped' BY <2>0, <3>8 DEF TypeScript!Settle, CallsTyped
      <4>2. ChainTyped' BY <2>0, <3>8 DEF TypeScript!Settle, ChainTyped
      <4>3. CountersTyped' BY <2>0, <3>8, PingTypes DEF TypeScript!Settle
      <4>5. RestTyped' BY <2>0, <2>1, <3>8 DEF TypeScript!Settle, RestTyped, TypeScriptStep
      <4>. QED BY <4>1, <4>2, <4>3, <4>5, TypeParts
    <3>9. CASE TypeScript!TimerFires(c)
      <4>1. CallsTyped' BY <2>0, <3>9 DEF TypeScript!TimerFires, CallsTyped
      <4>2. ChainTyped' BY <2>0, <3>9 DEF TypeScript!TimerFires, ChainTyped
      <4>3. CountersTyped' BY <2>0, <3>9 DEF TypeScript!TimerFires, CountersTyped
      <4>4. RestTyped' BY <2>0, <2>1, <3>9 DEF TypeScript!TimerFires, RestTyped, TypeScriptStep
      <4>. QED BY <4>1, <4>2, <4>3, <4>4, TypeParts
    <3>. QED
      BY <2>1, <3>1, <3>2, <3>3, <3>4, <3>5, <3>6, <3>7, <3>8, <3>9 DEF TypeScriptStep, TypeScript!Call, TypeScript!Answered, TypeScript!Heartbeat
  <2>2. ASSUME NEW c \in Callers, GodotStep(c) PROVE TypeOK'
    <3> USE GodotCalls
    <3>1. CASE Godot!CallStart(c)
      <4>1. CallsTyped' BY <2>0, <3>1, CallTypes DEF Godot!CallStart, CallStep, OpNames, Outcomes
      <4>2. ChainTyped' BY <2>0, <3>1 DEF Godot!CallStart, ChainTyped
      <4>3. CountersTyped' BY <2>0, <3>1 DEF Godot!CallStart, CountersTyped
      <4>4. /\ shutdownRequests' \in {shutdownRequests, shutdownRequests + 1}
            /\ reopened' \in {reopened, reopened + 1}
        BY <2>2, <3>1, ZenonT(30) DEF Godot!CallStart, GodotStep, Godot!SetState
      <4>5. shutdownRequests' \in Nat /\ reopened' \in Nat
        BY <2>00, <4>4
      <4>6. running' \in BOOLEAN /\ started' \in BOOLEAN /\ watchOpen' \in BOOLEAN
        BY <2>0, <2>2, <3>1, ZenonT(30) DEF Godot!CallStart, RestTyped, GodotStep, Godot!SetState
      <4>7. RestTyped'
        BY <2>0, <2>2, <3>1, <4>5, <4>6 DEF Godot!CallStart, RestTyped, GodotStep, Godot!SetState
      <4>. QED BY <4>1, <4>2, <4>3, <4>7, TypeParts
    <3>2. CASE Godot!StartAnswered(c)
      <4>1. CallsTyped' BY <2>0, <3>2, CallTypes DEF Godot!StartAnswered, CallStep, OpNames, Outcomes
      <4>2. ChainTyped' BY <2>0, <3>2 DEF Godot!StartAnswered, ChainTyped
      <4>3. CountersTyped' BY <2>0, <3>2 DEF Godot!StartAnswered, CountersTyped
      <4>4. /\ shutdownRequests' \in {shutdownRequests, shutdownRequests + 1}
            /\ reopened' \in {reopened, reopened + 1}
        BY <2>2, <3>2, ZenonT(30) DEF Godot!StartAnswered, GodotStep, Godot!SetState
      <4>5. shutdownRequests' \in Nat /\ reopened' \in Nat
        BY <2>00, <4>4
      <4>6. running' \in BOOLEAN /\ started' \in BOOLEAN /\ watchOpen' \in BOOLEAN
        BY <2>0, <2>2, <3>2, ZenonT(30) DEF Godot!StartAnswered, RestTyped, GodotStep, Godot!SetState
      <4>7. RestTyped'
        BY <2>0, <2>2, <3>2, <4>5, <4>6 DEF Godot!StartAnswered, RestTyped, GodotStep, Godot!SetState
      <4>. QED BY <4>1, <4>2, <4>3, <4>7, TypeParts
    <3>3. CASE Godot!CallReady(c)
      <4>1. CallsTyped' BY <2>0, <3>3, CallTypes DEF Godot!CallReady, CallStep, OpNames, Outcomes
      <4>2. ChainTyped' BY <2>0, <3>3 DEF Godot!CallReady, ChainTyped
      <4>3. CountersTyped' BY <2>0, <3>3 DEF Godot!CallReady, CountersTyped
      <4>4. /\ shutdownRequests' \in {shutdownRequests, shutdownRequests + 1}
            /\ reopened' \in {reopened, reopened + 1}
        BY <2>2, <3>3, ZenonT(30) DEF Godot!CallReady, GodotStep, Godot!SetState
      <4>5. shutdownRequests' \in Nat /\ reopened' \in Nat
        BY <2>00, <4>4
      <4>6. running' \in BOOLEAN /\ started' \in BOOLEAN /\ watchOpen' \in BOOLEAN
        BY <2>0, <2>2, <3>3, ZenonT(30) DEF Godot!CallReady, RestTyped, GodotStep, Godot!SetState
      <4>7. RestTyped'
        BY <2>0, <2>2, <3>3, <4>5, <4>6 DEF Godot!CallReady, RestTyped, GodotStep, Godot!SetState
      <4>. QED BY <4>1, <4>2, <4>3, <4>7, TypeParts
    <3>4. CASE Godot!ReadyAnswered(c)
      <4>1. CallsTyped' BY <2>0, <3>4, CallTypes DEF Godot!ReadyAnswered, CallStep, OpNames, Outcomes
      <4>2. ChainTyped' BY <2>0, <3>4 DEF Godot!ReadyAnswered, ChainTyped, Godot!HealthStart
      <4>3. CountersTyped' BY <2>0, <3>4 DEF Godot!ReadyAnswered, CountersTyped
      <4>4. /\ shutdownRequests' \in {shutdownRequests, shutdownRequests + 1}
            /\ reopened' \in {reopened, reopened + 1}
        BY <2>2, <3>4, ZenonT(30) DEF Godot!ReadyAnswered, GodotStep, Godot!HealthStart, Godot!SetState
      <4>5. shutdownRequests' \in Nat /\ reopened' \in Nat
        BY <2>00, <4>4
      <4>6. running' \in BOOLEAN /\ started' \in BOOLEAN /\ watchOpen' \in BOOLEAN
        BY <2>0, <2>2, <3>4, ZenonT(30) DEF Godot!ReadyAnswered, RestTyped, GodotStep, Godot!HealthStart, Godot!SetState
      <4>7. RestTyped'
        BY <2>0, <2>2, <3>4, <4>5, <4>6 DEF Godot!ReadyAnswered, RestTyped, GodotStep, Godot!HealthStart, Godot!SetState
      <4>. QED BY <4>1, <4>2, <4>3, <4>7, TypeParts
    <3>5. CASE Godot!CallOther(c)
      <4>1. CallsTyped' BY <2>0, <3>5, CallTypes DEF Godot!CallOther, CallStep, OpNames, Outcomes
      <4>2. ChainTyped' BY <2>0, <3>5 DEF Godot!CallOther, ChainTyped
      <4>3. CountersTyped' BY <2>0, <3>5 DEF Godot!CallOther, CountersTyped
      <4>4. RestTyped' BY <2>0, <2>2, <3>5 DEF Godot!CallOther, RestTyped, GodotStep
      <4>. QED BY <4>1, <4>2, <4>3, <4>4, TypeParts
    <3>6. CASE Godot!OtherAnswered(c)
      <4>1. CallsTyped' BY <2>0, <3>6, CallTypes DEF Godot!OtherAnswered, CallStep, OpNames, Outcomes
      <4>2. ChainTyped' BY <2>0, <3>6 DEF Godot!OtherAnswered, ChainTyped
      <4>3. CountersTyped' BY <2>0, <3>6 DEF Godot!OtherAnswered, CountersTyped
      <4>4. RestTyped' BY <2>0, <2>2, <3>6 DEF Godot!OtherAnswered, RestTyped, GodotStep
      <4>. QED BY <4>1, <4>2, <4>3, <4>4, TypeParts
    <3>7. CASE Godot!CallShutdown(c)
      <4>1. CallsTyped' BY <2>0, <3>7, CallTypes DEF Godot!CallShutdown, CallStep, OpNames, Outcomes
      <4>2. ChainTyped' BY <2>0, <3>7 DEF Godot!CallShutdown, ChainTyped
      <4>3. CountersTyped' BY <2>0, <3>7 DEF Godot!CallShutdown, CountersTyped
      <4>4. /\ shutdownRequests' \in {shutdownRequests, shutdownRequests + 1}
            /\ reopened' \in {reopened, reopened + 1}
        BY <2>2, <3>7, ZenonT(30) DEF Godot!CallShutdown, GodotStep
      <4>5. shutdownRequests' \in Nat /\ reopened' \in Nat
        BY <2>00, <4>4
      <4>6. running' \in BOOLEAN /\ started' \in BOOLEAN /\ watchOpen' \in BOOLEAN
        BY <2>0, <2>2, <3>7, ZenonT(30) DEF Godot!CallShutdown, RestTyped, GodotStep
      <4>7. RestTyped'
        BY <2>0, <2>2, <3>7, <4>5, <4>6 DEF Godot!CallShutdown, RestTyped, GodotStep
      <4>. QED BY <4>1, <4>2, <4>3, <4>7, TypeParts
    <3>8. CASE Godot!ShutdownAnswered(c)
      <4>1. CallsTyped' BY <2>0, <3>8, CallTypes DEF Godot!ShutdownAnswered, CallStep, OpNames, Outcomes
      <4>2. ChainTyped' BY <2>0, <3>8 DEF Godot!ShutdownAnswered, ChainTyped
      <4>3. CountersTyped' BY <2>0, <3>8 DEF Godot!ShutdownAnswered, CountersTyped
      <4>4. RestTyped' BY <2>0, <2>2, <3>8 DEF Godot!ShutdownAnswered, RestTyped, GodotStep
      <4>. QED BY <4>1, <4>2, <4>3, <4>4, TypeParts
    <3>9. CASE Godot!Settle(c)
      <4>1. CallsTyped' BY <2>0, <3>9 DEF Godot!Settle, CallsTyped
      <4>2. ChainTyped' BY <2>0, <3>9 DEF Godot!Settle, ChainTyped
      <4>3. TypeScript!PingSucceeds \/ TypeScript!PingFails \/ UNCHANGED counters
        BY <3>9, GodotPings DEF Godot!Settle, counters
      <4>4. CountersTyped' BY <2>0, <4>3, PingTypes
      <4>5. RestTyped' BY <2>0, <2>2, <3>9 DEF Godot!Settle, RestTyped, GodotStep
      <4>. QED BY <4>1, <4>2, <4>4, <4>5, TypeParts
    <3>10. CASE Godot!Wakes(c)
      <4>1. CallsTyped' BY <2>0, <3>10 DEF Godot!Wakes, CallsTyped
      <4>2. ChainTyped' BY <2>0, <3>10 DEF Godot!Wakes, ChainTyped
      <4>3. CountersTyped' BY <2>0, <3>10 DEF Godot!Wakes, CountersTyped
      <4>4. RestTyped' BY <2>0, <2>2, <3>10 DEF Godot!Wakes, RestTyped, GodotStep
      <4>. QED BY <4>1, <4>2, <4>3, <4>4, TypeParts
    <3>. QED
      BY <2>2, <3>1, <3>2, <3>3, <3>4, <3>5, <3>6, <3>7, <3>8, <3>9, <3>10 DEF GodotStep, Godot!Call, Godot!Answered, Godot!Heartbeat
  <2>3. CASE UNCHANGED vars
    BY <2>3 DEF vars, TypeScript!vars, TypeOK
  <2>. QED
    BY <2>1, <2>2, <2>3 DEF Next
<1>. QED
  BY <1>1, <1>2, PTL DEF Spec

-----------------------------------------------------------------------------
(* A Godot handle sets no timers, and before start() it has nothing under  *)
(* way.                                                                    *)
GodotShape ==
  /\ sdk = "Godot" => timer = {}
  /\ ~started =>
       /\ sdk = "Godot"
       /\ state \in {"idle", "shutdown"}
       /\ ~running
       /\ \A c \in Callers : pc[c] = "idle"

LEMMA GodotShapeHolds == Spec => []GodotShape
<1>1. Init => GodotShape
  BY DEF Init, TypeScript!Init, Godot!Init, GodotShape
<1>2. GodotShape /\ [Next]_vars => GodotShape'
  <2> SUFFICES ASSUME GodotShape, [Next]_vars PROVE GodotShape'
    OBVIOUS
  <2>1. ASSUME NEW c \in Callers, TypeScriptStep(c) PROVE GodotShape'
    BY <2>1 DEF TypeScriptStep, GodotShape
  <2>2. ASSUME NEW c \in Callers, GodotStep(c), started' PROVE GodotShape'
    BY <2>2 DEF GodotStep, GodotShape
  <2>3. ASSUME NEW c \in Callers, GodotStep(c), ~started' PROVE GodotShape'
    <3>0. ~started /\ pc[c] = "idle" /\ ~Godot!Usable
      BY <2>3 DEF GodotStep, Godot!Call, Godot!Answered, Godot!Heartbeat, Godot!CallStart,
         Godot!CallReady, Godot!CallOther, Godot!CallShutdown, Godot!StartAnswered,
         Godot!ReadyAnswered, Godot!OtherAnswered, Godot!ShutdownAnswered, Godot!Settle,
         Godot!Wakes, Godot!Usable, GodotShape
    <3>1. ~Godot!Answered(c)
      BY <3>0 DEF Godot!Answered, Godot!StartAnswered, Godot!ReadyAnswered,
         Godot!OtherAnswered, Godot!ShutdownAnswered, Godot!Resolves
    <3>2. CASE Godot!CallStart(c) \/ Godot!CallReady(c) \/ Godot!CallOther(c)
      BY <2>3, <3>0, <3>2 DEF GodotStep, Godot!CallStart, Godot!CallReady, Godot!CallOther,
         Godot!Returns, Godot!Usable, GodotShape
    <3>3. CASE Godot!CallShutdown(c)
      BY <2>3, <3>0, <3>3 DEF GodotStep, Godot!CallShutdown, Godot!Returns, Godot!Closing,
         GodotShape
    <3>4. CASE Godot!Heartbeat(c)
      BY <2>3, <3>0, <3>4 DEF GodotStep, Godot!Heartbeat, Godot!Settle, Godot!Wakes, GodotShape
    <3>. QED
      BY <2>3, <3>1, <3>2, <3>3, <3>4 DEF GodotStep, Godot!Call
  <2>4. CASE UNCHANGED vars
    BY <2>4 DEF vars, TypeScript!vars, GodotShape
  <2>. QED
    BY <2>1, <2>2, <2>3, <2>4 DEF Next
<1>. QED
  BY <1>1, <1>2, PTL DEF Spec

-----------------------------------------------------------------------------
(* A call that is not a shutdown, and every answer, starts no shutdown. *)
LEMMA CallEffect ==
  ASSUME CallsTyped, NEW c \in Callers, NEW o, NEW r,
         \/ TypeScript!Returns(c, o, r)
         \/ TypeScript!Awaits(c, o) /\ o # "shutdown"
         \/ TypeScript!Resolves(c, o, r)
  PROVE  NoNewShutdown
BY DEF CallsTyped, NoNewShutdown, ShuttingDown, TypeScript!Returns, TypeScript!Awaits,
       TypeScript!Resolves

(* Every step has one of the effects. *)
LEMMA StepEffects ==
  ASSUME TypeOK, GodotShape, [Next]_vars
  PROVE  Effect
<1>0. CallsTyped /\ ChainTyped /\ RestTyped
  BY TypeParts
<1> USE DEF others, counters
<1>1. ASSUME NEW c \in Callers, TypeScriptStep(c) PROVE Effect
  <2>1. CASE TypeScript!CallReady(c)
    <3>1. NoNewShutdown
      BY <1>0, <2>1, CallEffect DEF TypeScript!CallReady
    <3>. QED
      BY <2>1, <3>1 DEF TypeScript!CallReady, Nothing, Effect
  <2>2. CASE TypeScript!CallInfo(c) \/ TypeScript!CallPlayers(c)
    <3>1. NoNewShutdown
      <4>1. \E o \in {"info", "players"} :
              TypeScript!Returns(c, o, "NotConnected") \/ TypeScript!Awaits(c, o)
        BY <2>2 DEF TypeScript!CallInfo, TypeScript!CallPlayers
      <4>. QED
        BY <1>0, <4>1, CallEffect
    <3>. QED
      BY <2>2, <3>1 DEF TypeScript!CallInfo, TypeScript!CallPlayers, Nothing, Effect
  <2>3. CASE TypeScript!CallShutdown(c) /\ ~TypeScript!Usable
    <3>1. NoNewShutdown
      BY <1>0, <2>3, CallEffect DEF TypeScript!CallShutdown
    <3>. QED
      BY <2>3, <3>1 DEF TypeScript!CallShutdown, Nothing, Effect
  <2>4. CASE TypeScript!CallShutdown(c) /\ TypeScript!Usable
    <3>1. Claims
      <4>1. TypeScript!HealthStop /\ state' = "shutting-down" /\ ~Closing
            /\ shutdownRequests' = shutdownRequests + 1 /\ UNCHANGED <<reopened, counters>>
        BY <2>4 DEF TypeScript!CallShutdown, TypeScript!Usable, Closing
      <4>2. \A l \in Callers : chain'[l] # chain[l] => chain'[l] = "done"
        BY <4>1 DEF TypeScript!HealthStop
      <4>3. \A l \in timer : chain'[l] # "timer"
        BY <1>0, <4>1 DEF TypeScript!HealthStop, RestTyped
      <4>. QED
        BY <4>1, <4>2, <4>3 DEF TypeScript!HealthStop, Claims, Closing
    <3>. QED
      BY <3>1 DEF Effect
  <2>5. CASE TypeScript!ReadyAnswered(c)
    <3>1. NoNewShutdown
      BY <1>0, <2>5, CallEffect DEF TypeScript!ReadyAnswered
    <3>2. Opens(c)
      BY <2>5 DEF TypeScript!ReadyAnswered, TypeScript!HealthStart, TypeScript!Usable, Opens, Closing
    <3>. QED
      BY <3>1, <3>2 DEF Effect
  <2>6. CASE TypeScript!ShutdownAnswered(c)
    <3>1. NoNewShutdown
      BY <1>0, <2>6, CallEffect DEF TypeScript!ShutdownAnswered
    <3>2. Closes(c)
      BY <2>6 DEF TypeScript!ShutdownAnswered, TypeScript!Resolves, Closes, Closing, ShuttingDown
    <3>. QED
      BY <3>1, <3>2 DEF Effect
  <2>7. CASE TypeScript!OtherAnswered(c)
    <3>1. NoNewShutdown
      BY <1>0, <2>7, CallEffect DEF TypeScript!OtherAnswered
    <3>. QED
      BY <2>7, <3>1 DEF TypeScript!OtherAnswered, Nothing, Effect
  <2>8. CASE TypeScript!Settle(c)
    <3>1. NoNewShutdown
      BY <2>8 DEF TypeScript!Settle, NoNewShutdown, ShuttingDown
    <3>2. PingEnds(c)
      BY <2>8 DEF TypeScript!Settle, PingEnds
    <3>. QED
      BY <3>1, <3>2 DEF Effect
  <2>9. CASE TypeScript!TimerFires(c)
    <3>1. NoNewShutdown
      BY <2>9 DEF TypeScript!TimerFires, NoNewShutdown, ShuttingDown
    <3>2. Ticks(c)
      <4>1. \/ chain' = [chain EXCEPT ![c] = "done"]
            \/ chain' = [chain EXCEPT ![c] = "ping"]
            \/ chain' = [chain EXCEPT ![c] = "refused"]
        <5>1. CASE ~running
          BY <2>9, <5>1 DEF TypeScript!TimerFires
        <5>2. CASE running /\ TypeScript!GuardOpen
          BY <2>9, <5>2 DEF TypeScript!TimerFires
        <5>3. CASE running /\ ~TypeScript!GuardOpen
          BY <2>9, <5>3 DEF TypeScript!TimerFires
        <5>. QED
          BY <5>1, <5>2, <5>3
      <4>. QED
        BY <2>9, <4>1 DEF TypeScript!TimerFires, Ticks
    <3>. QED
      BY <3>1, <3>2 DEF Effect
  <2>. QED
    BY <1>1, <2>1, <2>2, <2>3, <2>4, <2>5, <2>6, <2>7, <2>8, <2>9
       DEF TypeScriptStep, TypeScript!Call, TypeScript!Answered, TypeScript!Heartbeat
<1>2. ASSUME NEW c \in Callers, GodotStep(c) PROVE Effect
  <2>0. timer' = timer
    BY <1>2 DEF GodotStep
  <2> USE GodotCalls
  <2>1. CASE Godot!CallStart(c)
    <3>1. NoNewShutdown
      BY <1>0, <2>1, CallEffect DEF Godot!CallStart
    <3>2. CASE UNCHANGED <<state, reopened>>
      BY <2>0, <2>1, <3>1, <3>2 DEF Godot!CallStart, Nothing, Effect
    <3>3. CASE Godot!SetState("connected")
      <4>1. Opens(c)
        BY <2>0, <2>1, <3>3 DEF Godot!CallStart, Godot!SetState, Godot!Closing, Opens, Closing
      <4>. QED
        BY <3>1, <4>1 DEF Effect
    <3>. QED
      BY <2>1, <3>2, <3>3 DEF Godot!CallStart
  <2>2. CASE Godot!StartAnswered(c)
    <3>1. NoNewShutdown
      BY <1>0, <2>2, CallEffect DEF Godot!StartAnswered
    <3>2. Opens(c)
      BY <2>0, <2>2 DEF Godot!StartAnswered, Godot!SetState, Godot!Closing, Opens, Closing
    <3>. QED
      BY <3>1, <3>2 DEF Effect
  <2>3. CASE Godot!CallReady(c)
    <3>1. NoNewShutdown
      BY <1>0, <2>3, CallEffect DEF Godot!CallReady
    <3>2. CASE UNCHANGED <<state, reopened>>
      BY <2>0, <2>3, <3>1, <3>2 DEF Godot!CallReady, Nothing, Effect
    <3>3. CASE Godot!SetState("ready")
      <4>1. Opens(c)
        BY <2>0, <2>3, <3>3 DEF Godot!CallReady, Godot!SetState, Godot!Closing, Opens, Closing
      <4>. QED
        BY <3>1, <4>1 DEF Effect
    <3>. QED
      BY <2>3, <3>2, <3>3 DEF Godot!CallReady
  <2>4. CASE Godot!ReadyAnswered(c)
    <3>1. NoNewShutdown
      BY <1>0, <2>4, CallEffect DEF Godot!ReadyAnswered
    <3>2. Opens(c)
      BY <2>0, <2>4 DEF Godot!ReadyAnswered, Godot!HealthStart, Godot!SetState, Godot!Closing,
         Opens, Closing
    <3>. QED
      BY <3>1, <3>2 DEF Effect
  <2>5. CASE Godot!CallOther(c)
    <3>1. NoNewShutdown
      <4>1. CASE \E r \in {"NotConnected", "Ok"} : TypeScript!Returns(c, "other", r)
        BY <1>0, <4>1, CallEffect
      <4>2. CASE TypeScript!Awaits(c, "other")
        <5>1. \/ TypeScript!Returns(c, "other", "Ok")
              \/ TypeScript!Awaits(c, "other") /\ "other" # "shutdown"
              \/ TypeScript!Resolves(c, "other", "Ok")
          BY <4>2
        <5>. QED
          BY <1>0, <5>1, CallEffect
      <4>. QED
        BY <2>5, <4>1, <4>2 DEF Godot!CallOther
    <3>. QED
      BY <2>0, <2>5, <3>1 DEF Godot!CallOther, Nothing, Effect
  <2>6. CASE Godot!OtherAnswered(c)
    <3>1. NoNewShutdown
      BY <1>0, <2>6, CallEffect DEF Godot!OtherAnswered
    <3>. QED
      BY <2>0, <2>6, <3>1 DEF Godot!OtherAnswered, Nothing, Effect
  <2>7. CASE Godot!CallShutdown(c) /\ Godot!Closing
    <3>1. NoNewShutdown
      BY <1>0, <2>7, CallEffect DEF Godot!CallShutdown
    <3>. QED
      BY <2>0, <2>7, <3>1 DEF Godot!CallShutdown, Nothing, Effect
  <2>8. CASE Godot!CallShutdown(c) /\ ~Godot!Closing
    <3>1. Claims
      BY <1>2, <2>8 DEF GodotStep, Godot!CallShutdown, Godot!Closing, Claims, Closing, GodotShape
    <3>. QED
      BY <3>1 DEF Effect
  <2>9. CASE Godot!ShutdownAnswered(c)
    <3>1. NoNewShutdown
      BY <1>0, <2>9, CallEffect DEF Godot!ShutdownAnswered
    <3>2. Closes(c)
      BY <2>0, <2>9 DEF Godot!ShutdownAnswered, TypeScript!Resolves, Closes, Closing, ShuttingDown
    <3>. QED
      BY <3>1, <3>2 DEF Effect
  <2>10. CASE Godot!Settle(c)
    <3>1. NoNewShutdown
      BY <2>10 DEF Godot!Settle, NoNewShutdown, ShuttingDown
    <3>2. PingEnds(c)
      BY <2>0, <2>10, GodotPings DEF Godot!Settle, PingEnds
    <3>. QED
      BY <3>1, <3>2 DEF Effect
  <2>11. CASE Godot!Wakes(c)
    <3>1. NoNewShutdown
      BY <2>11 DEF Godot!Wakes, NoNewShutdown, ShuttingDown
    <3>2. Ticks(c)
      BY <2>0, <2>11 DEF Godot!Wakes, Ticks
    <3>. QED
      BY <3>1, <3>2 DEF Effect
  <2>. QED
    BY <1>2, <2>1, <2>2, <2>3, <2>4, <2>5, <2>6, <2>7, <2>8, <2>9, <2>10, <2>11
       DEF GodotStep, Godot!Call, Godot!Answered, Godot!Heartbeat
<1>3. CASE UNCHANGED vars
  BY <1>3 DEF vars, TypeScript!vars, Effect, Nothing, NoNewShutdown, ShuttingDown
<1>. QED
  BY <1>1, <1>2, <1>3 DEF Next

-----------------------------------------------------------------------------
(* The invariants. *)

RequestShape == shutdownRequests <= reopened + IF Closing THEN 1 ELSE 0

ChainShape == Cardinality(Active) <= reopened + IF running \/ Closing THEN 1 ELSE 0

AlarmShape ==
  /\ degraded <=> failures = DegradedThreshold
  /\ alarms = IF failures = DegradedThreshold THEN 1 ELSE 0

(* As long as nothing was reopened: a shutdown under way keeps the handle  *)
(* closing, a closing handle has stopped the heartbeat, and a pending      *)
(* timer is the one the handle holds.                                      *)
QuietShape ==
  reopened = 0 =>
    /\ \A c \in Callers : ShuttingDown(c) => Closing
    /\ Closing => ~running /\ \A l \in Callers : chain[l] # "timer"
    /\ \A l \in Callers : chain[l] = "timer" => l \in timer

LEMMA NumbersTyped ==
  ASSUME TypeOK
  PROVE  shutdownRequests \in Nat /\ reopened \in Nat
BY Zenon DEF TypeOK

(* A reopening is counted, and the count never goes down. *)
LEMMA RequestStep ==
  ASSUME TypeOK, Effect, RequestShape
  PROVE  RequestShape'
<1>0. shutdownRequests \in Nat /\ reopened \in Nat
  BY NumbersTyped
<1>1. CASE Claims
  <2>1. ~Closing /\ Closing' /\ reopened' = reopened
        /\ shutdownRequests' \in {shutdownRequests, shutdownRequests + 1}
    BY <1>1 DEF Claims
  <2>. QED
    BY <1>0, <2>1 DEF RequestShape
<1>2. ASSUME NEW c \in Callers, Opens(c) PROVE RequestShape'
  <2>1. ~Closing' /\ reopened' = (IF Closing THEN reopened + 1 ELSE reopened)
        /\ shutdownRequests' = shutdownRequests
    BY <1>2 DEF Opens
  <2>. QED
    BY <1>0, <2>1 DEF RequestShape
<1>3. ASSUME NEW c \in Callers, Closes(c) PROVE RequestShape'
  <2>1. Closing' /\ reopened' = reopened /\ shutdownRequests' = shutdownRequests
    BY <1>3 DEF Closes
  <2>. QED
    BY <1>0, <2>1 DEF RequestShape
<1>4. CASE UNCHANGED others
  BY <1>4 DEF others, RequestShape, Closing
<1>. QED
  BY <1>1, <1>2, <1>3, <1>4 DEF Effect, PingEnds, Ticks, Nothing, others

(* POST /shutdown goes out once, and once more for each time a late answer *)
(* reopened the handle (gameflow.ts:137-149, gameflow.gd:163-178).         *)
THEOREM RequestsAreCounted == Spec => []OneRequestPerOpening
<1>1. Init => RequestShape
  <2> SUFFICES ASSUME Init PROVE RequestShape
    OBVIOUS
  <2>1. shutdownRequests = 0 /\ reopened = 0
    BY Zenon DEF Init, TypeScript!Init, Godot!Init
  <2>. QED
    BY <2>1 DEF RequestShape
<1>2. TypeOK /\ GodotShape /\ RequestShape /\ [Next]_vars => RequestShape'
  BY StepEffects, RequestStep
<1>3. TypeOK /\ RequestShape => OneRequestPerOpening
  BY NumbersTyped DEF RequestShape, OneRequestPerOpening
<1>. QED
  BY <1>1, <1>2, <1>3, TypeCorrect, GodotShapeHolds, PTL DEF Spec

-----------------------------------------------------------------------------
LEMMA AlarmStep ==
  ASSUME TypeOK, Effect, AlarmShape
  PROVE  AlarmShape'
<1>0. failures \in 0..DegradedThreshold /\ DegradedThreshold \in Nat \ {0}
  BY HandlesAssumption DEF TypeOK
<1>1. CASE UNCHANGED counters
  BY <1>1 DEF counters, AlarmShape
<1>2. CASE TypeScript!PingSucceeds
  BY <1>0, <1>2 DEF TypeScript!PingSucceeds, AlarmShape
<1>3. CASE TypeScript!PingFails
  <2>1. /\ failures' = IF failures < DegradedThreshold THEN failures + 1 ELSE failures
        /\ degraded' = (degraded \/ TypeScript!RaisesAlarm(failures'))
        /\ alarms' = IF TypeScript!RaisesAlarm(failures') /\ alarms < 2 THEN alarms + 1 ELSE alarms
    BY <1>3, Zenon DEF TypeScript!PingFails
  <2>2. CASE failures = DegradedThreshold
    <3>1. failures' = DegradedThreshold
      BY <1>0, <2>1, <2>2
    <3>2. degraded /\ ~TypeScript!RaisesAlarm(failures')
      BY <2>2, Zenon DEF TypeScript!RaisesAlarm, AlarmShape
    <3>3. degraded' /\ alarms' = alarms
      BY <2>1, <3>2, Zenon
    <3>. QED
      BY <2>2, <3>1, <3>3, Zenon DEF AlarmShape
  <2>3. CASE failures + 1 = DegradedThreshold
    <3>1. failures' = DegradedThreshold /\ failures # DegradedThreshold
      BY <1>0, <2>1, <2>3
    <3>2. ~degraded /\ alarms = 0
      BY <3>1, Zenon DEF AlarmShape
    <3>3. failures' >= DegradedThreshold /\ alarms < 2 /\ alarms + 1 = 1
      BY <1>0, <3>1, <3>2
    <3>4. TypeScript!RaisesAlarm(failures')
      BY <3>2, <3>3, Zenon DEF TypeScript!RaisesAlarm
    <3>5. degraded' /\ alarms' = 1
      BY <2>1, <3>3, <3>4, Zenon
    <3>. QED
      BY <3>1, <3>5, Zenon DEF AlarmShape
  <2>4. CASE failures + 1 < DegradedThreshold
    <3>1. failures' # DegradedThreshold /\ failures # DegradedThreshold
          /\ ~(failures' >= DegradedThreshold)
      BY <1>0, <2>1, <2>4
    <3>2. ~degraded /\ alarms = 0 /\ ~TypeScript!RaisesAlarm(failures')
      BY <3>1, Zenon DEF AlarmShape, TypeScript!RaisesAlarm
    <3>3. ~degraded' /\ alarms' = 0
      BY <2>1, <3>2, Zenon
    <3>. QED
      BY <3>1, <3>3, Zenon DEF AlarmShape
  <2>. QED
    BY <1>0, <2>2, <2>3, <2>4
<1>. QED
  BY <1>1, <1>2, <1>3 DEF Effect, Claims, Opens, Closes, PingEnds, Ticks, Nothing, counters

(* The degraded callback runs once per outage, even across a restart of    *)
(* the heartbeat and with two chains on one counter (health.ts:62-72).     *)
THEOREM AlarmsAreSingle == Spec => []OneAlarmPerOutage
<1>1. Init => AlarmShape
  <2> SUFFICES ASSUME Init PROVE AlarmShape
    OBVIOUS
  <2>1. failures = 0 /\ ~degraded /\ alarms = 0
    BY Zenon DEF Init, TypeScript!Init, Godot!Init
  <2>2. failures # DegradedThreshold
    BY <2>1, HandlesAssumption
  <2>. QED
    BY <2>1, <2>2, Zenon DEF AlarmShape
<1>2. TypeOK /\ GodotShape /\ AlarmShape /\ [Next]_vars => AlarmShape'
  BY StepEffects, AlarmStep
<1>3. AlarmShape => OneAlarmPerOutage
  BY DEF AlarmShape, OneAlarmPerOutage
<1>. QED
  BY <1>1, <1>2, <1>3, TypeCorrect, GodotShapeHolds, PTL DEF Spec
-----------------------------------------------------------------------------
(* Sets of chains. *)
LEMMA Chains ==
  ASSUME NEW S \in SUBSET Callers
  PROVE  /\ IsFiniteSet(S) /\ Cardinality(S) \in Nat
         /\ \A R \in SUBSET S : Cardinality(R) <= Cardinality(S)
         /\ \A c \in Callers : Cardinality(S \cup {c}) <= Cardinality(S) + 1
         /\ Cardinality(S) <= 1 => \A l, k \in S : l = k
<1>1. IsFiniteSet(S) /\ \A R \in SUBSET S : IsFiniteSet(R) /\ Cardinality(R) <= Cardinality(S)
  BY HandlesAssumption, FS_Subset
<1>2. Cardinality(S) \in Nat
  BY <1>1, FS_CardinalityType
<1>3. ASSUME NEW c \in Callers PROVE Cardinality(S \cup {c}) <= Cardinality(S) + 1
  <2>1. Cardinality(S \cup {c}) \in {Cardinality(S), Cardinality(S) + 1}
    BY <1>1, FS_AddElement, Zenon
  <2>. QED
    BY <1>2, <2>1
<1>4. ASSUME Cardinality(S) <= 1, NEW l \in S, NEW k \in S, l # k PROVE FALSE
  <2>1. IsFiniteSet({l}) /\ Cardinality({l}) = 1
    BY FS_Singleton
  <2>2. Cardinality({l} \cup {k}) = Cardinality({l}) + 1
    BY <1>4, <2>1, FS_AddElement
  <2>3. Cardinality({l} \cup {k}) <= Cardinality(S)
    <3>1. {l} \cup {k} \in SUBSET S
      BY <1>4
    <3>. QED
      BY <1>1, <3>1, Zenon
  <2>. QED
    BY <1>2, <1>4, <2>1, <2>2, <2>3
<1>. QED
  BY <1>1, <1>2, <1>3, <1>4

(* A step adds a chain only when it starts the heartbeat. *)
LEMMA ActiveStep ==
  ASSUME TypeOK, Effect
  PROVE  \/ Active' \in SUBSET Active
         \/ \E c \in Callers : Opens(c) /\ ~running /\ running' /\ Active' \in SUBSET (Active \cup {c})
<1>0. ChainTyped
  BY TypeParts
<1>1. CASE Claims
  BY <1>0, <1>1 DEF Claims, Active
<1>2. ASSUME NEW c \in Callers, Opens(c), chain' # chain
      PROVE  ~running /\ running' /\ Active' \in SUBSET (Active \cup {c})
  <2>1. running' /\ ~running /\ chain' = [chain EXCEPT ![c] = "ping"]
    BY <1>2 DEF Opens
  <2>. QED
    BY <1>0, <2>1 DEF Active, ChainTyped
<1>3. ASSUME NEW l \in Callers, PingEnds(l) \/ Ticks(l) PROVE Active' \in SUBSET Active
  <2>1. chain[l] \in {"ping", "refused", "timer", "sleep"}
    BY <1>3 DEF PingEnds, Ticks
  <2>2. \A k \in Callers \ {l} : chain'[k] = chain[k]
    BY <1>0, <1>3 DEF PingEnds, Ticks, ChainTyped
  <2>. QED
    BY <2>1, <2>2 DEF Active
<1>4. CASE chain' = chain
  BY <1>4 DEF Active
<1>. QED
  BY <1>1, <1>2, <1>3, <1>4 DEF Effect, Closes, Nothing

LEMMA ChainStep ==
  ASSUME TypeOK, Effect, ChainShape
  PROVE  ChainShape'
<1>0. reopened \in Nat /\ Cardinality(Active) \in Nat /\ Cardinality(Active') \in Nat
  <2>1. Active \in SUBSET Callers /\ Active' \in SUBSET Callers
    BY DEF Active
  <2>. QED
    BY <2>1, Chains, NumbersTyped
<1>1. CASE Active' \in SUBSET Active
  <2>0. Cardinality(Active') <= Cardinality(Active)
    <3>1. Active \in SUBSET Callers
      BY DEF Active
    <3>. QED
      BY <1>1, <3>1, Chains
  <2>1. CASE Claims
    <3>1. Closing' /\ ~Closing /\ reopened' = reopened
      BY <2>1 DEF Claims
    <3>. QED
      BY <1>0, <2>0, <3>1 DEF ChainShape
  <2>2. ASSUME NEW c \in Callers, Opens(c) PROVE ChainShape'
    <3>1. ~Closing' /\ reopened' = (IF Closing THEN reopened + 1 ELSE reopened)
          /\ (running => running')
      BY <2>2 DEF Opens
    <3>2. CASE Closing
      BY <1>0, <2>0, <3>1, <3>2 DEF ChainShape
    <3>3. CASE ~Closing
      BY <1>0, <2>0, <3>1, <3>3 DEF ChainShape
    <3>. QED
      BY <3>2, <3>3
  <2>3. ASSUME NEW c \in Callers, Closes(c) PROVE ChainShape'
    <3>1. Closing' /\ reopened' = reopened
      BY <2>3 DEF Closes
    <3>. QED
      BY <1>0, <2>0, <3>1 DEF ChainShape
  <2>4. CASE UNCHANGED <<others, running>>
    <3>1. reopened' = reopened /\ running' = running /\ (Closing' <=> Closing)
      BY <2>4 DEF others, Closing
    <3>. QED
      BY <1>0, <2>0, <3>1 DEF ChainShape
  <2>. QED
    BY <2>1, <2>2, <2>3, <2>4 DEF Effect, PingEnds, Ticks, Nothing, others
<1>2. ASSUME NEW c \in Callers, Opens(c), ~running, running', Active' \in SUBSET (Active \cup {c})
      PROVE  ChainShape'
  <2>0. Cardinality(Active') <= Cardinality(Active) + 1
    <3>1. Active \in SUBSET Callers /\ Active \cup {c} \in SUBSET Callers
      BY DEF Active
    <3>2. /\ Cardinality(Active') <= Cardinality(Active \cup {c})
          /\ Cardinality(Active \cup {c}) <= Cardinality(Active) + 1
          /\ Cardinality(Active \cup {c}) \in Nat
      BY <1>2, <3>1, Chains
    <3>. QED
      BY <1>0, <3>2
  <2>1. ~Closing' /\ reopened' = (IF Closing THEN reopened + 1 ELSE reopened)
    BY <1>2 DEF Opens
  <2>2. CASE Closing
    BY <1>0, <1>2, <2>0, <2>1, <2>2 DEF ChainShape
  <2>3. CASE ~Closing
    BY <1>0, <1>2, <2>0, <2>1, <2>3 DEF ChainShape
  <2>. QED
    BY <2>2, <2>3
<1>. QED
  BY <1>1, <1>2, ActiveStep

LEMMA ChainsAreCounted == Spec => []ChainShape
<1>1. Init => ChainShape
  <2> SUFFICES ASSUME Init PROVE ChainShape
    OBVIOUS
  <2>1. reopened = 0 /\ chain = [c \in Callers |-> "none"]
    BY Zenon DEF Init, TypeScript!Init, Godot!Init
  <2>2. Cardinality(Active) = 0
    BY <2>1, FS_EmptySet DEF Active
  <2>. QED
    BY <2>1, <2>2 DEF ChainShape
<1>2. TypeOK /\ GodotShape /\ ChainShape /\ [Next]_vars => ChainShape'
  BY StepEffects, ChainStep
<1>. QED
  BY <1>1, <1>2, TypeCorrect, GodotShapeHolds, PTL DEF Spec

(* A ping is sent only after the previous one has settled, and there is    *)
(* one chain of pings, and one more at most for each time a late answer    *)
(* reopened the handle (health.ts:13-14, health_loop.gd:2-3).              *)
THEOREM PingsAreBounded == Spec => []PingsDoNotPileUp
<1>1. TypeOK /\ ChainShape => PingsDoNotPileUp
  <2> SUFFICES ASSUME TypeOK, ChainShape PROVE PingsDoNotPileUp
    OBVIOUS
  <2>1. Active \in SUBSET Callers
    BY DEF Active
  <2>2. reopened \in Nat /\ Cardinality(Active) \in Nat
    BY <2>1, Chains, NumbersTyped
  <2>. QED
    BY <2>2 DEF ChainShape, PingsDoNotPileUp
<1>. QED
  BY <1>1, TypeCorrect, ChainsAreCounted, PTL

-----------------------------------------------------------------------------
(* With one chain only, the timer the handle holds is the one pending. *)
LEMMA QuietStep ==
  ASSUME TypeOK, Effect, ChainShape, QuietShape
  PROVE  QuietShape'
<1> SUFFICES ASSUME reopened' = 0
             PROVE  /\ \A c \in Callers : ShuttingDown(c)' => Closing'
                    /\ Closing' => ~running' /\ \A l \in Callers : chain'[l] # "timer"
                    /\ \A l \in Callers : chain'[l] = "timer" => l \in timer'
  BY DEF QuietShape
<1>0. ChainTyped /\ reopened \in Nat
  BY TypeParts, NumbersTyped
<1>1. CASE Claims
  <2>1. reopened = 0
    BY <1>1 DEF Claims
  <2>2. ASSUME NEW l \in Callers PROVE chain'[l] # "timer"
    BY <1>1, <2>1, <2>2 DEF Claims, QuietShape
  <2>. QED
    BY <1>1, <2>2 DEF Claims
<1>2. ASSUME NEW c \in Callers, Opens(c), NoNewShutdown
      PROVE  /\ \A d \in Callers : ~ShuttingDown(d)'
             /\ ~Closing'
             /\ \A l \in Callers : chain'[l] = "timer" => l \in timer'
  <2>1. ~Closing /\ reopened = 0
    <3>1. reopened' = IF Closing THEN reopened + 1 ELSE reopened
      BY <1>2 DEF Opens
    <3>. QED
      BY <1>0, <3>1
  <2>2. ASSUME NEW l \in Callers, chain'[l] = "timer" PROVE chain[l] = "timer"
    BY <1>0, <1>2, <2>2 DEF Opens, ChainTyped
  <2>. QED
    BY <1>2, <2>1, <2>2 DEF Opens, NoNewShutdown, QuietShape
<1>3. ASSUME NEW c \in Callers, Closes(c)
      PROVE  /\ Closing' /\ ~running'
             /\ \A l \in Callers : chain'[l] # "timer"
  BY <1>3 DEF Closes, QuietShape
<1>4. ASSUME NEW l \in Callers, PingEnds(l), NoNewShutdown
      PROVE  /\ \A c \in Callers : ShuttingDown(c)' => Closing'
             /\ Closing' => ~running' /\ \A k \in Callers : chain'[k] # "timer"
             /\ \A k \in Callers : chain'[k] = "timer" => k \in timer'
  <2>1. reopened = 0 /\ (Closing' <=> Closing) /\ running' = running
    BY <1>4 DEF PingEnds, others, Closing
  <2>2. \A k \in Callers \ {l} : chain'[k] = chain[k]
    BY <1>0, <1>4 DEF PingEnds, ChainTyped
  <2>3. ASSUME Closing PROVE ~running' /\ \A k \in Callers : chain'[k] # "timer"
    <3>1. ~running /\ \A k \in Callers : chain[k] # "timer"
      BY <2>1, <2>3 DEF QuietShape
    <3>2. chain'[l] = "done"
      BY <1>0, <1>4, <3>1 DEF PingEnds, ChainTyped
    <3>. QED
      BY <2>1, <2>2, <3>1, <3>2
  <2>4. ASSUME NEW k \in Callers, chain'[k] = "timer" PROVE k \in timer'
    <3>1. CASE k = l
      BY <1>0, <1>4, <2>4, <3>1 DEF PingEnds, ChainTyped
    <3>2. CASE k # l
      <4>1. chain[k] = "timer" /\ k \in timer
        BY <2>1, <2>2, <2>4, <3>2 DEF QuietShape
      <4>2. chain[l] \in {"ping", "refused"}
        BY <1>4 DEF PingEnds
      <4>3. l \in Active /\ k \in Active /\ Active \in SUBSET Callers
        BY <4>1, <4>2 DEF Active
      <4>4. ~(Cardinality(Active) <= 1)
        BY <3>2, <4>3, Chains
      <4>5. Cardinality(Active) \in Nat
        BY <4>3, Chains
      <4>. QED
        BY <2>1, <4>4, <4>5 DEF ChainShape
    <3>. QED
      BY <3>1, <3>2
  <2>. QED
    BY <1>4, <2>1, <2>3, <2>4 DEF NoNewShutdown, QuietShape
<1>5. ASSUME NEW l \in Callers, Ticks(l), NoNewShutdown
      PROVE  /\ \A c \in Callers : ShuttingDown(c)' => Closing'
             /\ Closing' => ~running' /\ \A k \in Callers : chain'[k] # "timer"
             /\ \A k \in Callers : chain'[k] = "timer" => k \in timer'
  <2>1. reopened = 0 /\ (Closing' <=> Closing) /\ running' = running /\ timer' = timer
    BY <1>5 DEF Ticks, others, Closing
  <2>2. ASSUME NEW k \in Callers, chain'[k] = "timer" PROVE chain[k] = "timer"
    BY <1>0, <1>5, <2>2 DEF Ticks, ChainTyped
  <2>. QED
    BY <1>5, <2>1, <2>2 DEF NoNewShutdown, QuietShape
<1>6. CASE NoNewShutdown /\ Nothing
  BY <1>6 DEF NoNewShutdown, Nothing, others, Closing, QuietShape
<1>. QED
  BY <1>1, <1>2, <1>3, <1>4, <1>5, <1>6 DEF Effect

(* From the claim of a shutdown on, nothing beats any more unless the      *)
(* handle was reopened (gameflow.ts:139-141, gameflow.gd:169-171).         *)
THEOREM QuietOnceClosed == Spec => []ClosedStaysQuiet
<1>1. Init => QuietShape
  BY DEF Init, TypeScript!Init, Godot!Init, QuietShape, ShuttingDown, Closing
<1>2. TypeOK /\ GodotShape /\ ChainShape /\ QuietShape /\ [Next]_vars => QuietShape'
  BY StepEffects, QuietStep
<1>3. QuietShape => ClosedStaysQuiet
  BY DEF QuietShape, ClosedStaysQuiet
<1>. QED
  BY <1>1, <1>2, <1>3, TypeCorrect, GodotShapeHolds, ChainsAreCounted, PTL DEF Spec
=============================================================================
