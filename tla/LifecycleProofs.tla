-------------------------- MODULE LifecycleProofs --------------------------
(***************************************************************************)
(* The safety properties of Lifecycle, for every number of callers and     *)
(* every threshold.                                                        *)
(*                                                                         *)
(* None of them is inductive alone.  The strengthening ties each program   *)
(* counter to its call (CallShape), the shutdown sequence to the state and *)
(* the request counter (OneCloser), readiness to the runtime's answer      *)
(* (EarnedShape), the alarm flag to the failure counter (AlarmShape), and  *)
(* a call begun after the shutdown to the two steps it can still take      *)
(* (ClosedShape).                                                          *)
(***************************************************************************)
EXTENDS Lifecycle, TLAPS

(* c has claimed the shutdown and has not stored SHUTDOWN yet. *)
Unsent(c) == pc[c] \in {"stop_health", "stop_watch", "send_shutdown"}

Closing(c) ==
  Unsent(c) \/ pc[c] = "store" \/ (pc[c] = "wait" /\ op[c] = "shutdown")

CallShape ==
  \A c \in Callers :
    /\ pc[c] \in {"ready_load", "ready_cas", "ready_start"} => op[c] = "ready"
    /\ pc[c] \in {"claim_load", "claim_cas"} => op[c] = "shutdown"
    /\ (Unsent(c) \/ pc[c] = "store") => op[c] = "shutdown"
    /\ pc[c] \in {"entry", "guard"} => op[c] # "shutdown"
    /\ pc[c] = "claim_cas" => seen[c] < SHUTTING_DOWN
    /\ op[c] = "none" => pc[c] = "idle"

OneCloser ==
  /\ \A c \in Callers : Closing(c) => state = SHUTTING_DOWN
  /\ \A c, d \in Callers : Closing(c) /\ Closing(d) => c = d
  /\ \A c \in Callers : Unsent(c) => shutdownRequests = 0
  /\ state < SHUTTING_DOWN => shutdownRequests = 0
  /\ shutdownRequests <= 1

EarnedShape ==
  /\ \A c \in Callers : pc[c] \in {"ready_cas", "ready_start"} => readyTold
  /\ \A c \in Callers : pc[c] = "ready_start" => state >= READY
  /\ state = READY => readyTold
  /\ \A l \in Callers : loopAt[l] # "none" => readyTold

AlarmShape ==
  \A l \in Callers :
    /\ degraded[l] <=> fails[l] = DegradedThreshold
    /\ alarms[l] = IF fails[l] = DegradedThreshold THEN 1 ELSE 0

ClosedShape ==
  \A c \in Callers :
    began[c] = SHUTDOWN =>
      /\ state = SHUTDOWN
      /\ op[c] # "shutdown" =>
           /\ pc[c] \in {"idle", "entry", "guard"}
           /\ res[c] \in {"none", "NotConnected"}

USE DEF CONNECTED, READY, SHUTTING_DOWN, SHUTDOWN

-----------------------------------------------------------------------------
(* The handle is always well-typed: no step leaves a variable outside its  *)
(* domain, in particular the state stays one of the four of gameflow.rs.   *)
THEOREM TypeCorrect == Spec => []TypeOK
<1>1. Init => TypeOK
  <2> SUFFICES ASSUME Init PROVE TypeOK
    OBVIOUS
  <2>1. 0 \in 0..DegradedThreshold
    BY ThresholdAssumption
  <2>2. fails \in [Callers -> 0..DegradedThreshold] /\ alarms \in [Callers -> 0..2]
    BY <2>1 DEF Init
  <2>3. degraded \in [Callers -> BOOLEAN]
    BY DEF Init
  <2>4. /\ pc \in [Callers -> PCs] /\ op \in [Callers -> Ops \cup {"none"}]
        /\ res \in [Callers -> Outcomes] /\ loopAt \in [Callers -> LoopPCs]
        /\ began \in [Callers -> CONNECTED..SHUTDOWN]
        /\ seen \in [Callers -> CONNECTED..SHUTDOWN]
    BY DEF Init, PCs, Ops, Outcomes, LoopPCs
  <2>5. /\ state \in CONNECTED..SHUTDOWN /\ shutdownRequests \in 0..2
        /\ handle \in SUBSET Callers /\ cancelled \in SUBSET Callers
    BY DEF Init
  <2>6. watchOpen \in BOOLEAN /\ readyTold \in BOOLEAN
    BY Zenon DEF Init
  <2>. QED
    BY <2>2, <2>3, <2>4, <2>5, <2>6, Zenon DEF Init, TypeOK
<1>2. TypeOK /\ [Next]_vars => TypeOK'
  <2> SUFFICES ASSUME TypeOK, [Next]_vars PROVE TypeOK'
    OBVIOUS
  <2> USE ThresholdAssumption
      DEF TypeOK, PCs, Ops, Outcomes, LoopPCs, wireVars, callVars, loopVars,
          Goto, Return
  <2>1. ASSUME NEW c \in Callers, NEW o \in Ops, Begin(c, o) PROVE TypeOK'
    BY <2>1 DEF Begin, EntryOf
  <2>2. ASSUME NEW c \in Callers, AssertUsable(c) PROVE TypeOK'
    BY <2>2 DEF AssertUsable
  <2>3. ASSUME NEW c \in Callers, ReadyLoad(c) PROVE TypeOK'
    BY <2>3 DEF ReadyLoad
  <2>4. ASSUME NEW c \in Callers, Guard(c) PROVE TypeOK'
    BY <2>4 DEF Guard
  <2>5. ASSUME NEW c \in Callers, Answer(c) PROVE TypeOK'
    BY <2>5 DEF Answer, AfterOk, AfterErr, CarriedOut
  <2>6. ASSUME NEW c \in Callers, ReadyCas(c) PROVE TypeOK'
    <3>1. CASE state = CONNECTED /\ mode = "Sidecar"
      BY <2>6, <3>1 DEF ReadyCas
    <3>2. CASE state = CONNECTED /\ mode # "Sidecar"
      BY <2>6, <3>2 DEF ReadyCas
    <3>3. CASE state # CONNECTED
      BY <2>6, <3>3 DEF ReadyCas
    <3>. QED
      BY <3>1, <3>2, <3>3
  <2>7. ASSUME NEW c \in Callers, ReadyStart(c) PROVE TypeOK'
    BY <2>7 DEF ReadyStart, HealthStart
  <2>8. ASSUME NEW c \in Callers, ClaimLoad(c) PROVE TypeOK'
    BY <2>8 DEF ClaimLoad
  <2>9. ASSUME NEW c \in Callers, ClaimCas(c) PROVE TypeOK'
    BY <2>9 DEF ClaimCas, LeaveCas
  <2>10. ASSUME NEW c \in Callers, StopHealth(c) PROVE TypeOK'
    BY <2>10 DEF StopHealth, HealthStop
  <2>11. ASSUME NEW c \in Callers, StopWatch(c) PROVE TypeOK'
    BY <2>11 DEF StopWatch
  <2>12. ASSUME NEW c \in Callers, SendShutdown(c) PROVE TypeOK'
    BY <2>12 DEF SendShutdown
  <2>13. ASSUME NEW c \in Callers, StoreShutdown(c) PROVE TypeOK'
    BY <2>13 DEF StoreShutdown
  <2>14. ASSUME NEW l \in Callers, LoopStep(l) PROVE TypeOK'
    <3> USE DEF LoopGoto, LoopOnly
    <3>1. CASE LoopPing(l)
      BY <3>1 DEF LoopPing
    <3>2. CASE LoopSettle(l)
      BY <3>2 DEF LoopSettle
    <3>3. CASE LoopOk(l)
      BY <3>3 DEF LoopOk
    <3>4. CASE LoopErr(l)
      <4>1. fails' \in [Callers -> 0..DegradedThreshold]
        BY <3>4 DEF LoopErr
      <4>2. alarms' \in [Callers -> 0..2]
        BY <3>4 DEF LoopErr
      <4>3. \/ degraded' = [degraded EXCEPT ![l] = TRUE]
            \/ degraded' = degraded
        BY <3>4, Zenon DEF LoopErr
      <4>4. degraded' \in [Callers -> BOOLEAN]
        BY <4>3
      <4>. QED
        BY <3>4, <4>1, <4>2, <4>4 DEF LoopErr
    <3>5. CASE LoopWake(l)
      BY <3>5 DEF LoopWake
    <3>6. CASE LoopExit(l)
      BY <3>6 DEF LoopExit
    <3>. QED
      BY <2>14, <3>1, <3>2, <3>3, <3>4, <3>5, <3>6 DEF LoopStep
  <2>15. CASE UNCHANGED vars
    BY <2>15 DEF vars
  <2>. QED
    BY <2>1, <2>2, <2>3, <2>4, <2>5, <2>6, <2>7, <2>8, <2>9, <2>10, <2>11,
       <2>12, <2>13, <2>14, <2>15 DEF Next, CallStep
<1>. QED
  BY <1>1, <1>2, PTL DEF Spec
-----------------------------------------------------------------------------
(* The shape of a call, and the one caller that shuts the handle down. *)
ShutdownInv == CallShape /\ OneCloser

LEMMA ShutdownInvariant == Spec => []ShutdownInv
<1>1. Init => ShutdownInv
  BY DEF Init, ShutdownInv, CallShape, OneCloser, Unsent, Closing
<1>2. TypeOK /\ ShutdownInv /\ [Next]_vars => ShutdownInv'
  <2> SUFFICES ASSUME TypeOK, ShutdownInv, [Next]_vars PROVE ShutdownInv'
    OBVIOUS
  <2> USE ThresholdAssumption
      DEF TypeOK, ShutdownInv, CallShape, OneCloser, Unsent, Closing, wireVars, callVars, loopVars, Goto, Return
  <2>1. ASSUME NEW c \in Callers, NEW o \in Ops, Begin(c, o) PROVE ShutdownInv'
    BY <2>1 DEF Begin, EntryOf, Ops
  <2>2. ASSUME NEW c \in Callers, AssertUsable(c) PROVE ShutdownInv'
    BY <2>2 DEF AssertUsable
  <2>3. ASSUME NEW c \in Callers, ReadyLoad(c) PROVE ShutdownInv'
    BY <2>3 DEF ReadyLoad
  <2>4. ASSUME NEW c \in Callers, Guard(c) PROVE ShutdownInv'
    BY <2>4 DEF Guard
  <2>5. ASSUME NEW c \in Callers, Answer(c) PROVE ShutdownInv'
    BY <2>5 DEF Answer, AfterOk, AfterErr, CarriedOut
  <2>6. ASSUME NEW c \in Callers, ReadyCas(c) PROVE ShutdownInv'
    BY <2>6 DEF ReadyCas
  <2>7. ASSUME NEW c \in Callers, ReadyStart(c) PROVE ShutdownInv'
    BY <2>7 DEF ReadyStart, HealthStart
  <2>8. ASSUME NEW c \in Callers, ClaimLoad(c) PROVE ShutdownInv'
    BY <2>8 DEF ClaimLoad
  <2>9. ASSUME NEW c \in Callers, ClaimCas(c) PROVE ShutdownInv'
    BY <2>9 DEF ClaimCas, LeaveCas
  <2>10. ASSUME NEW c \in Callers, StopHealth(c) PROVE ShutdownInv'
    BY <2>10 DEF StopHealth, HealthStop
  <2>11. ASSUME NEW c \in Callers, StopWatch(c) PROVE ShutdownInv'
    BY <2>11 DEF StopWatch
  <2>12. ASSUME NEW c \in Callers, SendShutdown(c) PROVE ShutdownInv'
    BY <2>12 DEF SendShutdown
  <2>13. ASSUME NEW c \in Callers, StoreShutdown(c) PROVE ShutdownInv'
    BY <2>13 DEF StoreShutdown
  <2>14. ASSUME NEW l \in Callers, LoopStep(l) PROVE ShutdownInv'
    BY <2>14 DEF LoopStep, LoopPing, LoopSettle, LoopOk, LoopErr, LoopWake,
                 LoopExit, LoopGoto, LoopOnly
  <2>15. CASE UNCHANGED vars
    BY <2>15 DEF vars
  <2>. QED
    BY <2>1, <2>2, <2>3, <2>4, <2>5, <2>6, <2>7, <2>8, <2>9, <2>10,
       <2>11, <2>12, <2>13, <2>14, <2>15
       DEF Next, CallStep
<1>. QED
  BY <1>1, <1>2, TypeCorrect, PTL DEF Spec

(* However many tasks call shutdown(), the runtime is sent one request.    *)
THEOREM ShutdownSentOnce == Spec => []OneShutdownRequest
<1>1. ShutdownInv => OneShutdownRequest
  BY DEF ShutdownInv, OneCloser, OneShutdownRequest
<1>. QED
  BY <1>1, ShutdownInvariant, PTL

(* The state word only moves forward: the two exchanges start from the     *)
(* value they compare with, and the final store finds SHUTTING_DOWN.       *)
THEOREM StateAdvances == Spec => StateOnlyAdvances
<1>1. TypeOK /\ ShutdownInv /\ [Next]_vars => [state' >= state]_state
  <2> SUFFICES ASSUME TypeOK, ShutdownInv, [Next]_vars, state' # state
               PROVE  state' >= state
    BY DEF TypeOK
  <2>1. ASSUME NEW c \in Callers, ReadyCas(c) PROVE state' >= state
    BY <2>1 DEF ReadyCas, TypeOK
  <2>2. ASSUME NEW c \in Callers, ClaimCas(c) PROVE state' >= state
    BY <2>2 DEF ClaimCas, LeaveCas, TypeOK, ShutdownInv, CallShape
  <2>3. ASSUME NEW c \in Callers, StoreShutdown(c) PROVE state' >= state
    BY <2>3 DEF StoreShutdown, TypeOK
  <2>4. ASSUME NEW l \in Callers, LoopStep(l) PROVE state' = state
    BY <2>4 DEF LoopStep, LoopPing, LoopSettle, LoopOk, LoopErr, LoopWake,
                LoopExit, LoopOnly
  <2>5. ASSUME NEW c \in Callers, CallStep(c),
               ~ReadyCas(c), ~ClaimCas(c), ~StoreShutdown(c)
        PROVE  state' = state
    BY <2>5 DEF CallStep, AssertUsable, ReadyLoad, Guard, Answer, ReadyStart,
                ClaimLoad, StopHealth, StopWatch, SendShutdown
  <2>6. ASSUME NEW c \in Callers, NEW o \in Ops, Begin(c, o) PROVE state' = state
    BY <2>6 DEF Begin
  <2>. QED
    BY <2>1, <2>2, <2>3, <2>4, <2>5, <2>6 DEF Next, vars
<1>. QED
  BY <1>1, TypeCorrect, ShutdownInvariant, PTL DEF Spec, StateOnlyAdvances

(* A running health loop is always within reach of the next stop(). *)
THEOREM LoopsStayReachable == Spec => []NoUncancellableLoop
<1>1. Init => NoUncancellableLoop
  BY DEF Init, NoUncancellableLoop, Alive
<1>2. TypeOK /\ NoUncancellableLoop /\ [Next]_vars => NoUncancellableLoop'
  <2> SUFFICES ASSUME TypeOK, NoUncancellableLoop, [Next]_vars PROVE NoUncancellableLoop'
    OBVIOUS
  <2> USE ThresholdAssumption
      DEF TypeOK, NoUncancellableLoop, Alive,
          wireVars, callVars, loopVars, Goto, Return
  <2>1. ASSUME NEW c \in Callers, NEW o \in Ops, Begin(c, o) PROVE NoUncancellableLoop'
    BY <2>1 DEF Begin, EntryOf, Ops
  <2>2. ASSUME NEW c \in Callers, AssertUsable(c) PROVE NoUncancellableLoop'
    BY <2>2 DEF AssertUsable
  <2>3. ASSUME NEW c \in Callers, ReadyLoad(c) PROVE NoUncancellableLoop'
    BY <2>3 DEF ReadyLoad
  <2>4. ASSUME NEW c \in Callers, Guard(c) PROVE NoUncancellableLoop'
    BY <2>4 DEF Guard, GuardOpen
  <2>5. ASSUME NEW c \in Callers, Answer(c) PROVE NoUncancellableLoop'
    BY <2>5 DEF Answer, AfterOk, AfterErr, CarriedOut
  <2>6. ASSUME NEW c \in Callers, ReadyCas(c) PROVE NoUncancellableLoop'
    BY <2>6 DEF ReadyCas
  <2>7. ASSUME NEW c \in Callers, ReadyStart(c) PROVE NoUncancellableLoop'
    BY <2>7 DEF ReadyStart, HealthStart
  <2>8. ASSUME NEW c \in Callers, ClaimLoad(c) PROVE NoUncancellableLoop'
    BY <2>8 DEF ClaimLoad
  <2>9. ASSUME NEW c \in Callers, ClaimCas(c) PROVE NoUncancellableLoop'
    BY <2>9 DEF ClaimCas, LeaveCas
  <2>10. ASSUME NEW c \in Callers, StopHealth(c) PROVE NoUncancellableLoop'
    BY <2>10 DEF StopHealth, HealthStop
  <2>11. ASSUME NEW c \in Callers, StopWatch(c) PROVE NoUncancellableLoop'
    BY <2>11 DEF StopWatch
  <2>12. ASSUME NEW c \in Callers, SendShutdown(c) PROVE NoUncancellableLoop'
    BY <2>12 DEF SendShutdown
  <2>13. ASSUME NEW c \in Callers, StoreShutdown(c) PROVE NoUncancellableLoop'
    BY <2>13 DEF StoreShutdown
  <2>14. ASSUME NEW l \in Callers, LoopStep(l) PROVE NoUncancellableLoop'
    BY <2>14 DEF LoopStep, LoopPing, LoopSettle, LoopOk, LoopErr, LoopWake,
                 LoopExit, LoopGoto, LoopOnly
  <2>15. CASE UNCHANGED vars
    BY <2>15 DEF vars
  <2>. QED
    BY <2>1, <2>2, <2>3, <2>4, <2>5, <2>6, <2>7, <2>8, <2>9, <2>10,
       <2>11, <2>12, <2>13, <2>14, <2>15
       DEF Next, CallStep
<1>. QED
  BY <1>1, <1>2, TypeCorrect, PTL DEF Spec

(* What ready() does after its request, it does on the runtime's word. *)
LEMMA EarnedInvariant == Spec => []EarnedShape
<1>1. Init => EarnedShape
  BY DEF Init, EarnedShape
<1>2. TypeOK /\ ShutdownInv /\ EarnedShape /\ [Next]_vars => EarnedShape'
  <2> SUFFICES ASSUME TypeOK, ShutdownInv, EarnedShape, [Next]_vars PROVE EarnedShape'
    OBVIOUS
  <2> USE ThresholdAssumption
      DEF TypeOK, ShutdownInv, CallShape, Unsent, EarnedShape,
          wireVars, callVars, loopVars, Goto, Return
  <2>1. ASSUME NEW c \in Callers, NEW o \in Ops, Begin(c, o) PROVE EarnedShape'
    BY <2>1 DEF Begin, EntryOf, Ops
  <2>2. ASSUME NEW c \in Callers, AssertUsable(c) PROVE EarnedShape'
    BY <2>2 DEF AssertUsable
  <2>3. ASSUME NEW c \in Callers, ReadyLoad(c) PROVE EarnedShape'
    BY <2>3 DEF ReadyLoad
  <2>4. ASSUME NEW c \in Callers, Guard(c) PROVE EarnedShape'
    BY <2>4 DEF Guard, GuardOpen
  <2>5. ASSUME NEW c \in Callers, Answer(c) PROVE EarnedShape'
    BY <2>5 DEF Answer, AfterOk, AfterErr, CarriedOut
  <2>6. ASSUME NEW c \in Callers, ReadyCas(c) PROVE EarnedShape'
    BY <2>6 DEF ReadyCas
  <2>7. ASSUME NEW c \in Callers, ReadyStart(c) PROVE EarnedShape'
    BY <2>7 DEF ReadyStart, HealthStart
  <2>8. ASSUME NEW c \in Callers, ClaimLoad(c) PROVE EarnedShape'
    BY <2>8 DEF ClaimLoad
  <2>9. ASSUME NEW c \in Callers, ClaimCas(c) PROVE EarnedShape'
    BY <2>9 DEF ClaimCas, LeaveCas
  <2>10. ASSUME NEW c \in Callers, StopHealth(c) PROVE EarnedShape'
    BY <2>10 DEF StopHealth, HealthStop
  <2>11. ASSUME NEW c \in Callers, StopWatch(c) PROVE EarnedShape'
    BY <2>11 DEF StopWatch
  <2>12. ASSUME NEW c \in Callers, SendShutdown(c) PROVE EarnedShape'
    BY <2>12 DEF SendShutdown
  <2>13. ASSUME NEW c \in Callers, StoreShutdown(c) PROVE EarnedShape'
    BY <2>13 DEF StoreShutdown
  <2>14. ASSUME NEW l \in Callers, LoopStep(l) PROVE EarnedShape'
    BY <2>14 DEF LoopStep, LoopPing, LoopSettle, LoopOk, LoopErr, LoopWake,
                 LoopExit, LoopGoto, LoopOnly
  <2>15. CASE UNCHANGED vars
    BY <2>15 DEF vars
  <2>. QED
    BY <2>1, <2>2, <2>3, <2>4, <2>5, <2>6, <2>7, <2>8, <2>9, <2>10,
       <2>11, <2>12, <2>13, <2>14, <2>15
       DEF Next, CallStep
<1>. QED
  BY <1>1, <1>2, TypeCorrect, ShutdownInvariant, PTL DEF Spec

(* READY and the health loop presuppose a /ready the runtime carried out. *)
THEOREM ReadinessIsEarned == Spec => []ReadyIsEarned
<1>1. EarnedShape => ReadyIsEarned
  BY DEF EarnedShape, ReadyIsEarned
<1>. QED
  BY <1>1, EarnedInvariant, PTL

(* A call begun after the shutdown has two steps left to take. *)
LEMMA ClosedInvariant == Spec => []ClosedShape
<1>1. Init => ClosedShape
  BY DEF Init, ClosedShape
<1>2. TypeOK /\ ShutdownInv /\ ClosedShape /\ [Next]_vars => ClosedShape'
  <2> SUFFICES ASSUME TypeOK, ShutdownInv, ClosedShape, [Next]_vars PROVE ClosedShape'
    OBVIOUS
  <2> USE ThresholdAssumption
      DEF TypeOK, ShutdownInv, CallShape, Unsent, ClosedShape,
          wireVars, callVars, loopVars, Goto, Return
  <2>1. ASSUME NEW c \in Callers, NEW o \in Ops, Begin(c, o) PROVE ClosedShape'
    BY <2>1 DEF Begin, EntryOf, Ops
  <2>2. ASSUME NEW c \in Callers, AssertUsable(c) PROVE ClosedShape'
    BY <2>2 DEF AssertUsable
  <2>3. ASSUME NEW c \in Callers, ReadyLoad(c) PROVE ClosedShape'
    BY <2>3 DEF ReadyLoad
  <2>4. ASSUME NEW c \in Callers, Guard(c) PROVE ClosedShape'
    BY <2>4 DEF Guard, GuardOpen
  <2>5. ASSUME NEW c \in Callers, Answer(c) PROVE ClosedShape'
    BY <2>5 DEF Answer, AfterOk, AfterErr, CarriedOut
  <2>6. ASSUME NEW c \in Callers, ReadyCas(c) PROVE ClosedShape'
    BY <2>6 DEF ReadyCas
  <2>7. ASSUME NEW c \in Callers, ReadyStart(c) PROVE ClosedShape'
    BY <2>7 DEF ReadyStart, HealthStart
  <2>8. ASSUME NEW c \in Callers, ClaimLoad(c) PROVE ClosedShape'
    BY <2>8 DEF ClaimLoad
  <2>9. ASSUME NEW c \in Callers, ClaimCas(c) PROVE ClosedShape'
    BY <2>9 DEF ClaimCas, LeaveCas
  <2>10. ASSUME NEW c \in Callers, StopHealth(c) PROVE ClosedShape'
    BY <2>10 DEF StopHealth, HealthStop
  <2>11. ASSUME NEW c \in Callers, StopWatch(c) PROVE ClosedShape'
    BY <2>11 DEF StopWatch
  <2>12. ASSUME NEW c \in Callers, SendShutdown(c) PROVE ClosedShape'
    BY <2>12 DEF SendShutdown
  <2>13. ASSUME NEW c \in Callers, StoreShutdown(c) PROVE ClosedShape'
    BY <2>13 DEF StoreShutdown
  <2>14. ASSUME NEW l \in Callers, LoopStep(l) PROVE ClosedShape'
    BY <2>14 DEF LoopStep, LoopPing, LoopSettle, LoopOk, LoopErr, LoopWake,
                 LoopExit, LoopGoto, LoopOnly
  <2>15. CASE UNCHANGED vars
    BY <2>15 DEF vars
  <2>. QED
    BY <2>1, <2>2, <2>3, <2>4, <2>5, <2>6, <2>7, <2>8, <2>9, <2>10,
       <2>11, <2>12, <2>13, <2>14, <2>15
       DEF Next, CallStep
<1>. QED
  BY <1>1, <1>2, TypeCorrect, ShutdownInvariant, PTL DEF Spec

(* A call begun after the shutdown sends nothing and fails. *)
THEOREM ClosedHandleStaysClosed == Spec => []ClosedForGood
<1>1. ClosedShape => ClosedForGood
  BY DEF ClosedShape, ClosedForGood
<1>. QED
  BY <1>1, ClosedInvariant, PTL

(* The callback runs once per outage, at the threshold: the flag, the      *)
(* failure counter and the number of callbacks move together.              *)
THEOREM AlarmOncePerOutage == Spec => []OneAlarmPerOutage
<1>1. Init => AlarmShape
  BY ThresholdAssumption DEF Init, AlarmShape
<1>2. TypeOK /\ AlarmShape /\ [Next]_vars => AlarmShape'
  <2> SUFFICES ASSUME TypeOK, AlarmShape, [Next]_vars PROVE AlarmShape'
    OBVIOUS
  <2>1. ASSUME UNCHANGED <<fails, degraded, alarms>> PROVE AlarmShape'
    BY <2>1 DEF AlarmShape
  <2>2. ASSUME NEW l \in Callers, LoopOk(l) PROVE AlarmShape'
    <3>1. /\ fails' = [fails EXCEPT ![l] = 0]
          /\ degraded' = [degraded EXCEPT ![l] = FALSE]
          /\ alarms' = [alarms EXCEPT ![l] = 0]
      BY <2>2 DEF LoopOk
    <3>. QED
      BY <3>1, ThresholdAssumption DEF AlarmShape, TypeOK
  <2>3. ASSUME NEW l \in Callers, LoopErr(l) PROVE AlarmShape'
    <3> DEFINE n == IF fails[l] < DegradedThreshold THEN fails[l] + 1
                                                    ELSE DegradedThreshold
    <3>1. fails' = [fails EXCEPT ![l] = n]
      BY <2>3 DEF LoopErr
    <3>2. fails[l] \in 0..DegradedThreshold /\ fails[l] \in Nat /\ n \in Nat
      BY ThresholdAssumption DEF TypeOK
    <3>3. CASE RaisesAlarm(l, n)
      <4>1. degraded' = [degraded EXCEPT ![l] = TRUE]
        BY <2>3, <3>3 DEF LoopErr
      <4>2. alarms' = [alarms EXCEPT ![l] = IF @ < 2 THEN @ + 1 ELSE 2]
        BY <2>3, <3>3 DEF LoopErr
      <4>3. n = DegradedThreshold /\ fails[l] # DegradedThreshold /\ alarms[l] = 0
        BY <3>2, <3>3, ThresholdAssumption DEF RaisesAlarm, AlarmShape, TypeOK
      <4>. QED
        BY <3>1, <4>1, <4>2, <4>3 DEF AlarmShape, TypeOK
    <3>4. CASE ~RaisesAlarm(l, n)
      <4>1. degraded' = degraded /\ alarms' = alarms
        BY <2>3, <3>4 DEF LoopErr
      <4>2. n = DegradedThreshold <=> fails[l] = DegradedThreshold
        BY <3>2, <3>4, ThresholdAssumption DEF RaisesAlarm, AlarmShape
      <4>. QED
        BY <3>1, <4>1, <4>2 DEF AlarmShape, TypeOK
    <3>. QED
      BY <3>3, <3>4
  <2>4. ASSUME NEW l \in Callers, LoopStep(l), ~LoopOk(l), ~LoopErr(l)
        PROVE  UNCHANGED <<fails, degraded, alarms>>
    BY <2>4 DEF LoopStep, LoopPing, LoopSettle, LoopWake, LoopExit
  <2>5. ASSUME NEW c \in Callers, CallStep(c)
        PROVE  UNCHANGED <<fails, degraded, alarms>>
    BY <2>5 DEF CallStep, AssertUsable, ReadyLoad, Guard, Answer, ReadyCas,
                ReadyStart, HealthStart, ClaimLoad, ClaimCas, StopHealth,
                HealthStop, StopWatch, SendShutdown, StoreShutdown, loopVars
  <2>6. ASSUME NEW c \in Callers, NEW o \in Ops, Begin(c, o)
        PROVE  UNCHANGED <<fails, degraded, alarms>>
    BY <2>6 DEF Begin, loopVars
  <2>. QED
    BY <2>1, <2>2, <2>3, <2>4, <2>5, <2>6 DEF Next, vars, loopVars
<1>3. AlarmShape => OneAlarmPerOutage
  BY DEF AlarmShape, OneAlarmPerOutage
<1>. QED
  BY <1>1, <1>2, <1>3, TypeCorrect, PTL DEF Spec
-----------------------------------------------------------------------------
(* Lifecycle implements Handle. *)

(* Only the stage of the caller that takes a step changes. *)
LEMMA StageMoves ==
  ASSUME NEW c \in Callers, NEW to,
         \A d \in Callers : d # c =>
           /\ pc'[d] = pc[d] /\ op'[d] = op[d] /\ began'[d] = began[d],
         StageOf(c)' = to
  PROVE  Stage' = [Stage EXCEPT ![c] = to]
  BY DEF Stage, StageOf

(* A step that leaves every stage as it is. *)
LEMMA StageStays ==
  ASSUME NEW c \in Callers,
         \A d \in Callers : d # c =>
           /\ pc'[d] = pc[d] /\ op'[d] = op[d] /\ began'[d] = began[d],
         StageOf(c)' = StageOf(c)
  PROVE  Stage' = Stage
  BY DEF Stage, StageOf

Inv == TypeOK /\ ShutdownInv /\ EarnedShape /\ ClosedShape

(* A caller goes on without a change of its stage. *)
LEMMA GotoStays ==
  ASSUME Inv, NEW c \in Callers, NEW from, NEW to, Goto(c, from, to),
         from # "idle", to # "idle",
         op[c] = "shutdown" =>
           (from \in {"claim_load", "claim_cas"} <=> to \in {"claim_load", "claim_cas"})
  PROVE  Stage' = Stage /\ res' = res /\ op' = op
<1>1. StageOf(c)' = StageOf(c)
  BY DEF Goto, StageOf, Inv, TypeOK
<1>. QED
  BY <1>1, StageStays DEF Goto, Inv, TypeOK

(* A caller returns. *)
LEMMA ReturnAnswers ==
  ASSUME Inv, NEW c \in Callers, NEW from, NEW a, Return(c, from, a)
  PROVE  /\ pc[c] = from /\ op' = op
         /\ Stage' = [Stage EXCEPT ![c] = "idle"]
         /\ res' = [res EXCEPT ![c] = a]
         /\ H!Answer(c, Stage[c], a)
<1>1. StageOf(c)' = "idle"
  BY DEF Return, StageOf, Inv, TypeOK
<1>2. Stage' = [Stage EXCEPT ![c] = "idle"]
  BY <1>1, StageMoves DEF Return, Inv, TypeOK
<1>. QED
  BY <1>2 DEF Return, H!Answer

(* Whatever the tasks that share the handle do, they see the handle of     *)
(* module Handle.                                                          *)
THEOREM LifecycleImplementsHandle == Spec => ImplementsHandle
<1>1. Init => H!Init
  BY DEF Init, H!Init, Stage, StageOf, CONNECTED, H!CONNECTED
<1>2. Inv /\ [Next]_vars => [H!Next]_(H!vars)
  <2> SUFFICES ASSUME Inv, [Next]_vars PROVE H!Next \/ UNCHANGED H!vars
    OBVIOUS
  <2> USE DEF H!CONNECTED, H!READY, H!SHUTTING_DOWN, H!SHUTDOWN
  <2>1. ASSUME NEW c \in Callers, NEW o \in Ops, Begin(c, o)
        PROVE  H!Next \/ UNCHANGED H!vars
    <3>1. StageOf(c)' = IF state = SHUTDOWN /\ o # "shutdown" THEN "refused" ELSE "open"
      BY <2>1 DEF Begin, EntryOf, StageOf, Inv, TypeOK, Ops
    <3>2. Stage[c] = "idle"
      BY <2>1 DEF Begin, Stage, StageOf
    <3>3. Stage' = [Stage EXCEPT ![c] = StageOf(c)']
      BY <2>1, StageMoves DEF Begin, Inv, TypeOK
    <3>4. H!Open(c, o)
      BY <2>1, <3>1, <3>2, <3>3 DEF H!Open, Begin, wireVars
    <3>. QED
      BY <3>4 DEF H!Next, H!Ops, Ops
  <2>2. ASSUME NEW c \in Callers, AssertUsable(c) PROVE H!Next \/ UNCHANGED H!vars
    <3>0. /\ UNCHANGED <<state, readyTold>>
          /\ pc[c] = "entry" /\ op[c] # "shutdown"
      BY <2>2 DEF AssertUsable, Goto, Return, wireVars, Inv, ShutdownInv, CallShape
    <3>1. CASE state < SHUTTING_DOWN
      <4>1. \E to \in {"ready_load", "guard"} : Goto(c, "entry", to)
        BY <2>2, <3>1 DEF AssertUsable, Inv, TypeOK
      <4>2. Stage' = Stage /\ res' = res /\ op' = op
        BY <3>0, <4>1, GotoStays
      <4>. QED
        BY <3>0, <4>2 DEF H!vars
    <3>2. CASE state >= SHUTTING_DOWN
      <4>1. Return(c, "entry", "NotConnected")
        BY <2>2, <3>2 DEF AssertUsable, Inv, TypeOK
      <4>2. Stage[c] \in {"open", "refused"}
        BY <3>0 DEF Stage, StageOf
      <4>3. H!Return(c)
        BY <3>0, <3>2, <4>1, <4>2, ReturnAnswers DEF H!Return
      <4>. QED
        BY <4>3 DEF H!Next, H!Step
    <3>. QED
      BY <3>1, <3>2 DEF Inv, TypeOK
  <2>3. ASSUME NEW c \in Callers, ReadyLoad(c) PROVE H!Next \/ UNCHANGED H!vars
    <3>0. /\ UNCHANGED <<state, readyTold>>
          /\ pc[c] = "ready_load" /\ op[c] = "ready" /\ Stage[c] = "open"
      BY <2>3 DEF ReadyLoad, Goto, Return, wireVars, Inv, ShutdownInv, CallShape,
                  ClosedShape, Stage, StageOf
    <3>1. CASE Goto(c, "ready_load", "guard")
      BY <3>0, <3>1, GotoStays DEF H!vars
    <3>2. CASE state = READY /\ Return(c, "ready_load", "Ok")
      <4>1. H!Return(c)
        BY <3>0, <3>2, ReturnAnswers DEF H!Return, Inv, EarnedShape
      <4>. QED
        BY <4>1 DEF H!Next, H!Step
    <3>. QED
      BY <2>3, <3>1, <3>2 DEF ReadyLoad
  <2>4. ASSUME NEW c \in Callers, Guard(c) PROVE H!Next \/ UNCHANGED H!vars
    <3>0. /\ UNCHANGED <<state, readyTold>>
          /\ pc[c] = "guard" /\ op[c] # "shutdown"
      BY <2>4 DEF Guard, Goto, Return, wireVars, Inv, ShutdownInv, CallShape
    <3>1. CASE Goto(c, "guard", "wait")
      BY <3>0, <3>1, GotoStays DEF H!vars
    <3>2. CASE ~GuardOpen /\ Return(c, "guard", "NotConnected")
      <4>1. Stage[c] \in {"open", "refused"}
        BY <3>0 DEF Stage, StageOf
      <4>2. H!Return(c)
        BY <3>0, <3>2, <4>1, ReturnAnswers DEF H!Return, GuardOpen, Inv, TypeOK
      <4>. QED
        BY <4>2 DEF H!Next, H!Step
    <3>. QED
      BY <2>4, <3>1, <3>2 DEF Guard
  <2>5. ASSUME NEW c \in Callers, Answer(c) PROVE H!Next \/ UNCHANGED H!vars
    <3>0. state' = state /\ pc[c] = "wait"
      BY <2>5 DEF Answer
    <3>4. \/ CarriedOut(c) /\ AfterOk(c)
          \/ CarriedOut(c) /\ AfterErr(c)
          \/ UNCHANGED readyTold /\ AfterErr(c)
      BY <2>5, Zenon DEF Answer
    <3>5. op[c] # "ready" => UNCHANGED readyTold
      BY <3>4, Zenon DEF CarriedOut, Inv, TypeOK
    <3>1. CASE op[c] = "shutdown"
      <4>1. Goto(c, "wait", "store") /\ UNCHANGED readyTold
        BY <3>1, <3>4, <3>5 DEF AfterOk, AfterErr
      <4>. QED
        BY <3>0, <4>1, GotoStays DEF H!vars
    <3>2. CASE op[c] # "shutdown"
      <4>0. Stage[c] = "open"
        BY <3>0, <3>2 DEF Stage, StageOf, Inv, ClosedShape
      <4>1. CASE op[c] = "ready"
        <5>1. CASE Goto(c, "wait", "ready_cas") /\ CarriedOut(c)
          <6>1. H!Tell(c)
            BY <3>0, <4>0, <4>1, <5>1, GotoStays DEF H!Tell, CarriedOut
          <6>. QED
            BY <6>1 DEF H!Next, H!Step
        <5>2. CASE Return(c, "wait", "Err") /\ CarriedOut(c)
          <6>1. H!Tell(c)
            BY <3>0, <4>0, <4>1, <5>2, ReturnAnswers DEF H!Tell, CarriedOut
          <6>. QED
            BY <6>1 DEF H!Next, H!Step
        <5>3. CASE Return(c, "wait", "Err") /\ UNCHANGED readyTold
          <6>1. H!Return(c)
            BY <3>0, <4>0, <4>1, <5>3, ReturnAnswers DEF H!Return
          <6>. QED
            BY <6>1 DEF H!Next, H!Step
        <5>. QED
          BY <3>4, <4>1, <5>1, <5>2, <5>3 DEF AfterOk, AfterErr
      <4>2. CASE op[c] # "ready"
        <5>1. op[c] \in {"info", "players"}
          BY <3>0, <3>2, <4>2 DEF Ops, Inv, TypeOK, ShutdownInv, CallShape
        <5>2. \E a \in {"Ok", "Err"} : Return(c, "wait", a)
          BY <3>2, <3>4, <4>2 DEF AfterOk, AfterErr
        <5>3. H!Return(c)
          BY <3>0, <3>5, <4>0, <4>2, <5>1, <5>2, ReturnAnswers DEF H!Return
        <5>. QED
          BY <5>3 DEF H!Next, H!Step
      <4>. QED
        BY <4>1, <4>2
    <3>. QED
      BY <3>1, <3>2
  <2>6. ASSUME NEW c \in Callers, ReadyCas(c) PROVE H!Next \/ UNCHANGED H!vars
    <3>0. /\ UNCHANGED readyTold /\ pc[c] = "ready_cas" /\ readyTold
          /\ op[c] = "ready" /\ Stage[c] = "open"
      BY <2>6 DEF ReadyCas, Goto, Return, wireVars, Inv, ShutdownInv, CallShape,
                  EarnedShape, ClosedShape, Stage, StageOf
    <3>1. CASE state = CONNECTED
      <4>1. state' = READY
        BY <2>6, <3>1 DEF ReadyCas
      <4>2. \/ Goto(c, "ready_cas", "ready_start")
            \/ Return(c, "ready_cas", "Ok")
        BY <2>6, <3>1 DEF ReadyCas
      <4>3. H!BecomeReady(c)
        BY <3>0, <3>1, <4>1, <4>2, GotoStays, ReturnAnswers DEF H!BecomeReady
      <4>. QED
        BY <4>3 DEF H!Next, H!Step
    <3>2. CASE state # CONNECTED
      <4>1. /\ state' = state
            /\ \/ state >= READY /\ Return(c, "ready_cas", "Ok")
               \/ state >= SHUTTING_DOWN /\ Return(c, "ready_cas", "NotConnected")
        BY <2>6, <3>2 DEF ReadyCas
      <4>2. H!Return(c)
        BY <3>0, <4>1, ReturnAnswers DEF H!Return
      <4>. QED
        BY <4>2 DEF H!Next, H!Step
    <3>. QED
      BY <3>1, <3>2
  <2>7. ASSUME NEW c \in Callers, ReadyStart(c) PROVE H!Next \/ UNCHANGED H!vars
    <3>0. /\ UNCHANGED <<state, readyTold>> /\ readyTold /\ state >= READY
          /\ op[c] = "ready" /\ Stage[c] = "open" /\ Return(c, "ready_start", "Ok")
      BY <2>7 DEF ReadyStart, Return, wireVars, Inv, ShutdownInv, CallShape,
                  EarnedShape, ClosedShape, Stage, StageOf
    <3>1. H!Return(c)
      BY <3>0, ReturnAnswers DEF H!Return
    <3>. QED
      BY <3>1 DEF H!Next, H!Step
  <2>8. ASSUME NEW c \in Callers, ClaimLoad(c) PROVE H!Next \/ UNCHANGED H!vars
    <3>0. /\ UNCHANGED <<state, readyTold>> /\ pc[c] = "claim_load"
          /\ op[c] = "shutdown" /\ Stage[c] = "open"
      BY <2>8 DEF ClaimLoad, Return, wireVars, Inv, ShutdownInv, CallShape,
                  Stage, StageOf
    <3>1. CASE state >= SHUTTING_DOWN
      <4>1. Return(c, "claim_load", "Ok")
        BY <2>8, <3>1 DEF ClaimLoad, Inv, TypeOK
      <4>2. H!Return(c)
        BY <3>0, <3>1, <4>1, ReturnAnswers DEF H!Return
      <4>. QED
        BY <4>2 DEF H!Next, H!Step
    <3>2. CASE state < SHUTTING_DOWN
      <4>1. /\ pc' = [pc EXCEPT ![c] = "claim_cas"]
            /\ UNCHANGED <<op, res, began>>
        BY <2>8, <3>2 DEF ClaimLoad, Inv, TypeOK
      <4>2. StageOf(c)' = StageOf(c)
        BY <3>0, <4>1 DEF StageOf, Inv, TypeOK
      <4>3. Stage' = Stage
        BY <4>1, <4>2, StageStays DEF Inv, TypeOK
      <4>. QED
        BY <3>0, <4>1, <4>3 DEF H!vars
    <3>. QED
      BY <3>1, <3>2 DEF Inv, TypeOK
  <2>9. ASSUME NEW c \in Callers, ClaimCas(c) PROVE H!Next \/ UNCHANGED H!vars
    <3>0. /\ UNCHANGED readyTold /\ pc[c] = "claim_cas" /\ UNCHANGED <<op, res, began>>
          /\ op[c] = "shutdown" /\ Stage[c] = "open" /\ seen[c] < SHUTTING_DOWN
      BY <2>9 DEF ClaimCas, LeaveCas, wireVars, Inv, ShutdownInv, CallShape,
                  Stage, StageOf
    <3>1. CASE state = seen[c]
      <4>1. state' = SHUTTING_DOWN /\ pc' = [pc EXCEPT ![c] = "stop_health"]
        BY <2>9, <3>1 DEF ClaimCas, LeaveCas
      <4>2. StageOf(c)' = "claimed"
        BY <3>0, <4>1 DEF StageOf, Inv, TypeOK
      <4>3. Stage' = [Stage EXCEPT ![c] = "claimed"]
        BY <3>0, <4>1, <4>2, StageMoves DEF Inv, TypeOK
      <4>4. H!Claim(c)
        BY <3>0, <3>1, <4>1, <4>3 DEF H!Claim
      <4>. QED
        BY <4>4 DEF H!Next, H!Step
    <3>2. CASE state # seen[c]
      <4>1. state' = state /\ pc' = [pc EXCEPT ![c] = "claim_load"]
        BY <2>9, <3>2 DEF ClaimCas, LeaveCas
      <4>2. StageOf(c)' = StageOf(c)
        BY <3>0, <4>1 DEF StageOf, Inv, TypeOK
      <4>3. Stage' = Stage
        BY <3>0, <4>1, <4>2, StageStays DEF Inv, TypeOK
      <4>. QED
        BY <3>0, <4>1, <4>3 DEF H!vars
    <3>. QED
      BY <3>1, <3>2
  <2>10. ASSUME NEW c \in Callers, StopHealth(c) \/ StopWatch(c) \/ SendShutdown(c)
         PROVE  H!Next \/ UNCHANGED H!vars
    <3>1. /\ UNCHANGED <<state, readyTold>>
          /\ \E from \in {"stop_health", "stop_watch", "send_shutdown"},
               to \in {"stop_watch", "send_shutdown", "wait"} : Goto(c, from, to)
      BY <2>10 DEF StopHealth, StopWatch, SendShutdown, wireVars
    <3>. QED
      BY <3>1, GotoStays DEF H!vars
  <2>11. ASSUME NEW c \in Callers, StoreShutdown(c) PROVE H!Next \/ UNCHANGED H!vars
    <3>0. /\ state' = SHUTDOWN /\ UNCHANGED readyTold
          /\ Return(c, "store", "Ok") /\ Stage[c] = "claimed"
      BY <2>11 DEF StoreShutdown, Return, wireVars, Inv, ShutdownInv, CallShape,
                   Stage, StageOf
    <3>1. H!Complete(c)
      BY <3>0, ReturnAnswers DEF H!Complete
    <3>. QED
      BY <3>1 DEF H!Next, H!Step
  <2>12. ASSUME NEW l \in Callers, LoopStep(l) PROVE H!Next \/ UNCHANGED H!vars
    <3>1. UNCHANGED <<state, readyTold, pc, op, res, began>>
      BY <2>12 DEF LoopStep, LoopPing, LoopSettle, LoopOk, LoopErr, LoopWake,
                   LoopExit, LoopOnly, callVars, wireVars
    <3>. QED
      BY <3>1 DEF H!vars, Stage, StageOf
  <2>13. CASE UNCHANGED vars
    BY <2>13 DEF vars, callVars, wireVars, H!vars, Stage, StageOf
  <2>. QED
    BY <2>1, <2>2, <2>3, <2>4, <2>5, <2>6, <2>7, <2>8, <2>9, <2>10, <2>11,
       <2>12, <2>13 DEF Next, CallStep
<1>. QED
  BY <1>1, <1>2, TypeCorrect, ShutdownInvariant, EarnedInvariant, ClosedInvariant, PTL
  DEF Spec, ImplementsHandle, H!Spec, Inv
=============================================================================
