----------------------------- MODULE Lifecycle -----------------------------
(***************************************************************************)
(* The lifecycle of one GameFlow handle in the Rust SDK                    *)
(* (sdk/rust/gameflow/src/gameflow.rs, health.rs, transport/mod.rs).       *)
(*                                                                         *)
(* The handle is an Arc shared by the tasks of the game server, so the     *)
(* public calls run concurrently.  Each caller executes one call at a      *)
(* time and may interleave with the others between any two accesses to     *)
(* shared memory: the atomic `state`, the mutex around the health handle,  *)
(* and the requests to the runtime.  The health loop is a task of its own, *)
(* named here by the caller whose ready() spawned it.                      *)
(***************************************************************************)
EXTENDS Naturals, FiniteSets

CONSTANTS
  Callers,            \* tasks that hold a clone of the handle
  DegradedThreshold   \* consecutive failed pings before the alarm

ASSUME ThresholdAssumption == DegradedThreshold \in Nat \ {0}

(* The lifecycle states, ordered so that guards compare with >=. *)
CONNECTED     == 0
READY         == 1
SHUTTING_DOWN == 2
SHUTDOWN      == 3

(* The calls, by how they are guarded: "info" stands for info() and        *)
(* payload() (assert_usable, then a guarded transport call); "players" for *)
(* the player calls, which have only the transport guard.                  *)
Ops == {"ready", "shutdown", "info", "players"}

(* How a call ended; "none" while it runs. *)
Outcomes == {"none", "Ok", "NotConnected", "Err"}

VARIABLES
  mode,       \* "Sidecar" or "Local", fixed by connect
  state,      \* Inner::state, an AtomicU8
  pc,         \* per caller: the next step of its call, "idle" between calls
  op,         \* per caller: the call it runs or ran last
  seen,       \* per caller: the value `current` of the shutdown claim loop
  res,        \* per caller: the outcome of its last call
  handle,     \* HealthLoop::handle: {} is None, {c} the loop c spawned
  loopAt,     \* per spawned loop: where it is; "none" before the spawn
  cancelled,  \* the loops whose cancellation token has fired
  fails,      \* per loop: consecutive_failures
  degraded,   \* per loop: the flag of that name
  watchOpen,  \* FALSE once watcher.stop() has run
  (* ghost state *)
  began,      \* per caller: the state at the beginning of its call
  readyTold,  \* the runtime has carried out a POST /ready
  shutdownRequests, \* how often POST /shutdown was sent
  alarms      \* per loop: degraded callbacks since the last good ping

callVars  == <<pc, op, seen, res, began>>
loopVars  == <<handle, loopAt, cancelled, fails, degraded, alarms>>
wireVars  == <<readyTold, shutdownRequests>>
vars == <<mode, state, callVars, loopVars, watchOpen, wireVars>>

PCs == {"idle", "entry", "ready_load", "guard", "wait", "ready_cas",
        "ready_start", "claim_load", "claim_cas", "stop_health",
        "stop_watch", "send_shutdown", "store"}

LoopPCs == {"none", "ping", "wait", "ok", "err", "sleep", "done"}

TypeOK ==
  /\ mode \in {"Sidecar", "Local"}
  /\ state \in CONNECTED..SHUTDOWN
  /\ pc \in [Callers -> PCs]
  /\ op \in [Callers -> Ops \cup {"none"}]
  /\ seen \in [Callers -> CONNECTED..SHUTDOWN]
  /\ res \in [Callers -> Outcomes]
  /\ handle \in SUBSET Callers
  /\ loopAt \in [Callers -> LoopPCs]
  /\ cancelled \in SUBSET Callers
  /\ fails \in [Callers -> 0..DegradedThreshold]
  /\ degraded \in [Callers -> BOOLEAN]
  /\ watchOpen \in BOOLEAN
  /\ began \in [Callers -> CONNECTED..SHUTDOWN]
  /\ readyTold \in BOOLEAN
  /\ shutdownRequests \in 0..2
  /\ alarms \in [Callers -> 0..2]

(* A fresh handle: connect_with_env has returned. *)
Init ==
  /\ mode \in {"Sidecar", "Local"}
  /\ state = CONNECTED
  /\ pc = [c \in Callers |-> "idle"]
  /\ op = [c \in Callers |-> "none"]
  /\ seen = [c \in Callers |-> CONNECTED]
  /\ res = [c \in Callers |-> "none"]
  /\ handle = {}
  /\ loopAt = [c \in Callers |-> "none"]
  /\ cancelled = {}
  /\ fails = [c \in Callers |-> 0]
  /\ degraded = [c \in Callers |-> FALSE]
  /\ watchOpen = TRUE
  /\ began = [c \in Callers |-> CONNECTED]
  /\ readyTold = FALSE
  /\ shutdownRequests = 0
  /\ alarms = [c \in Callers |-> 0]

-----------------------------------------------------------------------------
(* Steps of a call. *)

Goto(c, from, to) ==
  /\ pc[c] = from
  /\ pc' = [pc EXCEPT ![c] = to]
  /\ UNCHANGED <<op, seen, res, began>>

Return(c, from, outcome) ==
  /\ pc[c] = from
  /\ pc' = [pc EXCEPT ![c] = "idle"]
  /\ res' = [res EXCEPT ![c] = outcome]
  /\ UNCHANGED <<op, seen, began>>

EntryOf(o) ==
  CASE o = "shutdown" -> "claim_load"
    [] o = "players"  -> "guard"
    [] OTHER          -> "entry"

(* A task of the game server calls a method of the handle. *)
Begin(c, o) ==
  /\ pc[c] = "idle"
  /\ pc' = [pc EXCEPT ![c] = EntryOf(o)]
  /\ op' = [op EXCEPT ![c] = o]
  /\ res' = [res EXCEPT ![c] = "none"]
  /\ began' = [began EXCEPT ![c] = state]
  /\ UNCHANGED <<mode, state, seen, loopVars, watchOpen, wireVars>>

(* assert_usable: refuse once a shutdown has been claimed. *)
AssertUsable(c) ==
  /\ \/ /\ state >= SHUTTING_DOWN
        /\ Return(c, "entry", "NotConnected")
     \/ /\ state < SHUTTING_DOWN
        /\ Goto(c, "entry", IF op[c] = "ready" THEN "ready_load" ELSE "guard")
  /\ UNCHANGED <<mode, state, loopVars, watchOpen, wireVars>>

(* ready(): a second load of the state; a repeated call is ignored. *)
ReadyLoad(c) ==
  /\ \/ state = READY /\ Return(c, "ready_load", "Ok")
     \/ state # READY /\ Goto(c, "ready_load", "guard")
  /\ UNCHANGED <<mode, state, loopVars, watchOpen, wireVars>>

(* GuardedTransport: refuse, or put the request on the wire.  The guard is *)
(* checked once, when the call starts.                                     *)
GuardOpen_Missing == TRUE

GuardOpen == state < SHUTDOWN

Guard(c) ==
  /\ \/ ~GuardOpen /\ Return(c, "guard", "NotConnected")
     \/ GuardOpen  /\ Goto(c, "guard", "wait")
  /\ UNCHANGED <<mode, state, loopVars, watchOpen, wireVars>>

AfterOk(c) ==
  CASE op[c] = "ready"    -> Goto(c, "wait", "ready_cas")
    [] op[c] = "shutdown" -> Goto(c, "wait", "store")
    [] OTHER              -> Return(c, "wait", "Ok")

AfterErr_ReadyProceeds(c) ==
  CASE op[c] = "ready"    -> Goto(c, "wait", "ready_cas")
    [] op[c] = "shutdown" -> Goto(c, "wait", "store")
    [] OTHER              -> Return(c, "wait", "Err")

AfterErr_ShutdownPropagates(c) == Return(c, "wait", "Err")

(* A failed request ends the call, but a failed POST /shutdown is only     *)
(* logged and the shutdown goes on.                                        *)
AfterErr(c) ==
  IF op[c] = "shutdown" THEN Goto(c, "wait", "store")
                        ELSE Return(c, "wait", "Err")

CarriedOut(c) == readyTold' = (readyTold \/ op[c] = "ready")

(* The runtime carries the request out and the answer arrives; or the      *)
(* answer is lost or comes after the timeout; or the runtime refuses the   *)
(* request or never sees it.  Local mode always answers.                   *)
Answer(c) ==
  /\ pc[c] = "wait"
  /\ \/ CarriedOut(c) /\ AfterOk(c)
     \/ mode = "Sidecar" /\ CarriedOut(c) /\ AfterErr(c)
     \/ mode = "Sidecar" /\ UNCHANGED readyTold /\ AfterErr(c)
  /\ UNCHANGED <<mode, state, loopVars, watchOpen, shutdownRequests>>

ReadyCas_PlainStore(c) ==
  /\ state' = READY
  /\ IF mode = "Sidecar" THEN Goto(c, "ready_cas", "ready_start")
                         ELSE Return(c, "ready_cas", "Ok")
  /\ UNCHANGED <<mode, loopVars, watchOpen, wireVars>>

ReadyCas_FetchAdd(c) ==
  /\ state' = state + 1
  /\ IF mode = "Sidecar" THEN Goto(c, "ready_cas", "ready_start")
                         ELSE Return(c, "ready_cas", "Ok")
  /\ UNCHANGED <<mode, loopVars, watchOpen, wireVars>>

(* compare_exchange(CONNECTED, READY) and its three outcomes. *)
ReadyCas(c) ==
  /\ \/ /\ state = CONNECTED
        /\ state' = READY
        /\ IF mode = "Sidecar" THEN Goto(c, "ready_cas", "ready_start")
                               ELSE Return(c, "ready_cas", "Ok")
     \/ /\ state = READY
        /\ Return(c, "ready_cas", "Ok")
        /\ UNCHANGED state
     \/ /\ state >= SHUTTING_DOWN
        /\ Return(c, "ready_cas", "NotConnected")
        /\ UNCHANGED state
  /\ UNCHANGED <<mode, loopVars, watchOpen, wireVars>>

(* HealthLoop::start, the whole of it inside the handle mutex. *)
HealthStart(c) ==
  \/ /\ handle = {}
     /\ handle' = {c}
     /\ loopAt' = [loopAt EXCEPT ![c] = "ping"]
     /\ UNCHANGED <<cancelled, fails, degraded, alarms>>
  \/ /\ handle # {}
     /\ UNCHANGED loopVars

(* ready(): the call of health.start(), after the state was exchanged. *)
ReadyStart(c) ==
  /\ Return(c, "ready_start", "Ok")
  /\ HealthStart(c)
  /\ UNCHANGED <<mode, state, watchOpen, wireVars>>

(* shutdown(): load `current`; a shutdown already claimed returns at once. *)
ClaimLoad(c) ==
  /\ \/ /\ state >= SHUTTING_DOWN
        /\ Return(c, "claim_load", "Ok")
     \/ /\ state < SHUTTING_DOWN
        /\ pc[c] = "claim_load"
        /\ pc' = [pc EXCEPT ![c] = "claim_cas"]
        /\ seen' = [seen EXCEPT ![c] = state]
        /\ UNCHANGED <<op, res, began>>
  /\ UNCHANGED <<mode, state, loopVars, watchOpen, wireVars>>

(* `current` goes out of scope with the iteration of the claim loop. *)
LeaveCas(c, to) ==
  /\ pc[c] = "claim_cas"
  /\ pc' = [pc EXCEPT ![c] = to]
  /\ seen' = [seen EXCEPT ![c] = CONNECTED]
  /\ UNCHANGED <<op, res, began>>

ClaimCas_PlainStore(c) ==
  /\ state' = SHUTTING_DOWN
  /\ LeaveCas(c, "stop_health")
  /\ UNCHANGED <<mode, loopVars, watchOpen, wireVars>>

ClaimCas_NoReload(c) ==
  /\ \/ /\ state = seen[c]
        /\ state' = SHUTTING_DOWN
        /\ LeaveCas(c, "stop_health")
     \/ /\ state # seen[c]
        /\ Goto(c, "claim_cas", "claim_cas")
        /\ UNCHANGED state
  /\ UNCHANGED <<mode, loopVars, watchOpen, wireVars>>

(* compare_exchange(current, SHUTTING_DOWN): exactly one caller claims the *)
(* shutdown, the others load again.                                        *)
ClaimCas(c) ==
  /\ \/ /\ state = seen[c]
        /\ state' = SHUTTING_DOWN
        /\ LeaveCas(c, "stop_health")
     \/ /\ state # seen[c]
        /\ LeaveCas(c, "claim_load")
        /\ UNCHANGED state
  /\ UNCHANGED <<mode, loopVars, watchOpen, wireVars>>

HealthStop_NoCancel ==
  /\ handle' = {}
  /\ UNCHANGED <<loopAt, cancelled, fails, degraded, alarms>>

(* HealthLoop::stop: take the handle, cancel the token, abort the task. *)
HealthStop ==
  /\ handle' = {}
  /\ cancelled' = cancelled \cup handle
  /\ UNCHANGED <<loopAt, fails, degraded, alarms>>

StopHealth(c) ==
  /\ Goto(c, "stop_health", "stop_watch")
  /\ HealthStop
  /\ UNCHANGED <<mode, state, watchOpen, wireVars>>

(* watcher.stop(), a step of its own; its inside is module Watcher. *)
StopWatch(c) ==
  /\ Goto(c, "stop_watch", "send_shutdown")
  /\ watchOpen' = FALSE
  /\ UNCHANGED <<mode, state, loopVars, wireVars>>

(* POST /shutdown, the one request that no guard refuses.  The ghost       *)
(* counter stops at 2.                                                     *)
SendShutdown(c) ==
  /\ Goto(c, "send_shutdown", "wait")
  /\ shutdownRequests' = IF shutdownRequests < 2 THEN shutdownRequests + 1 ELSE 2
  /\ UNCHANGED <<mode, state, loopVars, watchOpen, readyTold>>

StoreShutdown(c) ==
  /\ state' = SHUTDOWN
  /\ Return(c, "store", "Ok")
  /\ UNCHANGED <<mode, loopVars, watchOpen, wireVars>>

CallStep(c) ==
  \/ AssertUsable(c) \/ ReadyLoad(c) \/ Guard(c) \/ Answer(c)
  \/ ReadyCas(c) \/ ReadyStart(c)
  \/ ClaimLoad(c) \/ ClaimCas(c) \/ StopHealth(c) \/ StopWatch(c)
  \/ SendShutdown(c) \/ StoreShutdown(c)

-----------------------------------------------------------------------------
(* Steps of the health loop l (health.rs, run).                            *)

LoopGoto(l, from, to) ==
  /\ loopAt[l] = from
  /\ loopAt' = [loopAt EXCEPT ![l] = to]
  /\ UNCHANGED <<handle, cancelled>>

LoopOnly == UNCHANGED <<mode, state, callVars, watchOpen, wireVars>>

(* The select polls cancellation first; then the ping starts: the guard    *)
(* refuses it after shutdown, otherwise POST /health goes out.             *)
LoopPing(l) ==
  /\ l \notin cancelled
  /\ LoopGoto(l, "ping", IF GuardOpen THEN "wait" ELSE "err")
  /\ UNCHANGED <<fails, degraded, alarms>>
  /\ LoopOnly

(* The ping settles, unless the token fired first. *)
LoopSettle(l) ==
  /\ l \notin cancelled
  /\ \E outcome \in {"ok", "err"} : LoopGoto(l, "wait", outcome)
  /\ UNCHANGED <<fails, degraded, alarms>>
  /\ LoopOnly

LoopOk(l) ==
  /\ LoopGoto(l, "ok", "sleep")
  /\ fails' = [fails EXCEPT ![l] = 0]
  /\ degraded' = [degraded EXCEPT ![l] = FALSE]
  /\ alarms' = [alarms EXCEPT ![l] = 0]
  /\ LoopOnly

RaisesAlarm_EveryPing(l, n) == n >= DegradedThreshold

RaisesAlarm(l, n) == n >= DegradedThreshold /\ ~degraded[l]

(* A failed ping.  The counter is only compared with the threshold, so it  *)
(* is kept at the threshold once there; the ghost counter stops at 2.      *)
LoopErr(l) ==
  LET n == IF fails[l] < DegradedThreshold THEN fails[l] + 1
                                           ELSE DegradedThreshold
  IN  /\ LoopGoto(l, "err", "sleep")
      /\ fails' = [fails EXCEPT ![l] = n]
      /\ \/ /\ RaisesAlarm(l, n)
            /\ degraded' = [degraded EXCEPT ![l] = TRUE]
            /\ alarms' = [alarms EXCEPT ![l] = IF @ < 2 THEN @ + 1 ELSE 2]
         \/ /\ ~RaisesAlarm(l, n)
            /\ UNCHANGED <<degraded, alarms>>
      /\ LoopOnly

LoopWake(l) ==
  /\ l \notin cancelled
  /\ LoopGoto(l, "sleep", "ping")
  /\ UNCHANGED <<fails, degraded, alarms>>
  /\ LoopOnly

(* Cancellation (or the abort) ends the loop at its next await. *)
LoopExit(l) ==
  /\ l \in cancelled
  /\ \E at \in {"ping", "wait", "sleep"} : LoopGoto(l, at, "done")
  /\ UNCHANGED <<fails, degraded, alarms>>
  /\ LoopOnly

LoopStep(l) ==
  \/ LoopPing(l) \/ LoopSettle(l) \/ LoopOk(l) \/ LoopErr(l)
  \/ LoopWake(l) \/ LoopExit(l)

Next ==
  \/ \E c \in Callers, o \in Ops : Begin(c, o)
  \/ \E c \in Callers : CallStep(c)
  \/ \E l \in Callers : LoopStep(l)

Spec == Init /\ [][Next]_vars

(* A call under way goes on: the executor polls it, and a request is       *)
(* answered or runs into the per-request timeout.  So does the health      *)
(* loop.  Nothing obliges a task to begin a call.                          *)
Fairness ==
  /\ \A c \in Callers : WF_vars(CallStep(c))
  /\ \A l \in Callers : WF_vars(LoopStep(l))

FairSpec == Spec /\ Fairness

-----------------------------------------------------------------------------
(* Properties. *)

Alive(l) == loopAt[l] \notin {"none", "done"} /\ l \notin cancelled

(* The state never moves backwards; in particular a ready() whose request  *)
(* raced a shutdown cannot clobber SHUTTING_DOWN or SHUTDOWN back to READY *)
(* (gameflow.rs:331-343).                                                  *)
StateOnlyAdvances == [][state' >= state]_state

(* However many tasks call shutdown() at once, POST /shutdown goes out     *)
(* once (gameflow.rs:351-374).                                             *)
OneShutdownRequest == shutdownRequests <= 1

(* A health loop that nothing has cancelled is always the one in the       *)
(* handle, so a later stop() can still reach it (health.rs:47-49).         *)
NoUncancellableLoop == \A l \in Callers : Alive(l) => handle = {l}

(* The handle is READY, and the health loop runs, only if the runtime has  *)
(* carried out a /ready: a refused or lost request leaves no trace.        *)
ReadyIsEarned ==
  (state = READY \/ \E l \in Callers : loopAt[l] # "none") => readyTold

(* The degraded callback runs exactly once per outage: once the threshold  *)
(* is reached, and not again before a ping has succeeded (health.rs:95-110).*)
OneAlarmPerOutage ==
  \A l \in Callers :
    alarms[l] = IF fails[l] = DegradedThreshold THEN 1 ELSE 0

(* A call that begins once the handle is SHUTDOWN sends nothing and fails  *)
(* with NotConnected, whichever of the two guards it goes through.         *)
ClosedForGood ==
  \A c \in Callers :
    (began[c] = SHUTDOWN /\ op[c] # "shutdown")
      => pc[c] # "wait" /\ res[c] \in {"none", "NotConnected"}

(* Seen by the tasks that share it, the handle is that of module Handle:   *)
(* whatever they do at once, one shutdown() goes through with it, ready()  *)
(* succeeds on the runtime's word only, and a call is refused for good     *)
(* once the shutdown is over.                                              *)
StageOf(c) ==
  IF pc[c] = "idle" THEN "idle"
  ELSE IF op[c] = "shutdown"
       THEN IF pc[c] \in {"claim_load", "claim_cas"} THEN "open" ELSE "claimed"
       ELSE IF began[c] = SHUTDOWN THEN "refused" ELSE "open"

Stage == [c \in Callers |-> StageOf(c)]

H == INSTANCE Handle WITH told <- readyTold, stage <- Stage, answer <- res

ImplementsHandle == H!Spec

(* A claimed shutdown reaches SHUTDOWN even when POST /shutdown fails.     *)
ShutdownCompletes == (state = SHUTTING_DOWN) ~> (state = SHUTDOWN)

(* Every call returns; the claim loop of shutdown() does not spin.         *)
CallsReturn == \A c \in Callers : (pc[c] # "idle") ~> (pc[c] = "idle")

(* health.rs:47-49 and gameflow.rs:331-333 say that a concurrent ready()   *)
(* and shutdown() leave no health loop behind.                             *)
NoZombieLoop == state = SHUTDOWN => \A l \in Callers : ~Alive(l)
=============================================================================
