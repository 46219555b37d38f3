-------------------------- MODULE BevyBridgeProofs --------------------------
(***************************************************************************)
(* Safety properties of BevyBridge, for any number of commands, sessions   *)
(* and updates.                                                            *)
(*                                                                         *)
(* ExitAfterShutdown rests on ShutShape: with one command to shut down     *)
(* there is one task that can move the state to SHUTDOWN, and it has done  *)
(* so when it reports; a report on its way to the observer is then true.   *)
(* ClientBeforeEvents rests on ClientShape: what needs the client follows  *)
(* its insertion through the queues.  ReportsAreTrue rests on PlayerShape: *)
(* a task that is alone with its player knows what it did to the list, and *)
(* the last word about a player without a task is true.                    *)
(***************************************************************************)
EXTENDS BevyBridge, TLAPS

USE DEF H!CONNECTED, H!READY, H!SHUTTING_DOWN, H!SHUTDOWN

(* The parts of TypeOK that the steps below rest on. *)
CoreType ==
  /\ state \in 0..3
  /\ call \in [Tasks -> {"idle", "open", "claimed", "refused"}]
  /\ DOMAIN callOp = Tasks /\ DOMAIN callAnswer = Tasks
  /\ task \in [Tasks -> {"free", "spawned", "calling", "done"}]
  /\ cmd \in [Tasks -> Commands \cup {"none"}]
  /\ session \in [Tasks -> Sessions]
  /\ inbox \in Seq(Events)
  /\ deferred \in Seq(Triggers \cup {"insert"})
  /\ exited \in BOOLEAN /\ client \in BOOLEAN
  /\ shutdowns \in Nat

-----------------------------------------------------------------------------
(* The queues. *)

LEMMA SendType ==
  ASSUME inbox \in Seq(Events), NEW e \in Events, Send(e)
  PROVE  inbox' \in Seq(Events)
  BY DEF Send

LEMMA EventType ==
  /\ \A k \in Outcomes \cup Triggers \cup {"ServerInfo"} : Event(k) \in Events
  /\ \A k \in Reports, s \in Sessions : Report(k, s) \in Events
  BY DEF Event, Report, Events, Outcomes

(* An event in the queue after a send was there before, or is the new one. *)
LEMMA SentOrThere ==
  ASSUME inbox \in Seq(Events), NEW e, Send(e), NEW i \in DOMAIN inbox'
  PROVE  inbox'[i] = e \/ (i \in DOMAIN inbox /\ inbox'[i] = inbox[i])
  BY DEF Send

LEMMA PumpedOrThere ==
  ASSUME inbox \in Seq(Events), inbox # <<>>, inbox' = Tail(inbox)
  PROVE  /\ Head(inbox) = inbox[1] /\ 1 \in DOMAIN inbox
         /\ \A i \in DOMAIN inbox' : i + 1 \in DOMAIN inbox /\ inbox'[i] = inbox[i + 1]
         /\ inbox' \in Seq(Events)
  OBVIOUS

-----------------------------------------------------------------------------
LEMMA CoreTypeStep == CoreType /\ [Next]_vars => CoreType'
<1> SUFFICES ASSUME CoreType, [Next]_vars PROVE CoreType'
  OBVIOUS
<1> USE DEF CoreType, handleVars, registryVars, taskVars, frameVars
<1>1. ASSUME Connect \/ SendConnected \/ Update,
             UNCHANGED <<handleVars, registryVars, taskVars, frameVars>>
      PROVE  CoreType'
  <2>1. \/ UNCHANGED inbox
        \/ \E k \in {"ConnectFailed", "Connected", "ServerInfo", "HealthDegraded"} :
             Send(Event(k))
    BY <1>1 DEF Connect, SendConnected, Update
  <2>2. inbox' \in Seq(Events)
    BY <2>1, SendType, EventType DEF Triggers
  <2>. QED
    BY <1>1, <2>2
<1>2. ASSUME NEW t \in Tasks, NEW o \in Commands, NEW s \in Sessions, Spawn(t, o, s),
             UNCHANGED handleVars, inbox' \in Seq(Events),
             deferred' \in Seq(Triggers \cup {"insert"}), UNCHANGED <<client, exited>>
      PROVE  CoreType'
  BY <1>2 DEF Spawn
<1>3. ASSUME NEW t \in Tasks, TaskStep(t), UNCHANGED frameVars PROVE CoreType'
  <2>1. CASE CallHandle(t)
    BY <1>3, <2>1 DEF CallHandle, TaskGoto, H!Open
  <2>2. CASE CallPlayers(t)
    <3>1. inbox' \in Seq(Events)
      BY <2>2, SendType, EventType DEF CallPlayers, Reports
    <3>2. session' \in [Tasks -> Sessions]
      BY <2>2 DEF CallPlayers, R!Open, R!OpenRefused
    <3>3. /\ UNCHANGED <<cmd, shutdowns, handleVars>>
          /\ \E to \in {"calling", "done"} : task' = [task EXCEPT ![t] = to]
      BY <2>2, Zenon DEF CallPlayers, TaskGoto
    <3>. QED
      BY <1>3, <3>1, <3>2, <3>3
  <2>3. CASE SendOutcome(t)
    <3>1. inbox' \in Seq(Events)
      BY <2>3, SendType, EventType
         DEF SendOutcome, HandleAnswered, PlayersAnswered, JoinReport, LeftReport,
             Reports, Outcomes
    <3>. QED
      BY <1>3, <2>3, <3>1 DEF SendOutcome
  <2>4. CASE SdkStep(t)
    <3>1. CASE H!Step(t) /\ UNCHANGED registryVars
      <4>1. /\ state' \in 0..3 /\ DOMAIN callOp' = Tasks /\ DOMAIN callAnswer' = Tasks
            /\ call' \in [Tasks -> {"idle", "open", "claimed", "refused"}]
        BY <3>1 DEF H!Step, H!Tell, H!BecomeReady, H!Claim, H!Complete, H!Return, H!Answer
      <4>. QED
        BY <1>3, <2>4, <3>1, <4>1 DEF SdkStep
    <3>2. CASE UNCHANGED <<handleVars, session>>
      BY <1>3, <2>4, <3>2 DEF SdkStep
    <3>3. \/ H!Step(t) /\ UNCHANGED registryVars
          \/ UNCHANGED <<handleVars, session>>
      BY <2>4 DEF SdkStep, R!Apply, R!ApplyAndFail, R!FindDisabled, R!Refuse,
                  R!Return, R!Answer
    <3>. QED
      BY <3>1, <3>2, <3>3
  <2>. QED
    BY <1>3, <2>1, <2>2, <2>3, <2>4 DEF TaskStep
<1>4. ASSUME Pump PROVE CoreType'
  <2>1. /\ inbox' \in Seq(Events)
        /\ UNCHANGED <<handleVars, client, exited>>
    BY <1>4, PumpedOrThere DEF Pump
  <2>2. \A k \in Triggers : Deferred(k) \in Seq(Triggers \cup {"insert"})
    <3>1. ASSUME NEW S, NEW a \in S, NEW b \in S PROVE <<a, b>> \in Seq(S) /\ <<a>> \in Seq(S)
      OBVIOUS
    <3>. QED
      BY <3>1 DEF Deferred, Triggers
  <2>3. deferred' \in Seq(Triggers \cup {"insert"})
    BY <1>4, <2>2 DEF Pump, Defers
  <2>4. \/ Spawn(AutoTask, "ready", session[AutoTask])
        \/ UNCHANGED <<taskVars, registryVars>>
    BY <1>4 DEF Pump
  <2>5. AutoTask \in Tasks
    BY BridgeAssumption DEF AutoTask, Tasks
  <2>. QED
    BY <1>2, <2>1, <2>3, <2>4, <2>5 DEF Commands
<1>5. ASSUME EndFrame PROVE CoreType'
  <2>1. exited' \in BOOLEAN /\ client' \in BOOLEAN
    BY <1>5 DEF EndFrame, Exits, ClientAt
  <2>. QED
    BY <1>5, <2>1 DEF EndFrame
<1>6. ASSUME UNCHANGED vars PROVE CoreType'
  BY <1>6 DEF vars
<1>. QED
  BY <1>1, <1>2, <1>3, <1>4, <1>5, <1>6 DEF Next, TasksStep, FrameStep, Command

-----------------------------------------------------------------------------
(* The report of a shutdown is on its way to the observer, or has arrived. *)
Queued == \E i \in DOMAIN inbox : inbox[i].kind = "ShutdownComplete"

Reported == Queued \/ Exits \/ exited

CallShape ==
  \A t \in Tasks :
    /\ call[t] # "idle" =>
         task[t] = "calling" /\ cmd[t] \in {"ready", "shutdown"} /\ callOp[t] = cmd[t]
    /\ cmd[t] = "shutdown" => task[t] \in {"spawned", "calling"}
    /\ call[t] = "claimed" => cmd[t] = "shutdown"
    /\ call[t] = "refused" => cmd[t] # "shutdown"

(* The one command to shut down, from its spawn to its report. *)
ShutShape ==
  /\ state >= 2 => shutdowns >= 1
  /\ Reported => shutdowns >= 1 /\ (shutdowns = 1 => state = 3)
  /\ \A t \in Tasks : cmd[t] = "shutdown" =>
       /\ shutdowns >= 1
       /\ Reported => shutdowns >= 2
       /\ \A u \in Tasks : cmd[u] = "shutdown" /\ u # t => shutdowns >= 2
       /\ shutdowns = 1 =>
            /\ task[t] = "spawned" => state < 2
            /\ call[t] = "open" => state < 2
            /\ call[t] = "claimed" => state = 2
            /\ task[t] = "calling" /\ call[t] = "idle" => state = 3

Shape == CoreType /\ CallShape /\ ShutShape

(* A step that leaves the calls and the tasks alone and brings no new      *)
(* report of a shutdown.                                                   *)
LEMMA ShapeKept ==
  ASSUME CallShape, ShutShape, UNCHANGED <<handleVars, task, cmd, shutdowns>>,
         Reported' => Reported
  PROVE  CallShape' /\ ShutShape'
  BY DEF CallShape, ShutShape, handleVars

(* A new command. *)
LEMMA ShapeSpawn ==
  ASSUME Shape, NEW t \in Tasks, NEW o \in Commands, NEW s \in Sessions, Spawn(t, o, s),
         UNCHANGED handleVars, Reported' => Reported
  PROVE  CallShape' /\ ShutShape'
<1>1. /\ task[t] = "free" /\ task' = [task EXCEPT ![t] = "spawned"]
      /\ cmd' = [cmd EXCEPT ![t] = o]
      /\ shutdowns' = IF o = "shutdown" THEN shutdowns + 1 ELSE shutdowns
  BY DEF Spawn
<1>2. call[t] = "idle" /\ cmd[t] # "shutdown"
  BY <1>1 DEF Shape, CallShape
<1>3. CallShape'
  BY <1>1, <1>2 DEF Shape, CallShape, CoreType, handleVars
<1>4. ShutShape'
  <2>1. CASE o = "shutdown"
    BY <1>1, <1>2, <2>1 DEF Shape, ShutShape, CoreType, handleVars
  <2>2. CASE o # "shutdown"
    BY <1>1, <1>2, <2>2 DEF Shape, ShutShape, CoreType, handleVars
  <2>. QED
    BY <2>1, <2>2
<1>. QED
  BY <1>3, <1>4

(* The queues bring no report of their own. *)
LEMMA SentKeeps ==
  ASSUME CoreType, UNCHANGED <<deferred, exited>>,
         UNCHANGED inbox \/ \E e : Send(e) /\ e.kind # "ShutdownComplete"
  PROVE  Reported' => Reported
<1>1. Queued' => Queued
  BY SentOrThere DEF Queued, CoreType
<1>2. Exits' <=> Exits
  BY DEF Exits
<1>. QED
  BY <1>1, <1>2 DEF Reported

LEMMA PumpKeeps == ASSUME CoreType, Pump PROVE Reported' => Reported
<1>1. /\ inbox # <<>> /\ inbox' = Tail(inbox) /\ exited' = exited
      /\ Defers(Head(inbox).kind)
  BY DEF Pump
<1>2. Queued' => Queued
  BY <1>1, PumpedOrThere DEF Queued, CoreType
<1>3. Exits' => Exits \/ Head(inbox).kind = "ShutdownComplete"
  <2> DEFINE k == Head(inbox).kind
             d == Deferred(k)
  <2>1. CASE k \notin Triggers
    BY <1>1, <2>1 DEF Defers, Exits
  <2>2. CASE k \in Triggers
    <3>1. deferred' = deferred \o d
      BY <1>1, <2>2 DEF Defers
    <3>2. d = <<k>> \/ d = <<"insert", "Connected">>
      BY DEF Deferred
    <3>3. deferred \in Seq(Triggers \cup {"insert"})
      BY DEF CoreType
    <3>4. CASE d = <<k>>
      BY <3>1, <3>3, <3>4 DEF Exits
    <3>5. CASE d = <<"insert", "Connected">>
      BY <3>1, <3>3, <3>5 DEF Exits
    <3>. QED
      BY <3>2, <3>4, <3>5
  <2>. QED
    BY <2>1, <2>2
<1>4. Head(inbox).kind = "ShutdownComplete" => Queued
  BY <1>1, PumpedOrThere DEF Queued, CoreType
<1>. QED
  BY <1>1, <1>2, <1>3, <1>4 DEF Reported

(* A step of the SDK for the call of one task. *)
LEMMA ShapeHandle ==
  ASSUME Shape, NEW t \in Tasks, H!Step(t), UNCHANGED <<task, cmd, shutdowns>>,
         Reported' <=> Reported
  PROVE  CallShape' /\ ShutShape'
<1> USE DEF Shape, CoreType
<1>1. CASE H!Tell(t) \/ H!Return(t)
  <2>1. /\ state' = state /\ callOp' = callOp
        /\ \/ call' = call
           \/ /\ call' = [call EXCEPT ![t] = "idle"]
              /\ call[t] # "idle" /\ (cmd[t] = "shutdown" => state >= 2)
              /\ call[t] # "claimed"
    <3>1. CASE H!Tell(t)
      BY <3>1 DEF H!Tell, H!Answer, CallShape
    <3>2. CASE H!Return(t)
      BY <3>2 DEF H!Return, H!Answer, CallShape
    <3>. QED
      BY <1>1, <3>1, <3>2
  <2>2. CallShape'
    BY <2>1 DEF CallShape
  <2>3. ShutShape'
    BY <2>1 DEF ShutShape, CallShape
  <2>. QED
    BY <2>2, <2>3
<1>2. CASE H!BecomeReady(t)
  <2>1. state = 0 /\ state' = 1 /\ callOp' = callOp /\ cmd[t] = "ready" /\ (call' = call
          \/ call' = [call EXCEPT ![t] = "idle"])
    BY <1>2 DEF H!BecomeReady, H!Answer, CallShape
  <2>2. CallShape'
    BY <2>1 DEF CallShape
  <2>3. ShutShape'
    BY <2>1 DEF ShutShape
  <2>. QED
    BY <2>2, <2>3
<1>3. CASE H!Claim(t)
  <2>1. /\ state < 2 /\ state' = 2 /\ callOp' = callOp /\ cmd[t] = "shutdown"
        /\ call[t] = "open" /\ call' = [call EXCEPT ![t] = "claimed"]
    BY <1>3 DEF H!Claim, CallShape
  <2>2. CallShape'
    BY <2>1 DEF CallShape
  <2>3. ShutShape'
    BY <2>1 DEF ShutShape, CallShape
  <2>. QED
    BY <2>2, <2>3
<1>4. CASE H!Complete(t)
  <2>1. /\ state' = 3 /\ callOp' = callOp /\ cmd[t] = "shutdown"
        /\ call[t] = "claimed" /\ call' = [call EXCEPT ![t] = "idle"]
    BY <1>4 DEF H!Complete, H!Answer, CallShape
  <2>2. CallShape'
    BY <2>1 DEF CallShape
  <2>3. ShutShape'
    BY <2>1 DEF ShutShape, CallShape
  <2>. QED
    BY <2>2, <2>3
<1>. QED
  BY <1>1, <1>2, <1>3, <1>4 DEF H!Step

(* A step of a task. *)
LEMMA ShapeTask ==
  ASSUME Shape, NEW t \in Tasks, TaskStep(t), UNCHANGED frameVars
  PROVE  CallShape' /\ ShutShape'
<1> USE DEF Shape, CoreType, handleVars, taskVars, frameVars
<1>0. UNCHANGED <<deferred, exited>>
  OBVIOUS
<1>1. CASE CallHandle(t)
  <2>1. Reported' <=> Reported
    BY <1>0, <1>1 DEF CallHandle, Reported, Queued, Exits
  <2>2. /\ task[t] = "spawned" /\ cmd[t] \in {"ready", "shutdown"}
        /\ task' = [task EXCEPT ![t] = "calling"]
        /\ UNCHANGED <<cmd, shutdowns, state>>
        /\ callOp' = [callOp EXCEPT ![t] = cmd[t]]
        /\ call' = [call EXCEPT ![t] =
              IF state = 3 /\ cmd[t] # "shutdown" THEN "refused" ELSE "open"]
    BY <1>1 DEF CallHandle, TaskGoto, H!Open
  <2>3. CallShape'
    BY <2>2 DEF CallShape
  <2>4. ShutShape'
    BY <2>1, <2>2 DEF ShutShape, CallShape
  <2>. QED
    BY <2>3, <2>4
<1>2. CASE CallPlayers(t)
  <2>1. UNCHANGED inbox \/ \E e : Send(e) /\ e.kind # "ShutdownComplete"
    BY <1>2 DEF CallPlayers, Report
  <2>2. Reported' => Reported
    BY <1>0, <2>1, SentKeeps
  <2>3. /\ task[t] = "spawned" /\ cmd[t] \in PlayerCommands
        /\ UNCHANGED <<handleVars, cmd, shutdowns>>
        /\ \E to \in {"calling", "done"} : task' = [task EXCEPT ![t] = to]
    BY <1>2, Zenon DEF CallPlayers, TaskGoto
  <2>4. CallShape'
    BY <2>3 DEF CallShape, PlayerCommands
  <2>5. ShutShape'
    BY <2>2, <2>3 DEF ShutShape, PlayerCommands
  <2>. QED
    BY <2>4, <2>5
<1>3. CASE SendOutcome(t)
  <2>1. /\ task[t] = "calling" /\ task' = [task EXCEPT ![t] = "done"]
        /\ cmd' = [cmd EXCEPT ![t] = "none"]
        /\ callOp' = [callOp EXCEPT ![t] = "none"]
        /\ UNCHANGED <<state, call, shutdowns>>
    BY <1>3 DEF SendOutcome, HandleAnswered, PlayersAnswered
  <2>2. call[t] = "idle"
    BY <1>3 DEF SendOutcome, HandleAnswered, PlayersAnswered, Returned, CallShape,
                PlayerCommands
  <2>3. CallShape'
    BY <2>1, <2>2 DEF CallShape
  <2>4. CASE cmd[t] # "shutdown"
    <3>1. \E e : Send(e) /\ e.kind # "ShutdownComplete"
      BY <1>3, <2>4 DEF SendOutcome, HandleAnswered, PlayersAnswered, JoinReport,
                        LeftReport, Event, Report
    <3>2. Reported' => Reported
      BY <1>0, <3>1, SentKeeps
    <3>3. ShutShape'
      BY <2>1, <2>2, <2>4, <3>2 DEF ShutShape
    <3>. QED
      BY <2>3, <3>3
  <2>5. CASE cmd[t] = "shutdown"
    <3>1. ShutShape'
      BY <2>1, <2>2, <2>5 DEF ShutShape
    <3>. QED
      BY <2>3, <3>1
  <2>. QED
    BY <2>4, <2>5
<1>4. CASE SdkStep(t)
  <2>1. UNCHANGED <<task, cmd, shutdowns>> /\ (Reported' <=> Reported)
    BY <1>0, <1>4 DEF SdkStep, Reported, Queued, Exits
  <2>2. H!Step(t) \/ UNCHANGED handleVars
    BY <1>4 DEF SdkStep
  <2>. QED
    BY <2>1, <2>2, ShapeHandle, ShapeKept
<1>. QED
  BY <1>1, <1>2, <1>3, <1>4 DEF TaskStep

LEMMA ShapeStep == Shape /\ [Next]_vars => Shape'
<1> SUFFICES ASSUME Shape, [Next]_vars PROVE CallShape' /\ ShutShape'
  BY CoreTypeStep DEF Shape
<1> USE DEF handleVars, taskVars, frameVars
<1>1. ASSUME Connect \/ SendConnected \/ Update,
             UNCHANGED <<handleVars, taskVars, frameVars>>
      PROVE  CallShape' /\ ShutShape'
  <2>1. UNCHANGED inbox \/ \E e : Send(e) /\ e.kind # "ShutdownComplete"
    BY <1>1 DEF Connect, SendConnected, Update, Event
  <2>2. Reported' => Reported
    BY <1>1, <2>1, SentKeeps DEF Shape
  <2>. QED
    BY <1>1, <2>2, ShapeKept DEF Shape
<1>2. ASSUME NEW t \in Tasks, NEW o \in Commands, NEW s \in Sessions, Command(t, o, s),
             UNCHANGED <<handleVars, inbox, frameVars>>
      PROVE  CallShape' /\ ShutShape'
  <2>1. Reported' => Reported
    BY <1>2 DEF Reported, Queued, Exits
  <2>. QED
    BY <1>2, <2>1, ShapeSpawn DEF Command
<1>3. ASSUME TasksStep PROVE CallShape' /\ ShutShape'
  BY <1>3, ShapeTask DEF TasksStep
<1>4. ASSUME Pump PROVE CallShape' /\ ShutShape'
  <2>1. Reported' => Reported
    BY <1>4, PumpKeeps DEF Shape
  <2>2. /\ UNCHANGED handleVars
        /\ \/ Spawn(AutoTask, "ready", session[AutoTask])
           \/ UNCHANGED taskVars
    BY <1>4 DEF Pump
  <2>3. AutoTask \in Tasks /\ session[AutoTask] \in Sessions /\ "ready" \in Commands
    BY BridgeAssumption DEF AutoTask, Tasks, Commands, Shape, CoreType
  <2>. QED
    BY <2>1, <2>2, <2>3, ShapeSpawn, ShapeKept DEF Shape
<1>5. ASSUME EndFrame PROVE CallShape' /\ ShutShape'
  <2>1. Reported' => Reported
    BY <1>5 DEF EndFrame, Reported, Queued, Exits
  <2>. QED
    BY <1>5, <2>1, ShapeKept DEF EndFrame, Shape
<1>6. ASSUME UNCHANGED vars PROVE CallShape' /\ ShutShape'
  <2>1. Reported' => Reported
    BY <1>6 DEF vars, Reported, Queued, Exits
  <2>. QED
    BY <1>6, <2>1, ShapeKept DEF vars, Shape
<1>. QED
  BY <1>1, <1>2, <1>3, <1>4, <1>5, <1>6 DEF Next, FrameStep

LEMMA InitialShape == Init => Shape
<1> SUFFICES ASSUME Init PROVE Shape
  OBVIOUS
<1> USE DEF Init, H!Init
<1>1. CoreType
  <2>1. exited \in BOOLEAN /\ client \in BOOLEAN
    BY Zenon
  <2>2. inbox \in Seq(Events) /\ deferred \in Seq(Triggers \cup {"insert"})
    OBVIOUS
  <2>3. session \in [Tasks -> Sessions]
    OBVIOUS
  <2>4. /\ state \in 0..3 /\ shutdowns \in Nat
        /\ call \in [Tasks -> {"idle", "open", "claimed", "refused"}]
        /\ DOMAIN callOp = Tasks /\ DOMAIN callAnswer = Tasks
        /\ task \in [Tasks -> {"free", "spawned", "calling", "done"}]
        /\ cmd \in [Tasks -> Commands \cup {"none"}]
    OBVIOUS
  <2>. QED
    BY <2>1, <2>2, <2>3, <2>4, Zenon DEF CoreType
<1>2. ~Reported
  BY DEF Reported, Queued, Exits
<1>3. CallShape /\ ShutShape
  BY <1>2 DEF CallShape, ShutShape
<1>. QED
  BY <1>1, <1>3 DEF Shape

(* The app of a game that shuts down once exits only when the shutdown is  *)
(* over: what GameFlowShutdown says is true.                               *)
THEOREM ExitIsEarned == Spec => []ExitAfterShutdown
<1>1. Shape => ExitAfterShutdown
  BY DEF Shape, ShutShape, Reported, ExitAfterShutdown
<1>. QED
  BY <1>1, InitialShape, ShapeStep, PTL DEF Spec

-----------------------------------------------------------------------------
(* The client is there, or will be inserted at the end of this frame. *)
Present == client \/ \E j \in DOMAIN deferred : deferred[j] = "insert"

Needs == {"Ready", "HealthDegraded", "ShutdownComplete"}

ClientShape ==
  /\ (\E t \in Tasks : task[t] # "free") => Present
  /\ state >= 1 => Present
  /\ \A i \in DOMAIN inbox : inbox[i].kind \in Needs => Present
  /\ \A i \in DOMAIN deferred : deferred[i] \in Needs \cup {"Connected"} => ClientAt(i)
  /\ clientless \subseteq {"ConnectFailed"}

(* A step outside the frame: events are sent that do not need the client,  *)
(* or the client is present.                                               *)
LEMMA ClientKept ==
  ASSUME Shape, ClientShape, UNCHANGED frameVars,
         \/ UNCHANGED inbox
         \/ \E e : Send(e) /\ (e.kind \in Needs => Present),
         Present \/ UNCHANGED <<state, task>>
  PROVE  ClientShape'
<1>1. Present' <=> Present
  BY DEF Present, frameVars
<1>2. \A i \in DOMAIN inbox' : inbox'[i].kind \in Needs => Present
  BY SentOrThere DEF ClientShape, Shape, CoreType
<1>3. \A i \in DOMAIN deferred : ClientAt(i)' <=> ClientAt(i)
  BY DEF ClientAt, frameVars
<1>. QED
  BY <1>1, <1>2, <1>3 DEF ClientShape, frameVars

LEMMA ClientPump == ASSUME Shape, ClientShape, Pump PROVE ClientShape'
<1> USE DEF Shape, CoreType
<1> DEFINE k == Head(inbox).kind
<1>1. /\ inbox # <<>> /\ inbox' = Tail(inbox) /\ Defers(k)
      /\ UNCHANGED <<handleVars, client, clientless>>
      /\ k # "Connected" => task' = task
  BY DEF Pump, taskVars
<1>2. k \in Needs => Present
  BY <1>1, PumpedOrThere DEF ClientShape
<1>3. \A i \in DOMAIN inbox' : inbox'[i].kind \in Needs => Present
  BY <1>1, PumpedOrThere DEF ClientShape
<1>4. CASE k \notin Triggers
  <2>1. UNCHANGED <<deferred, client>> /\ k # "Connected"
    BY <1>1, <1>4 DEF Defers, Triggers
  <2>2. (Present' <=> Present) /\ \A i \in DOMAIN deferred : ClientAt(i)' <=> ClientAt(i)
    BY <2>1 DEF Present, ClientAt
  <2>. QED
    BY <1>1, <1>3, <2>1, <2>2 DEF ClientShape, handleVars
<1>5. CASE k \in Triggers
  <2>1. deferred' = deferred \o Deferred(k) /\ client' = client
    BY <1>1, <1>5 DEF Defers
  <2>2. deferred \in Seq(Triggers \cup {"insert"})
    OBVIOUS
  <2>3. CASE k = "Connected"
    <3>1. deferred' = deferred \o <<"insert", "Connected">>
      BY <2>1, <2>3 DEF Deferred
    <3>2. /\ Len(deferred') = Len(deferred) + 2 /\ DOMAIN deferred' = 1..Len(deferred')
          /\ \A i \in DOMAIN deferred : deferred'[i] = deferred[i]
          /\ deferred'[Len(deferred) + 1] = "insert"
          /\ deferred'[Len(deferred) + 2] = "Connected"
          /\ Len(deferred) \in Nat /\ DOMAIN deferred = 1..Len(deferred)
      BY <2>2, <3>1
    <3>3. Present'
      BY <3>2 DEF Present
    <3>4. \A i \in DOMAIN deferred : ClientAt(i) => ClientAt(i)'
      BY <2>1, <3>2 DEF ClientAt
    <3>5. ASSUME NEW i, i = Len(deferred) + 2 PROVE ClientAt(i)'
      <4>1. Len(deferred) + 1 \in 1..(i - 1)
        BY <3>2, <3>5
      <4>2. \E j \in 1..(i - 1) : deferred'[j] = "insert"
        BY <3>2, <4>1
      <4>. QED
        BY <4>2, Zenon DEF ClientAt
    <3>6. \A i \in DOMAIN deferred' :
             deferred'[i] \in Needs \cup {"Connected"} => ClientAt(i)'
      <4> SUFFICES ASSUME NEW i \in DOMAIN deferred',
                          deferred'[i] \in Needs \cup {"Connected"}
                   PROVE  ClientAt(i)'
        OBVIOUS
      <4>1. i \in DOMAIN deferred \/ i = Len(deferred) + 1 \/ i = Len(deferred) + 2
        BY <3>2
      <4>2. i # Len(deferred) + 1
        BY <3>2 DEF Needs
      <4>3. CASE i \in DOMAIN deferred
        <5>1. deferred[i] \in Needs \cup {"Connected"}
          BY <3>2, <4>3
        <5>2. ClientAt(i)
          BY <4>3, <5>1 DEF ClientShape
        <5>. QED
          BY <3>4, <4>3, <5>2
      <4>. QED
        BY <3>5, <4>1, <4>2, <4>3
    <3>. QED
      BY <1>1, <3>3, <3>6 DEF ClientShape
  <2>4. CASE k # "Connected"
    <3>1. deferred' = Append(deferred, k)
      BY <2>1, <2>2, <2>4 DEF Deferred
    <3>2. /\ Len(deferred') = Len(deferred) + 1 /\ DOMAIN deferred' = 1..Len(deferred')
          /\ \A i \in DOMAIN deferred : deferred'[i] = deferred[i]
          /\ deferred'[Len(deferred) + 1] = k
          /\ Len(deferred) \in Nat /\ DOMAIN deferred = 1..Len(deferred)
      BY <2>2, <3>1
    <3>3. Present => Present'
      BY <2>1, <3>2 DEF Present
    <3>4. \A i \in DOMAIN deferred : ClientAt(i) => ClientAt(i)'
      BY <2>1, <3>2 DEF ClientAt
    <3>5. ASSUME NEW i, i = Len(deferred) + 1, Present PROVE ClientAt(i)'
      <4>1. client' = client
        BY <2>1
      <4>2. \A j \in DOMAIN deferred : j \in 1..(i - 1) /\ deferred'[j] = deferred[j]
        BY <3>2, <3>5
      <4>. QED
        BY <3>5, <4>1, <4>2, Zenon DEF ClientAt, Present
    <3>6. \A i \in DOMAIN deferred' :
             deferred'[i] \in Needs \cup {"Connected"} => ClientAt(i)'
      <4> SUFFICES ASSUME NEW i \in DOMAIN deferred',
                          deferred'[i] \in Needs \cup {"Connected"}
                   PROVE  ClientAt(i)'
        OBVIOUS
      <4>1. i \in DOMAIN deferred \/ i = Len(deferred) + 1
        BY <3>2
      <4>2. CASE i \in DOMAIN deferred
        <5>1. deferred[i] \in Needs \cup {"Connected"}
          BY <3>2, <4>2
        <5>2. ClientAt(i)
          BY <4>2, <5>1 DEF ClientShape
        <5>. QED
          BY <3>4, <4>2, <5>2
      <4>3. CASE i = Len(deferred) + 1
        <5>1. k \in Needs
          BY <2>4, <3>2, <4>3
        <5>. QED
          BY <1>2, <3>5, <4>3, <5>1
      <4>. QED
        BY <4>1, <4>2, <4>3
    <3>. QED
      BY <1>1, <1>3, <2>4, <3>3, <3>6 DEF ClientShape, handleVars
  <2>. QED
    BY <2>3, <2>4
<1>. QED
  BY <1>4, <1>5

LEMMA ClientEndFrame == ASSUME Shape, ClientShape, EndFrame PROVE ClientShape'
<1> USE DEF Shape, CoreType
<1>1. /\ client' = ClientAt(Len(deferred) + 1) /\ deferred' = <<>>
      /\ UNCHANGED <<state, task, inbox>>
  BY DEF EndFrame, handleVars, taskVars
<1>2. Len(deferred) \in Nat /\ DOMAIN deferred = 1..Len(deferred)
  OBVIOUS
<1>3. Present => Present'
  <2>1. (Len(deferred) + 1) - 1 = Len(deferred)
    BY <1>2
  <2>2. 1..((Len(deferred) + 1) - 1) = DOMAIN deferred
    BY <1>2, <2>1
  <2>3. ClientAt(Len(deferred) + 1) <=> client \/ \E j \in DOMAIN deferred : deferred[j] = "insert"
    BY <2>2, Zenon DEF ClientAt
  <2>. QED
    BY <1>1, <2>3 DEF Present
<1>4. \A i \in DOMAIN deferred :
         deferred[i] # "insert" /\ ~ClientAt(i) => deferred[i] = "ConnectFailed"
  <2>1. \A i \in DOMAIN deferred : deferred[i] \in Triggers \cup {"insert"}
    OBVIOUS
  <2>. QED
    BY <2>1 DEF ClientShape, Triggers, Needs
<1>5. clientless' \subseteq {"ConnectFailed"}
  BY <1>4 DEF EndFrame, ClientShape
<1>6. DOMAIN deferred' = {}
  BY <1>1
<1>. QED
  BY <1>1, <1>3, <1>5, <1>6 DEF ClientShape

LEMMA ClientStep == Shape /\ ClientShape /\ [Next]_vars => ClientShape'
<1> SUFFICES ASSUME Shape, ClientShape, [Next]_vars PROVE ClientShape'
  OBVIOUS
<1>1. ASSUME Connect \/ SendConnected \/ Update,
             UNCHANGED <<handleVars, taskVars, frameVars>>
      PROVE  ClientShape'
  <2>1. \/ UNCHANGED inbox
        \/ \E e : Send(e) /\ (e.kind \in Needs => Present)
    BY <1>1 DEF Connect, SendConnected, Update, Event, Needs, ClientShape
  <2>. QED
    BY <1>1, <2>1, ClientKept DEF handleVars, taskVars
<1>2. ASSUME NEW t \in Tasks, NEW o \in Commands, NEW s \in Sessions, Command(t, o, s),
             UNCHANGED <<handleVars, inbox, frameVars>>
      PROVE  ClientShape'
  BY <1>2, ClientKept DEF Command, Present
<1>3. ASSUME NEW t \in Tasks, TaskStep(t), UNCHANGED frameVars PROVE ClientShape'
  <2>1. task[t] # "free" \/ call[t] # "idle" \/ UNCHANGED <<state, task, inbox>>
    BY <1>3 DEF TaskStep, CallHandle, CallPlayers, SendOutcome, HandleAnswered,
                PlayersAnswered, SdkStep, handleVars, taskVars, H!Step, H!Tell,
                H!BecomeReady, H!Claim, H!Complete, H!Return, H!Answer
  <2>2. Present \/ UNCHANGED <<state, task, inbox>>
    BY <2>1 DEF ClientShape, Shape, CallShape
  <2>3. UNCHANGED inbox \/ \E e : Send(e)
    BY <1>3 DEF TaskStep, CallHandle, CallPlayers, SendOutcome, HandleAnswered,
                PlayersAnswered, SdkStep
  <2>. QED
    BY <1>3, <2>2, <2>3, ClientKept
<1>4. ASSUME UNCHANGED vars PROVE ClientShape'
  BY <1>4, ClientKept DEF vars, handleVars, taskVars
<1>. QED
  BY <1>1, <1>2, <1>3, <1>4, ClientPump, ClientEndFrame DEF Next, TasksStep, FrameStep

(* No observer of a lifecycle event looks for the client in vain. *)
THEOREM ObserversFindClient == Spec => []ClientBeforeEvents
<1>1. Init => ClientShape
  <2> SUFFICES ASSUME Init PROVE ClientShape
    OBVIOUS
  <2>1. /\ state = 0 /\ clientless = {} /\ \A t \in Tasks : task[t] = "free"
        /\ DOMAIN inbox = {} /\ DOMAIN deferred = {}
    BY DEF Init, H!Init
  <2>. QED
    BY <2>1 DEF ClientShape
<1>2. ClientShape => ClientBeforeEvents
  BY DEF ClientShape, ClientBeforeEvents
<1>. QED
  BY <1>1, <1>2, InitialShape, ShapeStep, ClientStep, PTL DEF Spec
-----------------------------------------------------------------------------
(* What CoreType leaves out of the type invariant. *)
RestType ==
  /\ link \in {"connecting", "watching", "connected", "failed"}
  /\ autoReady \in BOOLEAN
  /\ updates \in 0..MaxUpdates
  /\ clientless \in SUBSET Triggers
  /\ report \in [Sessions -> Reports \cup {"none"}]
  /\ muddled \in SUBSET Sessions

LEMMA RestTypeStep == CoreType /\ RestType /\ [Next]_vars => RestType'
<1> SUFFICES ASSUME CoreType, RestType, [Next]_vars PROVE RestType'
  OBVIOUS
<1> USE DEF RestType, frameVars, taskVars
<1>1. ASSUME Connect \/ SendConnected,
             UNCHANGED <<autoReady, taskVars, updates, frameVars>>
      PROVE  RestType'
  BY <1>1 DEF Connect, SendConnected, LinkGoto
<1>2. ASSUME Update, UNCHANGED <<link, autoReady, taskVars, frameVars>> PROVE RestType'
  BY <1>2, BridgeAssumption DEF Update
<1>3. ASSUME NEW t \in Tasks, NEW o \in Commands, NEW s \in Sessions, Command(t, o, s),
             UNCHANGED <<link, autoReady, updates, frameVars>>
      PROVE  RestType'
  BY <1>3 DEF Command, Spawn
<1>4. ASSUME TasksStep PROVE RestType'
  <2>1. UNCHANGED muddled
    BY <1>4 DEF TasksStep, TaskStep, CallHandle, CallPlayers, SendOutcome, SdkStep, TaskGoto
  <2>. QED
    BY <1>4, <2>1 DEF TasksStep
<1>5. ASSUME Pump PROVE RestType'
  <2>1. report' \in [Sessions -> Reports \cup {"none"}]
    BY <1>5 DEF Pump
  <2>2. UNCHANGED <<link, autoReady, updates, clientless>>
    BY <1>5 DEF Pump
  <2>3. session[AutoTask] \in Sessions
    BY BridgeAssumption DEF CoreType, AutoTask, Tasks
  <2>4. muddled' \in SUBSET Sessions
    BY <1>5, <2>3 DEF Pump, Spawn
  <2>. QED
    BY <2>1, <2>2, <2>4
<1>6. ASSUME EndFrame PROVE RestType'
  <2>1. \A k \in DOMAIN deferred : deferred[k] \in Triggers \cup {"insert"}
    BY DEF CoreType
  <2>2. clientless' \in SUBSET Triggers
    BY <1>6, <2>1 DEF EndFrame
  <2>3. UNCHANGED <<link, autoReady, updates, report, muddled>>
    BY <1>6 DEF EndFrame
  <2>. QED
    BY <2>2, <2>3
<1>7. ASSUME UNCHANGED vars PROVE RestType'
  BY <1>7 DEF vars
<1>. QED
  BY <1>1, <1>2, <1>3, <1>4, <1>5, <1>6, <1>7 DEF Next, FrameStep

(* Every variable of the bridge keeps its type; in particular a report is  *)
(* about a player, and nothing else is ever queued.                        *)
THEOREM TypeCorrect == Spec => []TypeOK
<1>1. Init => RestType
  BY BridgeAssumption DEF Init, RestType
<1>2. Shape => CoreType
  BY DEF Shape
<1>3. CoreType /\ RestType => TypeOK
  BY DEF CoreType, RestType, TypeOK
<1>. QED
  BY <1>1, <1>2, <1>3, InitialShape, ShapeStep, RestTypeStep, PTL DEF Spec

-----------------------------------------------------------------------------
(* Reports about players.  An event is about s if it becomes the report    *)
(* about s; the last word about s is the last such event in the channel,   *)
(* or the report if there is none.                                         *)
IsTrue(kind, s, players) ==
  /\ kind = "PlayerConnected" => s \in players
  /\ kind = "PlayerDisconnected" => s \notin players

About(e, s) == e.kind \in Reports /\ e.of = s

LastAbout(i, s) ==
  About(inbox[i], s) /\ \A j \in DOMAIN inbox : About(inbox[j], s) => j <= i

LastWord(s) ==
  /\ \A i \in DOMAIN inbox : LastAbout(i, s) => IsTrue(inbox[i].kind, s, list.values)
  /\ (\A i \in DOMAIN inbox : ~About(inbox[i], s)) => IsTrue(report[s], s, list.values)

Playing(t) == task[t] \in {"spawned", "calling"} /\ cmd[t] \in PlayerCommands

(* The call of t has taken effect, or will say so. *)
Joined(t) ==
  /\ task[t] = "calling" /\ cmd[t] = "connect"
  /\ stage[t] = "applied" \/ (stage[t] = "idle" /\ answer[t] = "Ok")

Left(t) ==
  /\ task[t] = "calling" /\ cmd[t] = "disconnect"
  /\ stage[t] = "applied" \/ (stage[t] = "idle" /\ answer[t] \in {"Ok", "False"})

RegistryShape ==
  /\ list \in [exists : BOOLEAN, capacity : Int, values : SUBSET Sessions]
  /\ stage \in [Tasks -> R!Stages]
  /\ DOMAIN op = Tasks /\ DOMAIN answer = Tasks
  /\ \A t \in Tasks : stage[t] # "idle" =>
       task[t] = "calling" /\ cmd[t] \in PlayerCommands /\ op[t] = cmd[t]

(* A player that no two commands were given for at once has one task at    *)
(* most, which knows what it has done to the list; without one the last    *)
(* word about the player is true.                                          *)
SoleTask ==
  \A t, u \in Tasks :
    Playing(t) /\ Playing(u) /\ session[u] = session[t] /\ session[t] \notin muddled
      => u = t

Knowledge ==
  \A t \in Tasks : session[t] \notin muddled =>
    /\ Joined(t) => session[t] \in list.values
    /\ Left(t) => session[t] \notin list.values

TrueWords == \A s \in Sessions \ muddled : ~UnderWay(s) => LastWord(s)

PlayerShape == RegistryShape /\ SoleTask /\ Knowledge /\ TrueWords

-----------------------------------------------------------------------------
(* What happens to the last word.                                          *)
LEMMA WordKept ==
  ASSUME NEW s \in Sessions, LastWord(s), UNCHANGED <<inbox, report>>,
         s \in list'.values <=> s \in list.values
  PROVE  LastWord(s)'
  BY DEF LastWord, LastAbout, About, IsTrue

LEMMA SentSequence ==
  ASSUME inbox \in Seq(Events), NEW e, Send(e)
  PROVE  /\ Len(inbox) \in Nat /\ DOMAIN inbox = 1..Len(inbox)
         /\ DOMAIN inbox' = 1..(Len(inbox) + 1)
         /\ inbox'[Len(inbox) + 1] = e
         /\ \A i \in DOMAIN inbox : inbox'[i] = inbox[i]
  BY DEF Send

LEMMA WordOther ==
  ASSUME CoreType, NEW s \in Sessions, LastWord(s), NEW e, Send(e), ~About(e, s),
         UNCHANGED report, s \in list'.values <=> s \in list.values
  PROVE  LastWord(s)'
<1> DEFINE n == Len(inbox)
<1>1. /\ n \in Nat /\ DOMAIN inbox = 1..n /\ DOMAIN inbox' = 1..(n + 1)
      /\ inbox'[n + 1] = e
      /\ \A i \in DOMAIN inbox : inbox'[i] = inbox[i]
  BY SentSequence DEF CoreType
<1>2. \A i \in DOMAIN inbox' : About(inbox'[i], s) =>
        i \in DOMAIN inbox /\ About(inbox[i], s)
  BY <1>1 DEF About
<1>3. \A i \in DOMAIN inbox : i \in DOMAIN inbox' /\ inbox'[i] = inbox[i]
  BY <1>1
<1>4. \A k : IsTrue(k, s, list'.values) <=> IsTrue(k, s, list.values)
  BY DEF IsTrue
<1>5. ASSUME NEW i \in DOMAIN inbox', LastAbout(i, s)'
      PROVE  IsTrue(inbox'[i].kind, s, list'.values)
  <2>1. About(inbox'[i], s)
    BY <1>5 DEF LastAbout, About
  <2>2. i \in DOMAIN inbox /\ About(inbox[i], s) /\ inbox'[i] = inbox[i]
    BY <1>2, <1>3, <2>1
  <2>3. \A j \in DOMAIN inbox : About(inbox[j], s) => j <= i
    BY <1>3, <1>5 DEF LastAbout, About
  <2>4. IsTrue(inbox[i].kind, s, list.values)
    BY <2>2, <2>3 DEF LastWord, LastAbout
  <2>. QED
    BY <1>4, <2>2, <2>4
<1>6. ASSUME \A i \in DOMAIN inbox' : ~About(inbox'[i], s)
      PROVE  IsTrue(report'[s], s, list'.values)
  <2>1. \A i \in DOMAIN inbox : ~About(inbox[i], s)
    BY <1>3, <1>6
  <2>2. IsTrue(report[s], s, list.values) /\ report' = report
    BY <2>1 DEF LastWord
  <2>. QED
    BY <1>4, <2>2
<1>. QED
  BY <1>5, <1>6 DEF LastWord, About

LEMMA WordSent ==
  ASSUME CoreType, NEW s \in Sessions, NEW e, Send(e), About(e, s),
         IsTrue(e.kind, s, list'.values)
  PROVE  LastWord(s)'
<1> DEFINE n == Len(inbox)
<1>1. /\ n \in Nat /\ DOMAIN inbox' = 1..(n + 1) /\ inbox'[n + 1] = e
  BY SentSequence DEF CoreType
<1>2. n + 1 \in DOMAIN inbox'
  BY <1>1
<1>3. ASSUME NEW i \in DOMAIN inbox', LastAbout(i, s)' PROVE i = n + 1
  <2>1. n + 1 <= i
    BY <1>1, <1>2, <1>3 DEF LastAbout, About
  <2>. QED
    BY <1>1, <2>1
<1>4. \A i \in DOMAIN inbox' : LastAbout(i, s)' => IsTrue(inbox'[i].kind, s, list'.values)
  BY <1>1, <1>3
<1>5. ~(\A i \in DOMAIN inbox' : ~About(inbox'[i], s))
  BY <1>1, <1>2
<1>. QED
  BY <1>4, <1>5 DEF LastWord, About

LEMMA WordPumped ==
  ASSUME CoreType, NEW s \in Sessions, LastWord(s), inbox # <<>>,
         inbox' = Tail(inbox), UNCHANGED list, report \in [Sessions -> Reports \cup {"none"}],
         report' = IF Head(inbox).kind \in Reports
                   THEN [report EXCEPT ![Head(inbox).of] = Head(inbox).kind] ELSE report
  PROVE  LastWord(s)'
<1> DEFINE n == Len(inbox)
<1>1. /\ n \in Nat \ {0} /\ DOMAIN inbox = 1..n /\ DOMAIN inbox' = 1..(n - 1)
      /\ Head(inbox) = inbox[1]
      /\ \A i \in DOMAIN inbox' : inbox'[i] = inbox[i + 1]
  BY DEF CoreType
<1>2. list'.values = list.values
  OBVIOUS
<1>3. ASSUME NEW i \in DOMAIN inbox', LastAbout(i, s)'
      PROVE  IsTrue(inbox'[i].kind, s, list'.values)
  <2>1. /\ About(inbox'[i], s)
        /\ \A j \in DOMAIN inbox' : About(inbox'[j], s) => j <= i
    BY <1>3 DEF LastAbout, About
  <2>2. i + 1 \in DOMAIN inbox /\ inbox'[i] = inbox[i + 1]
    BY <1>1
  <2>3. ASSUME NEW j \in DOMAIN inbox, About(inbox[j], s) PROVE j <= i + 1
    <3>1. CASE j = 1
      BY <1>1, <3>1
    <3>2. CASE j # 1
      <4>1. j - 1 \in DOMAIN inbox' /\ inbox'[j - 1] = inbox[(j - 1) + 1] /\ (j - 1) + 1 = j
        BY <1>1, <3>2
      <4>2. j - 1 <= i
        BY <2>1, <2>3, <4>1
      <4>. QED
        BY <1>1, <4>2
    <3>. QED
      BY <3>1, <3>2
  <2>4. LastAbout(i + 1, s)
    BY <2>1, <2>2, <2>3 DEF LastAbout
  <2>5. IsTrue(inbox[i + 1].kind, s, list.values)
    BY <2>2, <2>4 DEF LastWord
  <2>. QED
    BY <1>2, <2>2, <2>5
<1>4. ASSUME \A i \in DOMAIN inbox' : ~About(inbox'[i], s)
      PROVE  IsTrue(report'[s], s, list'.values)
  <2>1. ASSUME NEW j \in DOMAIN inbox, About(inbox[j], s) PROVE j = 1
    <3>1. CASE j # 1
      <4>1. j - 1 \in DOMAIN inbox' /\ inbox'[j - 1] = inbox[(j - 1) + 1] /\ (j - 1) + 1 = j
        BY <1>1, <3>1
      <4>. QED
        BY <1>4, <2>1, <4>1
    <3>. QED
      BY <3>1
  <2>2. CASE About(inbox[1], s)
    <3>1. 1 \in DOMAIN inbox
      BY <1>1
    <3>2. LastAbout(1, s)
      BY <1>1, <2>1, <2>2 DEF LastAbout
    <3>3. IsTrue(inbox[1].kind, s, list.values)
      BY <3>1, <3>2 DEF LastWord
    <3>4. report'[s] = inbox[1].kind
      BY <1>1, <2>2 DEF About
    <3>. QED
      BY <1>2, <3>3, <3>4
  <2>3. CASE ~About(inbox[1], s)
    <3>1. \A j \in DOMAIN inbox : ~About(inbox[j], s)
      BY <2>1, <2>3
    <3>2. report'[s] = report[s]
      BY <1>1, <2>3 DEF About
    <3>. QED
      BY <1>2, <3>1, <3>2 DEF LastWord
  <2>. QED
    BY <2>2, <2>3
<1>. QED
  BY <1>3, <1>4 DEF LastWord, About

-----------------------------------------------------------------------------
(* The steps of the tasks, by what they do to the shape.  A step that      *)
(* leaves the registry, the tasks and the words alone.                     *)
LEMMA PlayersKept ==
  ASSUME PlayerShape, UNCHANGED <<registryVars, task, cmd, muddled, inbox, report>>
  PROVE  PlayerShape'
<1>1. RegistryShape'
  BY DEF PlayerShape, RegistryShape, registryVars
<1>2. SoleTask' /\ Knowledge'
  BY DEF PlayerShape, SoleTask, Knowledge, Playing, Joined, Left, registryVars
<1>3. \A s \in Sessions : UnderWay(s)' <=> UnderWay(s)
  BY DEF UnderWay, registryVars
<1>4. TrueWords'
  BY <1>3, WordKept DEF PlayerShape, TrueWords, registryVars
<1>. QED
  BY <1>1, <1>2, <1>4 DEF PlayerShape

(* A new command. *)
LEMMA PlayersSpawn ==
  ASSUME CoreType, PlayerShape, NEW t \in Tasks, NEW o \in Commands, NEW s \in Sessions,
         Spawn(t, o, s)
  PROVE  /\ RegistryShape' /\ SoleTask' /\ Knowledge'
         /\ list' = list /\ muddled \subseteq muddled'
         /\ \A r \in Sessions : UnderWay(r) => UnderWay(r)'
<1>1. /\ task[t] = "free" /\ task' = [task EXCEPT ![t] = "spawned"]
      /\ cmd' = [cmd EXCEPT ![t] = o]
      /\ session' = [session EXCEPT ![t] = s]
      /\ muddled' = IF o \in PlayerCommands /\ UnderWay(s) THEN muddled \cup {s}
                                                            ELSE muddled
      /\ UNCHANGED <<list, stage, op, answer>>
  BY DEF Spawn
<1>2. \A u \in Tasks : u # t => /\ task'[u] = task[u] /\ cmd'[u] = cmd[u]
                                /\ session'[u] = session[u]
  BY <1>1 DEF CoreType
<1>3. task'[t] = "spawned" /\ cmd'[t] = o /\ session'[t] = s
  BY <1>1 DEF CoreType
<1>4. RegistryShape'
  BY <1>1, <1>2 DEF PlayerShape, RegistryShape
<1>5. muddled \subseteq muddled'
  BY <1>1
<1>6. \A u \in Tasks : u # t => (Playing(u)' <=> Playing(u))
  BY <1>2 DEF Playing
<1>7. Playing(t)' => o \in PlayerCommands
  BY <1>3 DEF Playing
<1>8. ~Playing(t)
  BY <1>1 DEF Playing
<1>9. SoleTask'
  <2> SUFFICES ASSUME NEW u \in Tasks, NEW v \in Tasks, Playing(u)', Playing(v)',
                      session'[v] = session'[u], session'[u] \notin muddled', u # v
               PROVE  FALSE
    BY DEF SoleTask
  <2>1. CASE u # t /\ v # t
    BY <1>2, <1>5, <1>6, <2>1 DEF PlayerShape, SoleTask
  <2>2. ASSUME NEW w \in Tasks, w # t, Playing(w)', Playing(t)', session'[w] = s
        PROVE  s \in muddled'
    <3>1. UnderWay(s)
      BY <1>2, <1>6, <2>2 DEF UnderWay, Playing
    <3>. QED
      BY <1>1, <1>7, <2>2, <3>1
  <2>. QED
    BY <1>3, <2>1, <2>2
<1>10. Knowledge'
  <2>1. \A u \in Tasks : u # t => (Joined(u)' <=> Joined(u)) /\ (Left(u)' <=> Left(u))
    BY <1>1, <1>2 DEF Joined, Left
  <2>2. ~Joined(t)' /\ ~Left(t)'
    BY <1>3 DEF Joined, Left
  <2>. QED
    BY <1>1, <1>2, <1>5, <2>1, <2>2 DEF PlayerShape, Knowledge
<1>11. \A r \in Sessions : UnderWay(r) => UnderWay(r)'
  BY <1>1, <1>2 DEF UnderWay
<1>. QED
  BY <1>1, <1>4, <1>5, <1>9, <1>10, <1>11

(* The list and the channel stay, except as far as the player of one task  *)
(* under way is concerned.                                                 *)
LEMMA PlayersTask ==
  ASSUME CoreType, PlayerShape, NEW t \in Tasks,
         RegistryShape', UNCHANGED <<muddled, report>>,
         \A u \in Tasks : u # t =>
           /\ task'[u] = task[u] /\ cmd'[u] = cmd[u]
           /\ stage'[u] = stage[u] /\ answer'[u] = answer[u],
         session' = session,
         \A s \in Sessions : s # session[t] => (s \in list'.values <=> s \in list.values),
         Playing(t)' => Playing(t),
         Playing(t) \/ list' = list,
         session[t] \notin muddled =>
           /\ Joined(t)' => session[t] \in list'.values
           /\ Left(t)' => session[t] \notin list'.values,
         \/ inbox' = inbox /\ (Playing(t)' <=> Playing(t))
         \/ \E e : /\ Send(e)
                   /\ \A s \in Sessions : About(e, s) => s = session[t]
                   /\ Playing(t) => About(e, session[t])
                   /\ (About(e, session[t]) /\ session[t] \notin muddled) =>
                         Playing(t) /\ IsTrue(e.kind, session[t], list'.values)
  PROVE  PlayerShape'
<1>1. session[t] \in Sessions
  BY DEF CoreType
<1>2. \A u \in Tasks : u # t => (Playing(u)' <=> Playing(u))
  BY DEF Playing
<1>3. SoleTask'
  BY <1>2 DEF PlayerShape, SoleTask
<1>4. ASSUME NEW u \in Tasks, u # t, Playing(u), session[u] \notin muddled
      PROVE  session[u] \in list'.values <=> session[u] \in list.values
  <2>1. session[u] \in Sessions
    BY DEF CoreType
  <2>2. session[u] = session[t] => ~Playing(t)
    BY <1>4 DEF PlayerShape, SoleTask
  <2>. QED
    BY <2>1, <2>2
<1>5. Knowledge'
  <2>1. \A u \in Tasks : u # t => (Joined(u)' <=> Joined(u)) /\ (Left(u)' <=> Left(u))
    BY DEF Joined, Left
  <2>2. \A u \in Tasks : Joined(u) \/ Left(u) => Playing(u)
    BY DEF Joined, Left, Playing, PlayerCommands
  <2>. QED
    BY <1>4, <2>1, <2>2 DEF PlayerShape, Knowledge
<1>6. \A s \in Sessions : s # session[t] => (UnderWay(s)' <=> UnderWay(s))
  <2>1. \A s \in Sessions : UnderWay(s) <=> \E u \in Tasks : session[u] = s /\ Playing(u)
    BY DEF UnderWay, Playing
  <2>2. \A s \in Sessions : UnderWay(s)' <=> \E u \in Tasks : session'[u] = s /\ Playing(u)'
    BY DEF UnderWay, Playing
  <2>. QED
    BY <1>2, <2>1, <2>2
<1>7. Playing(t) => UnderWay(session[t])
  BY DEF UnderWay, Playing
<1>8. ASSUME NEW s \in Sessions, s \notin muddled, ~UnderWay(s)'
      PROVE  LastWord(s)'
  <2>1. CASE s # session[t]
    <3>1. LastWord(s)
      BY <1>6, <1>8, <2>1 DEF PlayerShape, TrueWords
    <3>. QED
      BY <2>1, <3>1, WordKept, WordOther
  <2>2. CASE s = session[t] /\ ~UnderWay(s)
    <3>1. LastWord(s) /\ ~Playing(t) /\ list' = list
      BY <1>7, <1>8, <2>2 DEF PlayerShape, TrueWords
    <3>. QED
      BY <1>8, <2>2, <3>1, WordKept, WordOther
  <2>3. CASE s = session[t] /\ UnderWay(s)
    <3>1. PICK u \in Tasks : session[u] = s /\ Playing(u)
      BY <2>3 DEF UnderWay, Playing
    <3>2. ~Playing(u)'
      BY <1>8, <3>1 DEF UnderWay, Playing
    <3>3. u = t
      BY <1>2, <3>1, <3>2
    <3>4. PICK e : Send(e) /\ About(e, s) /\ IsTrue(e.kind, s, list'.values)
      BY <1>8, <2>3, <3>1, <3>2, <3>3
    <3>. QED
      BY <3>4, WordSent
  <2>. QED
    BY <2>1, <2>2, <2>3
<1>9. TrueWords'
  BY <1>8 DEF TrueWords
<1>. QED
  BY <1>3, <1>5, <1>9 DEF PlayerShape

(* A task calls the SDK, or learns from the guard that it may not.         *)
LEMMA PlayersCall ==
  ASSUME CoreType, PlayerShape, NEW t \in Tasks, CallHandle(t) \/ CallPlayers(t),
         UNCHANGED report
  PROVE  PlayerShape'
<1>1. task[t] = "spawned" /\ UNCHANGED <<cmd, muddled>>
  BY DEF CallHandle, CallPlayers, TaskGoto
<1>2. \A u \in Tasks : u # t => task'[u] = task[u] /\ cmd'[u] = cmd[u]
  BY DEF CallHandle, CallPlayers, TaskGoto, CoreType
<1>3. stage[t] = "idle"
  BY <1>1 DEF PlayerShape, RegistryShape
<1>4. session[t] \in Sessions
  BY DEF CoreType
<1>5. CASE /\ cmd[t] \in {"ready", "shutdown"} /\ task'[t] = "calling"
           /\ UNCHANGED <<registryVars, inbox>>
  <2>1. RegistryShape'
    BY <1>1, <1>2, <1>5 DEF PlayerShape, RegistryShape, registryVars
  <2>2. ~Playing(t) /\ ~Playing(t)' /\ ~Joined(t)' /\ ~Left(t)'
    BY <1>1, <1>5 DEF Playing, Joined, Left, PlayerCommands
  <2>. QED
    BY <1>1, <1>2, <1>5, <2>1, <2>2, PlayersTask DEF registryVars
<1>6. CASE /\ cmd[t] \in PlayerCommands /\ task'[t] = "calling" /\ UNCHANGED inbox
           /\ R!Open(t, cmd[t], session[t]) \/ R!OpenRefused(t, session[t])
  <2>1. /\ list' = list /\ session' = session /\ DOMAIN op' = Tasks /\ DOMAIN answer' = Tasks
        /\ stage' \in [Tasks -> R!Stages]
        /\ \A u \in Tasks : u # t => stage'[u] = stage[u] /\ op'[u] = op[u]
                                      /\ answer'[u] = answer[u]
        /\ stage'[t] = "idle" \/ (stage'[t] = "open" /\ op'[t] = cmd[t])
        /\ answer'[t] \in {"none", "TrackingDisabled"}
    BY <1>6 DEF R!Open, R!OpenRefused, R!Move, R!Stages, PlayerShape, RegistryShape, CoreType
  <2>2. RegistryShape'
    BY <1>1, <1>2, <1>6, <2>1 DEF PlayerShape, RegistryShape
  <2>3. Playing(t) /\ Playing(t)' /\ ~Joined(t)' /\ ~Left(t)'
    BY <1>1, <1>6, <2>1 DEF Playing, Joined, Left
  <2>. QED
    BY <1>1, <1>2, <1>6, <2>1, <2>2, <2>3, PlayersTask
<1>7. CASE /\ cmd[t] \in PlayerCommands /\ task'[t] = "done" /\ UNCHANGED registryVars
           /\ Send(Report("PlayerConnectFailed", session[t]))
  <2>1. RegistryShape'
    BY <1>1, <1>2, <1>3, <1>7 DEF PlayerShape, RegistryShape, registryVars
  <2>2. Playing(t) /\ ~Playing(t)' /\ ~Joined(t)' /\ ~Left(t)'
    BY <1>1, <1>7 DEF Playing, Joined, Left
  <2>3. PICK e : /\ Send(e) /\ e.of = session[t] /\ e.kind = "PlayerConnectFailed"
    BY <1>7 DEF Report
  <2>4. /\ \A s \in Sessions : About(e, s) => s = session[t]
        /\ About(e, session[t]) /\ IsTrue(e.kind, session[t], list'.values)
    BY <2>3 DEF About, IsTrue, Reports
  <2>. QED
    BY <1>1, <1>2, <1>7, <2>1, <2>2, <2>3, <2>4, PlayersTask DEF registryVars
<1>. QED
  <2>1. CASE CallHandle(t)
    BY <1>1, <1>5, <2>1 DEF CallHandle, TaskGoto, CoreType
  <2>2. CASE CallPlayers(t)
    BY <1>1, <1>6, <1>7, <2>2, Zenon DEF CallPlayers, TaskGoto, CoreType
  <2>. QED
    BY <2>1, <2>2

(* The outcome of a call of a player is what the task knows.               *)
LEMMA PlayersOutcome ==
  ASSUME CoreType, PlayerShape, NEW t \in Tasks, SendOutcome(t), UNCHANGED report
  PROVE  PlayerShape'
<1>1. /\ task[t] = "calling" /\ UNCHANGED <<list, stage, session, muddled>>
      /\ task' = [task EXCEPT ![t] = "done"] /\ cmd' = [cmd EXCEPT ![t] = "none"]
      /\ op' = [op EXCEPT ![t] = "none"] /\ answer' = [answer EXCEPT ![t] = "none"]
  BY DEF SendOutcome, HandleAnswered, PlayersAnswered
<1>2. stage[t] = "idle"
  BY DEF SendOutcome, HandleAnswered, PlayersAnswered, PlayerShape, RegistryShape,
         PlayerCommands
<1>3. \A u \in Tasks : u # t => /\ task'[u] = task[u] /\ cmd'[u] = cmd[u]
                                /\ op'[u] = op[u] /\ answer'[u] = answer[u]
  BY <1>1 DEF PlayerShape, RegistryShape, CoreType
<1>4. RegistryShape'
  BY <1>1, <1>2, <1>3 DEF PlayerShape, RegistryShape
<1>5. ~Playing(t)' /\ ~Joined(t)' /\ ~Left(t)'
  BY <1>1 DEF Playing, Joined, Left, CoreType
<1>6. session[t] \in Sessions
  BY DEF CoreType
<1>7. CASE HandleAnswered(t)
  <2>1. ~Playing(t)
    BY <1>7 DEF HandleAnswered, Playing, PlayerCommands
  <2>2. PICK e : Send(e) /\ e.kind \notin Reports
    BY <1>7 DEF HandleAnswered, Event, Reports
  <2>3. \A s \in Sessions : ~About(e, s)
    BY <2>2 DEF About
  <2>. QED
    BY <1>1, <1>3, <1>4, <1>5, <1>6, <2>1, <2>2, <2>3, PlayersTask
<1>8. CASE PlayersAnswered(t)
  <2>1. Playing(t)
    BY <1>8 DEF PlayersAnswered, Playing
  <2> DEFINE k == IF cmd[t] = "connect" THEN JoinReport(answer[t]) ELSE LeftReport(answer[t])
  <2>2. Send(Report(k, session[t]))
    BY <1>8 DEF PlayersAnswered
  <2>3. k \in Reports
    BY DEF JoinReport, LeftReport, Reports
  <2>4. session[t] \notin muddled => IsTrue(k, session[t], list.values)
    <3>1. k = "PlayerConnected" => Joined(t)
      BY <1>1, <1>2 DEF JoinReport, LeftReport, Joined
    <3>2. k = "PlayerDisconnected" => Left(t)
      BY <1>1, <1>2, <1>8 DEF JoinReport, LeftReport, Left, PlayersAnswered, PlayerCommands
    <3>. QED
      BY <3>1, <3>2 DEF IsTrue, PlayerShape, Knowledge
  <2> HIDE DEF k
  <2>5. PICK e : Send(e) /\ e.kind = k /\ e.of = session[t]
    BY <2>2 DEF Report
  <2>6. /\ \A s \in Sessions : About(e, s) => s = session[t]
        /\ About(e, session[t])
        /\ session[t] \notin muddled => IsTrue(e.kind, session[t], list'.values)
    BY <1>1, <2>3, <2>4, <2>5 DEF About
  <2>. QED
    BY <1>1, <1>3, <1>4, <1>5, <2>1, <2>5, <2>6, PlayersTask
<1>. QED
  BY <1>7, <1>8 DEF SendOutcome

(* The SDK takes a step with the call of a task: the list changes only     *)
(* with what the task then knows of it.                                    *)
LEMMA PlayersSdk ==
  ASSUME CoreType, PlayerShape, NEW t \in Tasks, SdkStep(t), UNCHANGED report
  PROVE  PlayerShape'
<1>1. UNCHANGED <<task, cmd, muddled, inbox>>
  BY DEF SdkStep, taskVars
<1>2. session[t] \in Sessions
  BY DEF CoreType
<1>3. CASE UNCHANGED registryVars
  BY <1>1, <1>3, PlayersKept
<1>4. CASE R!Apply(t) \/ R!ApplyAndFail(t) \/ R!FindDisabled(t) \/ R!Refuse(t) \/ R!Return(t)
  <2>1. /\ stage[t] # "idle" /\ UNCHANGED <<op, session>>
        /\ \E to \in R!Stages : stage' = [stage EXCEPT ![t] = to]
        /\ answer' = answer \/ \E a : answer' = [answer EXCEPT ![t] = a]
    BY <1>4 DEF R!Apply, R!ApplyAndFail, R!FindDisabled, R!Refuse, R!Return, R!Answer,
                R!Move, R!Stages
  <2>2. task[t] = "calling" /\ cmd[t] \in PlayerCommands /\ op[t] = cmd[t]
    BY <2>1 DEF PlayerShape, RegistryShape
  <2>3. list' = list \/ R!Effect(t)
    BY <1>4 DEF R!Apply, R!ApplyAndFail, R!FindDisabled, R!Refuse, R!Return, R!Answer, R!Move
  <2>4. /\ list' \in [exists : BOOLEAN, capacity : Int, values : SUBSET Sessions]
        /\ \A s \in Sessions : s # session[t] => (s \in list'.values <=> s \in list.values)
    BY <1>2, <2>3 DEF R!Effect, PlayerShape, RegistryShape
  <2>5. \A u \in Tasks : u # t => stage'[u] = stage[u] /\ answer'[u] = answer[u]
    BY <2>1 DEF PlayerShape, RegistryShape
  <2>6. RegistryShape'
    <3>1. stage' \in [Tasks -> R!Stages] /\ DOMAIN answer' = Tasks
      BY <2>1 DEF PlayerShape, RegistryShape
    <3>. QED
      BY <1>1, <2>1, <2>2, <2>4, <2>5, <3>1 DEF PlayerShape, RegistryShape
  <2>7. Playing(t) /\ Playing(t)'
    BY <1>1, <2>2 DEF Playing
  <2>8. session[t] \notin muddled =>
          /\ Joined(t)' => session[t] \in list'.values
          /\ Left(t)' => session[t] \notin list'.values
    <3> USE DEF PlayerShape, RegistryShape
    <3>1. CASE R!Apply(t)
      <4>1. CASE cmd[t] = "connect"
        BY <1>1, <2>2, <3>1, <4>1 DEF R!Apply, R!Effect, Left
      <4>2. CASE cmd[t] = "disconnect"
        BY <1>1, <2>2, <3>1, <4>2 DEF R!Apply, R!Effect, Joined
      <4>. QED
        BY <2>2, <4>1, <4>2 DEF PlayerCommands
    <3>2. CASE R!ApplyAndFail(t)
      <4>1. stage'[t] = "idle" /\ answer'[t] = "Err"
        BY <3>2 DEF R!ApplyAndFail, R!Move
      <4>. QED
        BY <4>1 DEF Joined, Left
    <3>3. CASE R!FindDisabled(t)
      <4>1. stage'[t] = "disabled"
        BY <3>3 DEF R!FindDisabled, R!Move
      <4>. QED
        BY <4>1 DEF Joined, Left
    <3>4. CASE R!Refuse(t)
      <4>1. /\ stage'[t] = "idle" /\ UNCHANGED <<list, session>>
            /\ \/ answer'[t] \in {"AlreadyConnected", "ServerFull"}
               \/ /\ answer'[t] = "False" /\ session[t] \notin list.values
        BY <3>4 DEF R!Refuse, R!Answer, R!Move
      <4>. QED
        BY <4>1 DEF Joined, Left
    <3>5. CASE R!Return(t)
      <4>1. /\ stage'[t] = "idle" /\ UNCHANGED <<list, session>>
            /\ answer'[t] \in {"Ok", "False"} => stage[t] = "applied"
        BY <2>2, <3>5 DEF R!Return, R!Answer, R!Move, PlayerCommands
      <4>2. (Joined(t)' => Joined(t)) /\ (Left(t)' => Left(t))
        BY <1>1, <4>1 DEF Joined, Left
      <4>. QED
        BY <4>1, <4>2 DEF Knowledge
    <3>. QED
      BY <1>4, <3>1, <3>2, <3>3, <3>4, <3>5
  <2>. QED
    BY <1>1, <2>1, <2>4, <2>5, <2>6, <2>7, <2>8, PlayersTask
<1>. QED
  BY <1>3, <1>4 DEF SdkStep

-----------------------------------------------------------------------------
LEMMA PlayerShapeStep == CoreType /\ RestType /\ PlayerShape /\ [Next]_vars => PlayerShape'
<1> SUFFICES ASSUME CoreType, RestType, PlayerShape, [Next]_vars PROVE PlayerShape'
  OBVIOUS
<1>1. ASSUME Connect \/ SendConnected \/ Update,
             UNCHANGED <<registryVars, taskVars, frameVars>>
      PROVE  PlayerShape'
  <2>1. UNCHANGED inbox \/ \E e : Send(e) /\ e.kind \notin Reports
    BY <1>1 DEF Connect, SendConnected, Update, Event, Reports
  <2>2. CASE UNCHANGED inbox
    BY <1>1, <2>2, PlayersKept DEF taskVars, frameVars
  <2>3. ASSUME NEW e, Send(e), e.kind \notin Reports PROVE PlayerShape'
    <3>1. RegistryShape' /\ SoleTask' /\ Knowledge'
      BY <1>1 DEF PlayerShape, RegistryShape, SoleTask, Knowledge, Playing, Joined, Left,
                  registryVars, taskVars
    <3>2. \A s \in Sessions : (UnderWay(s)' <=> UnderWay(s)) /\ ~About(e, s)
      BY <1>1, <2>3 DEF UnderWay, About, registryVars, taskVars
    <3>3. ASSUME NEW s \in Sessions, s \notin muddled', ~UnderWay(s)' PROVE LastWord(s)'
      <4>1. LastWord(s)
        BY <1>1, <3>2, <3>3 DEF PlayerShape, TrueWords, taskVars
      <4>. QED
        BY <1>1, <2>3, <3>2, <4>1, WordOther DEF registryVars, frameVars
    <3>4. TrueWords'
      BY <3>3 DEF TrueWords
    <3>. QED
      BY <3>1, <3>4 DEF PlayerShape
  <2>. QED
    BY <2>1, <2>2, <2>3
<1>2. ASSUME NEW t \in Tasks, NEW o \in Commands, NEW s \in Sessions, Command(t, o, s),
             UNCHANGED <<inbox, frameVars>>
      PROVE  PlayerShape'
  <2>1. /\ RegistryShape' /\ SoleTask' /\ Knowledge' /\ list' = list
        /\ muddled \subseteq muddled' /\ \A r \in Sessions : UnderWay(r) => UnderWay(r)'
    BY <1>2, PlayersSpawn DEF Command
  <2>2. ASSUME NEW r \in Sessions, r \notin muddled', ~UnderWay(r)' PROVE LastWord(r)'
    <3>1. LastWord(r)
      BY <2>1, <2>2 DEF PlayerShape, TrueWords
    <3>. QED
      BY <1>2, <2>1, <3>1, WordKept DEF frameVars
  <2>3. TrueWords'
    BY <2>2 DEF TrueWords
  <2>. QED
    BY <2>1, <2>3 DEF PlayerShape
<1>3. ASSUME TasksStep PROVE PlayerShape'
  <2>1. PICK t \in Tasks : TaskStep(t) /\ UNCHANGED report
    BY <1>3 DEF TasksStep, frameVars
  <2>. QED
    BY <2>1, PlayersCall, PlayersOutcome, PlayersSdk DEF TaskStep
<1>4. ASSUME Pump PROVE PlayerShape'
  <2>1. /\ inbox # <<>> /\ inbox' = Tail(inbox)
        /\ report' = IF Head(inbox).kind \in Reports
                     THEN [report EXCEPT ![Head(inbox).of] = Head(inbox).kind] ELSE report
        /\ \/ Spawn(AutoTask, "ready", session[AutoTask])
           \/ UNCHANGED <<taskVars, registryVars>>
    BY <1>4 DEF Pump
  <2>2. AutoTask \in Tasks /\ session[AutoTask] \in Sessions /\ "ready" \in Commands
    BY BridgeAssumption DEF AutoTask, Tasks, Commands, CoreType
  <2>3. /\ RegistryShape' /\ SoleTask' /\ Knowledge' /\ list' = list
        /\ muddled \subseteq muddled' /\ \A r \in Sessions : UnderWay(r) => UnderWay(r)'
    <3>1. CASE Spawn(AutoTask, "ready", session[AutoTask])
      BY <2>2, <3>1, PlayersSpawn
    <3>2. CASE UNCHANGED <<taskVars, registryVars>>
      BY <3>2 DEF PlayerShape, RegistryShape, SoleTask, Knowledge, Playing, Joined, Left,
                  UnderWay, registryVars, taskVars
    <3>. QED
      BY <2>1, <3>1, <3>2
  <2>4. ASSUME NEW r \in Sessions, r \notin muddled', ~UnderWay(r)' PROVE LastWord(r)'
    <3>1. LastWord(r)
      BY <2>3, <2>4 DEF PlayerShape, TrueWords
    <3>. QED
      BY <2>1, <2>3, <3>1, WordPumped DEF RestType
  <2>5. TrueWords'
    BY <2>4 DEF TrueWords
  <2>. QED
    BY <2>3, <2>5 DEF PlayerShape
<1>5. ASSUME EndFrame PROVE PlayerShape'
  BY <1>5, PlayersKept DEF EndFrame, taskVars
<1>6. ASSUME UNCHANGED vars PROVE PlayerShape'
  BY <1>6, PlayersKept DEF vars, taskVars, frameVars
<1>. QED
  BY <1>1, <1>2, <1>3, <1>4, <1>5, <1>6 DEF Next, FrameStep

LEMMA InitialPlayerShape == Init => PlayerShape
<1> SUFFICES ASSUME Init PROVE PlayerShape
  OBVIOUS
<1>1. /\ \A t \in Tasks : task[t] = "free"
      /\ inbox = <<>> /\ report = [s \in Sessions |-> "none"]
  BY DEF Init
<1>2. RegistryShape
  BY BridgeAssumption DEF Init, R!Init, RegistryShape, R!Stages
<1>3. \A t \in Tasks : ~Playing(t) /\ ~Joined(t) /\ ~Left(t)
  BY <1>1 DEF Playing, Joined, Left
<1>4. SoleTask /\ Knowledge
  BY <1>3 DEF SoleTask, Knowledge
<1>5. TrueWords
  BY <1>1 DEF TrueWords, LastWord, IsTrue
<1>. QED
  BY <1>2, <1>4, <1>5 DEF PlayerShape

(* Once nothing about a player is under way or in the channel, the last    *)
(* message that the game read about the player is true of the list, if it  *)
(* never gave two commands for the player at once (:158-196).              *)
THEOREM ReportsMatchList == Spec => []ReportsAreTrue
<1>1. Init => RestType
  BY BridgeAssumption DEF Init, RestType
<1>2. Shape => CoreType
  BY DEF Shape
<1>3. PlayerShape => ReportsAreTrue
  <2> SUFFICES ASSUME PlayerShape, NEW s \in Sessions \ muddled, Quiet(s)
               PROVE  IsTrue(report[s], s, list.values)
    BY DEF ReportsAreTrue, IsTrue
  <2>1. LastWord(s) /\ \A i \in DOMAIN inbox : ~About(inbox[i], s)
    BY DEF PlayerShape, TrueWords, Quiet, About
  <2>. QED
    BY <2>1 DEF LastWord
<1>. QED
  BY <1>1, <1>2, <1>3, InitialShape, InitialPlayerShape, ShapeStep, RestTypeStep,
     PlayerShapeStep, PTL DEF Spec
=============================================================================
