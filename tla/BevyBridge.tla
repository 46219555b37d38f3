----------------------------- MODULE BevyBridge -----------------------------
(***************************************************************************)
(* The bridge between the SDK and the Bevy engine                          *)
(* (sdk/rust/examples/bevy-server/src/gameflow_plugin.rs) and the headless *)
(* server that uses it (main.rs).                                          *)
(*                                                                         *)
(* The game runs in frames and never waits.  A command spawns a task on    *)
(* the runtime of the plugin; the task makes one call of the SDK and sends *)
(* its outcome into a channel.  Once per frame the pump empties the        *)
(* channel: it writes messages, and defers what needs the world (the       *)
(* client resource, the events that observers react to) to the end of the  *)
(* frame.  The SDK is what module Handle and module Registry promise.      *)
(* Change of module Registry is left out: the platform is assumed not to   *)
(* resize, remove or create the list while the game runs.                  *)
(***************************************************************************)
EXTENDS Integers, Sequences, FiniteSets

CONSTANTS
  MaxCommands, \* bound: commands the game gives
  Sessions,    \* player session ids
  Lists,       \* the players lists the platform may have set up
  MaxUpdates   \* bound: updates and alarms the SDK sends on its own

ASSUME BridgeAssumption ==
  /\ Lists \subseteq [exists : BOOLEAN, capacity : Int, values : {{}}]
  /\ MaxCommands \in Nat
  /\ MaxUpdates \in Nat

(* One task for each command of the game, in the order in which they are   *)
(* given, and one for the ready() of the pump.                             *)
AutoTask == 0
Tasks == AutoTask..MaxCommands

VARIABLES
  state, told, call, callOp, callAnswer,   \* of module Handle
  list, stage, op, session, answer,        \* of module Registry
  link,       \* where connect_task is
  autoReady,  \* GameFlowConfig::auto_ready
  task,       \* per task: "free", "spawned", "calling" or "done"
  cmd,        \* per task: its command
  inbox,      \* the channel
  updates,    \* updates and alarms sent so far
  deferred,   \* what the pump leaves to the end of the frame
  client,     \* the GameFlowClient resource is there
  exited,     \* the app has exited
  (* ghost state *)
  clientless, \* the events that observers saw without the resource
  report,     \* per session: the last message about it
  muddled,    \* sessions with two commands under way at once
  shutdowns,  \* how many commands to shut down were given
  owed        \* how many commands the game has had no answer to

handleVars   == <<state, told, call, callOp, callAnswer>>
registryVars == <<list, stage, op, session, answer>>
taskVars     == <<task, cmd, muddled, shutdowns>>
frameVars    == <<deferred, client, exited, clientless, report>>
vars == <<handleVars, registryVars, link, autoReady, taskVars, inbox, updates,
          frameVars, owed>>

H == INSTANCE Handle WITH Callers <- Tasks, stage <- call, op <- callOp,
                          answer <- callAnswer
R == INSTANCE Registry WITH Callers <- Tasks

PlayerCommands == {"connect", "disconnect"}
Commands == {"ready", "shutdown"} \cup PlayerCommands

(* SdkEvent, with the session it is about, if any. *)
Event(kind) == [kind |-> kind, of |-> "none"]
Report(kind, s) == [kind |-> kind, of |-> s]

Reports == {"PlayerConnected", "PlayerConnectFailed", "PlayerDisconnected"}

(* The events that answer a command, and those that become events of the  *)
(* engine.                                                                 *)
Outcomes == Reports \cup {"Ready", "OperationFailed", "ShutdownComplete"}
Triggers == {"Connected", "ConnectFailed", "Ready", "HealthDegraded", "ShutdownComplete"}

Events ==
  [kind : Outcomes \cup Triggers \cup {"ServerInfo"}, of : Sessions \cup {"none"}]

TypeOK ==
  /\ state \in H!CONNECTED..H!SHUTDOWN
  /\ link \in {"connecting", "watching", "connected", "failed"}
  /\ autoReady \in BOOLEAN
  /\ task \in [Tasks -> {"free", "spawned", "calling", "done"}]
  /\ cmd \in [Tasks -> Commands \cup {"none"}]
  /\ session \in [Tasks -> Sessions]
  /\ inbox \in Seq(Events)
  /\ updates \in 0..MaxUpdates
  /\ deferred \in Seq(Triggers \cup {"insert"})
  /\ client \in BOOLEAN /\ exited \in BOOLEAN
  /\ clientless \in SUBSET Triggers
  /\ report \in [Sessions -> Reports \cup {"none"}]
  /\ muddled \in SUBSET Sessions
  /\ shutdowns \in Nat

Init ==
  /\ H!Init
  /\ R!Init
  /\ \E s \in Sessions : session = [t \in Tasks |-> s]
  /\ link = "connecting"
  /\ autoReady \in BOOLEAN
  /\ task = [t \in Tasks |-> "free"]
  /\ cmd = [t \in Tasks |-> "none"]
  /\ inbox = <<>>
  /\ updates = 0
  /\ deferred = <<>>
  /\ client = FALSE
  /\ exited = FALSE
  /\ clientless = {}
  /\ report = [s \in Sessions |-> "none"]
  /\ muddled = {}
  /\ shutdowns = 0
  /\ owed = 0

Send(event) == inbox' = Append(inbox, event)

-----------------------------------------------------------------------------
(* connect_task, and what the SDK sends of its own accord. *)

LinkGoto(from, to) == link = from /\ link' = to

(* connect_with() succeeds, and watch() and on_payload_change() register   *)
(* their listeners with the fresh handle; or it fails.                     *)
Connect ==
  \/ LinkGoto("connecting", "watching") /\ UNCHANGED inbox
  \/ LinkGoto("connecting", "failed") /\ Send(Event("ConnectFailed"))

SendConnected == LinkGoto("watching", "connected") /\ Send(Event("Connected"))

(* The watch stream delivers new server details (a new payload is sent in  *)
(* the same way), from the moment of watch(); the heartbeat of a ready     *)
(* handle raises its alarm.                                                *)
Update ==
  /\ link \in {"watching", "connected"}
  /\ updates < MaxUpdates
  /\ updates' = updates + 1
  /\ \/ Send(Event("ServerInfo"))
     \/ state >= H!READY /\ Send(Event("HealthDegraded"))

-----------------------------------------------------------------------------
(* A command and its task. *)

UnderWay(s) == \E t \in Tasks : session[t] = s /\ task[t] \in {"spawned", "calling"}
                                  /\ cmd[t] \in PlayerCommands

(* A method of the client: clone the handle, spawn, and return. *)
Spawn(t, o, s) ==
  /\ task[t] = "free"
  /\ task' = [task EXCEPT ![t] = "spawned"]
  /\ cmd' = [cmd EXCEPT ![t] = o]
  /\ session' = [session EXCEPT ![t] = s]
  /\ muddled' = IF o \in PlayerCommands /\ UnderWay(s) THEN muddled \cup {s}
                                                       ELSE muddled
  /\ shutdowns' = IF o = "shutdown" THEN shutdowns + 1 ELSE shutdowns
  /\ UNCHANGED <<list, stage, op, answer>>

(* The game gives a command, in any system of the frame. *)
Command(t, o, s) ==
  /\ client
  /\ t # AutoTask /\ \A u \in 1..(t - 1) : task[u] # "free"
  /\ Spawn(t, o, s)
  /\ owed' = owed + 1

TaskGoto(t, to) ==
  /\ task' = [task EXCEPT ![t] = to]
  /\ UNCHANGED <<cmd, muddled, shutdowns>>

(* The task runs: it calls ready() or shutdown() of the handle ... *)
CallHandle(t) ==
  /\ task[t] = "spawned" /\ cmd[t] \in {"ready", "shutdown"}
  /\ H!Open(t, cmd[t])
  /\ TaskGoto(t, "calling")
  /\ UNCHANGED <<registryVars, inbox>>

(* ... or connect() or disconnect() of a player: the guard of the          *)
(* transport refuses after the shutdown, and disconnect() also looks at    *)
(* its cache.                                                              *)
CallPlayers(t) ==
  /\ task[t] = "spawned" /\ cmd[t] \in PlayerCommands
  /\ \/ /\ state < H!SHUTDOWN
        /\ R!Open(t, cmd[t], session[t])
           \/ (cmd[t] = "disconnect" /\ ~list.exists /\ R!OpenRefused(t, session[t]))
        /\ TaskGoto(t, "calling")
        /\ UNCHANGED inbox
     \/ /\ state = H!SHUTDOWN
        /\ Send(Report("PlayerConnectFailed", session[t]))
        /\ TaskGoto(t, "done")
        /\ UNCHANGED registryVars
  /\ UNCHANGED handleVars

(* shutdown() reports as soon as it has been called. *)
Returned_NotAwaited(t) == call[t] = "idle" \/ cmd[t] = "shutdown"

Returned(t) == call[t] = "idle"

HandleAnswered(t) ==
  /\ task[t] = "calling" /\ cmd[t] \in {"ready", "shutdown"} /\ Returned(t)
  /\ Send(Event(IF cmd[t] = "shutdown" THEN "ShutdownComplete"
                ELSE IF callAnswer[t] = "Ok" THEN "Ready" ELSE "OperationFailed"))

LeftReport_NotFound(a) == "PlayerDisconnected"

(* Whether the session was found or not; a failure is reported as one of   *)
(* a connect.                                                              *)
LeftReport(a) == IF a \in {"Ok", "False"} THEN "PlayerDisconnected"
                                          ELSE "PlayerConnectFailed"

JoinReport(a) == IF a = "Ok" THEN "PlayerConnected" ELSE "PlayerConnectFailed"

PlayersAnswered_ErrorsUnreported(t) ==
  /\ task[t] = "calling" /\ cmd[t] \in PlayerCommands /\ stage[t] = "idle"
  /\ IF answer[t] = "Err" THEN UNCHANGED inbox
     ELSE Send(Report(IF cmd[t] = "connect" THEN JoinReport(answer[t])
                                            ELSE LeftReport(answer[t]),
                      session[t]))

PlayersAnswered(t) ==
  /\ task[t] = "calling" /\ cmd[t] \in PlayerCommands /\ stage[t] = "idle"
  /\ Send(Report(IF cmd[t] = "connect" THEN JoinReport(answer[t])
                                       ELSE LeftReport(answer[t]),
                 session[t]))

(* The outcome goes into the channel, and the task ends with all it knew. *)
SendOutcome(t) ==
  /\ HandleAnswered(t) \/ PlayersAnswered(t)
  /\ task' = [task EXCEPT ![t] = "done"]
  /\ cmd' = [cmd EXCEPT ![t] = "none"]
  /\ op' = [op EXCEPT ![t] = "none"]
  /\ answer' = [answer EXCEPT ![t] = "none"]
  /\ callOp' = [callOp EXCEPT ![t] = "none"]
  /\ callAnswer' = [callAnswer EXCEPT ![t] = "none"]
  /\ UNCHANGED <<state, told, call, list, stage, session, muddled, shutdowns>>

(* The SDK goes on with the call. *)
SdkStep(t) ==
  /\ \/ H!Step(t) /\ UNCHANGED registryVars
     \/ (R!Apply(t) \/ R!ApplyAndFail(t) \/ R!FindDisabled(t) \/ R!Refuse(t)
          \/ R!Return(t)) /\ UNCHANGED handleVars
  /\ UNCHANGED <<taskVars, inbox>>

TaskStep(t) == CallHandle(t) \/ CallPlayers(t) \/ SendOutcome(t) \/ SdkStep(t)

TasksStep ==
  /\ \E t \in Tasks : TaskStep(t)
  /\ UNCHANGED <<link, autoReady, updates, frameVars, owed>>

-----------------------------------------------------------------------------
(* The frame. *)

(* What the pump defers to the end of the frame, in this order. *)
Deferred_EventFirst(kind) ==
  IF kind = "Connected" THEN <<"Connected", "insert">> ELSE <<kind>>

Deferred(kind) == IF kind = "Connected" THEN <<"insert", "Connected">> ELSE <<kind>>

Defers(kind) ==
  deferred' = IF kind \in Triggers THEN deferred \o Deferred(kind) ELSE deferred

(* pump_sdk_inbox takes the next event.  With auto_ready the client it has *)
(* just made spawns its ready() at once.                                   *)
Pump ==
  /\ inbox # <<>>
  /\ LET e == Head(inbox)
     IN  /\ inbox' = Tail(inbox)
         /\ Defers(e.kind)
         /\ report' = IF e.kind \in Reports THEN [report EXCEPT ![e.of] = e.kind]
                                            ELSE report
         /\ owed' = owed + (IF e.kind = "Connected" /\ autoReady THEN 1 ELSE 0)
                         - (IF e.kind \in Outcomes THEN 1 ELSE 0)
         /\ IF e.kind = "Connected" /\ autoReady
            THEN Spawn(AutoTask, "ready", session[AutoTask])
            ELSE UNCHANGED <<taskVars, registryVars>>
  /\ UNCHANGED <<handleVars, link, autoReady, updates, client, exited, clientless>>

(* on_shutdown of the server writes AppExit. *)
Exits == \E i \in DOMAIN deferred : deferred[i] = "ShutdownComplete"

(* An event at place i of the deferred commands finds the client. *)
ClientAt(i) == client \/ \E j \in 1..(i - 1) : deferred[j] = "insert"

(* The channel is empty and the systems of the frame have run: the client  *)
(* is inserted and the events are triggered, in order; the runner looks    *)
(* for an AppExit.                                                         *)
EndFrame ==
  /\ inbox = <<>>
  /\ client' = ClientAt(Len(deferred) + 1)
  /\ clientless' = clientless \cup
       {deferred[i] : i \in {k \in DOMAIN deferred :
                                deferred[k] # "insert" /\ ~ClientAt(k)}}
  /\ exited' = Exits
  /\ deferred' = <<>>
  /\ UNCHANGED <<handleVars, registryVars, link, autoReady, taskVars, inbox,
                 updates, report, owed>>

FrameStep == Pump \/ EndFrame

(* Once the app has exited the runtime is dropped, with its tasks. *)
Next ==
  /\ ~exited
  /\ \/ /\ Connect \/ SendConnected
        /\ UNCHANGED <<handleVars, registryVars, autoReady, taskVars, updates, frameVars, owed>>
     \/ /\ Update
        /\ UNCHANGED <<handleVars, registryVars, link, autoReady, taskVars, frameVars, owed>>
     \/ /\ \E t \in Tasks, o \in Commands, s \in Sessions : Command(t, o, s)
        /\ UNCHANGED <<handleVars, link, autoReady, inbox, updates, frameVars>>
     \/ TasksStep
     \/ FrameStep

Spec == Init /\ [][Next]_vars

(* The bridge goes on: the runner runs frames, the runtime polls the       *)
(* tasks, and every call of the SDK returns (CallsReturn of module         *)
(* Lifecycle).  Nothing obliges the game to give a command.                *)
Fairness == WF_vars(~exited /\ (FrameStep \/ TasksStep))

FairSpec == Spec /\ Fairness

-----------------------------------------------------------------------------
(* Properties. *)

(* GameFlowShutdown says "The server has been shut down." (:327) and ends  *)
(* the app: with one command to shut down, as in the demo, the shutdown is *)
(* really over.  A second one may report while the first is under way.     *)
ExitAfterShutdown ==
  exited /\ shutdowns = 1 => state = H!SHUTDOWN

(* Nothing about s is under way. *)
Quiet(s) ==
  /\ ~UnderWay(s)
  /\ \A i \in DOMAIN inbox : inbox[i].of # s

(* The last message about a player is true of the platform's list, if the  *)
(* game never gave two commands for the same player at once (:158-196).    *)
ReportsAreTrue ==
  \A s \in Sessions \ muddled :
    Quiet(s) => /\ report[s] = "PlayerConnected" => s \in list.values
                /\ report[s] = "PlayerDisconnected" => s \notin list.values

(* "The GameFlowClient resource is available from now on" (:307-308): no   *)
(* observer of a lifecycle event finds it missing.                         *)
ClientBeforeEvents == clientless \subseteq {"ConnectFailed"}

(* Every command comes back to the game as a message or an event, unless   *)
(* the app exits first (:138-205, :412-463).                               *)
CommandsAreReported == (owed > 0) ~> (exited \/ owed = 0)
=============================================================================
