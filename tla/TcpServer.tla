----------------------------- MODULE TcpServer -----------------------------
(***************************************************************************)
(* The example game server on TCP (sdk/rust/examples/tokio-tcp/src): a     *)
(* program that shares one handle between its main task and a task per     *)
(* connection.                                                             *)
(*                                                                         *)
(* What it gets from the SDK is what module Handle promises of the calls   *)
(* of main, and what module Registry promises of the player calls of the   *)
(* connections.  Each connection has the session id of its own that the    *)
(* counter NEXT_SESSION gives it.  The chat between the connections is     *)
(* left out, and so is Change of module Registry: the platform is assumed  *)
(* not to resize, remove or create the list while the server runs.         *)
(***************************************************************************)
EXTENDS Integers, FiniteSets

CONSTANTS
  Main,       \* the main task
  Conns,      \* connections, and their session ids; bounds how many arrive
  Lists       \* the players lists the platform may have set up

ASSUME ListsAssumption ==
  Lists \subseteq [exists : BOOLEAN, capacity : Int, values : {{}}]

VARIABLES
  state, told, call, callOp, callAnswer,   \* of module Handle, for main
  list, stage, op, session, answer,        \* of module Registry
  at,         \* where main is; "ended" once the process is gone
  ending,     \* how it ended: "none", "ok", "error" or "killed"
  listening,  \* the TcpListener is bound
  handlers,   \* the handlers of SIGTERM and SIGINT are installed
  signal,     \* a signal waits for main to see it
  conn,       \* per connection: where its task is
  lost        \* ghost: connections with a player call that has failed

handleVars   == <<state, told, call, callOp, callAnswer>>
registryVars == <<list, stage, op, session, answer>>
mainVars     == <<at, ending, listening, handlers, signal>>
connVars     == <<conn, lost>>

(* The places of a connection whose task is there. *)
Alive == {"spawned", "joining", "chat", "leaving"}

vars == <<handleVars, registryVars, mainVars, connVars>>

H == INSTANCE Handle WITH Callers <- {Main}, stage <- call, op <- callOp,
                          answer <- callAnswer
R == INSTANCE Registry WITH Callers <- Conns, Sessions <- Conns

TypeOK ==
  /\ state \in H!CONNECTED..H!SHUTDOWN
  /\ at \in {"connect", "payload", "bind", "ready", "serve", "closing", "ended"}
  /\ ending \in {"none", "ok", "error", "killed"}
  /\ listening \in BOOLEAN /\ handlers \in BOOLEAN /\ signal \in BOOLEAN
  /\ conn \in [Conns -> Alive \cup {"none", "gone", "dropped"}]
  /\ lost \in SUBSET Conns

Init ==
  /\ H!Init
  /\ R!Init
  /\ session = [c \in Conns |-> c]
  /\ at = "connect"
  /\ ending = "none"
  /\ listening = FALSE
  /\ handlers = FALSE
  /\ signal = FALSE
  /\ conn = [c \in Conns |-> "none"]
  /\ lost = {}

Running == at # "ended"

-----------------------------------------------------------------------------
(* The main task. *)

(* main returns, or is killed: every task is dropped where it stands, with *)
(* its socket and without a disconnect().                                  *)
Exit(how) ==
  /\ at' = "ended"
  /\ ending' = how
  /\ conn' = [c \in Conns |-> IF conn[c] \in Alive THEN "dropped" ELSE conn[c]]
  /\ UNCHANGED <<handleVars, listening, handlers, signal>>

(* main goes on with a call of the handle. *)
CallNext(from, to, o) ==
  /\ at = from
  /\ at' = to
  /\ H!Open(Main, o)
  /\ UNCHANGED <<ending, handlers, signal, conn>>

Answered(from, answers) ==
  /\ at = from
  /\ call[Main] = "idle"
  /\ callAnswer[Main] \in answers

(* connect(), and payload()? with it under way. *)
Connect ==
  \/ CallNext("connect", "payload", "info") /\ UNCHANGED listening
  \/ at = "connect" /\ Exit("error")

(* The `?` of an answer that is an error ends main. *)
AnswerFails(from) == Answered(from, {"Err", "NotConnected"}) /\ Exit("error")

(* payload() has answered; on_payload_change() asks nothing of the runtime. *)
PayloadAnswered ==
  \/ /\ Answered("payload", {"Ok"})
     /\ at' = "bind"
     /\ UNCHANGED <<handleVars, ending, listening, handlers, signal, conn>>
  \/ AnswerFails("payload")

Bind_ReadyFirst ==
  \/ CallNext("bind", "ready", "ready") /\ UNCHANGED listening
  \/ at = "bind" /\ Exit("error")

(* ready() is called once the server can accept connections. *)
Bind ==
  \/ CallNext("bind", "ready", "ready") /\ listening' = TRUE
  \/ at = "bind" /\ Exit("error")

ReadyAnswered ==
  \/ /\ Answered("ready", {"Ok"})
     /\ at' = "serve"
     /\ UNCHANGED <<handleVars, ending, listening, handlers, signal, conn>>
  \/ AnswerFails("ready")

(* The select polls shutdown_signal() for the first time. *)
InstallHandlers ==
  /\ at = "serve" /\ ~handlers
  /\ handlers' = TRUE
  /\ UNCHANGED <<handleVars, at, ending, listening, signal, conn>>

(* The platform sends SIGTERM, or the user hits Ctrl-C.  Without a handler *)
(* that is the end of the process.                                         *)
Signal ==
  \/ ~handlers /\ Exit("killed")
  \/ /\ handlers /\ signal' = TRUE
     /\ UNCHANGED <<handleVars, at, ending, listening, handlers, conn>>

SignalReceived_Ignored ==
  /\ at = "serve" /\ signal
  /\ Exit("ok")

(* The select resolves to the signal, and drops the accept loop. *)
SignalReceived ==
  /\ signal
  /\ CallNext("serve", "closing", "shutdown")
  /\ UNCHANGED listening

(* accept() fails: `result?` returns from main, without a shutdown(). *)
AcceptFails == at = "serve" /\ Exit("error")

ShutdownAnswered == Answered("closing", {"Ok"}) /\ Exit("ok")

MainStep ==
  Connect \/ PayloadAnswered \/ Bind \/ ReadyAnswered \/ InstallHandlers
    \/ SignalReceived \/ AcceptFails \/ ShutdownAnswered

(* The SDK goes on with the call of main. *)
HandleStep == Running /\ H!Step(Main) /\ UNCHANGED <<mainVars, conn>>

-----------------------------------------------------------------------------
(* A connection. *)

Goto(c, to) == conn' = [conn EXCEPT ![c] = to]

(* accept() returns a socket, and a task is spawned for it. *)
Accept(c) ==
  /\ at = "serve" /\ conn[c] = "none"
  /\ Goto(c, "spawned")
  /\ UNCHANGED <<registryVars, lost>>

(* The guard of the transport lets a player call through. *)
Open == state < H!SHUTDOWN

(* players().connect() *)
Join(c) ==
  /\ conn[c] = "spawned"
  /\ \/ Open /\ R!Open(c, "connect", c) /\ Goto(c, "joining")
     \/ ~Open /\ Goto(c, "gone") /\ UNCHANGED registryVars
  /\ UNCHANGED lost

(* The call has failed: the runtime may have carried it out, or not. *)
Loses(c, failed) == lost' = IF failed THEN lost \cup {c} ELSE lost

Admits_UnlessFull(c) == answer[c] # "ServerFull"

(* The player is welcome; otherwise "server full" or "cannot join". *)
Admits(c) == answer[c] = "Ok"

JoinAnswered(c) ==
  /\ conn[c] = "joining" /\ stage[c] = "idle"
  /\ Goto(c, IF Admits(c) THEN "chat" ELSE "gone")
  /\ Loses(c, answer[c] = "Err")
  /\ UNCHANGED registryVars

Leave_Quietly(c) ==
  /\ conn[c] = "chat"
  /\ Goto(c, "gone")
  /\ UNCHANGED <<registryVars, lost>>

(* "/quit", the end of the stream or an error of it: disconnect(). *)
Leave(c) ==
  /\ conn[c] = "chat"
  /\ \/ Open /\ R!Open(c, "disconnect", c) /\ Goto(c, "leaving") /\ UNCHANGED lost
     \/ ~Open /\ Goto(c, "gone") /\ Loses(c, TRUE) /\ UNCHANGED registryVars

(* A disconnect that fails is only logged. *)
LeaveAnswered(c) ==
  /\ conn[c] = "leaving" /\ stage[c] = "idle"
  /\ Goto(c, "gone")
  /\ Loses(c, answer[c] = "Err")
  /\ UNCHANGED registryVars

ConnStep(c) ==
  Accept(c) \/ Join(c) \/ JoinAnswered(c) \/ Leave(c) \/ LeaveAnswered(c)

(* The SDK goes on with the call of a connection. *)
RegistryStep(c) ==
  /\ R!Apply(c) \/ R!ApplyAndFail(c) \/ R!FindDisabled(c) \/ R!Refuse(c) \/ R!Return(c)
  /\ UNCHANGED connVars

(* A request that was on the wire when the process ended may still be      *)
(* carried out; nobody is there to hear of it.                             *)
LateRequest(c) == ~Running /\ R!ApplyAndFail(c) /\ UNCHANGED connVars

Next ==
  \/ /\ MainStep \/ (Running /\ Signal) \/ HandleStep
     /\ UNCHANGED <<registryVars, lost>>
  \/ \E c \in Conns :
       /\ (Running /\ (ConnStep(c) \/ RegistryStep(c))) \/ LateRequest(c)
       /\ UNCHANGED <<handleVars, mainVars>>

Spec == Init /\ [][Next]_vars

(* The executor polls main when it can go on, and every call of the SDK    *)
(* returns (CallsReturn of module Lifecycle).  Nothing obliges a           *)
(* connection to arrive, to leave or to be fast.                           *)
Fairness ==
  /\ WF_vars((InstallHandlers \/ SignalReceived \/ ShutdownAnswered)
               /\ UNCHANGED <<registryVars, lost>>)
  /\ WF_vars(HandleStep /\ UNCHANGED <<registryVars, lost>>)

FairSpec == Spec /\ Fairness

-----------------------------------------------------------------------------
(* Properties. *)

(* As long as the server runs, the platform lists a player only while its  *)
(* connection is open or on its way in or out, unless one of its calls has *)
(* failed: every way out of the chat loop goes through disconnect          *)
(* (main.rs:132-166).  Once the process has ended, only the players whose  *)
(* tasks it took with it may still be listed (main.rs:52, 61-62): whoever  *)
(* had left before stays off the list.                                     *)
NoGhosts ==
  \A c \in Conns \ lost :
    c \in list.values =>
      conn[c] \in IF Running THEN {"joining", "chat", "leaving"} ELSE {"dropped"}

(* Whoever chats is on the list, and took a place when there was one       *)
(* (main.rs:105-114).                                                      *)
AdmittedAreRegistered ==
  LET chatting == {c \in Conns : conn[c] = "chat"}
  IN  /\ chatting \subseteq list.values
      /\ list.capacity >= 0 => Cardinality(chatting) <= list.capacity

(* "Only call ready() once the server can actually accept connections"     *)
(* (main.rs:44).                                                           *)
ReadyMeansListening == told => listening

(* A signal that the handlers have caught leads to the whole of a          *)
(* shutdown(), unless accept() fails first (main.rs:50-61, 65-67).         *)
StopsOnSignal == signal ~> (state = H!SHUTDOWN \/ ending = "error")
=============================================================================
