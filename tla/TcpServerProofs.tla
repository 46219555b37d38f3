-------------------------- MODULE TcpServerProofs --------------------------
(***************************************************************************)
(* The safety properties of TcpServer, for any number of connections and   *)
(* any lists.                                                              *)
(*                                                                         *)
(* PlayerShape says, for each place a connection can be in, whether the    *)
(* runtime lists it, as far as its last answer tells; DropShape says that  *)
(* exactly the end of the process drops connections; PlacesShape bounds    *)
(* the list by its capacity; ListeningShape ties the call of ready() to    *)
(* the listener.                                                           *)
(***************************************************************************)
EXTENDS TcpServer, FiniteSetTheorems, TLAPS

Listed(c) == c \in list.values

PlayerShape ==
  \A c \in Conns :
    /\ conn[c] \in {"none", "spawned"} => stage[c] = "idle" /\ ~Listed(c)
    /\ conn[c] = "joining" =>
         /\ op[c] = "connect"
         /\ stage[c] \in {"idle", "open", "applied", "disabled"}
         /\ stage[c] \in {"open", "disabled"} => ~Listed(c)
         /\ stage[c] = "applied" => Listed(c)
         /\ stage[c] = "idle" /\ answer[c] = "Ok" => Listed(c)
         /\ stage[c] = "idle" /\ answer[c] \notin {"Ok", "Err"} => ~Listed(c)
    /\ conn[c] = "chat" => stage[c] = "idle" /\ Listed(c)
    /\ conn[c] = "leaving" =>
         /\ op[c] = "disconnect"
         /\ stage[c] \in {"idle", "open", "applied"}
         /\ stage[c] = "open" => Listed(c)
         /\ stage[c] = "applied" => ~Listed(c)
         /\ stage[c] = "idle" /\ answer[c] # "Err" => ~Listed(c)
    /\ conn[c] = "gone" => stage[c] = "idle" /\ (c \notin lost => ~Listed(c))

(* While the process is there, no connection has been dropped; after it,   *)
(* no task is left.                                                        *)
DropShape == \A c \in Conns : conn[c] \notin IF Running THEN {"dropped"} ELSE Alive

(* What the steps above rest on. *)
ConnType ==
  /\ conn \in [Conns -> Alive \cup {"none", "gone", "dropped"}]
  /\ lost \in SUBSET Conns
  /\ stage \in [Conns -> R!Stages]
  /\ op \in [Conns -> {"none", "connect", "disconnect"}]
  /\ session = [c \in Conns |-> c]
  /\ DOMAIN answer = Conns
  /\ list \in [exists : BOOLEAN, capacity : Int, values : SUBSET Conns]

PlacesShape ==
  /\ IsFiniteSet(list.values)
  /\ list.capacity >= 0 => Cardinality(list.values) <= list.capacity

ListeningShape ==
  /\ callOp[Main] = "ready" => listening
  /\ told => listening

MainType ==
  /\ state \in H!CONNECTED..H!SHUTDOWN
  /\ at \in {"connect", "payload", "bind", "ready", "serve", "closing", "ended"}
  /\ ending \in {"none", "ok", "error", "killed"}
  /\ listening \in BOOLEAN /\ handlers \in BOOLEAN /\ signal \in BOOLEAN
  /\ callOp \in [{Main} -> H!Ops \cup {"none"}]

USE DEF H!CONNECTED, H!READY, H!SHUTTING_DOWN, H!SHUTDOWN

-----------------------------------------------------------------------------
(* The parts of Next: either main and its handle go on, or a connection.   *)
LEMMA Parts ==
  ASSUME [Next]_vars
  PROVE  \/ /\ UNCHANGED <<registryVars, lost>>
            /\ MainStep \/ (Running /\ Signal) \/ HandleStep
         \/ /\ UNCHANGED <<handleVars, mainVars>>
            /\ \E c \in Conns : (Running /\ ConnStep(c)) \/ RegistryStep(c)
         \/ UNCHANGED <<handleVars, mainVars, registryVars, connVars>>
<1>1. ASSUME NEW c \in Conns, LateRequest(c) PROVE RegistryStep(c)
  BY <1>1 DEF LateRequest, RegistryStep
<1>. QED
  BY <1>1 DEF Next, vars

(* A step of main leaves the connections alone, unless it is the last one: *)
(* that drops all of them.                                                 *)
LEMMA MainDrops ==
  ASSUME MainStep \/ (Running /\ Signal) \/ HandleStep
  PROVE  \/ Running /\ Running' /\ conn' = conn
         \/ /\ ~Running'
            /\ conn' = [c \in Conns |-> IF conn[c] \in Alive THEN "dropped"
                                        ELSE conn[c]]
<1> USE DEF Exit, CallNext, Answered, AnswerFails, Running
<1>1. CASE Connect \/ Bind
  BY <1>1 DEF Connect, Bind
<1>2. CASE PayloadAnswered \/ ReadyAnswered
  BY <1>2 DEF PayloadAnswered, ReadyAnswered
<1>3. CASE InstallHandlers \/ SignalReceived
  BY <1>3 DEF InstallHandlers, SignalReceived
<1>4. CASE AcceptFails \/ ShutdownAnswered
  BY <1>4 DEF AcceptFails, ShutdownAnswered
<1>5. CASE Running /\ Signal
  BY <1>5 DEF Signal
<1>6. CASE HandleStep
  BY <1>6 DEF HandleStep, mainVars
<1>. QED
  BY <1>1, <1>2, <1>3, <1>4, <1>5, <1>6 DEF MainStep

LEMMA MainTypeStep == MainType /\ [Next]_vars => MainType'
<1> SUFFICES ASSUME MainType, [Next]_vars PROVE MainType'
  OBVIOUS
<1> USE DEF MainType, handleVars, mainVars
<1>1. ASSUME MainStep PROVE MainType'
  <2> USE DEF Exit, CallNext, Answered, AnswerFails, H!Open, H!Ops
  <2>1. CASE Connect
    BY <2>1 DEF Connect
  <2>2. CASE PayloadAnswered
    BY <2>2 DEF PayloadAnswered
  <2>3. CASE Bind
    BY <2>3 DEF Bind
  <2>4. CASE ReadyAnswered
    BY <2>4 DEF ReadyAnswered
  <2>5. CASE InstallHandlers
    BY <2>5 DEF InstallHandlers
  <2>6. CASE SignalReceived
    BY <2>6 DEF SignalReceived
  <2>7. CASE AcceptFails \/ ShutdownAnswered
    BY <2>7 DEF AcceptFails, ShutdownAnswered
  <2>. QED
    BY <1>1, <2>1, <2>2, <2>3, <2>4, <2>5, <2>6, <2>7 DEF MainStep
<1>2. ASSUME Signal PROVE MainType'
  BY <1>2 DEF Signal, Exit
<1>3. ASSUME HandleStep PROVE MainType'
  BY <1>3 DEF HandleStep, H!Step, H!Tell, H!BecomeReady, H!Claim, H!Complete,
              H!Return, H!Answer
<1>4. ASSUME UNCHANGED <<handleVars, mainVars>> PROVE MainType'
  BY <1>4
<1>. QED
  BY <1>1, <1>2, <1>3, <1>4, Parts

(* The runtime hears of a ready server only when the port is bound: the    *)
(* call of ready() follows the bind.                                       *)
LEMMA ListeningStep == MainType /\ ListeningShape /\ [Next]_vars => ListeningShape'
<1> SUFFICES ASSUME MainType, ListeningShape, [Next]_vars PROVE ListeningShape'
  OBVIOUS
<1> USE DEF MainType, ListeningShape, handleVars, mainVars
<1>1. ASSUME MainStep PROVE ListeningShape'
  <2> USE DEF Exit, CallNext, Answered, AnswerFails, H!Open
  <2>1. CASE Connect
    BY <2>1 DEF Connect
  <2>2. CASE PayloadAnswered
    BY <2>2 DEF PayloadAnswered
  <2>3. CASE Bind
    BY <2>3 DEF Bind
  <2>4. CASE ReadyAnswered
    BY <2>4 DEF ReadyAnswered
  <2>5. CASE InstallHandlers
    BY <2>5 DEF InstallHandlers
  <2>6. CASE SignalReceived
    BY <2>6 DEF SignalReceived
  <2>7. CASE AcceptFails \/ ShutdownAnswered
    BY <2>7 DEF AcceptFails, ShutdownAnswered
  <2>. QED
    BY <1>1, <2>1, <2>2, <2>3, <2>4, <2>5, <2>6, <2>7 DEF MainStep
<1>2. ASSUME Signal PROVE ListeningShape'
  BY <1>2 DEF Signal, Exit
<1>3. ASSUME HandleStep PROVE ListeningShape'
  BY <1>3 DEF HandleStep, H!Step, H!Tell, H!BecomeReady, H!Claim, H!Complete,
              H!Return, H!Answer
<1>4. ASSUME UNCHANGED <<handleVars, mainVars>> PROVE ListeningShape'
  BY <1>4
<1>. QED
  BY <1>1, <1>2, <1>3, <1>4, Parts

-----------------------------------------------------------------------------
(* A step of the SDK for one connection touches the list only by adding or *)
(* removing the session of that connection.                                *)
LEMMA EffectIsOwn ==
  ASSUME ConnType, NEW c \in Conns, R!Effect(c)
  PROVE  \/ /\ op[c] = "connect" /\ ~Listed(c) /\ R!Room
            /\ list' = [list EXCEPT !.values = @ \cup {c}]
         \/ /\ op[c] = "disconnect" /\ Listed(c)
            /\ list' = [list EXCEPT !.values = @ \ {c}]
  BY DEF ConnType, R!Effect, Listed

LEMMA ConnTypeStep == ConnType /\ [Next]_vars => ConnType'
<1> SUFFICES ASSUME ConnType, [Next]_vars PROVE ConnType'
  OBVIOUS
<1> USE DEF ConnType, registryVars, connVars, R!Stages, Alive
<1>1. ASSUME NEW c \in Conns, ConnStep(c) PROVE ConnType'
  <2> USE DEF Goto, Loses, Open, R!Open, R!Move
  <2>1. CASE Accept(c)
    BY <2>1 DEF Accept
  <2>2. CASE Join(c)
    BY <2>2 DEF Join
  <2>3. CASE JoinAnswered(c)
    BY <2>3 DEF JoinAnswered, Admits
  <2>4. CASE Leave(c)
    BY <2>4 DEF Leave
  <2>5. CASE LeaveAnswered(c)
    BY <2>5 DEF LeaveAnswered
  <2>. QED
    BY <1>1, <2>1, <2>2, <2>3, <2>4, <2>5 DEF ConnStep
<1>2. ASSUME NEW c \in Conns, RegistryStep(c) PROVE ConnType'
  <2>1. UNCHANGED connVars
    BY <1>2 DEF RegistryStep
  <2> USE DEF R!Move, R!Answer
  <2>2. CASE R!Apply(c) \/ R!ApplyAndFail(c)
    BY <2>1, <2>2, EffectIsOwn DEF R!Apply, R!ApplyAndFail
  <2>3. CASE R!FindDisabled(c)
    BY <2>1, <2>3 DEF R!FindDisabled
  <2>4. CASE R!Refuse(c)
    BY <2>1, <2>4 DEF R!Refuse
  <2>5. CASE R!Return(c)
    BY <2>1, <2>5 DEF R!Return
  <2>. QED
    BY <1>2, <2>2, <2>3, <2>4, <2>5 DEF RegistryStep
<1>3. ASSUME UNCHANGED <<registryVars, connVars>> PROVE ConnType'
  BY <1>3
<1>4. CASE UNCHANGED <<registryVars, lost>> /\ (MainStep \/ (Running /\ Signal) \/ HandleStep)
  <2>1. conn' \in [Conns -> Alive \cup {"none", "gone", "dropped"}]
    BY <1>4, MainDrops
  <2>. QED
    BY <1>4, <2>1
<1>. QED
  BY <1>1, <1>2, <1>3, <1>4, Parts

(* A step keeps the drops to the end of the process.                       *)
LEMMA DropStep ==
  ASSUME ConnType, DropShape, [Next]_vars
  PROVE  DropShape'
<1> USE DEF ConnType, DropShape, Alive
<1>1. CASE MainStep \/ (Running /\ Signal) \/ HandleStep
  BY <1>1, MainDrops
<1>2. CASE UNCHANGED <<mainVars, connVars>>
  BY <1>2 DEF mainVars, connVars, Running
<1>3. ASSUME NEW c \in Conns, Running, ConnStep(c), UNCHANGED mainVars
      PROVE  DropShape'
  <2>1. \E to \in {"spawned", "joining", "chat", "leaving", "gone"} :
          conn' = [conn EXCEPT ![c] = to]
    BY <1>3 DEF ConnStep, Accept, Join, JoinAnswered, Leave, LeaveAnswered, Goto
  <2>. QED
    BY <1>3, <2>1 DEF mainVars, Running
<1>. QED
  BY <1>1, <1>2, <1>3, Parts DEF RegistryStep

LEMMA SameCardinality == \A S : R!Cardinality(S) = Cardinality(S)
  BY DEF R!Cardinality, Cardinality

LEMMA PlacesStep == ConnType /\ PlacesShape /\ [Next]_vars => PlacesShape'
<1> SUFFICES ASSUME ConnType, PlacesShape, [Next]_vars PROVE PlacesShape'
  OBVIOUS
<1> USE DEF registryVars
<1>1. ASSUME list' = list PROVE PlacesShape'
  BY <1>1 DEF PlacesShape
<1>2. ASSUME NEW c \in Conns, R!Effect(c) PROVE PlacesShape'
  <2>1. list'.capacity = list.capacity /\ list.capacity \in Int
    BY <1>2, EffectIsOwn DEF ConnType
  <2>2. Cardinality(list.values) \in Nat
    BY FS_CardinalityType DEF PlacesShape
  <2>3. CASE list'.values = list.values \cup {c} /\ R!Room /\ ~Listed(c)
    <3>1. IsFiniteSet(list'.values)
          /\ Cardinality(list'.values) = Cardinality(list.values) + 1
      BY <2>3, FS_AddElement DEF PlacesShape, Listed
    <3>. QED
      BY <2>1, <2>2, <2>3, <3>1, SameCardinality DEF PlacesShape, R!Room
  <2>4. CASE list'.values = list.values \ {c} /\ Listed(c)
    <3>1. IsFiniteSet(list'.values)
          /\ Cardinality(list'.values) = Cardinality(list.values) - 1
      BY <2>4, FS_RemoveElement DEF PlacesShape, Listed
    <3>. QED
      BY <2>1, <2>2, <3>1 DEF PlacesShape
  <2>. QED
    BY <1>2, <2>3, <2>4, EffectIsOwn DEF ConnType
<1>3. ASSUME NEW c \in Conns, ConnStep(c) PROVE list' = list
  BY <1>3 DEF ConnStep, Accept, Join, JoinAnswered, Leave, LeaveAnswered, R!Open
<1>4. ASSUME NEW c \in Conns, RegistryStep(c) PROVE R!Effect(c) \/ list' = list
  BY <1>4 DEF RegistryStep, R!Apply, R!ApplyAndFail, R!FindDisabled, R!Refuse,
              R!Return, R!Answer
<1>5. list' = list \/ \E c \in Conns : ConnStep(c) \/ RegistryStep(c)
  BY Parts
<1>. QED
  BY <1>1, <1>2, <1>3, <1>4, <1>5

(* What a connection knows of its place on the list survives every step.   *)
LEMMA PlayerStep == ConnType /\ PlayerShape /\ [Next]_vars => PlayerShape'
<1> SUFFICES ASSUME ConnType, PlayerShape, [Next]_vars PROVE PlayerShape'
  OBVIOUS
<1> USE DEF registryVars, connVars, Listed
<1>1. ASSUME NEW c \in Conns, ConnStep(c) PROVE PlayerShape'
  <2> USE DEF Goto, Loses, Open, R!Open, R!Move, ConnType, PlayerShape
  <2>1. CASE Accept(c)
    BY <2>1 DEF Accept
  <2>2. CASE Join(c)
    BY <2>2 DEF Join
  <2>3. CASE JoinAnswered(c)
    BY <2>3 DEF JoinAnswered, Admits
  <2>4. CASE Leave(c)
    BY <2>4 DEF Leave
  <2>5. CASE LeaveAnswered(c)
    BY <2>5 DEF LeaveAnswered
  <2>. QED
    BY <1>1, <2>1, <2>2, <2>3, <2>4, <2>5 DEF ConnStep
<1>2. ASSUME NEW c \in Conns, RegistryStep(c) PROVE PlayerShape'
  <2>1. UNCHANGED connVars
    BY <1>2 DEF RegistryStep
  <2>2. CASE R!Effect(c)
    <3>1. /\ \A d \in Conns \ {c} : Listed(d)' <=> Listed(d)
          /\ op[c] = "connect" => ~Listed(c) /\ Listed(c)'
          /\ op[c] = "disconnect" => Listed(c) /\ ~Listed(c)'
      BY <2>2, EffectIsOwn DEF ConnType
    <3>2. stage[c] = "open" /\ op' = op
          /\ \/ stage' = [stage EXCEPT ![c] = "applied"] /\ answer' = answer
             \/ /\ stage' = [stage EXCEPT ![c] = "idle"]
                /\ answer' = [answer EXCEPT ![c] = "Err"]
      BY <1>2, <2>2 DEF RegistryStep, R!Apply, R!ApplyAndFail, R!FindDisabled,
                        R!Refuse, R!Return, R!Answer, R!Move, R!Effect, ConnType
    <3>. QED
      BY <2>1, <3>1, <3>2 DEF PlayerShape, ConnType
  <2>3. CASE list' = list
    <3> USE DEF R!Move, R!Answer, ConnType, PlayerShape
    <3>1. CASE R!FindDisabled(c)
      BY <2>1, <2>3, <3>1 DEF R!FindDisabled
    <3>2. CASE R!Refuse(c)
      BY <2>1, <2>3, <3>2 DEF R!Refuse
    <3>3. CASE R!Return(c)
      BY <2>1, <2>3, <3>3 DEF R!Return
    <3>. QED
      BY <1>2, <2>2, <3>1, <3>2, <3>3 DEF RegistryStep, R!Apply, R!ApplyAndFail
  <2>. QED
    BY <1>2, <2>2, <2>3 DEF RegistryStep, R!Apply, R!ApplyAndFail, R!FindDisabled,
                            R!Refuse, R!Return, R!Answer
<1>3. ASSUME UNCHANGED <<registryVars, connVars>> PROVE PlayerShape'
  BY <1>3 DEF PlayerShape
<1>4. CASE UNCHANGED <<registryVars, lost>> /\ (MainStep \/ (Running /\ Signal) \/ HandleStep)
  <2>1. \A c \in Conns : conn'[c] \in {conn[c], "dropped"}
    BY <1>4, MainDrops DEF ConnType
  <2>. QED
    BY <1>4, <2>1 DEF PlayerShape, ConnType
<1>. QED
  BY <1>1, <1>2, <1>3, <1>4, Parts

-----------------------------------------------------------------------------
LEMMA InitialShapes == Init => ConnType /\ DropShape /\ PlayerShape /\ PlacesShape
<1> SUFFICES ASSUME Init PROVE ConnType /\ DropShape /\ PlayerShape /\ PlacesShape
  OBVIOUS
<1> USE ListsAssumption DEF Init, R!Init, R!Stages
<1>1. list \in [exists : BOOLEAN, capacity : Int, values : {{}}]
  OBVIOUS
<1>2. ConnType /\ DropShape /\ PlayerShape
  BY <1>1 DEF ConnType, DropShape, PlayerShape, Listed, Running, Alive
<1>3. PlacesShape
  BY <1>1, FS_EmptySet DEF PlacesShape
<1>. QED
  BY <1>2, <1>3

LEMMA PlayersInvariant == Spec => [](ConnType /\ DropShape /\ PlayerShape /\ PlacesShape)
  BY InitialShapes, ConnTypeStep, DropStep, PlayerStep, PlacesStep, PTL DEF Spec

LEMMA MainInvariant == Spec => [](MainType /\ ListeningShape)
<1>1. Init => MainType /\ ListeningShape
  <2> SUFFICES ASSUME Init PROVE MainType /\ ListeningShape
    OBVIOUS
  <2>1. /\ state = 0 /\ told = FALSE /\ callOp = [c \in {Main} |-> "none"]
        /\ at = "connect" /\ ending = "none"
        /\ listening = FALSE /\ handlers = FALSE /\ signal = FALSE
    BY DEF Init, H!Init
  <2>2. /\ state \in H!CONNECTED..H!SHUTDOWN
        /\ callOp \in [{Main} -> H!Ops \cup {"none"}] /\ callOp[Main] # "ready"
    BY <2>1 DEF H!Ops
  <2>3. listening \in BOOLEAN /\ handlers \in BOOLEAN /\ signal \in BOOLEAN
    BY <2>1
  <2>. QED
    BY <2>1, <2>2, <2>3, Zenon DEF MainType, ListeningShape
<1>. QED
  BY <1>1, MainTypeStep, ListeningStep, PTL DEF Spec

(* The variables of the server keep their types. *)
THEOREM TypeCorrect == Spec => []TypeOK
<1>1. MainType /\ ConnType => TypeOK
  BY DEF MainType, ConnType, TypeOK
<1>. QED
  BY <1>1, MainInvariant, PlayersInvariant, PTL

(* No player is left on the list behind the back of the running server,    *)
(* except by a call that has failed, and behind that of an ended one only  *)
(* a player whose task ended with it.                                      *)
THEOREM PlayersLeave == Spec => []NoGhosts
<1>1. ConnType /\ DropShape /\ PlayerShape => NoGhosts
  <2> SUFFICES ASSUME ConnType, DropShape, PlayerShape,
                      NEW c \in Conns \ lost, Listed(c)
               PROVE  conn[c] \in IF Running THEN {"joining", "chat", "leaving"}
                                  ELSE {"dropped"}
    BY DEF NoGhosts, Listed
  <2>1. conn[c] \in {"joining", "chat", "leaving", "dropped"}
    BY DEF PlayerShape, ConnType, Alive
  <2>. QED
    BY <2>1 DEF DropShape, Alive
<1>. QED
  BY <1>1, PlayersInvariant, PTL

(* Who chats has a place on the list. *)
THEOREM ChattersAreRegistered == Spec => []AdmittedAreRegistered
<1>1. ConnType /\ PlayerShape /\ PlacesShape => AdmittedAreRegistered
  <2> SUFFICES ASSUME ConnType, PlayerShape, PlacesShape PROVE AdmittedAreRegistered
    OBVIOUS
  <2> DEFINE chatting == {c \in Conns : conn[c] = "chat"}
  <2>1. chatting \subseteq list.values
    BY DEF PlayerShape, Listed
  <2>2. IsFiniteSet(list.values) /\ list.capacity \in Int
    BY DEF PlacesShape, ConnType
  <2>3. Cardinality(chatting) <= Cardinality(list.values)
    BY <2>1, <2>2, FS_Subset
  <2>4. Cardinality(chatting) \in Nat /\ Cardinality(list.values) \in Nat
    BY <2>1, <2>2, FS_Subset, FS_CardinalityType
  <2>5. list.capacity >= 0 => Cardinality(chatting) <= list.capacity
    BY <2>2, <2>3, <2>4 DEF PlacesShape
  <2>. QED
    BY <2>1, <2>5 DEF AdmittedAreRegistered
<1>. QED
  BY <1>1, PlayersInvariant, PTL

(* The runtime never takes the server for ready before it listens. *)
THEOREM ReadyAfterBind == Spec => []ReadyMeansListening
<1>1. ListeningShape => ReadyMeansListening
  BY DEF ListeningShape, ReadyMeansListening
<1>. QED
  BY <1>1, MainInvariant, PTL
=============================================================================
