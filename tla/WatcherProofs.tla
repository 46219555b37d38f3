--------------------------- MODULE WatcherProofs ---------------------------
(***************************************************************************)
(* The safety properties of Watcher for any number of subscriptions and    *)
(* updates.                                                                *)
(***************************************************************************)
EXTENDS Watcher, TLAPS

(* Every variable keeps its type.  The versions a listener is given are    *)
(* versions because a replay and a dispatch have read one.                 *)
TypeInv ==
  /\ TypeOK
  /\ \A s \in Subs : pc[s] = "replay" => replay[s] # 0
  /\ \A i \in Subs : streamAt[i] \in {"dispatch", "hook", "deliver"} => pos[i] # 0

LEMMA TypeInvariant == Spec => []TypeInv
<1> USE WatcherAssumption DEF Versions
<1>1. Init => TypeInv
  <2> SUFFICES ASSUME Init PROVE TypeInv
    OBVIOUS
  <2>1. /\ cur \in Versions /\ latest \in 0..MaxVersion /\ synced \in 0..MaxVersion
        /\ replay \in [Subs -> 0..MaxVersion] /\ pos \in [Subs -> 0..MaxVersion]
    BY DEF Init
  <2>2. /\ pc \in [Subs -> SubPCs] /\ streamAt \in [Subs -> StreamPCs]
        /\ stopAt \in {"no", "claimed", "control", "done"} /\ stopped \in BOOLEAN
    BY DEF Init, SubPCs, StreamPCs
  <2>3. /\ listeners \in SUBSET Subs /\ token \in SUBSET Subs
        /\ cancelled \in SUBSET Subs
    BY DEF Init
  <2>4. pending \in [Subs -> SUBSET Subs] /\ seen \in [Subs -> SUBSET Versions]
    BY DEF Init
  <2>. QED
    BY <2>1, <2>2, <2>3, <2>4 DEF TypeInv, TypeOK, Init
<1>2. TypeInv /\ [Next]_vars => TypeInv'
  <2> SUFFICES ASSUME TypeInv, [Next]_vars PROVE TypeInv'
    OBVIOUS
  <2> USE DEF TypeInv
  <2>1. CASE Update
    BY <2>1 DEF Update, TypeOK, subVars, streamVars
  <2>2. ASSUME NEW s \in Subs, Watch(s) PROVE TypeInv'
    BY <2>2 DEF Watch, Goto, TypeOK, SubPCs, streamVars
  <2>3. ASSUME NEW s \in Subs, Register(s) PROVE TypeInv'
    BY <2>3 DEF Register, Goto, AfterRegister, ReplayOf, TypeOK, SubPCs, streamVars
  <2>4. ASSUME NEW s \in Subs, Replay(s) PROVE TypeInv'
    <3>1. replay[s] \in Versions
      BY <2>4 DEF Replay, Goto, TypeOK
    <3>2. seen' \in [Subs -> SUBSET Versions]
      BY <2>4, <3>1 DEF Replay, Give, TypeOK
    <3>3. pc' \in [Subs -> SubPCs] /\ replay' \in [Subs -> 0..MaxVersion]
      BY <2>4 DEF Replay, Goto, TypeOK, SubPCs
    <3>4. \A t \in Subs : pc'[t] = "replay" => replay'[t] # 0
      BY <2>4 DEF Replay, Goto, TypeOK
    <3>. QED
      BY <2>4, <3>2, <3>3, <3>4 DEF Replay, TypeOK, streamVars
  <2>5. ASSUME NEW s \in Subs, EnsureStream(s) PROVE TypeInv'
    BY <2>5 DEF EnsureStream, Goto, TypeOK, SubPCs, StreamPCs
  <2>6. ASSUME NEW s \in Subs, CloseStream(s) PROVE TypeInv'
    BY <2>6 DEF CloseStream, TakeToken, Goto, TypeOK, SubPCs, streamVars
  <2>7. ASSUME NEW s \in Subs, Drop(s) PROVE TypeInv'
    BY <2>7 DEF Drop, AfterDrop, Goto, TypeOK, SubPCs, streamVars
  <2>8. CASE Claim \/ StopControl \/ StopListeners
    BY <2>8 DEF Claim, StopControl, StopListeners, TakeToken, TypeOK, subVars, streamVars
  <2>9. ASSUME NEW i \in Subs, StreamStep(i) PROVE TypeInv'
    <3> USE DEF StreamOnly, subVars, StreamGoto, TypeOK, StreamPCs
    <3>1. CASE StreamTop(i) \/ Open(i) \/ OpenFails(i) \/ StreamReturns(i) \/ Backoff(i)
      BY <3>1 DEF StreamTop, Open, OpenFails, StreamReturns, AfterFailure, Backoff
    <3>2. CASE Receive(i)
      BY <3>2 DEF Receive
    <3>3. CASE Dispatch(i)
      BY <3>3 DEF Dispatch
    <3>4. CASE Hook(i)
      BY <3>4 DEF Hook, HookValue
    <3>5. CASE Deliver(i)
      <4>1. PICK s \in pending[i] :
              /\ StreamGoto(i, "deliver", IF pending[i] = {s} THEN "open" ELSE "deliver")
              /\ pending' = [pending EXCEPT ![i] = @ \ {s}]
              /\ Give(s, pos[i])
              /\ UNCHANGED <<latest, pos, synced>>
              /\ StreamOnly
        BY <3>5 DEF Deliver
      <4>2. s \in Subs /\ pos[i] \in Versions
        BY <4>1
      <4>3. seen' \in [Subs -> SUBSET Versions]
        BY <4>1, <4>2 DEF Give
      <4>4. pending' \in [Subs -> SUBSET Subs]
        BY <4>1
      <4>5. streamAt' \in [Subs -> StreamPCs]
        BY <4>1
      <4>6. \A j \in Subs : streamAt'[j] \in {"dispatch", "hook", "deliver"}
              => pos'[j] # 0
        BY <4>1
      <4>. QED
        BY <4>1, <4>3, <4>4, <4>5, <4>6
    <3>6. CASE StreamEnds(i)
      BY <3>6 DEF StreamEnds
    <3>. QED
      BY <2>9, <3>1, <3>2, <3>3, <3>4, <3>5, <3>6 DEF StreamStep
  <2>10. CASE UNCHANGED vars
    BY <2>10 DEF vars, subVars, streamVars, TypeOK
  <2>. QED
    BY <2>1, <2>2, <2>3, <2>4, <2>5, <2>6, <2>7, <2>8, <2>9, <2>10 DEF Next, SubStep
<1>. QED
  BY <1>1, <1>2, PTL DEF Spec

(* Every variable keeps its type.                                          *)
THEOREM TypeCorrect == Spec => []TypeOK
<1>1. TypeInv => TypeOK
  BY DEF TypeInv
<1>. QED
  BY <1>1, TypeInvariant, PTL

-----------------------------------------------------------------------------
(* The streams.  A subscription that has not reached ensure_stream has     *)
(* spawned nothing, so its token is new when it does; a token that is kept *)
(* has a listener that needs it, or a drop that is about to take it.       *)
Early == {"new", "register", "replay", "ensure"}

StreamInv ==
  /\ OneStream
  /\ stopped <=> stopAt \in {"control", "done"}
  /\ stopped => token = {}
  /\ \A s \in Subs :
       pc[s] \in Early => streamAt[s] = "none" /\ s \notin cancelled /\ s \notin token
  /\ \A s \in Subs : pc[s] \in {"replay", "ensure"} => s \in listeners \/ stopped
  /\ token # {} => listeners # {} \/ \E s \in Subs : pc[s] = "close"

(* A step of a stream that stops only if it has been cancelled.            *)
LEMMA StreamGoesOn ==
  ASSUME TypeOK, StreamInv, NEW i \in Subs, NEW to \in StreamPCs,
         streamAt' = [streamAt EXCEPT ![i] = to],
         streamAt[i] \notin {"none", "done"}, to # "none",
         to = "done" => i \in cancelled,
         UNCHANGED <<pc, listeners, token, stopped, stopAt, cancelled>>
  PROVE  StreamInv'
<1>1. \A j \in Subs : streamAt'[j] = IF j = i THEN to ELSE streamAt[j]
  BY DEF TypeOK
<1>2. \A j \in Subs : Running(j)' <=> Running(j)
  BY <1>1 DEF Running
<1>3. OneStream'
  BY <1>2 DEF StreamInv, OneStream, TypeOK
<1>4. \A s \in Subs :
        pc'[s] \in Early => streamAt'[s] = "none" /\ s \notin cancelled' /\ s \notin token'
  BY <1>1 DEF StreamInv
<1>. QED
  BY <1>3, <1>4 DEF StreamInv

LEMMA StreamInvariant == Spec => []StreamInv
<1>1. Init => StreamInv
  BY DEF Init, StreamInv, OneStream, Running
<1>2. TypeOK /\ StreamInv /\ [Next]_vars => StreamInv'
  <2> SUFFICES ASSUME TypeOK, StreamInv, [Next]_vars PROVE StreamInv'
    OBVIOUS
  <2>1. ASSUME UNCHANGED <<token, streamAt, cancelled>> PROVE OneStream'
    BY <2>1 DEF StreamInv, OneStream, Running
  <2>2. ASSUME token' = {}, cancelled' = cancelled \cup token, UNCHANGED streamAt
        PROVE  OneStream'
    BY <2>2 DEF StreamInv, OneStream, Running
  <2>3. CASE Update \/ UNCHANGED vars
    BY <2>1, <2>3 DEF Update, vars, subVars, streamVars, StreamInv
  <2>4. ASSUME NEW s \in Subs, Watch(s) PROVE StreamInv'
    BY <2>1, <2>4 DEF Watch, Goto, streamVars, StreamInv, Early, TypeOK
  <2>5. ASSUME NEW s \in Subs, Register(s) PROVE StreamInv'
    BY <2>1, <2>5 DEF Register, AfterRegister, Goto, streamVars, StreamInv, Early, TypeOK
  <2>6. ASSUME NEW s \in Subs, Replay(s) PROVE StreamInv'
    BY <2>1, <2>6 DEF Replay, Goto, streamVars, StreamInv, Early, TypeOK
  <2>7. ASSUME NEW s \in Subs, EnsureStream(s) PROVE StreamInv'
    <3>0. /\ pc[s] = "ensure" /\ pc' = [pc EXCEPT ![s] = "live"]
          /\ UNCHANGED <<listeners, stopped, stopAt, cancelled>>
      BY <2>7 DEF EnsureStream, Goto
    <3>1. CASE NeedsStream /\ token' = {s} /\ streamAt' = [streamAt EXCEPT ![s] = "top"]
      <4>1. /\ token = {} /\ ~stopped /\ s \notin cancelled /\ s \in listeners
        BY <3>0, <3>1 DEF NeedsStream, StreamInv, Early
      <4>2. \A i \in Subs : ~Running(i)
        BY <4>1 DEF StreamInv, OneStream
      <4>3. \A i \in Subs : streamAt'[i] = IF i = s THEN "top" ELSE streamAt[i]
        BY <3>1 DEF TypeOK
      <4>4. OneStream'
        BY <3>0, <3>1, <4>1, <4>2, <4>3 DEF OneStream, Running
      <4>5. \A t \in Subs : pc'[t] \in Early =>
              streamAt'[t] = "none" /\ t \notin cancelled' /\ t \notin token'
        BY <3>0, <3>1, <4>3 DEF StreamInv, Early, TypeOK
      <4>. QED
        BY <3>0, <3>1, <4>1, <4>4, <4>5 DEF StreamInv, TypeOK
    <3>2. CASE ~NeedsStream /\ UNCHANGED <<token, streamAt>>
      BY <2>1, <3>0, <3>2 DEF StreamInv, Early, TypeOK
    <3>. QED
      BY <2>7, <3>1, <3>2 DEF EnsureStream
  <2>8. ASSUME NEW s \in Subs, CloseStream(s) PROVE StreamInv'
    BY <2>2, <2>8 DEF CloseStream, TakeToken, Goto, streamVars, StreamInv, Early, TypeOK
  <2>9. ASSUME NEW s \in Subs, Drop(s) PROVE StreamInv'
    <3>1. /\ pc[s] = "live" /\ pc' = [pc EXCEPT ![s] = AfterDrop(s)]
          /\ listeners' = listeners \ {s}
          /\ UNCHANGED <<token, stopped, stopAt, streamAt, cancelled>>
      BY <2>9 DEF Drop, Goto, streamVars
    <3>2. \A t \in Subs : pc'[t] = IF t = s THEN AfterDrop(s) ELSE pc[t]
      BY <3>1 DEF TypeOK
    <3>3. listeners' = {} => pc'[s] = "close"
      BY <3>1, <3>2 DEF AfterDrop
    <3>4. AfterDrop(s) \in {"close", "gone"}
      BY DEF AfterDrop
    <3>5. \A t \in Subs : pc'[t] \in {"replay", "ensure"} => t \in listeners' \/ stopped'
      BY <3>1, <3>2, <3>4 DEF StreamInv
    <3>6. \A t \in Subs : pc'[t] \in Early => pc[t] \in Early
      BY <3>2, <3>4 DEF Early
    <3>. QED
      BY <2>1, <3>1, <3>3, <3>5, <3>6 DEF StreamInv
  <2>10. CASE Claim
    BY <2>1, <2>10 DEF Claim, subVars, streamVars, StreamInv
  <2>11. CASE StopControl
    BY <2>2, <2>11 DEF StopControl, TakeToken, subVars, streamVars, StreamInv, Early
  <2>12. CASE StopListeners
    <3>1. stopped /\ token = {}
      BY <2>12 DEF StopListeners, StreamInv
    <3>. QED
      BY <2>1, <2>12, <3>1 DEF StopListeners, subVars, streamVars, StreamInv
  <2>13. ASSUME NEW i \in Subs, StreamStep(i) PROVE StreamInv'
    <3>1. UNCHANGED <<pc, listeners, token, stopped, stopAt, cancelled>>
      BY <2>13 DEF StreamStep, StreamTop, Open, OpenFails, Receive, Dispatch, Hook,
                   Deliver, StreamEnds, StreamReturns, Backoff, StreamOnly, subVars
    <3>2. PICK to \in StreamPCs :
            /\ streamAt' = [streamAt EXCEPT ![i] = to]
            /\ to # "none" /\ (to = "done" => i \in cancelled)
      BY <2>13 DEF StreamStep, StreamTop, Open, OpenFails, Receive, Dispatch, Hook,
                   Deliver, StreamEnds, StreamReturns, AfterFailure, Backoff,
                   StreamGoto, StreamPCs
    <3>3. streamAt[i] \notin {"none", "done"}
      BY <2>13 DEF StreamStep, StreamTop, Open, OpenFails, Receive, Dispatch, Hook,
                   Deliver, StreamEnds, StreamReturns, Backoff, StreamGoto
    <3>. QED
      BY <3>1, <3>2, <3>3, StreamGoesOn
  <2>. QED
    BY <2>3, <2>4, <2>5, <2>6, <2>7, <2>8, <2>9, <2>10, <2>11, <2>12, <2>13
       DEF Next, SubStep
<1>. QED
  BY <1>1, <1>2, TypeCorrect, PTL DEF Spec

(* One stream is shared by all subscribers, and it is the one whose token  *)
(* is kept.                                                                *)
THEOREM StreamIsShared == Spec => []OneStream
<1>1. StreamInv => OneStream
  BY DEF StreamInv
<1>. QED
  BY <1>1, StreamInvariant, PTL

(* After stop() no stream runs, and none starts again.                     *)
THEOREM StopIsFinal == Spec => []NoStreamAfterStop
<1>1. StreamInv => NoStreamAfterStop
  BY DEF StreamInv, OneStream, NoStreamAfterStop
<1>. QED
  BY <1>1, StreamInvariant, PTL

(* At rest, without a listener, the stream is closed.                      *)
THEOREM UnusedIsClosed == Spec => []ClosedWhenUnused
<1>1. StreamInv => ClosedWhenUnused
  BY DEF StreamInv, OneStream, ClosedWhenUnused, AtRest
<1>. QED
  BY <1>1, StreamInvariant, PTL

-----------------------------------------------------------------------------
(* Delivery.  A registered listener has been given the latest update, or   *)
(* it is about to: by the replay that read it, or by a dispatch whose      *)
(* snapshot of the listeners has it.                                       *)
Dispatching(i, s) ==
  streamAt[i] \in {"hook", "deliver"} /\ s \in pending[i] /\ pos[i] = latest

Served(s) ==
  \/ latest = 0
  \/ latest \in seen[s]
  \/ pc[s] = "replay" /\ replay[s] = latest
  \/ \E i \in Subs : Dispatching(i, s)

DeliveryInv ==
  \A s \in listeners : pc[s] \in {"replay", "ensure", "live"} /\ Served(s)

LEMMA DeliveryInvariant == Spec => []DeliveryInv
<1>1. Init => DeliveryInv
  BY DEF Init, DeliveryInv
<1>2. TypeOK /\ StreamInv /\ DeliveryInv /\ [Next]_vars => DeliveryInv'
  <2> SUFFICES ASSUME TypeOK, StreamInv, DeliveryInv, [Next]_vars
               PROVE DeliveryInv'
    OBVIOUS
  <2>0. listeners \subseteq Subs
    BY DEF TypeOK
  (* What a step that leaves the streams and `latest` alone must keep.     *)
  <2>1. ASSUME UNCHANGED <<latest, streamVars>>, NEW s \in listeners,
               seen[s] \subseteq seen'[s],
               (pc[s] = "replay" /\ pc'[s] # "replay") => replay[s] \in seen'[s],
               pc'[s] = "replay" => replay'[s] = replay[s]
        PROVE  Served(s)'
    BY <2>1 DEF DeliveryInv, Served, Dispatching, streamVars
  <2>2. CASE Update \/ Claim \/ StopControl \/ UNCHANGED vars
    BY <2>1, <2>2 DEF Update, Claim, StopControl, vars, subVars, DeliveryInv
  <2>3. CASE StopListeners
    BY <2>3 DEF StopListeners, DeliveryInv
  <2>4. ASSUME NEW s \in Subs, Watch(s) PROVE DeliveryInv'
    <3>1. \A t \in listeners : pc'[t] = pc[t]
      BY <2>4 DEF Watch, Goto, DeliveryInv, TypeOK
    <3>. QED
      BY <2>1, <2>4, <3>1 DEF Watch, DeliveryInv
  <2>5. ASSUME NEW s \in Subs, Register(s) PROVE DeliveryInv'
    <3>1. /\ s \notin listeners /\ listeners' = listeners \cup {s}
          /\ replay' = [replay EXCEPT ![s] = latest]
          /\ pc' = [pc EXCEPT ![s] = IF latest = 0 THEN "ensure" ELSE "replay"]
          /\ UNCHANGED <<latest, streamVars, seen>>
      BY <2>5 DEF Register, Goto, AfterRegister, ReplayOf, DeliveryInv
    <3>2. \A t \in listeners : pc'[t] = pc[t] /\ replay'[t] = replay[t]
      BY <2>0, <3>1 DEF TypeOK
    <3>3. pc'[s] \in {"replay", "ensure"} /\ Served(s)'
      BY <3>1 DEF Served, TypeOK
    <3>. QED
      BY <2>1, <3>1, <3>2, <3>3 DEF DeliveryInv
  <2>6. ASSUME NEW s \in Subs, Replay(s) PROVE DeliveryInv'
    <3>1. /\ pc[s] = "replay" /\ pc' = [pc EXCEPT ![s] = "ensure"]
          /\ seen' = [seen EXCEPT ![s] = @ \cup {replay[s]}]
          /\ replay' = [replay EXCEPT ![s] = 0]
          /\ UNCHANGED <<listeners, latest, streamVars>>
      BY <2>6 DEF Replay, Goto, Give
    <3>2. \A t \in listeners :
            /\ pc'[t] = IF t = s THEN "ensure" ELSE pc[t]
            /\ t # s => replay'[t] = replay[t] /\ seen'[t] = seen[t]
            /\ t = s => seen'[t] = seen[t] \cup {replay[t]}
      BY <2>0, <3>1 DEF TypeOK
    <3>. QED
      BY <2>1, <3>1, <3>2 DEF DeliveryInv
  <2>7. ASSUME NEW s \in Subs, EnsureStream(s) PROVE DeliveryInv'
    <3>1. /\ pc[s] = "ensure" /\ pc' = [pc EXCEPT ![s] = "live"]
          /\ streamAt' \in {[streamAt EXCEPT ![s] = "top"], streamAt}
          /\ UNCHANGED <<listeners, latest, replay, seen, pos, pending>>
      BY <2>7 DEF EnsureStream, Goto
    <3>2. streamAt[s] = "none"
      BY <3>1 DEF StreamInv, Early
    <3>3. \A t \in listeners, j \in Subs : Dispatching(j, t) => Dispatching(j, t)'
      BY <3>1, <3>2 DEF Dispatching, TypeOK
    <3>4. \A t \in listeners : pc'[t] = IF t = s THEN "live" ELSE pc[t]
      BY <2>0, <3>1 DEF TypeOK
    <3>. QED
      BY <3>1, <3>3, <3>4 DEF DeliveryInv, Served
  <2>8. ASSUME NEW s \in Subs, CloseStream(s) PROVE DeliveryInv'
    <3>1. pc[s] = "close" /\ pc' = [pc EXCEPT ![s] = "gone"]
      BY <2>8 DEF CloseStream, Goto
    <3>2. \A t \in listeners : pc'[t] = pc[t]
      BY <3>1 DEF DeliveryInv, TypeOK
    <3>. QED
      BY <2>1, <2>8, <3>2 DEF CloseStream, DeliveryInv
  <2>9. ASSUME NEW s \in Subs, Drop(s) PROVE DeliveryInv'
    <3>1. \A t \in listeners' : t \in listeners /\ pc'[t] = pc[t] /\ seen'[t] = seen[t]
      BY <2>0, <2>9 DEF Drop, Goto, TypeOK
    <3>. QED
      BY <2>1, <2>9, <3>1 DEF Drop, DeliveryInv
  <2>10. ASSUME NEW i \in Subs, StreamStep(i) PROVE DeliveryInv'
    <3>1. UNCHANGED <<pc, replay, listeners>>
      BY <2>10 DEF StreamStep, StreamTop, Open, OpenFails, Receive, Dispatch, Hook,
                   Deliver, StreamEnds, StreamReturns, Backoff, StreamOnly, subVars
    <3>2. ASSUME ~Dispatch(i), ~Hook(i), ~Deliver(i) PROVE DeliveryInv'
      <4>1. /\ UNCHANGED <<latest, pending, seen>>
            /\ streamAt[i] \notin {"hook", "deliver"}
        BY <2>10, <3>2 DEF StreamStep, StreamTop, Open, OpenFails, Receive,
              StreamEnds, StreamReturns, Backoff, StreamGoto
      <4>2. \A j \in Subs : j # i => streamAt'[j] = streamAt[j] /\ pos'[j] = pos[j]
        BY <2>10, <3>2 DEF StreamStep, StreamTop, Open, OpenFails, Receive,
              StreamEnds, StreamReturns, Backoff, StreamGoto, TypeOK
      <4>3. \A s \in listeners, j \in Subs : Dispatching(j, s) => Dispatching(j, s)'
        BY <4>1, <4>2 DEF Dispatching
      <4>. QED
        BY <3>1, <4>1, <4>3 DEF DeliveryInv, Served
    <3>3. CASE Dispatch(i)
      <4>1. /\ streamAt' = [streamAt EXCEPT ![i] = "hook"]
            /\ latest' = pos[i] /\ pos' = pos
            /\ pending' = [pending EXCEPT ![i] = listeners]
        BY <3>3 DEF Dispatch, StreamGoto
      <4>2. \A s \in listeners : Dispatching(i, s)'
        BY <4>1 DEF Dispatching, TypeOK
      <4>. QED
        BY <3>1, <4>2 DEF DeliveryInv, Served
    <3>4. CASE Hook(i)
      <4>1. /\ UNCHANGED <<latest, pos, pending, seen>>
            /\ streamAt' = [streamAt EXCEPT ![i] =
                              IF pending[i] = {} THEN "open" ELSE "deliver"]
        BY <3>4 DEF Hook, StreamGoto
      <4>2. \A s \in listeners, j \in Subs : Dispatching(j, s) => Dispatching(j, s)'
        BY <4>1 DEF Dispatching, TypeOK
      <4>. QED
        BY <3>1, <4>1, <4>2 DEF DeliveryInv, Served
    <3>5. CASE Deliver(i)
      <4>1. PICK t \in pending[i] :
              /\ streamAt[i] = "deliver"
              /\ streamAt' = [streamAt EXCEPT ![i] =
                                IF pending[i] = {t} THEN "open" ELSE "deliver"]
              /\ pending' = [pending EXCEPT ![i] = @ \ {t}]
              /\ seen' = [seen EXCEPT ![t] = @ \cup {pos[i]}]
              /\ UNCHANGED <<latest, pos>>
        BY <3>5 DEF Deliver, StreamGoto, Give
      <4>2. t \in Subs
        BY <4>1 DEF TypeOK
      <4>3. /\ \A s \in Subs : seen[s] \subseteq seen'[s]
            /\ pos[i] \in seen'[t]
        BY <4>1, <4>2 DEF TypeOK
      <4>4. \A s \in listeners, j \in Subs :
              Dispatching(j, s) => Dispatching(j, s)' \/ latest \in seen'[s]
        BY <4>1, <4>2, <4>3 DEF Dispatching, TypeOK
      <4>. QED
        BY <2>0, <3>1, <4>1, <4>3, <4>4 DEF DeliveryInv, Served
    <3>. QED
      BY <3>2, <3>3, <3>4, <3>5
  <2>. QED
    BY <2>2, <2>3, <2>4, <2>5, <2>6, <2>7, <2>8, <2>9, <2>10 DEF Next, SubStep
<1>. QED
  BY <1>1, <1>2, TypeCorrect, StreamInvariant, PTL DEF Spec

(* A subscriber that joins a stream misses nothing of it.                  *)
THEOREM NothingIsMissed == Spec => []NoMissedUpdate
<1>1. DeliveryInv => NoMissedUpdate
  BY DEF DeliveryInv, Served, Dispatching, NoMissedUpdate
<1>. QED
  BY <1>1, DeliveryInvariant, PTL

-----------------------------------------------------------------------------
(* The cache-sync hook.  What a lone stream carries to the hook is what it *)
(* has recorded as the latest update.  A second stream may record another  *)
(* update in between, and the hooks may run in either order.               *)
LoneStream ==
  \A i, j \in Subs : streamAt[i] # "none" /\ streamAt[j] # "none" => i = j

HookInv ==
  LoneStream =>
    /\ \A i \in Subs : streamAt[i] = "hook" => pos[i] = latest
    /\ (\A i \in Subs : streamAt[i] # "hook") => synced = latest

(* A step that brings no stream to the hook or from it.                    *)
LEMMA HookKept ==
  ASSUME HookInv, UNCHANGED <<latest, synced>>,
         \A i \in Subs : /\ streamAt'[i] = "none" => streamAt[i] = "none"
                         /\ streamAt'[i] = "hook" <=> streamAt[i] = "hook"
                         /\ streamAt[i] = "hook" => pos'[i] = pos[i]
  PROVE  HookInv'
<1>1. LoneStream' => LoneStream
  BY DEF LoneStream
<1>. QED
  BY <1>1 DEF HookInv

(* While a single stream has served every subscriber, the hook has been    *)
(* given the latest update, also when all of its listeners are gone.       *)
THEOREM HookIsCurrent == Spec => []HookKeepsUp
<1>1. Init => HookInv
  BY DEF Init, HookInv
<1>2. TypeOK /\ StreamInv /\ HookInv /\ [Next]_vars => HookInv'
  <2> SUFFICES ASSUME TypeOK, StreamInv, HookInv, [Next]_vars PROVE HookInv'
    OBVIOUS
  <2>1. ASSUME UNCHANGED <<streamVars, latest, synced>> PROVE HookInv'
    BY <2>1 DEF HookInv, LoneStream, streamVars
  <2>2. ASSUME NEW s \in Subs, EnsureStream(s) PROVE HookInv'
    <3>1. CASE UNCHANGED streamAt
      BY <2>1, <2>2, <3>1 DEF EnsureStream, streamVars
    <3>2. CASE streamAt' = [streamAt EXCEPT ![s] = "top"]
      <4>1. streamAt[s] = "none" /\ UNCHANGED <<pos, latest, synced>>
        BY <2>2 DEF EnsureStream, Goto, StreamInv, Early
      <4>. QED
        BY <3>2, <4>1, HookKept DEF TypeOK
    <3>. QED
      BY <2>2, <3>1, <3>2 DEF EnsureStream
  <2>3. ASSUME NEW i \in Subs,
               \/ StreamTop(i) \/ Open(i) \/ OpenFails(i) \/ Receive(i)
               \/ StreamEnds(i) \/ StreamReturns(i) \/ Backoff(i) \/ Deliver(i)
        PROVE  HookInv'
    <3>1. /\ streamAt[i] \notin {"none", "hook"}
          /\ \E to \in StreamPCs \ {"none", "hook"} :
               streamAt' = [streamAt EXCEPT ![i] = to]
          /\ UNCHANGED <<latest, synced>>
      BY <2>3 DEF StreamTop, Open, OpenFails, Receive, StreamEnds, StreamReturns,
                  AfterFailure, Backoff, Deliver, StreamGoto, StreamPCs
    <3>2. \A j \in Subs : j # i => pos'[j] = pos[j]
      BY <2>3 DEF StreamTop, Open, OpenFails, Receive, StreamEnds, StreamReturns,
                  Backoff, Deliver, TypeOK
    <3>. QED
      BY <3>1, <3>2, HookKept DEF TypeOK
  <2>4. ASSUME NEW i \in Subs, Dispatch(i) \/ Hook(i) PROVE HookInv'
    <3>1. streamAt[i] \in {"dispatch", "hook"} /\ pos' = pos
      BY <2>4 DEF Dispatch, Hook, StreamGoto
    <3>2. LoneStream' =>
            LoneStream /\ \A j \in Subs : j # i => streamAt'[j] = "none"
      BY <2>4 DEF Dispatch, Hook, StreamGoto, LoneStream, TypeOK
    <3>3. CASE Dispatch(i)
      <4>1. streamAt'[i] = "hook" /\ latest' = pos[i]
        BY <3>3 DEF Dispatch, StreamGoto, TypeOK
      <4>. QED
        BY <3>1, <3>2, <4>1 DEF HookInv
    <3>4. CASE Hook(i)
      <4>1. streamAt'[i] # "hook" /\ synced' = pos[i] /\ latest' = latest
        BY <3>4 DEF Hook, HookValue, StreamGoto, TypeOK
      <4>2. LoneStream' => pos[i] = latest
        BY <3>2, <3>4 DEF HookInv, Hook, StreamGoto
      <4>. QED
        BY <3>1, <3>2, <4>1, <4>2 DEF HookInv
    <3>. QED
      BY <2>4, <3>3, <3>4
  <2>5. ASSUME NEW s \in Subs,
               Watch(s) \/ Register(s) \/ Replay(s) \/ CloseStream(s) \/ Drop(s)
        PROVE  HookInv'
    BY <2>1, <2>5 DEF Watch, Register, Replay, CloseStream, Drop
  <2>6. CASE Update \/ Claim \/ StopControl \/ StopListeners \/ UNCHANGED vars
    BY <2>1, <2>6 DEF Update, Claim, StopControl, StopListeners, vars
  <2>. QED
    BY <2>2, <2>3, <2>4, <2>5, <2>6 DEF Next, SubStep, StreamStep
<1>3. HookInv => HookKeepsUp
  BY DEF HookInv, HookKeepsUp, LoneStream
<1>. QED
  BY <1>1, <1>2, <1>3, TypeCorrect, StreamInvariant, PTL DEF Spec
=============================================================================
