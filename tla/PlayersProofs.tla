--------------------------- MODULE PlayersProofs ---------------------------
(***************************************************************************)
(* The safety properties of Players for any callers, sessions, capacities  *)
(* and numbers of calls: what the cache may hold, what calls report, and   *)
(* that both transports implement the registry.                            *)
(***************************************************************************)
EXTENDS Players, TLAPS

(* A change of the values keeps a list a list; the answers that carry one  *)
(* leave its capacity alone (sidecar.rs and local.rs never change it).     *)
LEMMA ListFields ==
  ASSUME NEW l \in Lists
  PROVE  /\ l.values \in SUBSET Sessions
         /\ ~l.exists => l = Disabled
         /\ l.values # {} => l.exists
<1>1. CASE l = Disabled
  <2>1. l.exists = FALSE /\ l.values = {}
    BY <1>1 DEF Disabled
  <2>. QED
    BY <1>1, <2>1
<1>2. CASE l # Disabled
  <2>1. l \in [exists : {TRUE}, capacity : Capacities \cup {Unlimited},
               values : SUBSET Sessions]
    BY <1>2 DEF Lists
  <2>2. l.exists = TRUE /\ l.values \in SUBSET Sessions
    BY <2>1
  <2>. QED
    BY <2>2
<1>. QED
  BY <1>1, <1>2

LEMMA ValuesKeepList ==
  ASSUME NEW l \in Lists, l.exists, NEW v \in SUBSET Sessions
  PROVE  [l EXCEPT !.values = v] \in Lists
<1>1. l # Disabled
  <2>1. Disabled.exists = FALSE
    BY DEF Disabled
  <2>. QED
    BY <2>1
<1>2. l \in [exists : {TRUE}, capacity : Capacities \cup {Unlimited},
             values : SUBSET Sessions]
  BY <1>1 DEF Lists
<1>3. [l EXCEPT !.values = v] \in
        [exists : {TRUE}, capacity : Capacities \cup {Unlimited},
         values : SUBSET Sessions]
  BY <1>2
<1>. QED
  BY <1>3 DEF Lists

LEMMA CapacityKeepsList ==
  ASSUME NEW l \in Lists, l.exists, NEW n \in Capacities
  PROVE  [l EXCEPT !.capacity = n] \in Lists
<1>1. l # Disabled
  <2>1. Disabled.exists = FALSE
    BY DEF Disabled
  <2>. QED
    BY <2>1
<1>2. l \in [exists : {TRUE}, capacity : Capacities \cup {Unlimited},
             values : SUBSET Sessions]
  BY <1>1 DEF Lists
<1>3. [l EXCEPT !.capacity = n] \in
        [exists : {TRUE}, capacity : Capacities \cup {Unlimited},
         values : SUBSET Sessions]
  BY <1>2
<1>. QED
  BY <1>3 DEF Lists

LEMMA SomeLists ==
  /\ Disabled \in Lists
  /\ \A n \in Capacities \cup {Unlimited} : EmptyList(n) \in Lists
BY DEF Lists, Disabled, EmptyList

(* What Append and Tail do to the elements of a sequence.                  *)
LEMMA AppendElements ==
  ASSUME NEW S, NEW q \in Seq(S), NEW x \in S
  PROVE  /\ Append(q, x) \in Seq(S) /\ Append(q, x) # <<>>
         /\ Append(q, x)[Len(Append(q, x))] = x
         /\ \A i \in 1..Len(Append(q, x)) :
              \/ Append(q, x)[i] = x
              \/ i \in 1..Len(q) /\ Append(q, x)[i] = q[i]
<1>1. Len(Append(q, x)) = Len(q) + 1 /\ Len(q) \in Nat
  OBVIOUS
<1>2. \A i \in 1..Len(q) : Append(q, x)[i] = q[i]
  OBVIOUS
<1>3. Append(q, x)[Len(q) + 1] = x
  OBVIOUS
<1>. QED
  BY <1>1, <1>2, <1>3

LEMMA TailElements ==
  ASSUME NEW S, NEW q \in Seq(S), q # <<>>
  PROVE  /\ Tail(q) \in Seq(S) /\ Head(q) = q[1] /\ 1 \in 1..Len(q)
         /\ \A i \in 1..Len(Tail(q)) : i + 1 \in 1..Len(q) /\ Tail(q)[i] = q[i + 1]
<1>1. Len(q) \in Nat /\ Len(q) # 0 /\ Len(Tail(q)) = Len(q) - 1
  OBVIOUS
<1>. QED
  BY <1>1

(* The rest of a sequence ends like the sequence, unless that was its head. *)
LEMMA TailEnds ==
  ASSUME NEW S, NEW q \in Seq(S), q # <<>>
  PROVE  \/ Tail(q) = <<>> /\ Head(q) = q[Len(q)]
         \/ Tail(q) # <<>> /\ Tail(q)[Len(Tail(q))] = q[Len(q)]
<1>1. Len(q) \in Nat /\ Len(q) # 0
  OBVIOUS
<1>2. Tail(q) \in Seq(S)
  OBVIOUS
<1>3. Len(Tail(q)) = Len(q) - 1
  OBVIOUS
<1>4. CASE Len(q) = 1
  <2>1. Tail(q) = <<>>
    <3>1. \A e \in Seq(S) : Len(e) = 0 => e = <<>>
      OBVIOUS
    <3>2. Len(Tail(q)) = 0
      BY <1>3, <1>4
    <3>. QED
      BY <1>2, <3>1, <3>2
  <2>2. Head(q) = q[1]
    OBVIOUS
  <2>. QED
    BY <1>4, <2>1, <2>2
<1>5. CASE Len(q) # 1
  <2>1. Len(q) - 1 \in 1..(Len(q) - 1) /\ (Len(q) - 1) + 1 = Len(q)
    <3>1. \A n \in Nat : n # 0 /\ n # 1 => n - 1 \in 1..(n - 1) /\ (n - 1) + 1 = n
      OBVIOUS
    <3>. QED
      BY <1>1, <1>5, <3>1
  <2>2. Tail(q)[Len(q) - 1] = q[(Len(q) - 1) + 1]
    BY <1>3, <2>1, TailElements
  <2>3. Tail(q)[Len(Tail(q))] = q[Len(q)]
    BY <1>3, <2>1, <2>2
  <2>4. Tail(q) # <<>>
    <3>1. Len(<<>>) = 0
      OBVIOUS
    <3>2. Len(Tail(q)) # 0
      BY <1>1, <1>3, <1>5
    <3>. QED
      BY <3>1, <3>2
  <2>. QED
    BY <2>3, <2>4
<1>. QED
  BY <1>4, <1>5

(* The types of the runtime's list, of the lists it has had and of the     *)
(* streams.                                                                *)
RuntimeTyped ==
  /\ rt \in Lists /\ held \in SUBSET Lists
  /\ watching \in BOOLEAN /\ feed \in Seq(Lists)
  /\ pending \in [Tasks -> Seq(Lists)] /\ draining \in SUBSET Tasks

LEMMA RuntimeListTyped ==
  ASSUME TypeOK, NEW l \in Lists, RuntimeList(l)
  PROVE  RuntimeTyped'
<1>1. feed' \in Seq(Lists)
  BY AppendElements DEF RuntimeList, TypeOK
<1>2. pending' \in [Tasks -> Seq(Lists)]
  <2>1. \A t \in Tasks : pending[t] \in Seq(Lists) /\ Append(pending[t], l) \in Seq(Lists)
    BY AppendElements DEF TypeOK
  <2>. QED
    BY <2>1 DEF RuntimeList
<1>3. rt' \in Lists /\ held' \in SUBSET Lists
  BY DEF RuntimeList, TypeOK
<1>4. watching' \in BOOLEAN /\ draining' \in SUBSET Tasks
  BY Zenon DEF RuntimeList, TypeOK
<1>. QED
  BY <1>1, <1>2, <1>3, <1>4 DEF RuntimeTyped

LEMMA MutateTyped ==
  ASSUME TypeOK, NEW c \in Callers, NEW l \in Lists, Mutate(c, l)
  PROVE  /\ RuntimeTyped'
         /\ effect' \in [Callers -> BOOLEAN]
         /\ excused' \in BOOLEAN
<1>1. effect' \in [Callers -> BOOLEAN]
  BY DEF Mutate, TypeOK
<1>2. excused' \in BOOLEAN
  BY DEF Mutate, ChangeExcuse
<1>. QED
  BY <1>1, <1>2, RuntimeListTyped DEF Mutate

LEMMA NoChangeTyped ==
  ASSUME TypeOK, NoChange
  PROVE  /\ RuntimeTyped'
         /\ effect' \in [Callers -> BOOLEAN]
         /\ excused' \in BOOLEAN
BY DEF NoChange, TypeOK, RuntimeTyped, streamVars

LEMMA Mutations ==
  ASSUME TypeOK, NEW c \in Callers
  PROVE  /\ Addable(session[c]) => Added(session[c]) \in Lists
         /\ session[c] \in rt.values => Removed(session[c]) \in Lists
<1>1. rt \in Lists /\ session[c] \in Sessions
  BY DEF TypeOK
<1>2. rt.values \in SUBSET Sessions /\ (rt.values # {} => rt.exists)
  BY <1>1, ListFields
<1>3. ASSUME rt.exists
      PROVE  Added(session[c]) \in Lists /\ Removed(session[c]) \in Lists
  BY <1>1, <1>2, <1>3, ValuesKeepList DEF Added, Removed
<1>. QED
  BY <1>2, <1>3 DEF Addable

LEMMA CountedTyped ==
  ASSUME TypeOK, Counted
  PROVE  steps' \in 0..MaxSteps
BY PlayersAssumption DEF TypeOK, Counted

(* The streams have nothing to do with the calls or with the list itself.  *)
LEMMA StreamStepLeaves ==
  ASSUME StreamStep
  PROVE  UNCHANGED <<mode, rt, callVars, steps, held>>
BY DEF StreamStep, SyncFromGameServer, OpenStream, BreakStream, RemoveSink,
       Announce, RegisterSink, CancelStream, EndStream, Dispatch, Opened,
       StreamOnly

LEMMA StreamStepTyped ==
  ASSUME TypeOK, StreamStep
  PROVE  TypeOK'
<1>1. UNCHANGED <<mode, rt, pc, op, session, snap, res, effect, steps, held>>
  BY StreamStepLeaves DEF callVars
<1>2. /\ rt \in Lists /\ cache \in Lists /\ feed \in Seq(Lists)
      /\ <<>> \in Seq(Lists) /\ <<rt>> \in Seq(Lists)
      /\ pending \in [Tasks -> Seq(Lists)] /\ draining \in SUBSET Tasks
      /\ watching \in BOOLEAN /\ excused \in BOOLEAN /\ solo \in BOOLEAN
  BY DEF TypeOK
<1>3. \A q \in Seq(Lists) : q # <<>> => Head(q) \in Lists /\ Tail(q) \in Seq(Lists)
  OBVIOUS
<1> DEFINE StreamTyped ==
      /\ cache' \in Lists /\ feed' \in Seq(Lists)
      /\ pending' \in [Tasks -> Seq(Lists)] /\ draining' \in SUBSET Tasks
      /\ watching' \in BOOLEAN /\ excused' \in BOOLEAN /\ solo' \in BOOLEAN
<1>4. StreamTyped
  <2>1. CASE SyncFromGameServer
    BY <2>1, <1>2, <1>3 DEF SyncFromGameServer
  <2>2. CASE OpenStream \/ BreakStream \/ RemoveSink
    BY <2>2, <1>2 DEF OpenStream, BreakStream, RemoveSink, Opened
  <2>3. ASSUME NEW t \in Tasks, Announce(t) \/ RegisterSink(t) PROVE StreamTyped
    BY <2>3, <1>2 DEF Announce, RegisterSink, Take, Opened
  <2>4. ASSUME NEW t \in Tasks, CancelStream(t) \/ EndStream(t) PROVE StreamTyped
    BY <2>4, <1>2 DEF CancelStream, EndStream
  <2>5. ASSUME NEW t \in Tasks, Dispatch(t) PROVE StreamTyped
    BY <2>5, <1>2, <1>3 DEF Dispatch, Dispatching
  <2>. QED
    <3> HIDE DEF StreamTyped
    <3>. QED
      BY <2>1, <2>2, <2>3, <2>4, <2>5, Zenon DEF StreamStep
<1>. QED
  BY <1>1, <1>4 DEF TypeOK

-----------------------------------------------------------------------------
(* Every variable keeps its type: in particular the runtime's list, the    *)
(* cache and every snapshot on its way to it stay real lists.              *)
THEOREM TypeCorrect == Spec => []TypeOK
<1>1. Init => TypeOK
  <2> SUFFICES ASSUME Init PROVE TypeOK
    OBVIOUS
  <2>1. rt \in Lists
    BY SomeLists DEF Init, InitialLists
  <2>2. snap \in [Callers -> Lists]
    BY SomeLists DEF Init
  <2>3. session \in [Callers -> Sessions]
    BY DEF Init
  <2>4. /\ pc \in [Callers -> PCs] /\ op \in [Callers -> Ops]
        /\ res \in [Callers -> Outcomes] /\ steps \in 0..MaxSteps
    BY PlayersAssumption DEF Init, PCs, Ops, Outcomes
  <2>5. effect \in [Callers -> BOOLEAN] /\ solo \in BOOLEAN
    BY DEF Init
  <2>6. feed \in Seq(Lists) /\ held \in SUBSET Lists /\ cache \in Lists
    BY <2>1 DEF Init
  <2>7. /\ mode \in {"Sidecar", "Local"} /\ watching \in BOOLEAN
        /\ excused \in BOOLEAN
    BY Zenon DEF Init
  <2>8. pending \in [Tasks -> Seq(Lists)] /\ draining \in SUBSET Tasks
    BY DEF Init
  <2>. QED
    BY <2>1, <2>2, <2>3, <2>4, <2>5, <2>6, <2>7, <2>8 DEF TypeOK
<1>2. TypeOK /\ [Next]_vars => TypeOK'
  <2> SUFFICES ASSUME TypeOK, [Next]_vars PROVE TypeOK'
    OBVIOUS
  <2>1. CASE PlatformChange
    <3>1. PICK l \in Lists : RuntimeList(l)
      <4>1. PICK n \in Capacities :
              \/ rt.exists /\ RuntimeList([rt EXCEPT !.capacity = n])
              \/ RuntimeList(Disabled)
              \/ RuntimeList(EmptyList(n))
        BY <2>1 DEF PlatformChange
      <4>. QED
        BY <4>1, SomeLists, CapacityKeepsList DEF TypeOK
    <3>2. RuntimeTyped'
      BY <3>1, RuntimeListTyped
    <3>3. steps' \in 0..MaxSteps
      BY <2>1, CountedTyped DEF PlatformChange
    <3>4. solo' \in BOOLEAN /\ excused' \in BOOLEAN
      BY <2>1 DEF PlatformChange, ChangeExcuse
    <3>5. UNCHANGED <<mode, cache, callVars>>
      BY <2>1 DEF PlatformChange
    <3>. QED
      BY <3>2, <3>3, <3>4, <3>5 DEF TypeOK, RuntimeTyped, callVars
  <2>2. ASSUME NEW c \in Callers, NEW o \in Ops, NEW s \in Sessions,
               NEW first \in PCs, Begin(c, o, s, first)
        PROVE  TypeOK'
    <3>1. steps' \in 0..MaxSteps
      BY <2>2, CountedTyped DEF Begin
    <3>2. solo' \in BOOLEAN /\ effect' \in [Callers -> BOOLEAN]
      BY <2>2 DEF Begin, TypeOK
    <3>3. /\ op' \in [Callers -> Ops] /\ session' \in [Callers -> Sessions]
          /\ pc' \in [Callers -> PCs] /\ res' \in [Callers -> Outcomes]
      BY <2>2 DEF Begin, TypeOK, Goto, Outcomes
    <3>. QED
      BY <2>2, <3>1, <3>2, <3>3 DEF Begin, TypeOK, streamVars
  <2>3. ASSUME NEW c \in Callers, NEW s \in Sessions, BeginConnect(c, s)
        PROVE  TypeOK'
    BY <2>2, <2>3 DEF BeginConnect, Ops, PCs
  <2>4. ASSUME NEW c \in Callers, BeginRefresh(c) PROVE TypeOK'
    <3>1. session[c] \in Sessions
      BY DEF TypeOK
    <3>. QED
      BY <2>2, <2>4, <3>1 DEF BeginRefresh, Ops, PCs
  <2>5. ASSUME NEW c \in Callers, NEW s \in Sessions, BeginDisconnect(c, s)
        PROVE  TypeOK'
    <3>1. CASE Begin(c, "disconnect", s, "remove")
      BY <2>2, <3>1 DEF Ops, PCs
    <3>2. CASE ~Begin(c, "disconnect", s, "remove")
      <4>1. /\ Counted
            /\ op' = [op EXCEPT ![c] = "disconnect"]
            /\ session' = [session EXCEPT ![c] = s]
            /\ effect' = [effect EXCEPT ![c] = FALSE]
            /\ pc' = [pc EXCEPT ![c] = "idle"]
            /\ res' = [res EXCEPT ![c] = "TrackingDisabled"]
            /\ UNCHANGED <<mode, rt, cache, streamVars, snap, held, solo, excused>>
        BY <2>5, <3>2 DEF BeginDisconnect, Return, Goto
      <4>2. effect' \in [Callers -> BOOLEAN]
        BY <4>1 DEF TypeOK
      <4>3. /\ op' \in [Callers -> Ops] /\ session' \in [Callers -> Sessions]
            /\ pc' \in [Callers -> PCs] /\ res' \in [Callers -> Outcomes]
            /\ steps' \in 0..MaxSteps
        BY <4>1, CountedTyped DEF TypeOK, Outcomes, Ops, PCs
      <4>. QED
        BY <4>1, <4>2, <4>3 DEF TypeOK, streamVars
    <3>. QED
      BY <3>1, <3>2
  <2>6. ASSUME NEW c \in Callers, CallStep(c) PROVE TypeOK'
    <3> DEFINE Runtime ==
          /\ RuntimeTyped'
          /\ effect' \in [Callers -> BOOLEAN]
          /\ excused' \in BOOLEAN
        Local ==
          /\ pc' \in [Callers -> PCs] /\ res' \in [Callers -> Outcomes]
          /\ snap' \in [Callers -> Lists]
    <3>1. CASE AddValue(c) \/ AddLocally(c)
      <4>1. Runtime
        BY <3>1, MutateTyped, NoChangeTyped, Mutations
           DEF AddValue, AddLocally, RefuseAdd, ChangeLocally
      <4>2. snap' \in [Callers -> Lists]
        BY <3>1, Mutations
           DEF AddValue, AddLocally, RefuseAdd, ChangeLocally, AfterAdd,
               LostAdd, TypeOK
      <4>3. pc' \in [Callers -> PCs] /\ res' \in [Callers -> Outcomes]
        BY <3>1
           DEF AddValue, AddLocally, RefuseAdd, ChangeLocally, AfterAdd,
               LostAdd, Return, Goto, PCs, Outcomes, TypeOK
      <4>4. UNCHANGED <<mode, cache, op, session, steps, solo>>
        BY <3>1 DEF AddValue, AddLocally
      <4>. QED
        BY <4>1, <4>2, <4>3, <4>4 DEF TypeOK, RuntimeTyped
    <3>2. CASE RemoveValue(c) \/ RemoveLocally(c)
      <4>1. Runtime
        BY <3>2, MutateTyped, NoChangeTyped, Mutations
           DEF RemoveValue, RemoveLocally, ChangeLocally
      <4>2. snap' \in [Callers -> Lists]
        BY <3>2, Mutations DEF RemoveValue, RemoveLocally, ChangeLocally, TypeOK
      <4>3. pc' \in [Callers -> PCs] /\ res' \in [Callers -> Outcomes]
        BY <3>2
           DEF RemoveValue, RemoveLocally, ChangeLocally, Return, Goto, PCs,
               Outcomes, TypeOK
      <4>4. UNCHANGED <<mode, cache, op, session, steps, solo>>
        BY <3>2 DEF RemoveValue, RemoveLocally
      <4>. QED
        BY <4>1, <4>2, <4>3, <4>4 DEF TypeOK, RuntimeTyped
    <3>3. CASE Reread(c)
      <4>1. Runtime
        BY <3>3, NoChangeTyped DEF Reread
      <4>2. Local
        <5>1. snap' \in [Callers -> Lists]
          BY <3>3 DEF Reread, Keep, TypeOK
        <5>2. pc' \in [Callers -> PCs] /\ res' \in [Callers -> Outcomes]
          BY <3>3 DEF Reread, Keep, Return, Goto, PCs, Outcomes, TypeOK
        <5>. QED
          BY <5>1, <5>2
      <4>. QED
        BY <3>3, <4>1, <4>2 DEF Reread, TypeOK, RuntimeTyped
    <3>4. CASE Emit(c)
      <4>1. Local /\ cache' \in Lists
        BY <3>4 DEF Emit, Goto, PCs, TypeOK
      <4>. QED
        BY <3>4, <4>1 DEF Emit, TypeOK, streamVars
    <3>5. ASSUME NEW l \in Lists, Overwrite(c, l), NEW o \in Outcomes, Return(c, o)
          PROVE  TypeOK'
      <4>1. Local /\ cache' \in Lists
        BY <3>5, SomeLists
           DEF Overwrite, CacheAfter, Return, Goto, PCs, TypeOK
      <4>2. excused' \in BOOLEAN /\ solo' \in BOOLEAN
        BY <3>5 DEF Overwrite, TypeOK
      <4>. QED
        BY <3>5, <4>1, <4>2 DEF Overwrite, TypeOK, streamVars
    <3>6. CASE Store(c)
      BY <3>5, <3>6 DEF Store, Outcomes, TypeOK
    <3>7. CASE Disable(c)
      BY <3>5, <3>7, SomeLists DEF Disable, Outcomes
    <3>. QED
      BY <2>6, <3>1, <3>2, <3>3, <3>4, <3>6, <3>7 DEF CallStep
  <2>7. CASE StreamStep
    BY <2>7, StreamStepTyped
  <2>8. CASE UNCHANGED vars
    BY <2>8 DEF vars, callVars, streamVars, TypeOK
  <2>. QED
    BY <2>1, <2>3, <2>4, <2>5, <2>6, <2>7, <2>8 DEF Next
<1>. QED
  BY <1>1, <1>2, PTL DEF Spec

-----------------------------------------------------------------------------
(* Every list on its way to the cache is one the runtime has had: the      *)
(* snapshots the callers hold, the lists on the stream and those the other *)
(* tasks have yet to dispatch.                                             *)
HeldShape ==
  /\ rt \in held
  /\ cache \in held
  /\ \A c \in Callers : pc[c] \in {"emit", "store"} => snap[c] \in held
  /\ \A c \in Callers : pc[c] = "disable" => Disabled \in held
  /\ \A i \in 1..Len(feed) : feed[i] \in held
  /\ \A t \in Tasks : \A i \in 1..Len(pending[t]) : pending[t][i] \in held

LEMMA RuntimeListHeld ==
  ASSUME TypeOK, HeldShape, NEW l \in Lists, RuntimeList(l)
  PROVE  /\ rt' \in held' /\ l \in held' /\ held \subseteq held'
         /\ \A i \in 1..Len(feed') : feed'[i] \in held'
         /\ \A t \in Tasks : \A i \in 1..Len(pending'[t]) : pending'[t][i] \in held'
<1>1. rt' \in held' /\ l \in held' /\ held \subseteq held'
  BY DEF RuntimeList
<1>2. ASSUME NEW i \in 1..Len(feed') PROVE feed'[i] \in held'
  <2>1. feed \in Seq(Lists) /\ (feed' = feed \/ feed' = Append(feed, l))
    BY DEF RuntimeList, TypeOK
  <2>2. feed'[i] = l \/ (i \in 1..Len(feed) /\ feed'[i] = feed[i])
    BY <1>2, <2>1, AppendElements
  <2>. QED
    BY <1>1, <2>2 DEF HeldShape
<1>3. ASSUME NEW t \in Tasks, NEW i \in 1..Len(pending'[t])
      PROVE  pending'[t][i] \in held'
  <2>1. /\ pending[t] \in Seq(Lists)
        /\ pending'[t] = pending[t] \/ pending'[t] = Append(pending[t], l)
    BY DEF RuntimeList, TypeOK
  <2>2. pending'[t][i] = l \/ (i \in 1..Len(pending[t]) /\ pending'[t][i] = pending[t][i])
    BY <1>3, <2>1, AppendElements
  <2>. QED
    BY <1>1, <2>2 DEF HeldShape
<1>. QED
  BY <1>1, <1>2, <1>3

(* A stream carries and a task takes nothing but lists the runtime has had. *)
LEMMA StreamStepHeld ==
  ASSUME TypeOK, HeldShape, StreamStep
  PROVE  HeldShape'
<1>1. UNCHANGED <<rt, pc, snap, held>>
  BY StreamStepLeaves DEF callVars
<1>2. ASSUME NEW q \in Seq(Lists), q # <<>>, \A i \in 1..Len(q) : q[i] \in held
      PROVE  Head(q) \in held /\ \A i \in 1..Len(Tail(q)) : Tail(q)[i] \in held
  BY <1>2, TailElements
<1>3. Len(<<>>) = 0 /\ Len(<<rt>>) = 1 /\ <<rt>>[1] = rt
  OBVIOUS
<1> DEFINE AllHeld(q) == \A i \in 1..Len(q) : q[i] \in held
<1>4. /\ AllHeld(<<>>) /\ AllHeld(<<rt>>) /\ AllHeld(feed)
      /\ \A t \in Tasks : AllHeld(pending[t])
  BY <1>3 DEF HeldShape
<1>5. /\ cache \in held /\ feed \in Seq(Lists)
      /\ \A t \in Tasks : pending[t] \in Seq(Lists)
  BY DEF TypeOK, HeldShape
<1>6. ASSUME NEW t \in Tasks, NEW q, pending' = [pending EXCEPT ![t] = q], AllHeld(q)
      PROVE  \A u \in Tasks : AllHeld(pending'[u])
  <2>1. \A u \in Tasks : pending'[u] = IF u = t THEN q ELSE pending[u]
    BY <1>6 DEF TypeOK
  <2>. QED
    BY <1>4, <1>6, <2>1
<1> DEFINE Streams == /\ cache' \in held /\ AllHeld(feed')
                      /\ \A u \in Tasks : AllHeld(pending'[u])
<1>7. Streams
  <2>1. CASE SyncFromGameServer
    BY <2>1, <1>2, <1>4, <1>5 DEF SyncFromGameServer
  <2>2. CASE OpenStream \/ BreakStream \/ RemoveSink
    BY <2>2, <1>4, <1>5 DEF OpenStream, BreakStream, RemoveSink, Opened
  <2>3. ASSUME NEW t \in Tasks, Announce(t) \/ RegisterSink(t) PROVE Streams
    <3>1. pending' = [pending EXCEPT ![t] = <<rt>>] /\ UNCHANGED <<cache, feed>>
      BY <2>3 DEF Announce, RegisterSink, Take, Opened
    <3>. QED
      BY <3>1, <1>4, <1>5, <1>6
  <2>4. ASSUME NEW t \in Tasks, CancelStream(t) \/ EndStream(t) PROVE Streams
    <3>1. CASE CancelStream(t)
      <4>1. pending' = [pending EXCEPT ![t] = feed] /\ cache' = cache /\ feed' = <<>>
        BY <3>1 DEF CancelStream
      <4>. QED
        BY <4>1, <1>4, <1>5, <1>6
    <3>2. CASE EndStream(t)
      <4>1. pending' = [pending EXCEPT ![t] = <<>>] /\ UNCHANGED <<cache, feed>>
        BY <3>2 DEF EndStream
      <4>. QED
        BY <4>1, <1>4, <1>5, <1>6
    <3>. QED
      BY <2>4, <3>1, <3>2
  <2>5. ASSUME NEW t \in Tasks, Dispatch(t) PROVE Streams
    <3>1. /\ pending[t] # <<>> /\ cache' = Head(pending[t]) /\ feed' = feed
          /\ \/ pending' = [pending EXCEPT ![t] = Tail(pending[t])]
             \/ pending' = pending
      BY <2>5 DEF Dispatch, Dispatching
    <3>2. cache' \in held /\ AllHeld(Tail(pending[t]))
      BY <3>1, <1>2, <1>4, <1>5
    <3>. QED
      BY <3>1, <3>2, <1>4, <1>6
  <2>. QED
    <3> HIDE DEF Streams
    <3>. QED
      BY <2>1, <2>2, <2>3, <2>4, <2>5, Zenon DEF StreamStep
<1>. QED
  BY <1>1, <1>7 DEF HeldShape

LEMMA HeldInvariant == Spec => []HeldShape
<1>1. Init => HeldShape
  BY DEF Init, HeldShape
<1>2. TypeOK /\ HeldShape /\ [Next]_vars => HeldShape'
  <2> SUFFICES ASSUME TypeOK, HeldShape, [Next]_vars PROVE HeldShape'
    OBVIOUS
  <2>1. ASSUME NEW l \in Lists, RuntimeList(l), cache' = cache,
               \A d \in Callers : pc'[d] \in {"emit", "store", "disable"} =>
                  \/ pc'[d] = pc[d] /\ snap'[d] = snap[d]
                  \/ pc'[d] # "disable" /\ snap'[d] = l
        PROVE  HeldShape'
    BY <2>1, RuntimeListHeld DEF HeldShape
  <2>2. ASSUME UNCHANGED <<rt, held, feed, pending>>, cache' = cache,
               \A d \in Callers : pc'[d] \in {"emit", "store", "disable"} =>
                  \/ pc'[d] = pc[d] /\ snap'[d] = snap[d]
                  \/ pc'[d] = "disable" /\ rt = Disabled
                  \/ pc'[d] = "store" /\ snap'[d] = rt
        PROVE  HeldShape'
    BY <2>2 DEF HeldShape
  <2>3. CASE PlatformChange
    <3>1. PICK l \in Lists : RuntimeList(l)
      <4>1. PICK n \in Capacities :
              \/ rt.exists /\ RuntimeList([rt EXCEPT !.capacity = n])
              \/ RuntimeList(Disabled)
              \/ RuntimeList(EmptyList(n))
        BY <2>3 DEF PlatformChange
      <4>. QED
        BY <4>1, SomeLists, CapacityKeepsList DEF TypeOK
    <3>. QED
      BY <2>1, <2>3, <3>1 DEF PlatformChange, callVars
  <2>4. ASSUME NEW c \in Callers, NEW s \in Sessions,
               BeginConnect(c, s) \/ BeginDisconnect(c, s)
        PROVE  HeldShape'
    <3>1. /\ \E to \in {"idle", "add", "remove", "reread"} : pc' = [pc EXCEPT ![c] = to]
          /\ UNCHANGED <<rt, cache, feed, pending, held, snap>>
      BY <2>4 DEF BeginConnect, BeginDisconnect, Begin, Goto, Return, streamVars
    <3>. QED
      BY <2>2, <3>1 DEF TypeOK
  <2>12. ASSUME NEW c \in Callers, BeginRefresh(c) PROVE HeldShape'
    <3>1. /\ pc' = [pc EXCEPT ![c] = "reread"]
          /\ UNCHANGED <<rt, cache, feed, pending, held, snap>>
      BY <2>12 DEF BeginRefresh, Begin, Goto, streamVars
    <3>. QED
      BY <2>2, <3>1 DEF TypeOK
  <2>5. ASSUME NEW c \in Callers, AddValue(c) \/ AddLocally(c)
        PROVE  HeldShape'
    <3>0. cache' = cache
      BY <2>5 DEF AddValue, AddLocally
    <3>1. CASE /\ Addable(session[c])
               /\ Mutate(c, Added(session[c]))
               /\ AfterAdd(c) \/ LostAdd(c)
      <4>1. /\ \E to \in {"idle", "reread"} : pc' = [pc EXCEPT ![c] = to]
            /\ snap' = snap
        BY <3>1 DEF AfterAdd, LostAdd, Goto, Return
      <4>. QED
        BY <2>1, <3>0, <3>1, <4>1, Mutations DEF Mutate, TypeOK
    <3>2. CASE Addable(session[c]) /\ ChangeLocally(c, Added(session[c]))
      <4>1. /\ \E to \in {"emit", "store"} : pc' = [pc EXCEPT ![c] = to]
            /\ snap' = [snap EXCEPT ![c] = Added(session[c])]
        BY <3>2 DEF ChangeLocally, Goto
      <4>. QED
        BY <2>1, <3>0, <3>2, <4>1, Mutations DEF ChangeLocally, Mutate, TypeOK
    <3>3. CASE RefuseAdd(c)
      <4>1. /\ \/ pc' = [pc EXCEPT ![c] = "idle"]
               \/ pc' = [pc EXCEPT ![c] = "disable"] /\ rt = Disabled
            /\ snap' = snap /\ UNCHANGED <<rt, held, feed, pending>>
        BY <3>3, ListFields DEF RefuseAdd, Goto, Return, NoChange, streamVars, TypeOK
      <4>. QED
        BY <2>2, <3>0, <4>1 DEF TypeOK
    <3>4. CASE Return(c, "Err") /\ UNCHANGED snap /\ NoChange
      BY <2>2, <3>0, <3>4 DEF Return, Goto, NoChange, streamVars, TypeOK
    <3>. QED
      BY <2>5, <3>1, <3>2, <3>3, <3>4 DEF AddValue, AddLocally
  <2>6. ASSUME NEW c \in Callers, RemoveValue(c) \/ RemoveLocally(c)
        PROVE  HeldShape'
    <3>0. cache' = cache
      BY <2>6 DEF RemoveValue, RemoveLocally
    <3>1. CASE /\ session[c] \in rt.values
               /\ Mutate(c, Removed(session[c]))
               /\ Goto(c, "reread") \/ Return(c, "Err")
               /\ UNCHANGED snap
      <4>1. \E to \in {"idle", "reread"} : pc' = [pc EXCEPT ![c] = to]
        BY <3>1 DEF Goto, Return
      <4>. QED
        BY <2>1, <3>0, <3>1, <4>1, Mutations DEF Mutate, TypeOK
    <3>2. CASE session[c] \in rt.values /\ ChangeLocally(c, Removed(session[c]))
      <4>1. /\ \E to \in {"emit", "store"} : pc' = [pc EXCEPT ![c] = to]
            /\ snap' = [snap EXCEPT ![c] = Removed(session[c])]
        BY <3>2 DEF ChangeLocally, Goto
      <4>. QED
        BY <2>1, <3>0, <3>2, <4>1, Mutations DEF ChangeLocally, Mutate, TypeOK
    <3>3. CASE \E o \in Outcomes : Return(c, o) /\ UNCHANGED snap /\ NoChange
      BY <2>2, <3>0, <3>3 DEF Return, Goto, NoChange, streamVars, TypeOK
    <3>. QED
      BY <2>6, <3>1, <3>2, <3>3 DEF RemoveValue, RemoveLocally, Outcomes
  <2>7. ASSUME NEW c \in Callers, Reread(c) PROVE HeldShape'
    BY <2>2, <2>7 DEF Reread, Keep, Goto, Return, NoChange, streamVars, TypeOK
  <2>8. ASSUME NEW c \in Callers, Emit(c) PROVE HeldShape'
    BY <2>8 DEF Emit, Goto, HeldShape, streamVars, TypeOK
  <2>9. ASSUME NEW c \in Callers, Store(c) \/ Disable(c) PROVE HeldShape'
    BY <2>9
       DEF Store, Disable, Overwrite, CacheAfter, Goto, Return, HeldShape,
           streamVars, TypeOK
  <2>10. CASE StreamStep
    BY <2>10, StreamStepHeld
  <2>11. CASE UNCHANGED vars
    BY <2>11 DEF vars, callVars, streamVars, HeldShape
  <2>. QED
    BY <2>3, <2>4, <2>5, <2>6, <2>7, <2>8, <2>9, <2>10, <2>11, <2>12
       DEF Next, CallStep
<1>. QED
  BY <1>1, <1>2, TypeCorrect, PTL DEF Spec

(* The cache is always a list the runtime has really had.                  *)
THEOREM CacheIsReal == Spec => []CacheWasHeld
<1>1. HeldShape => CacheWasHeld
  BY DEF HeldShape, CacheWasHeld
<1>. QED
  BY <1>1, HeldInvariant, PTL

-----------------------------------------------------------------------------
(* What the ghost variable `effect` says at each step of a call.           *)
EffectShape ==
  \A c \in Callers :
    /\ pc[c] \in {"add", "disable"} => op[c] = "connect" /\ ~effect[c]
    /\ pc[c] = "remove" => op[c] = "disconnect" /\ ~effect[c]
    /\ pc[c] = "emit" => op[c] # "refresh"
    /\ pc[c] \in {"reread", "emit", "store"} => (effect[c] <=> op[c] # "refresh")
    /\ pc[c] # "idle" => op[c] # "none" /\ res[c] = "none"

EffectInv == EffectShape /\ OutcomeMatchesEffect

(* How c's entries of the four functions may change when no other entry    *)
(* does: the shape is a property of each caller on its own.                *)
LEMMA EffectStep ==
  ASSUME TypeOK, EffectInv, NEW c \in Callers,
         NEW p \in PCs, NEW o \in Ops, NEW e \in BOOLEAN, NEW r \in Outcomes,
         pc' = [pc EXCEPT ![c] = p], op' = [op EXCEPT ![c] = o],
         effect' = [effect EXCEPT ![c] = e], res' = [res EXCEPT ![c] = r],
         p \in {"add", "disable"} => o = "connect" /\ ~e,
         p = "remove" => o = "disconnect" /\ ~e,
         p = "emit" => o # "refresh",
         p \in {"reread", "emit", "store"} => (e <=> o # "refresh"),
         p # "idle" => o # "none" /\ r = "none",
         r \in {"AlreadyConnected", "ServerFull", "TrackingDisabled", "False"} => ~e,
         (r = "Ok" /\ o # "refresh") => e
  PROVE  EffectInv'
<1>1. ASSUME NEW d \in Callers
      PROVE  /\ d = c => /\ pc'[d] = p /\ op'[d] = o /\ res'[d] = r
                         /\ effect'[d] = e
             /\ d # c => /\ pc'[d] = pc[d] /\ op'[d] = op[d] /\ res'[d] = res[d]
                         /\ effect'[d] = effect[d]
  BY DEF TypeOK
<1>2. EffectShape'
  <2>1. ASSUME NEW d \in Callers
        PROVE  /\ pc'[d] \in {"add", "disable"} => op'[d] = "connect" /\ ~effect'[d]
               /\ pc'[d] = "remove" => op'[d] = "disconnect" /\ ~effect'[d]
               /\ pc'[d] = "emit" => op'[d] # "refresh"
    BY <1>1, ZenonT(40) DEF EffectInv, EffectShape
  <2>2. ASSUME NEW d \in Callers
        PROVE  pc'[d] \in {"reread", "emit", "store"} =>
                 (effect'[d] <=> op'[d] # "refresh")
    <3>1. CASE d = c
      BY <1>1, <2>2, <3>1, Zenon
    <3>2. CASE d # c
      <4>1. pc[d] \in {"reread", "emit", "store"} => (effect[d] <=> op[d] # "refresh")
        BY <2>2, Zenon DEF EffectInv, EffectShape
      <4>. QED
        BY <1>1, <2>2, <3>2, <4>1, Zenon
    <3>. QED
      BY <3>1, <3>2, Zenon
  <2>3. ASSUME NEW d \in Callers
        PROVE  pc'[d] # "idle" => op'[d] # "none" /\ res'[d] = "none"
    BY <1>1, <2>3, Zenon DEF EffectInv, EffectShape
  <2>. QED
    BY <2>1, <2>2, <2>3, Zenon DEF EffectShape
<1>3. OutcomeMatchesEffect'
  BY <1>1, Zenon DEF EffectInv, OutcomeMatchesEffect
<1>. QED
  BY <1>2, <1>3 DEF EffectInv

LEMMA EffectInvariant == Spec => []EffectInv
<1>1. Init => EffectInv
  BY DEF Init, EffectInv, EffectShape, OutcomeMatchesEffect
<1>2. TypeOK /\ EffectInv /\ [Next]_vars => EffectInv'
  <2> SUFFICES ASSUME TypeOK, EffectInv, [Next]_vars PROVE EffectInv'
    OBVIOUS
  <2>1. ASSUME UNCHANGED <<pc, op, effect, res>> PROVE EffectInv'
    BY <2>1 DEF EffectInv, EffectShape, OutcomeMatchesEffect
  <2>2. ASSUME NEW c \in Callers
        PROVE  /\ pc[c] \in PCs /\ op[c] \in Ops /\ effect[c] \in BOOLEAN
               /\ res[c] \in Outcomes
               /\ op = [op EXCEPT ![c] = op[c]]
               /\ effect = [effect EXCEPT ![c] = effect[c]]
               /\ res = [res EXCEPT ![c] = res[c]]
    BY DEF TypeOK
  <2>3. ASSUME NEW c \in Callers, NEW s \in Sessions, NEW o \in Ops,
               NEW first \in PCs, Begin(c, o, s, first),
               <<o, first>> \in {<<"connect", "add">>, <<"disconnect", "remove">>,
                                <<"refresh", "reread">>}
        PROVE  EffectInv'
    BY <2>3, EffectStep DEF Begin, Goto, Outcomes
  <2>4. ASSUME NEW c \in Callers, NEW s \in Sessions, BeginDisconnect(c, s)
        PROVE  EffectInv'
    <3>1. CASE Begin(c, "disconnect", s, "remove")
      BY <2>3, <3>1 DEF Ops, PCs
    <3>2. CASE ~Begin(c, "disconnect", s, "remove")
      <4>1. /\ op' = [op EXCEPT ![c] = "disconnect"]
            /\ effect' = [effect EXCEPT ![c] = FALSE]
            /\ pc' = [pc EXCEPT ![c] = "idle"]
            /\ res' = [res EXCEPT ![c] = "TrackingDisabled"]
        BY <2>4, <3>2 DEF BeginDisconnect, Return, Goto
      <4>. QED
        BY <4>1, EffectStep DEF Outcomes, Ops, PCs
    <3>. QED
      BY <3>1, <3>2
  <2>5. ASSUME NEW c \in Callers, BeginRefresh(c) PROVE EffectInv'
    BY <2>3, <2>5 DEF BeginRefresh, Ops, PCs, TypeOK
  <2>6. ASSUME NEW c \in Callers, NEW s \in Sessions, BeginConnect(c, s)
        PROVE  EffectInv'
    BY <2>3, <2>6 DEF BeginConnect, Ops, PCs
  <2>7. ASSUME NEW c \in Callers, CallStep(c) PROVE EffectInv'
    <3>0. UNCHANGED op
      BY <2>7 DEF CallStep, AddValue, RemoveValue, AddLocally, RemoveLocally,
                  Emit, Reread, Store, Disable, Overwrite
    (* A mutation has been carried out, and the call goes on or fails. *)
    <3>1. ASSUME op[c] \in {"connect", "disconnect"},
                 effect' = [effect EXCEPT ![c] = TRUE],
                 \/ \E to \in {"reread", "emit", "store"} :
                      pc' = [pc EXCEPT ![c] = to] /\ res' = res /\ res[c] = "none"
                 \/ /\ pc' = [pc EXCEPT ![c] = "idle"]
                    /\ res' = [res EXCEPT ![c] = "Err"]
          PROVE  EffectInv'
      <4>1. CASE \E to \in {"reread", "emit", "store"} :
                   pc' = [pc EXCEPT ![c] = to] /\ res' = res /\ res[c] = "none"
        <5>1. PICK to \in {"reread", "emit", "store"} :
                pc' = [pc EXCEPT ![c] = to] /\ res' = res /\ res[c] = "none"
          BY <4>1
        <5>2. /\ op[c] \in Ops /\ op[c] # "refresh" /\ op[c] # "none"
              /\ op' = [op EXCEPT ![c] = op[c]]
              /\ res' = [res EXCEPT ![c] = "none"]
          BY <2>2, <3>0, <3>1, <5>1
        <5>. QED
          BY <3>1, <5>1, <5>2, EffectStep DEF PCs, Outcomes
      <4>2. CASE /\ pc' = [pc EXCEPT ![c] = "idle"]
                 /\ res' = [res EXCEPT ![c] = "Err"]
        BY <2>2, <3>0, <3>1, <4>2, EffectStep DEF PCs, Outcomes
      <4>. QED
        BY <3>1, <4>1, <4>2
    (* The call returns a without any more effect. *)
    <3>2. ASSUME NEW a \in Outcomes, Return(c, a), UNCHANGED effect,
                 a \in {"AlreadyConnected", "ServerFull", "TrackingDisabled",
                        "False"} => ~effect[c],
                 (a = "Ok" /\ op[c] # "refresh") => effect[c]
          PROVE  EffectInv'
      BY <2>2, <3>0, <3>2, EffectStep DEF Return, Goto, PCs
    (* The call moves on without any effect. *)
    <3>3. ASSUME NEW to \in PCs, Goto(c, to), UNCHANGED <<effect, res>>,
                 res[c] = "none", op[c] # "none",
                 to \in {"add", "disable"} => op[c] = "connect" /\ ~effect[c],
                 to # "remove", to = "emit" => op[c] # "refresh",
                 to \in {"reread", "emit", "store"} =>
                   (effect[c] <=> op[c] # "refresh")
          PROVE  EffectInv'
      <4>1. /\ op' = [op EXCEPT ![c] = op[c]] /\ op[c] \in Ops
            /\ res' = [res EXCEPT ![c] = res[c]] /\ res[c] \in Outcomes
            /\ pc' = [pc EXCEPT ![c] = to]
        BY <2>2, <3>0, <3>3 DEF Goto
      <4>2. effect[c] \in BOOLEAN /\ effect' = [effect EXCEPT ![c] = effect[c]]
        BY <2>2, <3>3
      <4>3. CASE effect[c] = TRUE
        <5>1. effect' = [effect EXCEPT ![c] = TRUE]
          BY <4>2, <4>3
        <5>. QED
          BY <3>3, <4>1, <4>3, <5>1, EffectStep
      <4>4. CASE effect[c] = FALSE
        <5>1. effect' = [effect EXCEPT ![c] = FALSE]
          BY <4>2, <4>4
        <5>. QED
          BY <3>3, <4>1, <4>4, <5>1, EffectStep
      <4>. QED
        BY <4>2, <4>3, <4>4
    <3>4. CASE AddValue(c) \/ AddLocally(c)
      <4>0. op[c] = "connect" /\ ~effect[c] /\ res[c] = "none"
        BY <3>4 DEF AddValue, AddLocally, EffectInv, EffectShape
      <4>1. CASE Mutate(c, Added(session[c])) /\ (AfterAdd(c) \/ LostAdd(c))
        BY <3>1, <4>0, <4>1 DEF Mutate, AfterAdd, LostAdd, Goto, Return
      <4>2. CASE ChangeLocally(c, Added(session[c]))
        BY <3>1, <4>0, <4>2 DEF ChangeLocally, Mutate, Goto
      <4>3. CASE RefuseAdd(c)
        BY <3>2, <3>3, <4>0, <4>3 DEF RefuseAdd, NoChange, Outcomes, PCs
      <4>4. CASE Return(c, "Err") /\ NoChange
        BY <3>2, <4>4 DEF NoChange, Outcomes
      <4>. QED
        BY <3>4, <4>1, <4>2, <4>3, <4>4 DEF AddValue, AddLocally
    <3>5. CASE RemoveValue(c) \/ RemoveLocally(c)
      <4>0. op[c] = "disconnect" /\ ~effect[c] /\ res[c] = "none"
        BY <3>5 DEF RemoveValue, RemoveLocally, EffectInv, EffectShape
      <4>1. CASE /\ Mutate(c, Removed(session[c]))
                 /\ (Goto(c, "reread") /\ UNCHANGED res) \/ Return(c, "Err")
        BY <3>1, <4>0, <4>1 DEF Mutate, Goto, Return
      <4>2. CASE ChangeLocally(c, Removed(session[c]))
        BY <3>1, <4>0, <4>2 DEF ChangeLocally, Mutate, Goto
      <4>3. CASE (Return(c, "False") \/ Return(c, "Err")) /\ NoChange
        BY <3>2, <4>0, <4>3 DEF NoChange, Outcomes
      <4>. QED
        BY <3>5, <4>1, <4>2, <4>3 DEF RemoveValue, RemoveLocally
    <3>6. CASE Reread(c)
      <4>0. /\ op[c] # "none" /\ res[c] = "none"
            /\ effect[c] <=> op[c] # "refresh"
        BY <3>6 DEF Reread, EffectInv, EffectShape
      <4>1. CASE Return(c, "Err") /\ NoChange
        BY <3>2, <4>1 DEF NoChange, Outcomes
      <4>2. CASE Goto(c, "store") /\ UNCHANGED res /\ NoChange
        BY <3>3, <4>0, <4>2 DEF NoChange, PCs
      <4>. QED
        BY <3>6, <4>1, <4>2 DEF Reread, Keep
    <3>7. CASE Emit(c)
      <4>0. /\ op[c] # "none" /\ op[c] # "refresh" /\ res[c] = "none"
            /\ effect[c] <=> op[c] # "refresh"
        BY <3>7 DEF Emit, EffectInv, EffectShape
      <4>1. \E to \in {"emit", "store"} : Goto(c, to)
        BY <3>7 DEF Emit
      <4>2. UNCHANGED <<effect, res>>
        BY <3>7 DEF Emit
      <4>. QED
        BY <3>3, <4>0, <4>1, <4>2 DEF PCs
    <3>8. CASE Store(c)
      <4>0. effect[c] <=> op[c] # "refresh"
        BY <3>8 DEF Store, EffectInv, EffectShape
      <4>. QED
        BY <3>2, <3>8, <4>0 DEF Store, Overwrite, Outcomes
    <3>9. CASE Disable(c)
      <4>0. ~effect[c]
        BY <3>9 DEF Disable, EffectInv, EffectShape
      <4>. QED
        BY <3>2, <3>9, <4>0 DEF Disable, Overwrite, Outcomes
    <3>. QED
      BY <2>7, <3>4, <3>5, <3>6, <3>7, <3>8, <3>9 DEF CallStep
  <2>8. CASE PlatformChange \/ StreamStep \/ UNCHANGED vars
    BY <2>1, <2>8, StreamStepLeaves DEF PlatformChange, vars, callVars
  <2>. QED
    BY <2>4, <2>5, <2>6, <2>7, <2>8 DEF Next
<1>. QED
  BY <1>1, <1>2, TypeCorrect, PTL DEF Spec

(* What a call reports is what it did.                                     *)
THEOREM OutcomesAreTrue == Spec => []OutcomeMatchesEffect
<1>1. EffectInv => OutcomeMatchesEffect
  BY DEF EffectInv
<1>. QED
  BY <1>1, EffectInvariant, PTL

-----------------------------------------------------------------------------
(* Both transports implement the registry: every step of a call is a step  *)
(* of the registry or leaves it alone.                                     *)
LEMMA StageMove ==
  ASSUME TypeOK, NEW c \in Callers, NEW p \in PCs, NEW e \in BOOLEAN,
         pc' = [pc EXCEPT ![c] = p], effect' = [effect EXCEPT ![c] = e]
  PROVE  Stage' = [Stage EXCEPT ![c] = StageOf(p, e)]
<1>1. \A d \in Callers :
        /\ d = c => pc'[d] = p /\ effect'[d] = e
        /\ d # c => pc'[d] = pc[d] /\ effect'[d] = effect[d]
  BY DEF TypeOK
<1>2. \A d \in Callers :
        StageOf(pc[d], effect[d])' =
          IF d = c THEN StageOf(p, e) ELSE StageOf(pc[d], effect[d])
  BY <1>1, Zenon DEF StageOf
<1>3. Stage' = [d \in Callers |-> StageOf(pc[d], effect[d])']
  BY Zenon DEF Stage
<1>. QED
  BY <1>2, <1>3 DEF Stage

LEMMA RoomMatches == R!Room <=> HasRoom
<1>1. R!Cardinality(rt.values) = Cardinality(rt.values)
  BY Zenon DEF R!Cardinality, Cardinality
<1>. QED
  BY <1>1 DEF R!Room, HasRoom

LEMMA InitImplements == Init => R!Init
<1> SUFFICES ASSUME Init PROVE R!Init
  OBVIOUS
<1>1. rt \in Lists
  BY SomeLists DEF Init, InitialLists
<1>2. Stage = [c \in Callers |-> "idle"]
  BY DEF Init, Stage, StageOf
<1>. QED
  BY <1>1, <1>2 DEF Init, R!Init

(* The steps of the registry a call of c can take, by what they do to c's  *)
(* entries.                                                                *)
LEMMA AnswerStep ==
  ASSUME TypeOK, NEW c \in Callers, NEW a \in Outcomes, NEW from \in R!Stages,
         Return(c, a), Stage[c] = from, UNCHANGED <<rt, op, session, effect>>
  PROVE  R!Answer(c, from, a)
<1>1. pc' = [pc EXCEPT ![c] = "idle"] /\ res' = [res EXCEPT ![c] = a]
  BY DEF Return, Goto
<1>2. Stage' = [Stage EXCEPT ![c] = "idle"]
  <2>1. effect[c] \in BOOLEAN /\ effect' = [effect EXCEPT ![c] = effect[c]]
    BY DEF TypeOK
  <2>2. StageOf("idle", effect[c]) = "idle"
    BY Zenon DEF StageOf
  <2>3. "idle" \in PCs
    BY DEF PCs
  <2>4. Stage' = [Stage EXCEPT ![c] = StageOf("idle", effect[c])]
    BY <1>1, <2>1, <2>3, StageMove, ZenonT(40)
  <2>. QED
    BY <2>2, <2>4, Zenon
<1>. QED
  BY <1>1, <1>2 DEF R!Answer, R!Move

LEMMA EffectMoves ==
  ASSUME TypeOK, EffectInv, NEW c \in Callers, R!Effect(c),
         Stage[c] = "open", effect' = [effect EXCEPT ![c] = TRUE],
         UNCHANGED <<op, session>>,
         \/ \E p \in {"reread", "emit", "store"} :
              pc' = [pc EXCEPT ![c] = p] /\ res' = res
         \/ /\ pc' = [pc EXCEPT ![c] = "idle"]
            /\ res' = [res EXCEPT ![c] = "Err"]
  PROVE  R!Apply(c) \/ R!ApplyAndFail(c)
<1>1. CASE \E p \in {"reread", "emit", "store"} :
             pc' = [pc EXCEPT ![c] = p] /\ res' = res
  <2>1. PICK p \in {"reread", "emit", "store"} :
          pc' = [pc EXCEPT ![c] = p] /\ res' = res
    BY <1>1
  <2>2. StageOf(p, TRUE) = "applied"
    BY DEF StageOf
  <2>3. p \in PCs
    BY DEF PCs
  <2>4. Stage' = [Stage EXCEPT ![c] = StageOf(p, TRUE)]
    BY <2>1, <2>3, StageMove, Zenon
  <2>5. Stage' = [Stage EXCEPT ![c] = "applied"]
    BY <2>2, <2>4, Zenon
  <2>. QED
    BY <2>1, <2>5 DEF R!Apply, R!Move
<1>2. CASE pc' = [pc EXCEPT ![c] = "idle"] /\ res' = [res EXCEPT ![c] = "Err"]
  <2>1. StageOf("idle", TRUE) = "idle"
    BY Zenon DEF StageOf
  <2>2. "idle" \in PCs
    BY DEF PCs
  <2>3. Stage' = [Stage EXCEPT ![c] = StageOf("idle", TRUE)]
    BY <1>2, <2>2, StageMove, Zenon
  <2>4. Stage' = [Stage EXCEPT ![c] = "idle"]
    BY <2>1, <2>3, Zenon
  <2>. QED
    BY <1>2, <2>4 DEF R!ApplyAndFail, R!Move
<1>. QED
  BY <1>1, <1>2

(* A step of a call that leaves the registry alone.                        *)
LEMMA Stutter ==
  ASSUME TypeOK, NEW c \in Callers, NEW p \in {"reread", "emit", "store"},
         pc[c] \in {"reread", "emit", "store"},
         pc' = [pc EXCEPT ![c] = p], UNCHANGED <<rt, op, session, res, effect>>
  PROVE  UNCHANGED R!vars
<1>1. \A d \in Callers : pc'[d] = IF d = c THEN p ELSE pc[d]
  BY DEF TypeOK
<1>2. \A d \in Callers : StageOf(pc[d], effect[d])' = StageOf(pc[d], effect[d])
  BY <1>1, Zenon DEF StageOf
<1>3. Stage' = [d \in Callers |-> StageOf(pc[d], effect[d])']
  BY Zenon DEF Stage
<1>4. Stage' = Stage
  BY <1>2, <1>3 DEF Stage
<1>. QED
  BY <1>4 DEF R!vars

LEMMA CallStepImplements ==
  ASSUME TypeOK, EffectInv, NEW c \in Callers, CallStep(c)
  PROVE  R!Next \/ UNCHANGED R!vars
<1>0. /\ UNCHANGED <<op, session>>
      /\ Stage[c] = StageOf(pc[c], effect[c])
      /\ effect[c] \in BOOLEAN
  BY DEF CallStep, AddValue, RemoveValue, AddLocally, RemoveLocally, Emit, Reread,
         Store, Disable, Overwrite, Stage, TypeOK
<1>1. ASSUME \/ R!Apply(c) \/ R!ApplyAndFail(c) \/ R!FindDisabled(c)
             \/ R!Refuse(c) \/ R!Return(c)
      PROVE  R!Next
  BY <1>1 DEF R!Next
<1>2. CASE AddValue(c) \/ AddLocally(c)
  <2>1. op[c] = "connect" /\ pc[c] = "add" /\ ~effect[c] /\ res[c] = "none"
    BY <1>2 DEF AddValue, AddLocally, EffectInv, EffectShape
  <2>2. Stage[c] = "open"
    BY <1>0, <2>1, Zenon DEF StageOf
  <2>3. ASSUME Addable(session[c]), rt' = Added(session[c])
        PROVE  R!Effect(c)
    BY <2>1, <2>3, RoomMatches DEF R!Effect, Addable, Added
  <2>4. CASE /\ Addable(session[c]) /\ Mutate(c, Added(session[c]))
             /\ AfterAdd(c) \/ LostAdd(c)
    BY <1>0, <1>1, <2>2, <2>3, <2>4, EffectMoves
       DEF Mutate, RuntimeList, AfterAdd, LostAdd, Goto, Return
  <2>5. CASE Addable(session[c]) /\ ChangeLocally(c, Added(session[c]))
    BY <1>0, <1>1, <2>2, <2>3, <2>5, EffectMoves
       DEF ChangeLocally, Mutate, RuntimeList, Goto
  <2>6. CASE RefuseAdd(c)
    <3>1. UNCHANGED <<rt, effect>>
      BY <2>6 DEF RefuseAdd, NoChange
    <3>2. CASE session[c] \in rt.values /\ Return(c, "AlreadyConnected")
      <4>1. R!Answer(c, "open", "AlreadyConnected")
        BY <1>0, <2>2, <3>1, <3>2, AnswerStep DEF Outcomes, R!Stages
      <4>. QED
        BY <1>1, <2>1, <3>2, <4>1 DEF R!Refuse
    <3>3. CASE rt.exists /\ ~HasRoom /\ Return(c, "ServerFull")
      <4>1. R!Answer(c, "open", "ServerFull")
        BY <1>0, <2>2, <3>1, <3>3, AnswerStep DEF Outcomes, R!Stages
      <4>. QED
        BY <1>1, <2>1, <3>3, <4>1, RoomMatches DEF R!Refuse
    <3>4. CASE ~rt.exists /\ Goto(c, "disable") /\ UNCHANGED res
      <4>1. pc' = [pc EXCEPT ![c] = "disable"]
            /\ effect' = [effect EXCEPT ![c] = FALSE]
        <5>1. effect[c] = FALSE
          BY <1>0, <2>1
        <5>. QED
          BY <3>1, <3>4, <5>1 DEF Goto, TypeOK
      <4>2. StageOf("disable", FALSE) = "disabled"
        BY DEF StageOf
      <4>3. Stage' = [Stage EXCEPT ![c] = "disabled"]
        BY <4>1, <4>2, StageMove DEF PCs
      <4>. QED
        BY <1>0, <1>1, <2>1, <2>2, <3>1, <3>4, <4>3 DEF R!FindDisabled, R!Move
    <3>. QED
      BY <2>6, <3>2, <3>3, <3>4 DEF RefuseAdd
  <2>7. CASE Return(c, "Err") /\ NoChange
    <3>1. R!Answer(c, "open", "Err")
      BY <1>0, <2>2, <2>7, AnswerStep DEF Outcomes, R!Stages, NoChange
    <3>. QED
      BY <1>1, <3>1 DEF R!Return
  <2>. QED
    BY <1>2, <2>4, <2>5, <2>6, <2>7 DEF AddValue, AddLocally
<1>3. CASE RemoveValue(c) \/ RemoveLocally(c)
  <2>1. op[c] = "disconnect" /\ pc[c] = "remove" /\ ~effect[c] /\ res[c] = "none"
    BY <1>3 DEF RemoveValue, RemoveLocally, EffectInv, EffectShape
  <2>2. Stage[c] = "open"
    BY <1>0, <2>1, Zenon DEF StageOf
  <2>3. ASSUME session[c] \in rt.values, rt' = Removed(session[c])
        PROVE  R!Effect(c)
    BY <2>1, <2>3 DEF R!Effect, Removed
  <2>4. CASE /\ session[c] \in rt.values /\ Mutate(c, Removed(session[c]))
             /\ (Goto(c, "reread") /\ UNCHANGED res) \/ Return(c, "Err")
    BY <1>0, <1>1, <2>2, <2>3, <2>4, EffectMoves
       DEF Mutate, RuntimeList, Goto, Return
  <2>5. CASE session[c] \in rt.values /\ ChangeLocally(c, Removed(session[c]))
    BY <1>0, <1>1, <2>2, <2>3, <2>5, EffectMoves
       DEF ChangeLocally, Mutate, RuntimeList, Goto
  <2>6. CASE session[c] \notin rt.values /\ Return(c, "False") /\ NoChange
    <3>1. R!Answer(c, "open", "False")
      BY <1>0, <2>2, <2>6, AnswerStep DEF Outcomes, R!Stages, NoChange
    <3>. QED
      BY <1>1, <2>1, <2>6, <3>1 DEF R!Refuse
  <2>7. CASE Return(c, "Err") /\ NoChange
    <3>1. R!Answer(c, "open", "Err")
      BY <1>0, <2>2, <2>7, AnswerStep DEF Outcomes, R!Stages, NoChange
    <3>. QED
      BY <1>1, <3>1 DEF R!Return
  <2>. QED
    BY <1>3, <2>4, <2>5, <2>6, <2>7 DEF RemoveValue, RemoveLocally
<1>4. CASE Reread(c)
  <2>1. /\ pc[c] = "reread" /\ UNCHANGED <<rt, effect>>
        /\ effect[c] <=> op[c] # "refresh"
    BY <1>4 DEF Reread, NoChange, EffectInv, EffectShape
  <2>2. CASE Goto(c, "store") /\ UNCHANGED res
    BY <1>0, <2>1, <2>2, Stutter DEF Goto
  <2>3. CASE Return(c, "Err")
    <3>1. Stage[c] \in {"applied", "open"}
      BY <1>0, <2>1, Zenon DEF StageOf
    <3>2. R!Answer(c, "applied", "Err") \/ R!Answer(c, "open", "Err")
      BY <1>0, <2>1, <2>3, <3>1, AnswerStep DEF Outcomes, R!Stages
    <3>. QED
      BY <1>1, <3>2 DEF R!Return
  <2>. QED
    BY <1>4, <2>2, <2>3 DEF Reread, Keep
<1>5. CASE Emit(c)
  BY <1>5, Stutter DEF Emit, Goto
<1>6. CASE Store(c)
  <2>1. /\ pc[c] = "store" /\ UNCHANGED <<rt, effect>>
        /\ effect[c] <=> op[c] # "refresh"
    BY <1>6 DEF Store, Overwrite, EffectInv, EffectShape
  <2>2. \/ Stage[c] = "applied"
        \/ Stage[c] = "open" /\ op[c] = "refresh"
    BY <1>0, <2>1, Zenon DEF StageOf
  <2>3. R!Answer(c, Stage[c], "Ok")
    BY <1>0, <1>6, <2>1, <2>2, AnswerStep DEF Store, Outcomes, R!Stages
  <2>. QED
    BY <1>1, <2>2, <2>3 DEF R!Return
<1>7. CASE Disable(c)
  <2>1. pc[c] = "disable" /\ UNCHANGED <<rt, effect>>
    BY <1>7 DEF Disable, Overwrite
  <2>2. Stage[c] = "disabled"
    BY <1>0, <2>1, Zenon DEF StageOf
  <2>3. R!Answer(c, "disabled", "TrackingDisabled")
    BY <1>0, <1>7, <2>1, <2>2, AnswerStep DEF Disable, Outcomes, R!Stages
  <2>. QED
    BY <1>1, <2>3 DEF R!Return
<1>. QED
  BY <1>2, <1>3, <1>4, <1>5, <1>6, <1>7 DEF CallStep

LEMMA BeginImplements ==
  ASSUME TypeOK, NEW c \in Callers, NEW s \in Sessions, NEW o, NEW first,
         <<o, first>> \in {<<"connect", "add">>, <<"disconnect", "remove">>,
                          <<"refresh", "reread">>},
         Begin(c, o, s, first)
  PROVE  R!Next
<1>1. /\ pc' = [pc EXCEPT ![c] = first] /\ first \in PCs
      /\ effect' = [effect EXCEPT ![c] = FALSE]
  BY DEF Begin, Goto, PCs
<1>2. StageOf(first, FALSE) = "open"
  BY DEF StageOf
<1>3. Stage' = [Stage EXCEPT ![c] = "open"]
  BY <1>1, <1>2, StageMove
<1>4. Stage[c] = "idle"
  BY DEF Begin, Stage, StageOf
<1>5. R!Open(c, o, s)
  BY <1>3, <1>4 DEF Begin, R!Open, R!Move
<1>. QED
  BY <1>5 DEF R!Next

(* In sidecar mode and in local mode, under any interleaving, failure and  *)
(* change by the platform, the calls are calls of the registry.            *)
THEOREM BothModesImplement == Spec => ImplementsRegistry
<1>1. TypeOK /\ TypeOK' /\ EffectInv /\ [Next]_vars => [R!Next]_(R!vars)
  <2> SUFFICES ASSUME TypeOK, TypeOK', EffectInv, [Next]_vars
               PROVE  R!Next \/ UNCHANGED R!vars
    BY DEF R!vars
  <2>1. CASE PlatformChange
    <3>1. rt' \in Lists /\ UNCHANGED <<op, session, res, pc, effect>>
      BY <2>1 DEF TypeOK, PlatformChange, callVars
    <3>2. Stage' = Stage
      BY <3>1, Zenon DEF Stage
    <3>. QED
      BY <3>1, <3>2 DEF R!Next, R!Change
  <2>2. ASSUME NEW c \in Callers, NEW s \in Sessions, BeginConnect(c, s)
        PROVE  R!Next
    BY <2>2, BeginImplements DEF BeginConnect
  <2>3. ASSUME NEW c \in Callers, NEW s \in Sessions, BeginDisconnect(c, s)
        PROVE  R!Next
    <3>1. CASE Begin(c, "disconnect", s, "remove")
      BY <3>1, BeginImplements
    <3>2. CASE ~Begin(c, "disconnect", s, "remove")
      <4>1. /\ pc[c] = "idle" /\ pc' = [pc EXCEPT ![c] = "idle"]
            /\ effect' = [effect EXCEPT ![c] = FALSE]
            /\ op' = [op EXCEPT ![c] = "disconnect"]
            /\ session' = [session EXCEPT ![c] = s]
            /\ res' = [res EXCEPT ![c] = "TrackingDisabled"]
            /\ rt' = rt
        BY <2>3, <3>2 DEF BeginDisconnect, Return, Goto
      <4>2. StageOf("idle", FALSE) = "idle" /\ Stage[c] = "idle"
        BY <4>1 DEF StageOf, Stage
      <4>3. Stage' = [Stage EXCEPT ![c] = "idle"]
        BY <4>1, <4>2, StageMove DEF PCs
      <4>4. Stage' = Stage
        BY <4>2, <4>3 DEF Stage
      <4>. QED
        BY <4>1, <4>2, <4>4 DEF R!Next, R!OpenRefused
    <3>. QED
      BY <3>1, <3>2
  <2>4. ASSUME NEW c \in Callers, BeginRefresh(c) PROVE R!Next
    <3>1. session[c] \in Sessions
      BY DEF TypeOK
    <3>. QED
      BY <2>4, <3>1, BeginImplements DEF BeginRefresh
  <2>5. ASSUME NEW c \in Callers, CallStep(c)
        PROVE  R!Next \/ UNCHANGED R!vars
    BY <2>5, CallStepImplements
  <2>6. CASE StreamStep \/ UNCHANGED vars
    <3>1. UNCHANGED <<rt, op, session, res, pc, effect>>
      BY <2>6, StreamStepLeaves DEF vars, callVars
    <3>2. Stage' = Stage
      BY <3>1, Zenon DEF Stage
    <3>. QED
      BY <3>1, <3>2 DEF R!vars
  <2>. QED
    BY <2>1, <2>2, <2>3, <2>4, <2>5, <2>6 DEF Next
<1>. QED
  BY InitImplements, <1>1, TypeCorrect, EffectInvariant, PTL
     DEF Spec, ImplementsRegistry, R!Spec

-----------------------------------------------------------------------------
(* Freshness.  What c is about to store.                                   *)
Holds(c) == IF pc[c] = "disable" THEN Disabled ELSE snap[c]

(* Whatever is about to be written to the cache is the runtime's list.     *)
HoldersCurrent == \A c \in Callers : pc[c] \in Holding => Holds(c) = rt

PendingCurrent == \A t \in Tasks : \A i \in 1..Len(pending[t]) : pending[t][i] = rt

AllCurrent == HoldersCurrent /\ PendingCurrent

(* The runtime's list is on its way to the cache.                          *)
OnItsWay ==
  \/ feed # <<>>
  \/ mode = "Local" /\ Dispatching # {}
  \/ \E c \in Callers : pc[c] \in Holding

(* The stream ends with the runtime's list.  As long as nothing excuses    *)
(* staleness, whatever is about to be stored is the runtime's list, and    *)
(* unless the cache has it already, it is still on its way.  A call that   *)
(* has overlapped no other writer is the only one, has found nothing left  *)
(* to dispatch when it changed the list, and holds the runtime's list.     *)
FreshInv ==
  /\ feed # <<>> => watching /\ mode = "Sidecar" /\ feed[Len(feed)] = rt
  /\ draining # {} => mode = "Sidecar"
  /\ ~excused => AllCurrent /\ (cache = rt \/ OnItsWay)
  /\ solo =>
       /\ \A c, d \in Callers : pc[c] # "idle" /\ pc[d] # "idle" => c = d
       /\ AllCurrent
       /\ \A c \in Callers : pc[c] \in {"add", "remove"} => Dispatching = {}

(* Nothing left to dispatch, or nothing but the runtime's list.            *)
LEMMA NothingPending ==
  ASSUME TypeOK
  PROVE  /\ Dispatching = {} <=> \A t \in Tasks : pending[t] = <<>>
         /\ Len(<<>>) = 0 /\ Len(<<rt>>) = 1 /\ <<rt>>[1] = rt /\ <<rt>> # <<>>
BY DEF Dispatching

LEMMA FreshPending ==
  ASSUME TypeOK, NEW l \in Lists, RuntimeList(l), Dispatching = {}
  PROVE  PendingCurrent'
<1>1. ASSUME NEW t \in Tasks, NEW i \in 1..Len(pending'[t]) PROVE pending'[t][i] = rt'
  <2>1. pending[t] = <<>>
    BY NothingPending
  <2>2. pending'[t] = <<>> \/ pending'[t] = <<l>>
    <3>1. Append(<<>>, l) = <<l>>
      OBVIOUS
    <3>. QED
      BY <2>1, <3>1 DEF RuntimeList
  <2>3. rt' = l
    BY DEF RuntimeList
  <2>. QED
    BY <1>1, <2>2, <2>3
<1>. QED
  BY <1>1 DEF PendingCurrent

(* A step of c that leaves the runtime, the streams and the cache alone:   *)
(* it may take the runtime's list, and gives up nothing that it holds.     *)
LEMMA FreshMove ==
  ASSUME TypeOK, FreshInv, NEW c \in Callers,
         NEW p \in {"idle", "reread", "store", "disable"},
         pc' = [pc EXCEPT ![c] = p], pc[c] \notin Holding,
         p \in Holding => Holds(c)' = rt,
         p # "idle" => pc[c] # "idle",
         \A d \in Callers : d # c => snap'[d] = snap[d],
         UNCHANGED <<mode, rt, cache, streamVars, excused, solo>>
  PROVE  FreshInv'
<1>1. \A d \in Callers : pc'[d] = IF d = c THEN p ELSE pc[d]
  BY DEF TypeOK
<1>2. \A d \in Callers : d # c => Holds(d)' = Holds(d)
  BY <1>1 DEF Holds
<1>3. UNCHANGED <<mode, rt, cache, watching, feed, pending, draining, excused, solo>>
  BY DEF streamVars
<1>4. AllCurrent => AllCurrent'
  BY <1>1, <1>2, <1>3 DEF AllCurrent, HoldersCurrent, PendingCurrent
<1>5. OnItsWay => OnItsWay'
  BY <1>1, <1>3 DEF OnItsWay, Dispatching
<1>6. \A d \in Callers : /\ pc'[d] # "idle" => pc[d] # "idle"
                         /\ pc'[d] \in {"add", "remove"} => pc'[d] = pc[d]
  BY <1>1
<1>. QED
  BY <1>3, <1>4, <1>5, <1>6 DEF FreshInv, Dispatching

(* What a new list l does to the streams.                                  *)
LEMMA FreshRuntimeList ==
  ASSUME TypeOK, FreshInv, NEW l \in Lists, RuntimeList(l)
  PROVE  /\ feed' # <<>> => watching' /\ mode = "Sidecar" /\ feed'[Len(feed')] = rt'
         /\ watching /\ mode = "Sidecar" => feed' # <<>>
         /\ Dispatching = {} => PendingCurrent'
<1>1. CASE watching /\ mode = "Sidecar"
  <2>1. feed' = Append(feed, l) /\ watching' /\ rt' = l /\ feed \in Seq(Lists)
    BY <1>1 DEF RuntimeList, TypeOK
  <2>2. feed' # <<>> /\ feed'[Len(feed')] = rt'
    BY <2>1, AppendElements
  <2>3. Dispatching = {} => PendingCurrent'
    BY FreshPending
  <2>. QED
    BY <1>1, <2>1, <2>2, <2>3
<1>2. CASE ~(watching /\ mode = "Sidecar")
  <2>1. feed' = feed /\ feed = <<>>
    BY <1>2 DEF RuntimeList, FreshInv
  <2>. QED
    BY <1>2, <2>1, FreshPending
<1>. QED
  BY <1>1, <1>2

(* The list becomes l through a step of c, which may then hold it.         *)
LEMMA FreshMutate ==
  ASSUME TypeOK, FreshInv, NEW c \in Callers, NEW l \in Lists, Mutate(c, l),
         NEW p \in {"idle", "reread", "emit", "store"},
         pc' = [pc EXCEPT ![c] = p], pc[c] \in {"add", "remove"},
         p \in Holding => snap'[c] = l,
         mode = "Local" => p \in Holding,
         \A d \in Callers : d # c => snap'[d] = snap[d],
         UNCHANGED <<mode, cache, solo>>
  PROVE  FreshInv'
<1>1. \A d \in Callers : pc'[d] = IF d = c THEN p ELSE pc[d]
  BY DEF TypeOK
<1>2. \A d \in Callers : d # c => Holds(d)' = Holds(d)
  BY <1>1 DEF Holds
<1>3. p \in Holding => Holds(c)' = rt'
  BY <1>1 DEF Holds, Mutate, RuntimeList
<1>4. /\ RuntimeList(l) /\ draining' = draining /\ mode \in {"Sidecar", "Local"}
      /\ excused' = ((mode = "Sidecar" /\ ~watching) \/ OldListAbout(Callers \ {c}))
  BY DEF Mutate, RuntimeList, ChangeExcuse, TypeOK
<1> DEFINE Alone == /\ Dispatching = {}
                    /\ \A d \in Callers : d # c => pc[d] \notin Holding
<1>5. Alone => AllCurrent'
  <2>1. ASSUME Alone PROVE HoldersCurrent'
    BY <1>1, <1>3, <2>1 DEF HoldersCurrent
  <2>2. ASSUME Alone PROVE PendingCurrent'
    BY <1>4, <2>2, FreshRuntimeList
  <2>. QED
    BY <2>1, <2>2 DEF AllCurrent
<1>6. ASSUME ~excused' PROVE AllCurrent' /\ OnItsWay'
  <2>1. Alone /\ (mode = "Sidecar" => watching)
    BY <1>4, <1>6 DEF OldListAbout
  <2>2. CASE mode = "Sidecar"
    BY <1>4, <1>5, <2>1, <2>2, FreshRuntimeList DEF OnItsWay
  <2>3. CASE mode = "Local"
    BY <1>1, <1>5, <2>1, <2>3 DEF OnItsWay
  <2>. QED
    BY <1>4, <2>2, <2>3
<1>7. ASSUME solo'
      PROVE  /\ \A d, e \in Callers : pc'[d] # "idle" /\ pc'[e] # "idle" => d = e
             /\ AllCurrent'
             /\ \A d \in Callers : pc'[d] \notin {"add", "remove"}
  <2>1. solo /\ \A d \in Callers : d # c => pc[d] = "idle"
    BY <1>7 DEF FreshInv
  <2>2. Alone
    BY <2>1 DEF FreshInv, Holding
  <2>. QED
    BY <1>1, <1>5, <2>1, <2>2
<1>. QED
  BY <1>4, <1>6, <1>7, FreshRuntimeList DEF FreshInv

LEMMA FreshBegin ==
  ASSUME TypeOK, FreshInv, NEW c \in Callers, NEW o, NEW s \in Sessions,
         NEW first \in {"add", "remove", "reread"}, Begin(c, o, s, first)
  PROVE  FreshInv'
<1>1. /\ pc[c] = "idle" /\ pc' = [pc EXCEPT ![c] = first]
      /\ solo' = (AllIdle /\ Dispatching = {})
      /\ UNCHANGED <<mode, rt, cache, watching, feed, pending, draining, snap, excused>>
  BY DEF Begin, Goto, streamVars
<1>2. \A d \in Callers : pc'[d] = IF d = c THEN first ELSE pc[d]
  BY <1>1 DEF TypeOK
<1>3. \A d \in Callers : pc'[d] \in Holding <=> pc[d] \in Holding
  BY <1>1, <1>2 DEF Holding
<1>4. \A d \in Callers : pc[d] \in Holding => Holds(d)' = Holds(d)
  BY <1>1, <1>2 DEF Holds, Holding
<1>5. AllCurrent => AllCurrent'
  BY <1>1, <1>3, <1>4 DEF AllCurrent, HoldersCurrent, PendingCurrent
<1>6. OnItsWay => OnItsWay'
  BY <1>1, <1>3 DEF OnItsWay, Dispatching
<1>7. Dispatching' = Dispatching
  BY <1>1 DEF Dispatching
<1>8. ASSUME solo'
      PROVE  /\ \A d, e \in Callers : pc'[d] # "idle" /\ pc'[e] # "idle" => d = e
             /\ AllCurrent' /\ Dispatching' = {}
  <2>1. Dispatching = {} /\ \A d \in Callers : pc[d] = "idle"
    BY <1>1, <1>8 DEF AllIdle
  <2>2. AllCurrent
    BY <2>1, NothingPending DEF AllCurrent, HoldersCurrent, PendingCurrent, Holding
  <2>. QED
    BY <1>2, <1>5, <1>7, <2>1, <2>2
<1>. QED
  BY <1>1, <1>5, <1>6, <1>8 DEF FreshInv

(* What c holds becomes the cache.                                         *)
LEMMA FreshStore ==
  ASSUME TypeOK, FreshInv, NEW c \in Callers, NEW a,
         pc[c] \in Holding, Overwrite(c, Holds(c)), Return(c, a)
  PROVE  FreshInv'
<1>1. /\ cache' = Holds(c)
      /\ excused' = (excused /\ ~solo) /\ solo' = FALSE
      /\ pc' = [pc EXCEPT ![c] = "idle"]
      /\ snap' = [snap EXCEPT ![c] = Disabled]
      /\ UNCHANGED <<mode, rt, watching, feed, pending, draining>>
  BY DEF Overwrite, CacheAfter, Return, Goto, streamVars
<1>2. \A d \in Callers : pc'[d] = IF d = c THEN "idle" ELSE pc[d]
  BY <1>1 DEF TypeOK
<1>3. \A d \in Callers : d # c => Holds(d)' = Holds(d)
  BY <1>1, <1>2 DEF Holds, TypeOK
<1>4. AllCurrent => AllCurrent' /\ cache' = rt'
  BY <1>1, <1>2, <1>3 DEF AllCurrent, HoldersCurrent, PendingCurrent, Holding
<1>5. ~excused' => AllCurrent
  BY <1>1 DEF FreshInv
<1>. QED
  BY <1>1, <1>4, <1>5 DEF FreshInv

LEMMA FreshEmit ==
  ASSUME TypeOK, FreshInv, NEW c \in Callers, Emit(c)
  PROVE  FreshInv'
<1>1. /\ pc[c] = "emit" /\ cache' = snap[c]
      /\ pc' = [pc EXCEPT ![c] = "emit"] \/ pc' = [pc EXCEPT ![c] = "store"]
      /\ UNCHANGED <<mode, rt, watching, feed, pending, draining, snap, excused, solo>>
  BY DEF Emit, Goto, streamVars
<1>2. \A d \in Callers : /\ d = c => pc'[d] \in {"emit", "store"}
                         /\ d # c => pc'[d] = pc[d]
  BY <1>1 DEF TypeOK
<1>3. \A d \in Callers : Holds(d)' = Holds(d)
  BY <1>1, <1>2 DEF Holds
<1>4. \A d \in Callers : /\ pc'[d] \in Holding <=> pc[d] \in Holding
                         /\ pc'[d] = "idle" <=> pc[d] = "idle"
                         /\ pc'[d] \in {"add", "remove"} => pc'[d] = pc[d]
  BY <1>1, <1>2 DEF Holding
<1>5. AllCurrent => AllCurrent' /\ cache' = rt'
  BY <1>1, <1>3, <1>4 DEF AllCurrent, HoldersCurrent, PendingCurrent, Holding, Holds
<1>6. Dispatching' = Dispatching
  BY <1>1 DEF Dispatching
<1>. QED
  BY <1>1, <1>4, <1>5, <1>6 DEF FreshInv

LEMMA FreshPlatform ==
  ASSUME TypeOK, FreshInv, PlatformChange
  PROVE  FreshInv'
<1>1. PICK l \in Lists : RuntimeList(l)
  <2>1. PICK n \in Capacities :
          \/ rt.exists /\ RuntimeList([rt EXCEPT !.capacity = n])
          \/ RuntimeList(Disabled)
          \/ RuntimeList(EmptyList(n))
    BY DEF PlatformChange
  <2>. QED
    BY <2>1, SomeLists, CapacityKeepsList DEF TypeOK
<1>2. /\ mode = "Sidecar" /\ mode' = mode /\ draining' = draining /\ pc' = pc
      /\ excused' = ((mode = "Sidecar" /\ ~watching) \/ OldListAbout(Callers))
      /\ ~solo'
  BY <1>1 DEF PlatformChange, RuntimeList, ChangeExcuse, callVars
<1>3. ASSUME ~excused' PROVE AllCurrent' /\ OnItsWay'
  <2>1. watching /\ Dispatching = {} /\ \A c \in Callers : pc'[c] \notin Holding
    BY <1>2, <1>3 DEF OldListAbout
  <2>2. PendingCurrent' /\ feed' # <<>>
    BY <1>1, <1>2, <2>1, FreshRuntimeList
  <2>. QED
    BY <2>1, <2>2 DEF AllCurrent, HoldersCurrent, OnItsWay
<1>. QED
  BY <1>1, <1>2, <1>3, FreshRuntimeList DEF FreshInv

LEMMA FreshSync ==
  ASSUME TypeOK, FreshInv, SyncFromGameServer
  PROVE  FreshInv'
<1>1. /\ feed # <<>> /\ cache' = Head(feed) /\ feed' = Tail(feed)
      /\ UNCHANGED <<mode, rt, watching, pending, draining, pc, snap, excused, solo>>
  BY DEF SyncFromGameServer, StreamOnly, callVars
<1>2. feed \in Seq(Lists) /\ watching /\ mode = "Sidecar" /\ feed[Len(feed)] = rt
  BY <1>1 DEF FreshInv, TypeOK
<1>3. AllCurrent' = AllCurrent /\ Dispatching' = Dispatching
  BY <1>1 DEF AllCurrent, HoldersCurrent, PendingCurrent, Holds, Dispatching
<1>4. \/ feed' = <<>> /\ cache' = rt'
      \/ feed' # <<>> /\ feed'[Len(feed')] = rt'
  BY <1>1, <1>2, TailEnds
<1>. QED
  BY <1>1, <1>2, <1>3, <1>4 DEF FreshInv, OnItsWay

(* No older list is about when nobody has a list in hand.                  *)
LEMMA NoOldList ==
  ASSUME TypeOK, ~OldListAbout(Callers)
  PROVE  AllCurrent
BY NothingPending DEF OldListAbout, AllCurrent, HoldersCurrent, PendingCurrent

LEMMA FreshOpen ==
  ASSUME TypeOK, FreshInv, OpenStream
  PROVE  FreshInv'
<1>1. /\ mode = "Sidecar" /\ feed' = <<rt>> /\ watching' = TRUE
      /\ excused' = (excused /\ OldListAbout(Callers))
      /\ UNCHANGED <<mode, rt, pending, draining, pc, snap, solo>>
  BY DEF OpenStream, Opened, StreamOnly, callVars
<1>2. AllCurrent' = AllCurrent /\ Dispatching' = Dispatching
  BY <1>1 DEF AllCurrent, HoldersCurrent, PendingCurrent, Holds, Dispatching
<1>3. feed' # <<>> /\ feed'[Len(feed')] = rt'
  BY <1>1, NothingPending
<1>4. ~excused' => AllCurrent
  BY <1>1, NoOldList DEF FreshInv
<1>. QED
  BY <1>1, <1>2, <1>3, <1>4 DEF FreshInv, OnItsWay

(* What t has yet to dispatch becomes q.                                   *)
LEMMA PendingBecomes ==
  ASSUME TypeOK, NEW t \in Tasks, NEW q, pending' = [pending EXCEPT ![t] = q],
         UNCHANGED <<rt, pc, snap>>
  PROVE  /\ (\A i \in 1..Len(q) : q[i] = rt) => (AllCurrent => AllCurrent')
         /\ q # <<>> => Dispatching' # {}
         /\ q = <<>> /\ Dispatching = {} => Dispatching' = {}
<1>1. \A u \in Tasks : pending'[u] = IF u = t THEN q ELSE pending[u]
  BY DEF TypeOK
<1>2. HoldersCurrent' = HoldersCurrent
  BY DEF HoldersCurrent, Holds
<1>3. (\A i \in 1..Len(q) : q[i] = rt) => (PendingCurrent => PendingCurrent')
  BY <1>1 DEF PendingCurrent
<1>. QED
  BY <1>1, <1>2, <1>3 DEF AllCurrent, Dispatching

LEMMA FreshAnnounce ==
  ASSUME TypeOK, FreshInv, NEW t \in Tasks, Announce(t) \/ RegisterSink(t)
  PROVE  FreshInv'
<1>1. /\ mode = "Local" /\ pending' = [pending EXCEPT ![t] = <<rt>>]
      /\ solo' = FALSE
      /\ UNCHANGED <<mode, rt, feed, draining, pc, snap>>
  BY DEF Announce, RegisterSink, Take, Opened, StreamOnly, callVars
<1>2. feed = <<>> /\ draining = {}
  BY <1>1 DEF FreshInv
<1>3. <<rt>> # <<>> /\ \A i \in 1..Len(<<rt>>) : <<rt>>[i] = rt
  BY NothingPending
<1>4. AllCurrent => AllCurrent'
  <2>1. pending' = [pending EXCEPT ![t] = <<rt>>] /\ UNCHANGED <<rt, pc, snap>>
    BY <1>1
  <2>. QED
    BY <1>3, <2>1, PendingBecomes
<1>5. OnItsWay'
  <2>1. pending'[t] = <<rt>>
    BY <1>1 DEF TypeOK
  <2>2. t \in Dispatching'
    BY <1>3, <2>1 DEF Dispatching
  <2>. QED
    BY <1>1, <2>2 DEF OnItsWay
<1>6. ~excused' => (~excused \/ AllCurrent)
  <2>1. CASE Announce(t)
    BY <2>1 DEF Announce
  <2>2. CASE RegisterSink(t)
    <3>1. excused' = (excused /\ OldListAbout(Callers))
      BY <2>2 DEF RegisterSink, Opened
    <3>. QED
      BY <3>1, NoOldList
  <2>. QED
    BY <2>1, <2>2
<1>7. ~excused' => AllCurrent
  BY <1>6 DEF FreshInv
<1>. QED
  BY <1>1, <1>2, <1>4, <1>5, <1>7 DEF FreshInv

(* A stream that breaks or is cancelled loses nothing when it has nothing  *)
(* left to deliver.                                                        *)
LEMMA FreshBreak ==
  ASSUME TypeOK, FreshInv, BreakStream
  PROVE  FreshInv'
<1>1. /\ mode = "Sidecar" /\ feed' = <<>> /\ excused' = (excused \/ feed # <<>>)
      /\ UNCHANGED <<mode, rt, cache, pending, draining, pc, snap, solo>>
  BY DEF BreakStream, StreamOnly, callVars
<1>2. AllCurrent' = AllCurrent /\ Dispatching' = Dispatching
  BY <1>1 DEF AllCurrent, HoldersCurrent, PendingCurrent, Holds, Dispatching
<1>3. feed = <<>> => (OnItsWay => OnItsWay')
  BY <1>1 DEF OnItsWay
<1>. QED
  BY <1>1, <1>2, <1>3 DEF FreshInv

LEMMA FreshCancel ==
  ASSUME TypeOK, FreshInv, NEW t \in Tasks, CancelStream(t)
  PROVE  FreshInv'
<1>1. /\ mode = "Sidecar" /\ feed' = <<>> /\ excused' = (excused \/ feed # <<>>)
      /\ pending' = [pending EXCEPT ![t] = feed] /\ ~solo'
      /\ UNCHANGED <<mode, rt, cache, pc, snap>>
  BY DEF CancelStream, StreamOnly, callVars
<1>2. feed = <<>> => (AllCurrent => AllCurrent')
  <2>1. feed = <<>> => \A i \in 1..Len(feed) : feed[i] = rt
    BY NothingPending
  <2>. QED
    BY <1>1, <2>1, PendingBecomes
<1>3. feed = <<>> => (OnItsWay => OnItsWay')
  BY <1>1 DEF OnItsWay
<1>. QED
  BY <1>1, <1>2, <1>3 DEF FreshInv

LEMMA FreshEnd ==
  ASSUME TypeOK, FreshInv, NEW t \in Tasks, EndStream(t)
  PROVE  FreshInv'
<1>1. /\ t \in draining /\ draining' = draining \ {t}
      /\ pending' = [pending EXCEPT ![t] = <<>>]
      /\ UNCHANGED <<mode, rt, cache, watching, feed, pc, snap, excused, solo>>
  BY DEF EndStream, StreamOnly, callVars
<1>2. mode = "Sidecar"
  BY <1>1 DEF FreshInv
<1>3. (AllCurrent => AllCurrent') /\ (Dispatching = {} => Dispatching' = {})
  <2>1. \A i \in 1..Len(<<>>) : <<>>[i] = rt
    BY NothingPending
  <2>. QED
    BY <1>1, <2>1, PendingBecomes
<1>4. OnItsWay => OnItsWay'
  BY <1>1, <1>2 DEF OnItsWay
<1>. QED
  BY <1>1, <1>2, <1>3, <1>4 DEF FreshInv

LEMMA FreshRemove ==
  ASSUME TypeOK, FreshInv, RemoveSink
  PROVE  FreshInv'
<1>1. /\ mode = "Local"
      /\ UNCHANGED <<mode, rt, cache, feed, pending, draining, pc, snap, excused, solo>>
  BY DEF RemoveSink, StreamOnly, callVars
<1>2. AllCurrent' = AllCurrent /\ Dispatching' = Dispatching /\ OnItsWay' = OnItsWay
  BY <1>1 DEF AllCurrent, HoldersCurrent, PendingCurrent, Holds, Dispatching, OnItsWay
<1>. QED
  BY <1>1, <1>2 DEF FreshInv

LEMMA FreshDispatch ==
  ASSUME TypeOK, FreshInv, NEW t \in Tasks, Dispatch(t)
  PROVE  FreshInv'
<1>1. /\ pending[t] # <<>> /\ cache' = Head(pending[t])
      /\ \/ pending' = [pending EXCEPT ![t] = Tail(pending[t])]
         \/ pending' = pending
      /\ UNCHANGED <<mode, rt, watching, feed, draining, pc, snap, excused, solo>>
  BY DEF Dispatch, Dispatching, StreamOnly, callVars
<1>2. pending[t] \in Seq(Lists)
  BY DEF TypeOK
<1>3. AllCurrent => cache' = rt /\ \A i \in 1..Len(Tail(pending[t])) : Tail(pending[t])[i] = rt
  BY <1>1, <1>2, TailElements DEF AllCurrent, PendingCurrent
<1>4. AllCurrent => AllCurrent'
  <2>1. CASE pending' = [pending EXCEPT ![t] = Tail(pending[t])]
    BY <1>1, <1>3, <2>1, PendingBecomes
  <2>2. CASE pending' = pending
    BY <1>1, <2>2 DEF AllCurrent, HoldersCurrent, PendingCurrent, Holds
  <2>. QED
    BY <1>1, <2>1, <2>2
<1>5. Dispatching # {}
  BY <1>1 DEF Dispatching
<1>. QED
  BY <1>1, <1>3, <1>4, <1>5 DEF FreshInv

LEMMA FreshStreamStep ==
  ASSUME TypeOK, FreshInv, StreamStep
  PROVE  FreshInv'
BY FreshSync, FreshOpen, FreshBreak, FreshRemove, FreshAnnounce, FreshCancel,
   FreshEnd, FreshDispatch, Zenon DEF StreamStep

LEMMA FreshCallStep ==
  ASSUME TypeOK, FreshInv, NEW c \in Callers, CallStep(c)
  PROVE  FreshInv'
(* The call returns, or takes the runtime's list, and nothing else moves.  *)
<1>1. ASSUME NEW p \in {"idle", "reread", "store", "disable"}, Goto(c, p),
             pc[c] \notin Holding, pc[c] # "idle",
             p \in Holding => Holds(c)' = rt,
             \A d \in Callers : d # c => snap'[d] = snap[d],
             NoChange, UNCHANGED <<mode, cache, solo>>
      PROVE  FreshInv'
  BY <1>1, FreshMove DEF Goto, NoChange
<1>2. CASE AddValue(c) \/ AddLocally(c)
  <2>1. /\ pc[c] = "add" /\ pc[c] \notin Holding /\ pc[c] # "idle"
        /\ UNCHANGED <<mode, cache, solo>>
    BY <1>2 DEF AddValue, AddLocally, Holding
  <2>2. CASE RefuseAdd(c)
    <3>1. CASE \E a \in Outcomes : Return(c, a)
      BY <1>1, <2>1, <2>2, <3>1 DEF RefuseAdd, Return, PCs, Holding
    <3>2. CASE ~rt.exists /\ Goto(c, "disable")
      <4>1. rt = Disabled
        BY <3>2, ListFields DEF TypeOK
      <4>2. Holds(c)' = rt
        BY <3>2, <4>1 DEF Goto, Holds, TypeOK
      <4>. QED
        BY <1>1, <2>1, <2>2, <3>2, <4>2 DEF RefuseAdd, PCs
    <3>. QED
      BY <2>2, <3>1, <3>2 DEF RefuseAdd, Outcomes
  <2>3. CASE Return(c, "Err") /\ UNCHANGED snap /\ NoChange
    BY <1>1, <2>1, <2>3 DEF Return, PCs, Holding
  <2>4. CASE /\ mode = "Sidecar" /\ Addable(session[c])
             /\ Mutate(c, Added(session[c])) /\ (AfterAdd(c) \/ LostAdd(c))
    BY <2>1, <2>4, Mutations, FreshMutate
       DEF AfterAdd, LostAdd, Return, Goto, PCs, Holding
  <2>5. CASE Addable(session[c]) /\ ChangeLocally(c, Added(session[c]))
    BY <2>1, <2>5, Mutations, FreshMutate DEF ChangeLocally, Goto, Holding, TypeOK
  <2>. QED
    BY <1>2, <2>2, <2>3, <2>4, <2>5 DEF AddValue, AddLocally
<1>3. CASE RemoveValue(c) \/ RemoveLocally(c)
  <2>1. /\ pc[c] = "remove" /\ pc[c] \notin Holding /\ pc[c] # "idle"
        /\ UNCHANGED <<mode, cache, solo>>
    BY <1>3 DEF RemoveValue, RemoveLocally, Holding
  <2>2. CASE (Return(c, "False") \/ Return(c, "Err")) /\ UNCHANGED snap /\ NoChange
    BY <1>1, <2>1, <2>2 DEF Return, PCs, Holding
  <2>3. CASE /\ mode = "Sidecar" /\ session[c] \in rt.values
             /\ Mutate(c, Removed(session[c])) /\ UNCHANGED snap
             /\ Goto(c, "reread") \/ Return(c, "Err")
    BY <2>1, <2>3, Mutations, FreshMutate DEF Return, Goto, PCs, Holding
  <2>4. CASE session[c] \in rt.values /\ ChangeLocally(c, Removed(session[c]))
    BY <2>1, <2>4, Mutations, FreshMutate DEF ChangeLocally, Goto, Holding, TypeOK
  <2>. QED
    BY <1>3, <2>2, <2>3, <2>4 DEF RemoveValue, RemoveLocally
<1>4. CASE Reread(c)
  <2>1. /\ pc[c] = "reread" /\ pc[c] \notin Holding /\ pc[c] # "idle"
        /\ NoChange /\ UNCHANGED <<mode, cache, solo>>
    BY <1>4 DEF Reread, Holding
  <2>2. CASE Keep(c, rt)
    <3>1. Holds(c)' = rt
      BY <2>2 DEF Keep, Goto, Holds, TypeOK
    <3>2. \A d \in Callers : d # c => snap'[d] = snap[d]
      BY <2>2 DEF Keep, TypeOK
    <3>. QED
      BY <1>1, <2>1, <2>2, <3>1, <3>2 DEF Keep, PCs
  <2>3. CASE Return(c, "Err") /\ UNCHANGED snap
    BY <1>1, <2>1, <2>3 DEF Return, PCs, Holding
  <2>. QED
    BY <1>4, <2>2, <2>3 DEF Reread
<1>5. CASE Store(c)
  BY <1>5, FreshStore DEF Store, Holds, Holding
<1>6. CASE Disable(c)
  BY <1>6, FreshStore DEF Disable, Holds, Holding
<1>. QED
  BY <1>2, <1>3, <1>4, <1>5, <1>6, FreshEmit DEF CallStep

(* At rest the cache is the runtime's list, whoever writes it and in       *)
(* whatever order, unless an older list was about when the list changed,   *)
(* no stream was there to bring the change, or a stream lost it.  A call   *)
(* that overlaps no other writer repairs it, and so does a stream that     *)
(* opens when no older list is about.                                      *)
THEOREM CacheIsRepaired == Spec => []FreshAtRest
<1>1. Init => FreshInv
  <2> SUFFICES ASSUME Init PROVE FreshInv
    OBVIOUS
  <2>1. /\ feed = <<>> /\ draining = {} /\ cache = rt /\ ~solo
        /\ \A c \in Callers : pc[c] = "idle"
        /\ \A t \in Tasks : pending[t] = <<>>
    BY DEF Init
  <2>2. AllCurrent
    <3>1. Len(<<>>) = 0
      OBVIOUS
    <3>. QED
      BY <2>1, <3>1 DEF AllCurrent, HoldersCurrent, PendingCurrent, Holding
  <2>. QED
    BY <2>1, <2>2 DEF FreshInv
<1>2. TypeOK /\ FreshInv /\ [Next]_vars => FreshInv'
  <2> SUFFICES ASSUME TypeOK, FreshInv, [Next]_vars PROVE FreshInv'
    OBVIOUS
  <2>1. ASSUME NEW c \in Callers, NEW s \in Sessions, BeginConnect(c, s)
        PROVE  FreshInv'
    BY <2>1, FreshBegin DEF BeginConnect
  <2>2. ASSUME NEW c \in Callers, BeginRefresh(c) PROVE FreshInv'
    <3>1. session[c] \in Sessions
      BY DEF TypeOK
    <3>. QED
      BY <2>2, <3>1, FreshBegin DEF BeginRefresh
  <2>3. ASSUME NEW c \in Callers, NEW s \in Sessions, BeginDisconnect(c, s)
        PROVE  FreshInv'
    <3>1. CASE Begin(c, "disconnect", s, "remove")
      BY <3>1, FreshBegin
    <3>2. CASE ~Begin(c, "disconnect", s, "remove")
      <4>1. /\ pc[c] = "idle" /\ pc' = [pc EXCEPT ![c] = "idle"]
            /\ UNCHANGED <<mode, rt, cache, streamVars, snap, excused, solo>>
        BY <2>3, <3>2 DEF BeginDisconnect, Return, Goto
      <4>. QED
        BY <4>1, FreshMove DEF Holding
    <3>. QED
      BY <3>1, <3>2
  <2>4. CASE UNCHANGED vars
    BY <2>4
       DEF vars, callVars, streamVars, FreshInv, AllCurrent, HoldersCurrent,
           PendingCurrent, OnItsWay, Dispatching, Holds
  <2>. QED
    BY <2>1, <2>2, <2>3, <2>4, FreshCallStep, FreshPlatform, FreshStreamStep DEF Next
<1>3. FreshInv => FreshAtRest
  BY DEF FreshInv, FreshAtRest, AtRest, AllIdle, OnItsWay, Holding
<1>. QED
  BY <1>1, <1>2, <1>3, TypeCorrect, PTL DEF Spec
=============================================================================
