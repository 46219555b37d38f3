------------------------------ MODULE Players ------------------------------
(***************************************************************************)
(* Player tracking of the Rust SDK (sdk/rust/gameflow/src/players.rs,      *)
(* transport/sidecar.rs, transport/local.rs).                              *)
(*                                                                         *)
(* The runtime keeps the players list (in local mode the transport itself  *)
(* does); the SDK keeps a cache of it so that count(), list() and          *)
(* capacity() need no request.  The cache is written by every call that    *)
(* reads the list back, by the watch stream and, in local mode, by every   *)
(* task that emits the list to the watch sinks, in the order in which they *)
(* happen to get there.  Streams open, break and are cancelled.  Sidecar   *)
(* requests fail, and their answers get lost after the runtime has carried *)
(* them out.                                                               *)
(***************************************************************************)
EXTENDS Integers, Sequences, FiniteSets

CONSTANTS
  Callers,          \* tasks that call connect, disconnect and refresh
  Tasks,            \* other tasks that write the cache: local ready() and
                    \* shutdown(), and streams being opened or cancelled
  Sessions,         \* player session ids
  Capacities,       \* capacities the platform may give the list
  MaxSteps,         \* bound: calls, and changes the platform makes on its own
  Faulty            \* TRUE: requests may fail and answers may get lost

ASSUME PlayersAssumption ==
  /\ Capacities \subseteq Nat \ {0}
  /\ Capacities # {}
  /\ MaxSteps \in Nat
  /\ Faulty \in BOOLEAN

(* PlayerListSnapshot; the order of the values is left out.  A game        *)
(* without the list has the one snapshot Disabled.                         *)
Disabled == [exists |-> FALSE, capacity |-> 0, values |-> {}]

Unlimited == -1   \* local mode without GAMEFLOW_MAX_PLAYERS

Lists ==
  {Disabled} \cup
  [exists : {TRUE}, capacity : Capacities \cup {Unlimited},
   values : SUBSET Sessions]

EmptyList(n) == [exists |-> TRUE, capacity |-> n, values |-> {}]

VARIABLES
  mode,       \* "Sidecar" or "Local"
  rt,         \* the runtime's list; Disabled when the game has none
  cache,      \* Players::snapshot
  watching,   \* a watch stream is open (in local mode: a sink is there)
  feed,       \* sidecar: lists on that stream, not yet dispatched
  pending,    \* per other task: lists it has yet to dispatch
  draining,   \* tasks of cancelled sidecar streams that have not ended yet
  pc,         \* per caller: the next step of its call
  op,         \* per caller: the call it runs or ran last
  session,    \* per caller: the session id of that call
  snap,       \* per caller: the snapshot it is about to store
  res,        \* per caller: the outcome of its last call
  steps,      \* calls begun and changes the platform has made
  (* ghost state *)
  held,       \* every list the runtime has had
  effect,     \* per caller: its mutation has been carried out
  solo,       \* the call under way has overlapped no other writer
  excused     \* staleness of the cache is explained, see FreshAtRest

callVars == <<pc, op, session, snap, res, effect>>
streamVars == <<watching, feed, pending, draining>>
vars == <<mode, rt, cache, streamVars, callVars, steps, held, solo, excused>>

PCs == {"idle", "add", "remove", "reread", "emit", "store", "disable"}
Holding == {"emit", "store", "disable"}   \* about to overwrite the cache
Ops == {"none", "connect", "disconnect", "refresh"}

(* "Err" is SidecarUnavailable or RequestFailed: what the runtime did is   *)
(* unknown to the caller.  "False" is Ok(false) of disconnect.             *)
Outcomes == {"none", "Ok", "False", "AlreadyConnected", "ServerFull",
             "TrackingDisabled", "Err"}

TypeOK ==
  /\ mode \in {"Sidecar", "Local"}
  /\ rt \in Lists
  /\ cache \in Lists
  /\ watching \in BOOLEAN
  /\ feed \in Seq(Lists)
  /\ pending \in [Tasks -> Seq(Lists)]
  /\ draining \in SUBSET Tasks
  /\ pc \in [Callers -> PCs]
  /\ op \in [Callers -> Ops]
  /\ session \in [Callers -> Sessions]
  /\ snap \in [Callers -> Lists]
  /\ res \in [Callers -> Outcomes]
  /\ steps \in 0..MaxSteps
  /\ held \in SUBSET Lists
  /\ effect \in [Callers -> BOOLEAN]
  /\ solo \in BOOLEAN
  /\ excused \in BOOLEAN

(* GAMEFLOW_MAX_PLAYERS in local mode: unset, a number, or not positive. *)
InitialLists(m) ==
  {Disabled} \cup {EmptyList(n) : n \in Capacities}
    \cup IF m = "Local" THEN {EmptyList(Unlimited)} ELSE {}

(* connect_with has returned: the probe's list has seeded the cache, and   *)
(* nobody has subscribed yet.                                              *)
Init ==
  /\ mode \in {"Sidecar", "Local"}
  /\ rt \in InitialLists(mode)
  /\ cache = rt
  /\ watching = FALSE
  /\ feed = <<>>
  /\ pending = [t \in Tasks |-> <<>>]
  /\ draining = {}
  /\ pc = [c \in Callers |-> "idle"]
  /\ op = [c \in Callers |-> "none"]
  /\ \E s \in Sessions : session = [c \in Callers |-> s]
  /\ snap = [c \in Callers |-> Disabled]
  /\ res = [c \in Callers |-> "none"]
  /\ steps = 0
  /\ held = {rt}
  /\ effect = [c \in Callers |-> FALSE]
  /\ solo = FALSE
  /\ excused = FALSE

-----------------------------------------------------------------------------
(* The runtime. *)

AllIdle == \A c \in Callers : pc[c] = "idle"

Dispatching == {t \in Tasks : pending[t] # <<>>}

(* The list becomes l; the open sidecar stream carries the change, and so  *)
(* does a cancelled one until its task has ended.  In local mode the task  *)
(* that made the change emits it (Emit below).                             *)
RuntimeList(l) ==
  /\ rt' = l
  /\ held' = held \cup {l}
  /\ feed' = IF watching /\ mode = "Sidecar" THEN Append(feed, l) ELSE feed
  /\ pending' = [t \in Tasks |-> IF t \in draining THEN Append(pending[t], l)
                                 ELSE pending[t]]
  /\ UNCHANGED <<watching, draining>>

(* Somebody is about to write a list of earlier into the cache: one of the *)
(* callers, or another task.                                               *)
OldListAbout(callers) ==
  Dispatching # {} \/ \E d \in callers : pc[d] \in Holding

(* What a change does to the excuse.  The change itself will be the last   *)
(* to arrive on the stream, or at the caller that has made it locally,     *)
(* unless an older list is about.  Without a stream nothing brings a       *)
(* change of the sidecar's list to the cache.                              *)
ChangeExcuse(others) ==
  excused' = ((mode = "Sidecar" /\ ~watching) \/ OldListAbout(others))

Counted == steps < MaxSteps /\ steps' = steps + 1

(* The platform resizes, removes or creates the list. *)
PlatformChange ==
  /\ mode = "Sidecar"
  /\ Counted
  /\ \E n \in Capacities :
       \/ rt.exists /\ n # rt.capacity /\ RuntimeList([rt EXCEPT !.capacity = n])
       \/ rt.exists /\ RuntimeList(Disabled)
       \/ ~rt.exists /\ RuntimeList(EmptyList(n))
  /\ ChangeExcuse(Callers)
  /\ solo' = FALSE
  /\ UNCHANGED <<mode, cache, callVars>>

-----------------------------------------------------------------------------
(* The calls. *)

Goto(c, to) == pc' = [pc EXCEPT ![c] = to]

Return(c, outcome) ==
  /\ Goto(c, "idle")
  /\ res' = [res EXCEPT ![c] = outcome]

NoChange == UNCHANGED <<rt, streamVars, held, excused, effect>>

(* A call begins: from here on it and whatever is under way overlap. *)
Begin(c, o, s, first) ==
  /\ pc[c] = "idle" /\ Counted
  /\ op' = [op EXCEPT ![c] = o]
  /\ session' = [session EXCEPT ![c] = s]
  /\ effect' = [effect EXCEPT ![c] = FALSE]
  /\ solo' = (AllIdle /\ Dispatching = {})
  /\ Goto(c, first)
  /\ res' = [res EXCEPT ![c] = "none"]
  /\ UNCHANGED <<mode, rt, cache, streamVars, snap, held, excused>>

BeginConnect(c, s) == Begin(c, "connect", s, "add")

BeginRefresh(c) == Begin(c, "refresh", session[c], "reread")

(* disconnect() looks at the cache before it sends anything. *)
BeginDisconnect(c, s) ==
  \/ cache.exists /\ Begin(c, "disconnect", s, "remove")
  \/ /\ ~cache.exists /\ pc[c] = "idle" /\ Counted
     /\ op' = [op EXCEPT ![c] = "disconnect"]
     /\ session' = [session EXCEPT ![c] = s]
     /\ effect' = [effect EXCEPT ![c] = FALSE]
     /\ Return(c, "TrackingDisabled")
     /\ UNCHANGED <<mode, rt, cache, streamVars, snap, held, solo, excused>>

(* The runtime carries out the mutation that makes the list l. *)
Mutate(c, l) ==
  /\ RuntimeList(l)
  /\ effect' = [effect EXCEPT ![c] = TRUE]
  /\ ChangeExcuse(Callers \ {c})

Added(s) == [rt EXCEPT !.values = @ \cup {s}]

Removed(s) == [rt EXCEPT !.values = @ \ {s}]

HasRoom == rt.capacity < 0 \/ Cardinality(rt.values) < rt.capacity

Keep(c, l) ==
  /\ snap' = [snap EXCEPT ![c] = l]
  /\ Goto(c, "store")

(* The session can be added, or why it cannot (409, 400, 404). *)
Addable(s) == rt.exists /\ s \notin rt.values /\ HasRoom

RefuseAdd(c) ==
  /\ \/ rt.exists /\ session[c] \in rt.values /\ Return(c, "AlreadyConnected")
     \/ /\ rt.exists /\ session[c] \notin rt.values /\ ~HasRoom
        /\ Return(c, "ServerFull")
     \/ ~rt.exists /\ Goto(c, "disable") /\ UNCHANGED res
  /\ UNCHANGED snap
  /\ NoChange

LostAdd_Retried(c) == Goto(c, "add") /\ UNCHANGED <<snap, res>>

(* The answer to a mutation is lost or late: the call fails although the   *)
(* runtime has carried it out.  The SDK does not send it again.            *)
LostAdd(c) == Return(c, "Err") /\ UNCHANGED snap

AfterAdd_TrustsEcho(c) == Keep(c, EmptyList(0)) /\ UNCHANGED res

(* A success is followed by a read of the list: what the mutation answers  *)
(* is not trusted.                                                         *)
AfterAdd(c) == Goto(c, "reread") /\ UNCHANGED <<snap, res>>

(* POST addValue reaches the runtime and its answer the caller, or the     *)
(* request never gets there.                                               *)
AddValue(c) ==
  /\ mode = "Sidecar" /\ pc[c] = "add"
  /\ \/ /\ Addable(session[c])
        /\ Mutate(c, Added(session[c]))
        /\ AfterAdd(c) \/ (Faulty /\ LostAdd(c))
     \/ RefuseAdd(c)
     \/ /\ Faulty
        /\ Return(c, "Err") /\ UNCHANGED snap /\ NoChange
  /\ UNCHANGED <<mode, cache, op, session, steps, solo>>

(* POST removeValue: 404 when the list or the value is missing. *)
RemoveValue(c) ==
  /\ mode = "Sidecar" /\ pc[c] = "remove"
  /\ \/ /\ session[c] \in rt.values
        /\ Mutate(c, Removed(session[c]))
        /\ \/ Goto(c, "reread") /\ UNCHANGED res
           \/ Faulty /\ Return(c, "Err")
     \/ /\ session[c] \notin rt.values
        /\ Return(c, "False") /\ NoChange
     \/ /\ Faulty
        /\ Return(c, "Err") /\ NoChange
  /\ UNCHANGED <<mode, cache, op, session, snap, steps, solo>>

(* GET of the list; the answer is the list at the moment it is served, and *)
(* a missing list is a disabled snapshot.                                  *)
Reread(c) ==
  /\ pc[c] = "reread"
  /\ \/ Keep(c, rt) /\ UNCHANGED res
     \/ Faulty /\ mode = "Sidecar" /\ Return(c, "Err") /\ UNCHANGED snap
  /\ NoChange
  /\ UNCHANGED <<mode, cache, op, session, steps, solo>>

(* The local transport changes its list and builds the answer and what to  *)
(* emit under one lock, and emits after the unlock.                        *)
ChangeLocally(c, l) ==
  /\ Mutate(c, l)
  /\ snap' = [snap EXCEPT ![c] = l]
  /\ Goto(c, IF watching THEN "emit" ELSE "store")
  /\ UNCHANGED res

AddLocally(c) ==
  /\ mode = "Local" /\ pc[c] = "add"
  /\ \/ Addable(session[c]) /\ ChangeLocally(c, Added(session[c]))
     \/ RefuseAdd(c)
  /\ UNCHANGED <<mode, cache, op, session, steps, solo>>

RemoveLocally(c) ==
  /\ mode = "Local" /\ pc[c] = "remove"
  /\ \/ session[c] \in rt.values /\ ChangeLocally(c, Removed(session[c]))
     \/ /\ session[c] \notin rt.values
        /\ Return(c, "False") /\ UNCHANGED snap /\ NoChange
  /\ UNCHANGED <<mode, cache, op, session, steps, solo>>

(* The task that changed the local list calls the sinks itself, one after  *)
(* the other, and for each the cache-sync hook stores the list, before its *)
(* call has returned.                                                      *)
Emit(c) ==
  /\ pc[c] = "emit"
  /\ Goto(c, "emit") \/ Goto(c, "store")
  /\ cache' = snap[c]
  /\ UNCHANGED <<mode, rt, streamVars, op, session, snap, res, steps,
                  held, effect, solo, excused>>

CacheAfter_Unwritten(c, l) == cache

CacheAfter(c, l) == l

(* The list l becomes the cache, whatever has happened since it was taken. *)
Overwrite(c, l) ==
  /\ cache' = CacheAfter(c, l)
  /\ excused' = (excused /\ ~solo)
  /\ solo' = FALSE
  /\ snap' = [snap EXCEPT ![c] = Disabled]
  /\ UNCHANGED <<mode, rt, streamVars, op, session, steps, held,
                 effect>>

(* The call stores the list it has read and returns. *)
Store(c) ==
  /\ pc[c] = "store"
  /\ Return(c, "Ok")
  /\ Overwrite(c, snap[c])

(* connect() was told that there is no list. *)
Disable(c) ==
  /\ pc[c] = "disable"
  /\ Return(c, "TrackingDisabled")
  /\ Overwrite(c, Disabled)

-----------------------------------------------------------------------------
(* The streams, and the local tasks that emit without a player call. *)

(* Another task has the list in hand, to dispatch it after the unlock. *)
Take(t, l) ==
  /\ t \notin draining /\ pending[t] = <<>>
  /\ pending' = [pending EXCEPT ![t] = <<l>>]

(* Everything the other actions of this section leave alone. *)
StreamOnly == UNCHANGED <<mode, rt, callVars, steps, held>>

(* sync_from_game_server, called for each update of the watch stream. *)
SyncFromGameServer ==
  /\ feed # <<>>
  /\ cache' = Head(feed)
  /\ feed' = Tail(feed)
  /\ UNCHANGED <<watching, pending, draining, solo, excused>>
  /\ StreamOnly

(* ready() or shutdown() of the local transport: it takes the list and the *)
(* sinks under the lock.  How often that happens is left open.             *)
Announce(t) ==
  /\ mode = "Local" /\ watching
  /\ Take(t, rt)
  /\ solo' = FALSE
  /\ UNCHANGED <<cache, watching, feed, draining, excused>>
  /\ StreamOnly

(* A stream opens, for the first subscriber or after a break, and begins   *)
(* with the current object.  It repairs the cache when no older list is    *)
(* about.                                                                  *)
Opened ==
  /\ watching' = TRUE
  /\ excused' = (excused /\ OldListAbout(Callers))
  /\ UNCHANGED <<cache, draining>>
  /\ StreamOnly

OpenStream ==
  /\ mode = "Sidecar" /\ ~watching
  /\ feed' = <<rt>>
  /\ Opened
  /\ UNCHANGED <<pending, solo>>

(* watch_game_server of the local transport registers the sink and takes   *)
(* the list under one lock.  The sink of a cancelled stream may still be   *)
(* there.                                                                  *)
RegisterSink(t) ==
  /\ mode = "Local"
  /\ Take(t, rt)
  /\ Opened
  /\ solo' = FALSE
  /\ UNCHANGED feed

(* The stream ends or fails: what it has not delivered yet is lost. *)
BreakStream ==
  /\ mode = "Sidecar" /\ watching
  /\ watching' = FALSE
  /\ feed' = <<>>
  /\ excused' = (excused \/ feed # <<>>)
  /\ UNCHANGED <<cache, pending, draining, solo>>
  /\ StreamOnly

(* close_stream() or stop() cancels the stream.  Its task may be in the    *)
(* middle of a dispatch, and its select may still prefer a line to the     *)
(* cancellation.                                                           *)
CancelStream(t) ==
  /\ mode = "Sidecar" /\ watching
  /\ t \notin draining /\ pending[t] = <<>>
  /\ watching' = FALSE
  /\ feed' = <<>>
  /\ pending' = [pending EXCEPT ![t] = feed]
  /\ draining' = draining \cup {t}
  /\ excused' = (excused \/ feed # <<>>)
  /\ solo' = FALSE
  /\ UNCHANGED cache
  /\ StreamOnly

(* The task of a cancelled stream sees the cancellation and ends. *)
EndStream(t) ==
  /\ t \in draining
  /\ draining' = draining \ {t}
  /\ pending' = [pending EXCEPT ![t] = <<>>]
  /\ UNCHANGED <<cache, watching, feed, solo, excused>>
  /\ StreamOnly

(* A cancelled stream of the local transport takes the last sink away. *)
RemoveSink ==
  /\ mode = "Local" /\ watching
  /\ watching' = FALSE
  /\ UNCHANGED <<cache, feed, pending, draining, solo, excused>>
  /\ StreamOnly

(* Another task stores a list it has taken earlier; a local one does so    *)
(* once for each sink.                                                     *)
Dispatch(t) ==
  /\ t \in Dispatching
  /\ cache' = Head(pending[t])
  /\ \/ pending' = [pending EXCEPT ![t] = Tail(@)]
     \/ mode = "Local" /\ UNCHANGED pending
  /\ UNCHANGED <<watching, feed, draining, solo, excused>>
  /\ StreamOnly

StreamStep ==
  \/ SyncFromGameServer \/ OpenStream \/ BreakStream \/ RemoveSink
  \/ \E t \in Tasks : Announce(t) \/ RegisterSink(t) \/ CancelStream(t)
                       \/ EndStream(t) \/ Dispatch(t)

CallStep(c) ==
  \/ AddValue(c) \/ RemoveValue(c)
  \/ AddLocally(c) \/ RemoveLocally(c) \/ Emit(c)
  \/ Reread(c) \/ Store(c) \/ Disable(c)

Next ==
  \/ PlatformChange
  \/ \E c \in Callers, s \in Sessions :
       BeginConnect(c, s) \/ BeginDisconnect(c, s)
  \/ \E c \in Callers : BeginRefresh(c) \/ CallStep(c)
  \/ StreamStep

Spec == Init /\ [][Next]_vars

-----------------------------------------------------------------------------
(* Properties. *)

(* The cache is always a list the runtime has really had: never the empty  *)
(* or default list some runtimes answer to a mutation, and never a mixture *)
(* of two answers (sidecar.rs:171-173).                                    *)
CacheWasHeld == cache \in held

(* What a call reports is what it did.  A connect that fails with a        *)
(* definite code has not registered the session, one that succeeds has;    *)
(* disconnect answers true only for a value this call has removed.  Only   *)
(* Err leaves the effect open.                                             *)
OutcomeMatchesEffect ==
  \A c \in Callers :
    /\ res[c] \in {"AlreadyConnected", "ServerFull", "TrackingDisabled", "False"}
         => ~effect[c]
    /\ (res[c] = "Ok" /\ op[c] # "refresh") => effect[c]

(* Seen from outside, the calls in either mode are those of a registry in  *)
(* which each takes effect at most once, between its begin and its return, *)
(* and every definite refusal was true at such an instant.                 *)
StageOf(p, applied) ==
  IF p = "idle" THEN "idle"
  ELSE IF p = "disable" THEN "disabled"
  ELSE IF applied THEN "applied" ELSE "open"

Stage == [c \in Callers |-> StageOf(pc[c], effect[c])]

R == INSTANCE Registry WITH list <- rt, stage <- Stage, answer <- res

ImplementsRegistry == R!Spec

(* At rest (no call under way, nothing left to dispatch) the cache is the  *)
(* runtime's list, unless one of these came in between: a change while     *)
(* somebody else was about to write an older list; a change of the         *)
(* sidecar's list without a stream; a stream that broke or was cancelled   *)
(* before it had delivered everything.  A call that has overlapped no      *)
(* other writer of the cache repairs it, and so does a stream that opens   *)
(* when no older list is about (players.rs:32-100).                        *)
AtRest == AllIdle /\ feed = <<>> /\ Dispatching = {}

FreshAtRest == (AtRest /\ ~excused) => cache = rt
=============================================================================
