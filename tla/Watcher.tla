------------------------------ MODULE Watcher ------------------------------
(***************************************************************************)
(* The shared watch stream of the Rust SDK                                 *)
(* (sdk/rust/gameflow/src/watch.rs, and the stream of transport/sidecar.rs *)
(* and GameFlow::watch above and below it).                                *)
(*                                                                         *)
(* Every subscriber registers a listener; the first one spawns the stream  *)
(* task, the last one to drop its subscription closes it, and shutdown     *)
(* stops it for good.  The watcher keeps two mutexes: `dispatch` around    *)
(* the listeners and the latest update, `control` around the cancellation  *)
(* token of the current stream.  Listeners run outside both.  A stream     *)
(* task is named by the subscriber that spawned it.  Updates of the game   *)
(* server are numbered in the order the runtime makes them.                *)
(***************************************************************************)
EXTENDS Naturals, FiniteSets

CONSTANTS
  Subs,         \* subscriptions, each made once
  Droppers,     \* those that may be dropped again
  MaxVersion    \* bound: updates of the game server

ASSUME WatcherAssumption ==
  /\ Droppers \subseteq Subs
  /\ MaxVersion \in Nat \ {0}

Versions == 1..MaxVersion

VARIABLES
  cur,         \* the runtime's current version of the game server
  pc,          \* per subscription: where its thread is
  replay,      \* per subscription: `latest` read at registration, 0 for None
  listeners,   \* DispatchState::listeners
  latest,      \* DispatchState::latest, 0 for None
  token,       \* Control::token: {} is None, {i} the token of stream i
  stopped,     \* Control::stopped
  stopAt,      \* where shutdown() is
  streamAt,    \* per stream task: where it is
  cancelled,   \* the streams whose token has fired
  pos,         \* per stream: the version read last from the open stream, or 0
  pending,     \* per stream: the listeners it still has to call
  synced,      \* the version the on_update hook was last called with
  (* ghost state *)
  seen         \* per subscription: the versions its listener was given

subVars    == <<pc, replay>>
streamVars == <<streamAt, pos, pending>>
vars == <<cur, subVars, listeners, latest, token, stopped, stopAt,
          streamVars, cancelled, synced, seen>>

SubPCs == {"new", "register", "replay", "ensure", "live", "close", "gone"}
StreamPCs == {"none", "top", "connect", "open", "dispatch", "hook", "deliver",
              "ended", "failed", "backoff", "done"}

TypeOK ==
  /\ cur \in Versions
  /\ pc \in [Subs -> SubPCs]
  /\ replay \in [Subs -> 0..MaxVersion]
  /\ listeners \in SUBSET Subs
  /\ latest \in 0..MaxVersion
  /\ token \in SUBSET Subs
  /\ stopped \in BOOLEAN
  /\ stopAt \in {"no", "claimed", "control", "done"}
  /\ streamAt \in [Subs -> StreamPCs]
  /\ cancelled \in SUBSET Subs
  /\ pos \in [Subs -> 0..MaxVersion]
  /\ pending \in [Subs -> SUBSET Subs]
  /\ synced \in 0..MaxVersion
  /\ seen \in [Subs -> SUBSET Versions]

Init ==
  /\ cur = 1
  /\ pc = [s \in Subs |-> "new"]
  /\ replay = [s \in Subs |-> 0]
  /\ listeners = {}
  /\ latest = 0
  /\ token = {}
  /\ stopped = FALSE
  /\ stopAt = "no"
  /\ streamAt = [i \in Subs |-> "none"]
  /\ cancelled = {}
  /\ pos = [i \in Subs |-> 0]
  /\ pending = [i \in Subs |-> {}]
  /\ synced = 0
  /\ seen = [s \in Subs |-> {}]

(* The game server changes. *)
Update ==
  /\ cur < MaxVersion
  /\ cur' = cur + 1
  /\ UNCHANGED <<subVars, listeners, latest, token, stopped, stopAt,
                 streamVars, cancelled, synced, seen>>

-----------------------------------------------------------------------------
(* A subscription. *)

Goto(s, from, to) ==
  /\ pc[s] = from
  /\ pc' = [pc EXCEPT ![s] = to]

(* The listener of s is called with version v. *)
Give(s, v) == seen' = [seen EXCEPT ![s] = @ \cup {v}]

(* GameFlow::watch: assert_usable, then subscribe. *)
Watch(s) ==
  /\ Goto(s, "new", IF stopAt = "no" THEN "register" ELSE "gone")
  /\ UNCHANGED <<cur, replay, listeners, latest, token, stopped, stopAt,
                 streamVars, cancelled, synced, seen>>

ReplayOf_Nothing == 0

ReplayOf == latest

AfterRegister == IF ReplayOf = 0 THEN "ensure" ELSE "replay"

(* Insert the listener and read `latest`, under the dispatch lock. *)
Register(s) ==
  /\ Goto(s, "register", AfterRegister)
  /\ listeners' = listeners \cup {s}
  /\ replay' = [replay EXCEPT ![s] = ReplayOf]
  /\ UNCHANGED <<cur, latest, token, stopped, stopAt, streamVars, cancelled,
                 synced, seen>>

(* Call the new listener with what was read, outside the lock. *)
Replay(s) ==
  /\ Goto(s, "replay", "ensure")
  /\ Give(s, replay[s])
  /\ replay' = [replay EXCEPT ![s] = 0]
  /\ UNCHANGED <<cur, listeners, latest, token, stopped, stopAt,
                 streamVars, cancelled, synced>>

NeedsStream_TokenIgnored == ~stopped

NeedsStream_StopIgnored == token = {}

NeedsStream == ~stopped /\ token = {}

(* ensure_stream: under the control lock, install a token and spawn run(). *)
EnsureStream(s) ==
  /\ Goto(s, "ensure", "live")
  /\ \/ /\ NeedsStream
        /\ token' = {s}
        /\ streamAt' = [streamAt EXCEPT ![s] = "top"]
     \/ /\ ~NeedsStream
        /\ UNCHANGED <<token, streamAt>>
  /\ UNCHANGED <<cur, replay, listeners, latest, stopped, stopAt, pos,
                 pending, cancelled, synced, seen>>

AfterDrop_NeverCloses(s) == "gone"

AfterDrop(s) == IF listeners \ {s} = {} THEN "close" ELSE "gone"

(* Dropping the Subscription: remove the listener under the dispatch lock; *)
(* only after the unlock does the last one close the stream.  What the     *)
(* listener was given before counts no more.                               *)
Drop(s) ==
  /\ s \in Droppers
  /\ Goto(s, "live", AfterDrop(s))
  /\ listeners' = listeners \ {s}
  /\ seen' = [seen EXCEPT ![s] = {}]
  /\ UNCHANGED <<cur, replay, latest, token, stopped, stopAt, streamVars,
                 cancelled, synced>>

(* Take the token and cancel it, under the control lock. *)
TakeToken ==
  /\ token' = {}
  /\ cancelled' = cancelled \cup token

CloseStream(s) ==
  /\ Goto(s, "close", "gone")
  /\ TakeToken
  /\ UNCHANGED <<cur, replay, listeners, latest, stopped, stopAt, streamVars,
                 synced, seen>>

SubStep(s) ==
  Register(s) \/ Replay(s) \/ EnsureStream(s) \/ CloseStream(s)

-----------------------------------------------------------------------------
(* shutdown(): claim the shutdown, then Watcher::stop. *)

Claim ==
  /\ stopAt = "no" /\ stopAt' = "claimed"
  /\ UNCHANGED <<cur, subVars, listeners, latest, token, stopped, streamVars,
                 cancelled, synced, seen>>

StopControl ==
  /\ stopAt = "claimed" /\ stopAt' = "control"
  /\ stopped' = TRUE
  /\ TakeToken
  /\ UNCHANGED <<cur, subVars, listeners, latest, streamVars, synced, seen>>

StopListeners ==
  /\ stopAt = "control" /\ stopAt' = "done"
  /\ listeners' = {}
  /\ UNCHANGED <<cur, subVars, latest, token, stopped, streamVars, cancelled,
                 synced, seen>>

-----------------------------------------------------------------------------
(* The stream task i (run, with watch_game_server inside). *)

StreamGoto(i, from, to) ==
  /\ streamAt[i] = from
  /\ streamAt' = [streamAt EXCEPT ![i] = to]

StreamOnly ==
  UNCHANGED <<cur, subVars, listeners, token, stopped, stopAt, cancelled>>

(* The head of the loop in run(). *)
StreamTop(i) ==
  /\ StreamGoto(i, "top", IF i \in cancelled THEN "done" ELSE "connect")
  /\ UNCHANGED <<latest, pos, pending, synced, seen>>
  /\ StreamOnly

(* GET /watch/gameserver.  Nothing cancels the wait for its answer. *)
Open(i) ==
  /\ StreamGoto(i, "connect", "open")
  /\ UNCHANGED <<latest, pos, pending, synced, seen>>
  /\ StreamOnly

OpenFails(i) ==
  /\ StreamGoto(i, "connect", "failed")
  /\ UNCHANGED <<latest, pos, pending, synced, seen>>
  /\ StreamOnly

(* The next line: the current state on a new stream, then every change.    *)
(* The select is not biased, so a line may still win over a cancellation.  *)
Receive(i) ==
  /\ StreamGoto(i, "open", "dispatch")
  /\ pos[i] < cur
  /\ pos' = [pos EXCEPT ![i] = IF @ = 0 THEN cur ELSE @ + 1]
  /\ UNCHANGED <<latest, pending, synced, seen>>
  /\ StreamOnly

(* dispatch: record the latest update and snapshot the listeners, under    *)
(* the dispatch lock.                                                      *)
Dispatch(i) ==
  /\ StreamGoto(i, "dispatch", "hook")
  /\ latest' = pos[i]
  /\ pending' = [pending EXCEPT ![i] = listeners]
  /\ UNCHANGED <<pos, synced, seen>>
  /\ StreamOnly

HookValue_ForListenersOnly(i) == IF pending[i] = {} THEN synced ELSE pos[i]

HookValue(i) == pos[i]

(* The cache-sync hook runs before the listeners, outside the lock. *)
Hook(i) ==
  /\ StreamGoto(i, "hook", IF pending[i] = {} THEN "open" ELSE "deliver")
  /\ synced' = HookValue(i)
  /\ UNCHANGED <<latest, pos, pending, seen>>
  /\ StreamOnly

(* One listener of the snapshot is called; the map fixes no order. *)
Deliver(i) ==
  \E s \in pending[i] :
    /\ StreamGoto(i, "deliver", IF pending[i] = {s} THEN "open" ELSE "deliver")
    /\ pending' = [pending EXCEPT ![i] = @ \ {s}]
    /\ Give(s, pos[i])
    /\ UNCHANGED <<latest, pos, synced>>
    /\ StreamOnly

(* The stream ends, breaks, or its token fires while it waits for a line. *)
StreamEnds(i) ==
  /\ \/ StreamGoto(i, "open", "ended")
     \/ StreamGoto(i, "open", "failed")
  /\ pos' = [pos EXCEPT ![i] = 0]
  /\ UNCHANGED <<latest, pending, synced, seen>>
  /\ StreamOnly

AfterFailure_GivesUp(i) == "done"

AfterFailure(i) == IF i \in cancelled THEN "done" ELSE "backoff"

(* run() after watch_game_server has returned. *)
StreamReturns(i) ==
  /\ \/ StreamGoto(i, "failed", AfterFailure(i))
     \/ StreamGoto(i, "ended", IF i \in cancelled THEN "done" ELSE "backoff")
  /\ UNCHANGED <<latest, pos, pending, synced, seen>>
  /\ StreamOnly

(* The sleep is over, or the token fires first. *)
Backoff(i) ==
  /\ \/ StreamGoto(i, "backoff", "top")
     \/ i \in cancelled /\ StreamGoto(i, "backoff", "done")
  /\ UNCHANGED <<latest, pos, pending, synced, seen>>
  /\ StreamOnly

StreamStep(i) ==
  \/ StreamTop(i) \/ Open(i) \/ OpenFails(i) \/ Receive(i) \/ Dispatch(i)
  \/ Hook(i) \/ Deliver(i) \/ StreamEnds(i) \/ StreamReturns(i) \/ Backoff(i)

Next ==
  \/ Update
  \/ \E s \in Subs : Watch(s) \/ SubStep(s) \/ Drop(s)
  \/ Claim \/ StopControl \/ StopListeners
  \/ \E i \in Subs : StreamStep(i)

Spec == Init /\ [][Next]_vars

(* A call of subscribe, a drop, a shutdown and a stream task go on once    *)
(* begun.  Of the attempts to open the stream, and of the lines waiting on *)
(* an open one, the runtime does not fail every one forever.               *)
Fairness ==
  /\ \A s \in Subs : WF_vars(SubStep(s))
  /\ WF_vars(StopControl) /\ WF_vars(StopListeners)
  /\ \A i \in Subs : WF_vars(StreamStep(i)) /\ SF_vars(Open(i)) /\ SF_vars(Receive(i))

FairSpec == Spec /\ Fairness

-----------------------------------------------------------------------------
(* Properties. *)

Running(i) == streamAt[i] \notin {"none", "done"} /\ i \notin cancelled

(* No thread is inside subscribe, a drop or a shutdown. *)
AtRest ==
  /\ \A s \in Subs : pc[s] \in {"new", "live", "gone"}
  /\ stopAt \in {"no", "done"}

(* One underlying stream is shared by all subscribers: a stream that       *)
(* nothing has cancelled is the one whose token is kept, and the kept      *)
(* token has not fired (watch.rs:3-5, 144-162).                            *)
OneStream ==
  /\ \A i \in Subs : Running(i) => token = {i}
  /\ \A i \in token : Running(i)

(* After stop(), no stream is running and none starts again, even for a    *)
(* subscribe that was under way (watch.rs:129-140).                        *)
NoStreamAfterStop == stopped => \A i \in Subs : ~Running(i)

(* At rest, without a listener there is no stream (watch.rs:3-5). *)
ClosedWhenUnused == (AtRest /\ listeners = {}) => \A i \in Subs : ~Running(i)

(* A subscriber that joins a running stream misses nothing: once the       *)
(* dispatches are done, each live listener has been given the latest       *)
(* update, by the dispatch or by the replay (watch.rs:62-66, 105-115).     *)
NoMissedUpdate ==
  \A s \in Subs :
    ( /\ pc[s] = "live" /\ latest # 0
      /\ \A i \in Subs : streamAt[i] \notin {"hook", "deliver"} )
    => (s \in listeners => latest \in seen[s])

(* While a single stream task has served every subscriber, the cache-sync  *)
(* hook has been given the latest update as soon as no dispatch is between *)
(* the two, even when no listener is left (watch.rs:203-218).              *)
HookKeepsUp ==
  ( /\ \A i, j \in Subs : streamAt[i] # "none" /\ streamAt[j] # "none" => i = j
    /\ \A i \in Subs : streamAt[i] # "hook" )
  => synced = latest

(* A live subscription is eventually given the last update, through ended  *)
(* and failed streams, unless the handle is shut down.                     *)
EventuallyServed ==
  \A s \in Subs :
    pc[s] = "live" ~> (cur \in seen[s] \/ stopAt # "no" \/ pc[s] # "live")

(* watch.rs:3-5: the stream is shared by all subscribers and closed when   *)
(* the last one unsubscribes; so a live subscriber has a stream.           *)
ServedWhileSubscribed ==
  (AtRest /\ ~stopped /\ listeners # {}) => \E i \in Subs : Running(i)
=============================================================================
