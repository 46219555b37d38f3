# Specification of the GameFlow game-server SDK

A dedicated game server uses a GameFlow SDK to talk to the runtime beside it (an
Agones sidecar on localhost): it marks itself ready, sends a heartbeat, registers its
players, watches the game server object and shuts down. The repository holds six
implementations of one contract (`docs/spec.md`): Rust, Go, TypeScript, Unity,
Unreal and Godot. This directory specifies them in TLA+, checks the
specifications with TLC on small instances, and proves the safety properties with
TLAPS for every value of the constants. It covers the Rust SDK,
`sdk/rust/gameflow/src/`, the two Rust programs that use it, and the lifecycle and
heartbeat of the TypeScript and Godot SDKs; the plan below says what comes next.

## The system

| part | state it keeps | operations | what is hard |
|---|---|---|---|
| lifecycle (`gameflow.rs`, `transport/mod.rs`) | an atomic `state`: CONNECTED, READY, SHUTTING_DOWN, SHUTDOWN | `ready`, `shutdown`, the guard of every other call | tasks that share the handle call at once; a request lies between the check and the transition |
| health loop (`health.rs`) | the handle with its cancellation token; failures in a row; the degraded flag | `start`, `stop`, the loop | starts after the state changed, stops from another task; one alarm per outage |
| player tracking (`players.rs`, `transport/sidecar.rs`, `transport/local.rs`) | a cached snapshot; in local mode the list itself | `connect`, `disconnect`, `refresh`, the cache sync | answers lost after the effect; snapshots stored in any order; emission outside the lock, also by `ready` and `shutdown`; streams that open, break and are cancelled |
| watcher (`watch.rs`, stream of `sidecar.rs`) | listeners and latest update under one mutex, token and stop flag under another | `subscribe`, drop, `stop`, the stream task | subscribe, drop and stop race between the mutexes; reconnects; late cancellation |
| payload (`gameflow.rs`) | `last_payload`, the payload listeners | `payload`, `on_payload_change`, the hook on each update | a caller and the hook write the same value |
| wire format (stream of `sidecar.rs`, `types.rs`) | the bytes received and not yet framed | framing, decoding of a line and of the players list | lines cut anywhere and connections that break; widths of numbers, nulls, two spellings |
| TCP example (`examples/tokio-tcp`) | where main is, the listener, the signal handlers, a task per connection | start-up, accept, join, leave, signal, shutdown | connections at any point when the signal comes or the process ends; calls that fail |
| Bevy bridge (`examples/bevy-server`) | a channel, the tasks of the runtime, what a frame defers | commands, pump, end of the frame, exit | tasks finish in any order; a frame never waits; the client appears while events are under way |
| event-loop handles (TypeScript `gameflow.ts`, `health.ts`; Godot `gameflow.gd`, `health_loop.gd`) | a plain `state`; a running flag, a timer, the failure count | `start`, `ready`, `shutdown`, other calls, the chain of pings | answers that come back to a state that has moved on; a restart beside a chain that is winding down |
| connect (`gameflow.rs`) | backoff and deadline | mode detection, the probe | deadline against request timeout and jitter; what counts as a configured port |

They interact as follows. `connect` chooses the transport, wraps it in
`GuardedTransport` (which refuses everything but shutdown once the state is SHUTDOWN)
and seeds the player cache and `last_payload` from the probe. `ready` starts the
health loop, `shutdown` stops it and the watcher before it tells the runtime. Each
line of the watch stream goes to the cache-sync hook (players, then payload) and then to the
listeners. In local mode the transport is the runtime: a change of the list is emitted to
the sinks by the task that made it, and so is the whole object by `ready`, `shutdown` and a stream that opens. The TCP example shares a handle between its main task and
a task per connection; the Bevy bridge has a task per command and one channel back into
the frames of the game.

What makes each part correct, in one line: the state only advances and every
shutdown ends (lifecycle); no loop escapes its handle (health); the cache is a list
that existed, and calls report what they did (players); one stream, closed in time, nobody
misses the latest update (watcher); told once of each change (payload); a bounded
connect that never pretends (connect); every whole line counts once (wire); players who
leave a running server are off the list (TCP example); what the game is told is true and comes in an order
it can use (bridge). `PROJECT.json` lists the hazards at their
lines, also those of the other SDKs that no property covers yet.

## Modules

| module | what it specifies | proofs | instance |
|---|---|---|---|
| `Handle` | abstract: what the lifecycle of a handle promises its callers | | |
| `Lifecycle` | one handle shared by `Callers`, the guards, the health loop; implements `Handle` | `LifecycleProofs` | `MCLifecycle` |
| `Registry` | abstract: a player list on which each call takes effect at most once | | |
| `Players` | the calls, the cache, the runtime's or the local list; implements `Registry` | `PlayersProofs` | `MCPlayers` |
| `Watcher` | subscriptions, stream tasks, stop | `WatcherProofs` | `MCWatcher` |
| `Payload` | payload listeners, `payload()`, the hook | `PayloadProofs` | `MCPayload` |
| `Connect` | mode detection and the probe, with time | `TransportProofs` | `MCConnect` |
| `Wire` | framing of the watch stream and decoding of its lines | `TransportProofs` | `MCWire` |
| `TcpServer` | the TCP example, on `Handle` and `Registry` | `TcpServerProofs` | `MCTcpServer` |
| `BevyBridge` | the Bevy bridge and its server, on `Handle` and `Registry` | `BevyBridgeProofs` | `MCBevyBridge` |
| `TypeScriptHandle`, `GodotHandle` | the handle and heartbeat of an SDK on one thread | | |
| `EventLoopHandles` | the two side by side, with what both owe the game server | `EventLoopProofs` | `MCEventLoopHandles` |

The abstract modules tie the project together: `Lifecycle` implements `Handle` and `Players`
implements `Registry`, each under a refinement mapping, and the two example programs are
written on top of these two promises, so that what is shown of them does not depend on
the details below. `EventLoopHandles` instantiates the
two handles on shared variables; the others are separate, each taking its neighbours by what they do at the border: `Lifecycle`
calls the watcher's stop as one step, `Watcher` has the claim of a shutdown as an
action, and `Payload` assumes an open stream. An action is what a task does between two
points where another task can get in: one atomic access, one critical section,
one request sent or one answer taken. `map` in `PROJECT.json` gives the lines of every
definition. Names ending in `_Something` after an operator's name
(`ReadyCas_PlainStore`) are plausible wrong versions of that operator; no
specification uses them, they show that a property can fail.

### Lifecycle

`pc[c]` is the place of caller `c` in `ready`, `shutdown` or a guarded call. The
calls are four by their guards: `ready`, `shutdown`, `info` (stands for `payload` too:
`assert_usable` and then the transport's guard) and `players` (the transport's guard
only). `Answer` lets the runtime carry a request out and answer, carry it out and lose
the answer, or not see it. `handle` is the mutex-protected `HealthLoop::handle`; a
loop is named by the caller whose `ready` spawned it. Cancelling takes effect at
the loop's next await. `fails` stops at the threshold since the code only compares
it. Ghost variables: whether a `/ready` was carried out, the number of POST
/shutdown, how far a shutdown was when a call began, alarms since the last good ping.

`Handle` knows no requests, heartbeat or watcher: a `ready` succeeds only after the runtime
has been told, one `shutdown` claims and completes, a further one returns as soon as it finds the
handle claimed (so its return does not mean that the handle is closed), and what begins after SHUTDOWN is refused.
`Stage` in `Lifecycle` maps program counters to it.

### TypeScriptHandle, GodotHandle and EventLoopHandles

Nothing runs in parallel here, but a call is cut at each `await`: `Call...` is a method up
to its await, `...Answered` the rest. The heartbeat is a chain of pings named by the
call whose `ready()` started it; there can be several, since `running` is one flag. In
TypeScript a chain waits in a timer, of which the loop remembers the last (`timer`), and a
ping after SHUTDOWN is refused by the transport's guard; in Godot a chain
sleeps, uninterruptibly, and there is no guard. A Godot handle exists before `start()`,
and its local transport answers without suspending the caller. A degraded callback
that shuts the handle down is the end of the ping followed by that call. `sdk` says which SDK
the game server links. Ghost variables: the number of POST /shutdown, how often an answer reopened a handle
that was closing or closed, alarms since the last good ping.

### Players and Registry

The list is a record `[exists, capacity, values]`; its order is abstracted. A sidecar
`connect` is `AddValue` (addValue reaches the runtime, or not, and its answer comes back,
or not), `Reread` (the list is read again, since some runtimes answer a mutation with an
empty one) and `Store`. In local mode one critical section makes the change and the
snapshot, `Emit` runs the sinks after the unlock, `Store` comes last. `PlatformChange`
resizes, removes or creates the list as the setup of the conformance fixture does.

The other writers of the cache are the streams and, in local mode, the tasks that emit without a player call.
`OpenStream` puts the current object on the queue `feed` of the sidecar's stream; `SyncFromGameServer` hands its updates to
the cache; `BreakStream` loses what is left of it, and after `CancelStream` the task of the stream may go on dispatching what it
had (`draining`, `pending`) until `EndStream`. `Announce` is `ready()` or `shutdown()` of the local transport and `RegisterSink` its
`watch_game_server`: each takes the list under the lock, and `Dispatch` stores it any time later, once per sink. Each of `Tasks`
stands for one such task or cancelled stream at a time. How often they run is not bounded.

The ghost `excused` records why the cache may be stale although nothing is under way: a change was made while somebody else
had an older list in hand; a change of the sidecar's list had no stream to carry it; a stream ended with updates left on it. A
call during which nobody else took or wrote a list (`solo`; the open stream aside, which ends with the latest one) takes the excuse away, and so does a stream that opens when no older
list is about.

`Registry` knows no requests, caches or streams: a call opens, takes effect once or is
refused for a reason true at that instant, and returns. `Stage` maps program counters to
it; `list` is the runtime's list, `answer` the outcome.

### Watcher

`Register` and `Replay` are the two halves of `subscribe` around the unlock,
`EnsureStream` the `control` section, `Drop` and `CloseStream` the two halves of dropping
the last subscription, `StopControl` and `StopListeners` those of `stop`. A stream task
goes through the head of `run`, the GET, its lines (`Receive`, `Dispatch`, `Hook`,
`Deliver` per listener), its end and the backoff. A cancelled task may still be
dispatching beside its successor. Updates are numbered; `seen[s]` are those a listener
was given.

### Payload

`Line` hands the hook the next state or, after a reconnect, the current one; `Compare`,
`Collect` and `Call` are the steps of `handle_update` at its two locks and outside them.
`Fetch` and `Store` are `payload()` around its await. The ghost variable `untold` holds the
listeners for which a `payload()` has changed what the hook compares with since they
were last brought up to date.

### Connect

Time is a number, counted from the call; sleeps last as asked, a request any time up to
its timeout, and what runs between two awaits takes no time. The runtime comes up at `upAt` or never.

### Wire

A byte is a number: the i-th line written has the text `<<i, 0>>`, so that no part of a line and
no two halves put together are a text. `Receive` takes any number of bytes, and one `Frame` is a round of the
framing loop; that loop has no await in it, so nothing else of the stream (a chunk, its end, the token)
comes between two rounds, which `Waiting` says. A line says one of a few things (`Bodies`): a readable object, an
error, nothing, or an object with one odd field. Machine integers go from `MIN` to `MAX`, and doubles are
known by a set and a rounding: `Round` gives the nearest, small numbers and the powers of two at the bounds are
doubles, and as far as unsigned integers go rounding moves a number by half a `Grain` at most (`DoubleAssumption`; in the code 2^63 - 1,
2^53 and 2048). That is how `as f64` rounds and how serde_json reads an integer literal; of a literal with a fraction or an
exponent it is an idealisation, since serde_json without its feature `float_roundtrip` can miss the nearest double by one
step if there are more than 15 digits. `MCWire` builds all of them from `Width` bits of integer and `Precision` bits of mantissa, so the
bounds of `visit_f64` and the rounding of large literals are there in small. The ghost `cut` says with which
bytes of which connection a line begins and ends, `got` how many of them each connection brought.

### TcpServer

`at` is where main is between two awaits, `conn[c]` where the task of connection `c` is. The calls of main step
through `Handle`, the player calls of the connections through `Registry`, where the guard of the transport is
read when a call opens. Until main first polls `shutdown_signal()` a signal kills the process. `lost` holds the connections whose player call
failed, where nobody knows what the runtime did. `Exit`, by whichever way the process ends, drops the task of every connection
where it stands (`"dropped"`), without a `disconnect()`; `LateRequest` is a request of such a task that the runtime carries out afterwards.
`Change` of `Registry` is left out: the platform is assumed not to resize, remove or create the list meanwhile.

### BevyBridge

A command spawns a task; the task makes one call and sends one event; `Pump` takes the events one by one, `EndFrame`
applies what they deferred (the client resource, the triggers) in order and lets the runner see an
`AppExit`. Tasks and events of the SDK go on between any two of these. Bevy's part (deferred commands run in
order at the end of a schedule, an exit is looked for once per frame) is taken from how the plugin uses it. `Change` of `Registry` is
left out here too: the list is the players' alone. Ghost variables: which events
ran without the client, the last report about each player, players with two commands under way, how many commands are unanswered.

## Runs

| run | question | bounds |
|---|---|---|
| `lifecycle` | all safety and liveness properties of the handle | 2 callers, threshold 2 |
| `players` | calls and cache in both modes; refinement of `Registry` | 2 callers and 1 other task, 3 calls and platform changes together, 2 sessions, capacities 1 and 2, faults |
| `watcher` | the stream's safety under subscribe, drop and shutdown; the hook keeps up with a lone stream | 3 subscribers, all may drop; 2 updates |
| `watcher_live` | every subscriber that stays is served | 2 subscribers that stay, 2 updates |
| `payload` | told, and told once | 2 listeners, 2 callers with 1 call, 2 payloads and none, 3 states |
| `connect` | bounded, finds, never pretends | the real constants in units of 50 ms, with a shorter timeout: backoff 5 to 12, budget 70, request 6, up by 80 |
| `event_loop_handles` | what the TypeScript and Godot handles keep although a late answer can reopen them | 2 calls under way, threshold 2 |
| `wire` | every readable line once, whole and with its numbers, over any chunks | 3 lines, 2 connections, 9 bodies, 5-bit integers, 3-bit mantissa |
| `tcp_server` | players, readiness and signals of the TCP example | 3 connections, capacities 1 and 2 or no list |
| `bevy_bridge` | what the game is told, in which order, and when it exits | 2 commands and the automatic `ready`, 1 session, 1 update, capacity 1 or no list |
| `lifecycle_zombie`, `watcher_stranded` | one comment each that the code does not keep | the smallest instance that shows it |

Two callers suffice for the races of the handle: each is between one call and another,
and `LifecycleProofs` does not depend on the number. With three subscribers one can drop last while a second
subscribes, and a third can then open the stream that a cancelled one still
dispatches beside. Two updates make a stale replay possible. Capacity 1 with two sessions
makes the list full, two calls per caller let a call overlap two others. Three states
with two payloads give a payload that changes and returns. Where the same objects play
symmetric roles, `SYMMETRY` is set; not in runs with liveness. `CHECK_DEADLOCK FALSE`
stands where the bounded game server or the bounded callers come to rest.

Three lines let one chunk hold the end of a line, a whole one and the start of the next. Two commands of
the game overlap in every way that two tasks can. Three connections and a list for two let one be refused while
another leaves.

The type invariants of the modules with proofs are not in the runs: `TypeCorrect` proves each of them.

Of `connect`'s constants, budget and request timeout are shorter than the defaults (30 s
and 3 s) and the cap on the backoff is 600 ms instead of 4 s, so that a probe meets
the cap, the deadline and a runtime that comes up at any time; the theorems hold for any values.

### What the passing runs show

* Whatever overlaps, the state never moves back, POST /shutdown goes out once, an
  uncancelled health loop is the one a stop can reach, the handle is READY only if the
  runtime was told, the alarm sounds once per outage, and after SHUTDOWN nothing is sent.
* The cache holds only lists that existed. A definite refusal means that nothing was
  done, a success that it was. At rest the cache differs from the runtime only where
  `FreshAtRest` says so, and a call that overlaps no other writer of the cache repairs it; overlapping player calls are not the only
  ones that count: in local mode a `ready()` that began before a whole `connect()` can undo what that stored.
* On an event loop, a late answer to `ready()` or `start()` reopens a handle that was being shut
  down. Each time costs one more POST /shutdown and one more chain of pings at most; without it
  the claim of a shutdown silences the heartbeat. In all cases the alarm sounds once per outage
  and a shutdown ends.
* There is one stream; it stops for good with the handle and is closed when nobody listens.
  A live listener has the latest update once dispatches are done.
* A handle with its requests, guards and heartbeat does what `Handle` says, and what follows holds of any handle that does.
* As long as it runs, the TCP example leaves no player behind on the platform's list unless one of the player's calls failed. When
  the process ends, by a failing `accept`, a kill or the return of `main` after its `shutdown()`, the players that are connected stay listed, since their
  tasks are dropped without a `disconnect()`; `NoGhosts` says that nobody else does. It lets
  nobody in who is not registered; the platform hears of it when it listens; a signal that it has caught
  ends in SHUTDOWN unless `accept` fails first.
* In the Bevy example an app that was told once to shut down exits only when the shutdown is over; the last
  report about a player is true; no observer misses the client; every command is answered.
* Wherever chunks end and connections break, every readable line is given to the sink once. A capacity is exact up to the precision of a double, and
  beyond that saturates; it never wraps.
* Listeners are told of each payload once, `payload()` aside. `connect` ends within the budget
  and one request.

### What the others show

Two sentences of the comments are stronger than the code; `findings` quotes them.
A shutdown that fits between the exchange and `health.start()` leaves a loop
that nothing stops (its pings are refused by the guard, so it only counts failures). A subscription
made while the last one is being dropped can end up without a stream (a bug).

More divergences came up that need no run of their own, since a passing property says how far the code goes:

* A replay can follow a newer update, although `watch.rs:105-106` says "exactly once and in order":
  `Replay` runs after the unlock. `NoMissedUpdate` says what holds.
* A `payload()` that is faster than the stream hides a change from the listeners, although
  `gameflow.rs:420` says that they are called "when the launch payload changes". `ToldUnlessRead` excepts it.
* In the TypeScript and Godot SDKs an answer to `ready()` that arrives during a shutdown
  sets the handle ready again, and the next `shutdown()` sends its request a second time, although
  `docs/spec.md:60` says "only one request is sent". `OneRequestPerOpening` counts the reopenings.
* The second of two overlapping shutdowns resolves while the first is still under way, although
  `gameflow.rs:351-353` says that every other method then fails. `Handle` has the early return, and in the Bevy bridge a
  second command to shut down can end the app early; `ExitAfterShutdown` speaks of one command.
* The cache can stay stale: player calls that overlap, or in local mode a `ready()`, `shutdown()` or opening stream beside a player call, store
  their lists in any order, and the hook of a cancelled stream may come last (`FreshAtRest` says when). `HookKeepsUp` of `Watcher` is about a
  lone stream.
* The TCP example installs its signal handlers only after `ready()`, and leaves without a `shutdown()` when `accept` fails, although
  its comment says that both signals "must lead to a graceful `shutdown()`" (`main.rs:65-67`). `StopsOnSignal` starts
  from a caught signal and names the failed `accept`.
* A disconnect that fails is reported to the game as `PlayerConnectFailed` (`gameflow_plugin.rs:187-193`).

## Fairness

`Lifecycle!FairSpec`: a call under way and a health loop go on (weak fairness): tokio polls
them and each request has a timeout. No task is obliged to begin a call.
`EventLoopHandles!FairSpec`: every request is answered or times out, timers fire and sleeps end
(weak fairness); no call has to be made.
`TcpServer!FairSpec`: main goes on where it can and its calls return (`CallsReturn` of `Lifecycle`); no
connection has to arrive or leave.
`BevyBridge!FairSpec`: as long as the app runs, frames and tasks go on; the game need not give a command, the SDK
need not send anything.
`Watcher!FairSpec`: the steps of a subscribe, a drop, a stop and of a stream task go
on; strong fairness of opening the stream and of receiving a line says that the
runtime does not fail every attempt forever, which is what the reconnect loop is
for. The stream request has no timeout in the code, so that an answer to it
comes at all is an assumption on the runtime.

## Proofs

All theorems are about `Spec` without fairness, for every value of the constants that the
named assumptions admit (`ThresholdAssumption`, `PlayersAssumption`, `WatcherAssumption`,
`PayloadAssumption`, `ConnectAssumption`, `WireAssumption`, `HandlesAssumption`, `ListsAssumption`, `BridgeAssumption`: little more than that bounds
are numbers; and `DoubleAssumption`, of doubles and their parser, see Wire, which TLC evaluates for small ones).
Type correctness comes first in each module; the rest rests on it.

* `LifecycleProofs`. No property is inductive alone. `CallShape` ties program counters to the
  call; `OneCloser` says that at most one caller is between the claim and the final store,
  that the state is SHUTTING_DOWN meanwhile, and that nothing was sent before;
  `EarnedShape`, `AlarmShape` and `ClosedShape` carry readiness, the alarm and the closed handle.
  `LifecycleImplementsHandle` shows that initial states map to initial states and each action to a step of `Handle` or a
  stutter; only a few of the many steps of a call move the abstract handle.
* `PlayersProofs`. `HeldShape`: every snapshot on its way to the cache, in a caller's hands
  or on the stream, is a list the runtime had. `EffectShape`: what the ghost effect is at
  each program counter. `FreshInv`: without an excuse every list in hand, of a caller or of another task, is still the runtime's
  (`AllCurrent`), and as long as the cache is not, one of them or the end of the stream is on its way to it (`OnItsWay`); a solo call that is about to store
  holds the runtime's list. There is one lemma per action, since each can disturb it. `BothModesImplement` shows that initial states map to initial states
  and each action to one of `Registry` or a stutter, from the types and `EffectShape`.
* `WatcherProofs`. `StreamInv`: a subscription that has not reached `ensure_stream` has spawned
  nothing, and a kept token has a listener or a drop about to take it. `DeliveryInv`: a
  registered listener has the latest update or a replay or dispatch under way that brings it.
  Neither `latest` nor a listener can change without the dispatch lock, which is why it is inductive.
  `HookInv`: as long as one stream task was ever spawned, that task holds the line the hook has not seen.
* `PayloadProofs`. `KnownShape`: at each step of the hook, what each undisturbed listener
  knows relative to `last_payload` and to the state the stream carried.
* `TransportProofs`. For connect, `ProbeInv`: probes are sent before the deadline, and one that failed was sent before the
  runtime came up. For the stream, `WireShape`: the bytes received and not yet framed, with those on their way,
  are exactly the pending lines one after the other, and every line feed among them ends one (`PendingShape`,
  `BreakShape`); lines are ordered by connection and place (`CutShape`); and the sink was given the updates
  of the lines that were taken out (`GivenShape`). So the first line feed ends the first pending line (`FirstLine`), and
  a round sends on what that line says (`FrameEffect`). The last theorem rests on `NumberRead`: what is
  decoded is the number sent or, beyond `Precise`, less than a `Grain` from it, since the two bounds of `visit_f64` are
  themselves compared as doubles and the cast saturates (`DoubleRead`).
* `TcpServerProofs`. A connection that has not begun to join or has left has no player on the list, or has lost a call (`PlayerShape`); it
  needs what `Registry` says of a call at each stage. `DropShape`: connections are dropped by the end of the process and by nothing
  else (`MainDrops`), and that leaves none of them behind.
* `BevyBridgeProofs`. `ShutShape`: with one command to shut down there is one task that can claim the handle, and a
  `ShutdownComplete` that is queued, deferred or acted on follows its return in SHUTDOWN. `ClientShape`: any task, any state beyond
  CONNECTED and any event that needs the client come after the client or behind its insertion in the same frame.
  `PlayerShape`: of a player for whom no two commands were given at once, at most one task is under way, and it knows
  whether the player is on the list; without one, the last word about the player, the last event in the channel
  or else the report, is true. The lemmas `WordKept`, `WordOther`, `WordSent` and `WordPumped` say what a step
  does to the last word, so that each task's step is one application of `PlayersTask`.
* `EventLoopProofs`. The nineteen actions of the two handles have five effects on what the
  properties are about; `StepEffects` proves that every step has one of them, and each invariant
  is then preserved by five cases instead of nineteen. `ChainShape` counts the chains, `RequestShape` the
  requests, `QuietShape` ties pending timers to the one remembered, which needs `ChainShape`: with
  one chain there is no other timer to forget.

Only model-checked: the liveness properties (`ShutdownCompletes`, `CallsReturn`,
`EventuallyServed`, `StopsOnSignal`, `CommandsAreReported`), which are beyond the prover.
Every safety property of the passing runs is a theorem.

## Not modelled

The text of JSON beyond what a field decodes to; environment variables other than those of the mode and the
local list (`ports()`, `region()` and the like are pure reads); the wording
of errors and logs; the capacity that ServerFull carries; user callbacks that panic
(the code holds the `on_update` mutex while the hook runs, so this matters) or that call
back into the SDK; the length of the reconnect backoff; the chat of the TCP example and the timers of the Bevy demo; and the Go, Unity and Unreal SDKs and all
of the TypeScript and Godot SDKs but their lifecycle and heartbeat. The runtime appears through what the SDK can see of it; where that was not enough, through
the conformance fixture `tools/conformance/fake-sidecar.ts`.

## Plan

1. Done: `Lifecycle` with `Handle`, `Players` with `Registry`, `Watcher`, `Payload`, `Connect`, `Wire`, the two
   example programs, and the handles of TypeScript and Godot, with proofs.
2. Go: lifecycle and health (`stop` waits for the loop; `onDegraded` may call `Shutdown`), as another
   implementation of `Handle`.
3. Unity and Unreal handles, beside TypeScript and Godot in `EventLoopHandles` where they run on one thread.
4. Watchers of all SDKs: Go at its mutexes, TypeScript and Godot between awaits, Unreal's
   `GfWatcher` with deferred teardown and tickers. One abstract specification of a shared stream
   (open while somebody listens, nobody stranded) that those which keep it implement.
5. Player caches of the other SDKs, as implementations of `Registry`.
6. Panicking listeners in `Watcher`: the token that survives its task, the poisoned mutex.
7. Theorems: the invariants of the Go and Unreal watchers; the refinements of 4 and 5.

Several SDKs share a run, chosen by a variable fixed at the start, so that the runs stay few and short.
