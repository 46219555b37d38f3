------------------------------ MODULE Payload ------------------------------
(***************************************************************************)
(* The launch payload of the Rust SDK: payload(), on_payload_change() and  *)
(* the hook that watches the stream for a change                           *)
(* (sdk/rust/gameflow/src/gameflow.rs).                                    *)
(*                                                                         *)
(* `last_payload` is what the hook compares each update with, and what     *)
(* payload() overwrites with the answer to a request of its own.  The      *)
(* watcher holds its on_update mutex while the hook runs, so that hooks    *)
(* never overlap each other; payload() overlaps them freely.  Some other   *)
(* subscriber keeps the one stream open throughout: how streams come and   *)
(* go is the matter of module Watcher.                                     *)
(***************************************************************************)
EXTENDS Naturals, Sequences, FiniteSets

CONSTANTS
  Listeners,    \* payload listeners
  Callers,      \* tasks that call payload()
  Payloads,     \* values of the GAMEFLOW_PAYLOAD annotation ...
  NoPayload,    \* ... and its absence
  MaxVersion,   \* bound: states of the game server
  MaxCalls      \* bound: calls of payload() a task makes

ASSUME PayloadAssumption ==
  /\ NoPayload \notin Payloads
  /\ MaxVersion \in Nat \ {0}
  /\ MaxCalls \in Nat

Values == Payloads \cup {NoPayload}

VARIABLES
  hist,        \* the payload of each state the game server has had
  pos,         \* the state the stream carried last, 0 before the first
  hookAt,      \* where handle_update is
  pending,     \* the listeners it still has to call
  last,        \* Inner::last_payload
  listeners,   \* Inner::payload_listeners
  pc,          \* per task: where its payload() is
  got,         \* per task: the payload its request was answered with
  calls,       \* per task: calls begun
  (* ghost state *)
  known,       \* per listener: `last` when it registered, then what it was told
  told,        \* the listeners that have been called
  untold,      \* listeners that a payload() has made the hook forget
  repeated     \* listeners told the value they had been told before

vars == <<hist, pos, hookAt, pending, last, listeners, pc, got, calls, known,
          told, untold, repeated>>

hookVars == <<pos, hookAt, pending>>
ghostVars == <<known, told, untold, repeated>>

TypeOK ==
  /\ hist \in Seq(Values)
  /\ Len(hist) \in 1..MaxVersion
  /\ pos \in 0..Len(hist)
  /\ hookAt \in {"idle", "compare", "collect", "call"}
  /\ hookAt # "idle" => pos # 0
  /\ pending \in SUBSET Listeners
  /\ hookAt = "call" <=> pending # {}
  /\ last \in Values
  /\ listeners \in SUBSET Listeners
  /\ pc \in [Callers -> {"idle", "store"}]
  /\ got \in [Callers -> Values]
  /\ calls \in [Callers -> 0..MaxCalls]
  /\ known \in [Listeners -> Values]
  /\ told \in SUBSET Listeners
  /\ untold \in SUBSET Listeners
  /\ repeated \in SUBSET Listeners

(* connect_with has returned: the probe has seeded last_payload. *)
Init ==
  /\ last \in Values
  /\ hist = <<last>>
  /\ pos = 0
  /\ hookAt = "idle"
  /\ pending = {}
  /\ listeners = {}
  /\ pc = [c \in Callers |-> "idle"]
  /\ got = [c \in Callers |-> NoPayload]
  /\ calls = [c \in Callers |-> 0]
  /\ known = [l \in Listeners |-> NoPayload]
  /\ told = {} /\ untold = {} /\ repeated = {}

Current == hist[Len(hist)]

Carried == hist[IF pos = 0 THEN 1 ELSE pos]   \* by the probe or the stream

(* The game server changes: its payload, or something else. *)
Update ==
  /\ Len(hist) < MaxVersion
  /\ \E p \in Values : hist' = Append(hist, p)
  /\ UNCHANGED <<hookVars, last, listeners, pc, got, calls, ghostVars>>

-----------------------------------------------------------------------------
(* The listeners. *)

(* on_payload_change; what the watch subscription it makes is given does   *)
(* not reach the listener.  A name is used again once its earlier          *)
(* registration can no longer be called.  (A payload() may have left in    *)
(* `last` what the stream has not carried.)                                *)
OnPayloadChange(l) ==
  /\ l \notin listeners \cup pending
  /\ listeners' = listeners \cup {l}
  /\ known' = [known EXCEPT ![l] = last]
  /\ told' = told \ {l}
  /\ untold' = IF hookAt = "compare" \/ last = Carried
               THEN untold \ {l} ELSE untold \cup {l}
  /\ UNCHANGED <<hist, hookVars, last, pc, got, calls, repeated>>

Unsubscribe(l) ==
  /\ l \in listeners
  /\ listeners' = listeners \ {l}
  /\ UNCHANGED <<hist, hookVars, last, pc, got, calls, ghostVars>>

-----------------------------------------------------------------------------
(* The hook: handle_update, once per line of the stream. *)

(* A line: the next state, or after a reconnect the current one, which the *)
(* stream may have carried before.                                         *)
Line ==
  /\ hookAt = "idle"
  /\ pos' \in {v \in 1..Len(hist) : v = pos + 1 \/ v = Len(hist)}
  /\ hookAt' = "compare"
  /\ UNCHANGED <<hist, pending, last, listeners, pc, got, calls, ghostVars>>

Differs_WhenPresent(p) == p # last /\ p # NoPayload

Differs(p) == last # p

LastAfter_Kept(p) == IF last = NoPayload THEN p ELSE last

LastAfter(p) == p

(* Compare and overwrite, under the lock of last_payload. *)
Compare ==
  /\ hookAt = "compare"
  /\ \/ /\ Differs(hist[pos])
        /\ last' = LastAfter(hist[pos])
        /\ hookAt' = "collect"
     \/ /\ ~Differs(hist[pos])
        /\ hookAt' = "idle"
        /\ UNCHANGED last
  /\ UNCHANGED <<hist, pos, pending, listeners, pc, got, calls, ghostVars>>

AfterCollect == IF listeners = {} THEN "idle" ELSE "call"

(* Copy the listeners, under their lock. *)
Collect ==
  /\ hookAt = "collect"
  /\ pending' = listeners
  /\ hookAt' = AfterCollect
  /\ UNCHANGED <<hist, pos, last, listeners, pc, got, calls, ghostVars>>

(* Call one of them, outside both locks. *)
Call(l) ==
  /\ hookAt = "call" /\ l \in pending
  /\ pending' = pending \ {l}
  /\ hookAt' = IF pending = {l} THEN "idle" ELSE "call"
  /\ known' = [known EXCEPT ![l] = hist[pos]]
  /\ told' = told \cup {l}
  /\ untold' = IF hist[pos] = last THEN untold \ {l} ELSE untold
  /\ repeated' = IF l \in told \ untold /\ known[l] = hist[pos]
                 THEN repeated \cup {l} ELSE repeated
  /\ UNCHANGED <<hist, pos, last, listeners, pc, got, calls>>

-----------------------------------------------------------------------------
(* payload(). *)

(* The request is answered; the task has not gone on yet.  One that fails  *)
(* changes nothing.                                                        *)
Fetch(c) ==
  /\ pc[c] = "idle" /\ calls[c] < MaxCalls
  /\ pc' = [pc EXCEPT ![c] = "store"]
  /\ got' = [got EXCEPT ![c] = Current]
  /\ calls' = [calls EXCEPT ![c] = @ + 1]
  /\ UNCHANGED <<hist, hookVars, last, listeners, ghostVars>>

(* The answer overwrites last_payload; no listener is called. *)
Store(c) ==
  /\ pc[c] = "store"
  /\ pc' = [pc EXCEPT ![c] = "idle"]
  /\ last' = got[c]
  /\ untold' = IF got[c] = last THEN untold ELSE Listeners
  /\ UNCHANGED <<hist, hookVars, listeners, got, calls, known, told, repeated>>

Next ==
  \/ Update
  \/ Line \/ Compare \/ Collect
  \/ \E l \in Listeners : OnPayloadChange(l) \/ Unsubscribe(l) \/ Call(l)
  \/ \E c \in Callers : Fetch(c) \/ Store(c)

Spec == Init /\ [][Next]_vars

-----------------------------------------------------------------------------
(* Properties. *)

(* The stream has carried the current state and the hook is done with it.  *)
CaughtUp == hookAt = "idle" /\ pos = Len(hist)

(* A listener that has been there all the time has been told the current   *)
(* payload last, unless a payload() has overwritten what the hook compares *)
(* with and no change has been reported to the listener since.             *)
ToldUnlessRead ==
  CaughtUp => \A l \in listeners \ untold : known[l] = Current

(* docs/spec.md:51, "firing only when the value actually differs": except  *)
(* after such a payload(), no listener is told the same value twice.       *)
RepeatsOnlyAfterRead == repeated = {}
=============================================================================
