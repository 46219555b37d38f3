------------------------------ MODULE Connect ------------------------------
(***************************************************************************)
(* connect() of the Rust SDK: which transport it takes, and the probe that *)
(* is retried until the runtime answers or the budget is spent             *)
(* (sdk/rust/gameflow/src/gameflow.rs).                                    *)
(*                                                                         *)
(* Time is counted from the call, in a unit that the constants share.  A   *)
(* sleep lasts as long as it was asked to, and what runs between two       *)
(* awaits takes no time.                                                   *)
(***************************************************************************)
EXTENDS Integers

CONSTANTS
  InitialBackoff,   \* INITIAL_PROBE_BACKOFF
  MaxBackoff,       \* MAX_PROBE_BACKOFF
  ConnectTimeout,   \* ConnectOptions::connect_timeout
  RequestTimeout,   \* ConnectOptions::request_timeout
  LatestUp          \* bound: the runtime comes up no later, or it never does

ASSUME ConnectAssumption ==
  /\ InitialBackoff \in Nat \ {0}
  /\ MaxBackoff \in Nat /\ InitialBackoff <= MaxBackoff
  /\ ConnectTimeout \in Nat
  /\ RequestTimeout \in Nat
  /\ LatestUp \in Nat

VARIABLES
  option,      \* ConnectOptions::mode
  envMode,     \* GAMEFLOW_SDK_MODE; "other" is any other value, or none
  envPort,     \* AGONES_SDK_HTTP_PORT: "none" is unset or empty, "bad" no port
  onDefault,   \* the runtime listens on the default port
  upAt,        \* when the runtime begins to answer; -1 for never
  mode,        \* what resolve_mode said
  pc,          \* where connect() is
  now,         \* the time
  backoff      \* the wait before the next probe, without jitter

inputs == <<option, envMode, envPort, onDefault, upAt, mode>>
vars == <<inputs, pc, now, backoff>>

Options == {"auto", "sidecar", "local"}
EnvModes == {"sidecar", "local", "other"}
EnvPorts == {"none", "bad", "good"}

TypeOK ==
  /\ option \in Options
  /\ envMode \in EnvModes
  /\ envPort \in EnvPorts
  /\ onDefault \in BOOLEAN
  /\ upAt \in -1..LatestUp
  /\ mode \in {"sidecar", "local"}
  /\ pc \in {"probe", "decide", "connected", "failed"}
  /\ now \in Nat
  /\ backoff \in InitialBackoff..MaxBackoff

ResolveMode_ParsesPort(o, m, p) ==
  IF o # "auto" THEN o
  ELSE IF m # "other" THEN m
  ELSE IF p = "good" THEN "sidecar" ELSE "local"

(* An explicit choice, then the environment's, then whether a port is set, *)
(* usable or not.                                                          *)
ResolveMode(o, m, p) ==
  IF o # "auto" THEN o
  ELSE IF m # "other" THEN m
  ELSE IF p # "none" THEN "sidecar" ELSE "local"

(* sidecar_port: whatever is no port stands for the default one. *)
PortReaches(p) == p = "good" \/ onDefault

Init ==
  /\ option \in Options /\ envMode \in EnvModes /\ envPort \in EnvPorts
  /\ onDefault \in BOOLEAN
  /\ upAt \in -1..LatestUp
  /\ mode = ResolveMode(option, envMode, envPort)
  /\ pc = "probe"
  /\ now = 0
  /\ backoff = InitialBackoff

(* The runtime answers what reaches it at time t. *)
Answers(t) == PortReaches(envPort) /\ upAt # -1 /\ upAt <= t

(* get_game_server is called and returns within the timeout of a request;  *)
(* in local mode at once.  A runtime that was up when the probe was sent   *)
(* has answered it; one that came up meanwhile may have.                   *)
Probe ==
  /\ pc = "probe"
  /\ \/ /\ mode = "local"
        /\ pc' = "connected" /\ UNCHANGED now
     \/ /\ mode = "sidecar"
        /\ now' \in now..(now + RequestTimeout)
        /\ \/ Answers(now') /\ pc' = "connected"
           \/ ~Answers(now) /\ pc' = "decide"
  /\ UNCHANGED <<inputs, backoff>>

(* +/- 20% around the backoff. *)
Jitter(b) == {w \in Nat : 4 * b <= 5 * w /\ 5 * w <= 6 * b}

OutOfTime_WaitIgnored(wait) == now >= ConnectTimeout

OutOfTime(wait) == now + wait >= ConnectTimeout

NextBackoff_Uncapped == 2 * backoff

NextBackoff == IF 2 * backoff <= MaxBackoff THEN 2 * backoff ELSE MaxBackoff

(* After a failure, whatever its kind: give up, or sleep and try again. *)
Decide ==
  /\ pc = "decide"
  /\ \E wait \in 0..(2 * backoff) :
       /\ wait \in Jitter(backoff)
       /\ \/ OutOfTime(wait) /\ pc' = "failed" /\ UNCHANGED <<now, backoff>>
          \/ /\ ~OutOfTime(wait)
             /\ pc' = "probe"
             /\ now' = now + wait
             /\ backoff' = NextBackoff
  /\ UNCHANGED inputs

Next == Probe \/ Decide

Spec == Init /\ [][Next]_vars

-----------------------------------------------------------------------------
(* Properties. *)

(* connect() never lasts longer than its budget and one request: a retry   *)
(* whose sleep would pass the deadline is not begun (gameflow.rs:302-310). *)
ReturnsInTime ==
  now <= RequestTimeout \/ now < ConnectTimeout + RequestTimeout

(* A runtime that comes up early enough is found: earlier than one longest *)
(* wait and one request before the deadline.                               *)
FindsRuntime ==
  (pc = "failed" /\ PortReaches(envPort) /\ upAt # -1) =>
    5 * (upAt + RequestTimeout) + 6 * MaxBackoff >= 5 * ConnectTimeout

(* "a real pod with a malformed port must still fail hard rather than      *)
(* silently fall back to local mode" (gameflow.rs:485-487): with a port    *)
(* set and local mode not asked for, a connected handle has reached the    *)
(* runtime.                                                                *)
ConnectedMeansReached ==
  (pc = "connected" /\ envPort # "none" /\ "local" \notin {option, envMode}) =>
    Answers(now)
=============================================================================
