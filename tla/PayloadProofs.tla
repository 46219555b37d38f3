--------------------------- MODULE PayloadProofs ---------------------------
(***************************************************************************)
(* What payload listeners are told, for any listeners, tasks, payloads and *)
(* number of changes.                                                      *)
(***************************************************************************)
EXTENDS Payload, TLAPS

(* Every variable keeps its type, and no line is read that is not there.   *)
THEOREM TypeCorrect == Spec => []TypeOK
<1> USE PayloadAssumption DEF Values
<1>1. Init => TypeOK
  <2> SUFFICES ASSUME Init PROVE TypeOK
    OBVIOUS
  <2>1. hist \in Seq(Values) /\ Len(hist) = 1 /\ last \in Values
    BY DEF Init
  <2>2. pc \in [Callers -> {"idle", "store"}] /\ calls \in [Callers -> 0..MaxCalls]
    BY DEF Init
  <2>3. got \in [Callers -> Values] /\ known \in [Listeners -> Values]
    BY DEF Init
  <2>. QED
    BY <2>1, <2>2, <2>3 DEF Init, TypeOK
<1>2. TypeOK /\ [Next]_vars => TypeOK'
  <2> SUFFICES ASSUME TypeOK, [Next]_vars PROVE TypeOK'
    OBVIOUS
  <2> USE DEF TypeOK
  <2>0. /\ Len(hist) \in Nat /\ Current \in Values
        /\ pos # 0 => hist[pos] \in Values
    BY DEF Current
  <2>1. CASE Update
    <3>1. PICK p \in Values : hist' = Append(hist, p)
      BY <2>1 DEF Update
    <3>2. hist' \in Seq(Values) /\ Len(hist') = Len(hist) + 1
      BY <3>1
    <3>. QED
      BY <2>0, <2>1, <3>2 DEF Update, hookVars, ghostVars
  <2>2. CASE Line
    BY <2>2 DEF Line, ghostVars
  <2>3. CASE Compare
    BY <2>0, <2>3 DEF Compare, LastAfter, ghostVars
  <2>4. CASE Collect
    BY <2>4 DEF Collect, AfterCollect, ghostVars
  <2>5. ASSUME NEW l \in Listeners, OnPayloadChange(l) \/ Unsubscribe(l) PROVE TypeOK'
    BY <2>5 DEF OnPayloadChange, Unsubscribe, hookVars, ghostVars
  <2>6. ASSUME NEW l \in Listeners, Call(l) PROVE TypeOK'
    <3>1. known' \in [Listeners -> Values]
      BY <2>0, <2>6 DEF Call
    <3>2. /\ told' \in SUBSET Listeners /\ untold' \in SUBSET Listeners
          /\ repeated' \in SUBSET Listeners /\ pending' \in SUBSET Listeners
      BY <2>6 DEF Call
    <3>3. /\ hookAt' \in {"idle", "call"} /\ (hookAt' = "call" <=> pending' # {})
          /\ hookAt = "call"
      BY <2>6 DEF Call
    <3>. QED
      BY <2>6, <3>1, <3>2, <3>3 DEF Call
  <2>7. ASSUME NEW c \in Callers, Fetch(c) PROVE TypeOK'
    BY <2>0, <2>7 DEF Fetch, hookVars, ghostVars
  <2>8. ASSUME NEW c \in Callers, Store(c) PROVE TypeOK'
    BY <2>8 DEF Store, hookVars
  <2>9. CASE UNCHANGED vars
    BY <2>9 DEF vars
  <2>. QED
    BY <2>1, <2>2, <2>3, <2>4, <2>5, <2>6, <2>7, <2>8, <2>9 DEF Next
<1>. QED
  BY <1>1, <1>2, PTL DEF Spec

-----------------------------------------------------------------------------
(* What the hook and a listener know of each other at each step of the     *)
(* hook, as long as no payload() has come between them.                    *)
KnownShape ==
  \A l \in Listeners \ untold :
    /\ (hookAt \in {"idle", "compare"} /\ l \in listeners) => known[l] = last
    /\ (hookAt = "idle" /\ l \in listeners) => last = Carried
    /\ (hookAt = "collect" /\ l \in listeners) =>
         last = Carried /\ (l \in told => known[l] # last)
    /\ (hookAt = "call" /\ l \in listeners \cup pending) => last = Carried
    /\ (hookAt = "call" /\ l \in pending /\ l \in told) => known[l] # last
    /\ (hookAt = "call" /\ l \in listeners \ pending) => known[l] = last

KnownInv == KnownShape /\ RepeatsOnlyAfterRead

LEMMA KnownInvariant == Spec => []KnownInv
<1>1. Init => KnownInv
  BY DEF Init, KnownInv, KnownShape, RepeatsOnlyAfterRead
<1>2. TypeOK /\ KnownInv /\ [Next]_vars => KnownInv'
  <2> SUFFICES ASSUME TypeOK, KnownInv, [Next]_vars PROVE KnownInv'
    OBVIOUS
  <2> USE DEF KnownInv, KnownShape, RepeatsOnlyAfterRead
  <2>0. pos # 0 => Carried = hist[pos]
    BY DEF Carried
  <2>1. CASE Update
    <3>1. PICK p \in Values : hist' = Append(hist, p)
      BY <2>1 DEF Update
    <3>2. Carried' = Carried
      BY <2>1, <3>1 DEF Update, Carried, hookVars, TypeOK
    <3>. QED
      BY <2>1, <3>2 DEF Update, hookVars, ghostVars
  <2>2. CASE Line
    BY <2>2 DEF Line, ghostVars
  <2>3. CASE Compare
    <3>1. pos # 0 /\ Carried' = hist[pos]
      BY <2>3 DEF Compare, Carried, TypeOK
    <3>2. CASE last # hist[pos] /\ last' = hist[pos] /\ hookAt' = "collect"
      BY <2>3, <3>1, <3>2 DEF Compare, ghostVars
    <3>3. CASE last = hist[pos] /\ last' = last /\ hookAt' = "idle"
      BY <2>3, <3>1, <3>3 DEF Compare, ghostVars
    <3>. QED
      BY <2>3, <3>2, <3>3 DEF Compare, Differs, LastAfter
  <2>4. CASE Collect
    BY <2>4 DEF Collect, AfterCollect, ghostVars, Carried, TypeOK
  <2>5. ASSUME NEW l \in Listeners, OnPayloadChange(l) PROVE KnownInv'
    <3>1. \A m \in Listeners : known'[m] = IF m = l THEN last ELSE known[m]
      BY <2>5 DEF OnPayloadChange, TypeOK
    <3>2. Carried' = Carried
      BY <2>5 DEF OnPayloadChange, hookVars, Carried
    <3>3. \A m \in Listeners \ untold' :
            IF m = l THEN hookAt = "compare" \/ last = Carried ELSE m \notin untold
      BY <2>5 DEF OnPayloadChange
    <3>. QED
      BY <2>5, <3>1, <3>2, <3>3 DEF OnPayloadChange, hookVars
  <2>6. ASSUME NEW l \in Listeners, Unsubscribe(l) PROVE KnownInv'
    BY <2>6 DEF Unsubscribe, hookVars, ghostVars, Carried
  <2>7. ASSUME NEW l \in Listeners, Call(l) PROVE KnownInv'
    <3>1. /\ hookAt = "call" /\ l \in pending /\ pos # 0
          /\ Carried = hist[pos] /\ Carried' = Carried
          /\ UNCHANGED <<last, listeners>>
      BY <2>0, <2>7 DEF Call, Carried, TypeOK
    <3>2. \A m \in Listeners : known'[m] = IF m = l THEN hist[pos] ELSE known[m]
      BY <2>7 DEF Call, TypeOK
    <3>3. repeated' = {}
      BY <2>7, <3>1 DEF Call
    <3>4. \A m \in Listeners \ untold' :
            IF m = l THEN last = hist[pos] ELSE m \notin untold
      BY <2>7, <3>1 DEF Call
    <3>5. /\ pending' = pending \ {l} /\ told' = told \cup {l}
          /\ hookAt' = IF pending = {l} THEN "idle" ELSE "call"
      BY <2>7 DEF Call
    <3>6. hookAt' = "idle" => pending' = {}
      BY <3>5
    <3>. QED
      BY <3>1, <3>2, <3>3, <3>4, <3>5, <3>6
  <2>8. ASSUME NEW c \in Callers, Fetch(c) PROVE KnownInv'
    BY <2>8 DEF Fetch, hookVars, ghostVars, Carried
  <2>9. ASSUME NEW c \in Callers, Store(c) PROVE KnownInv'
    BY <2>9 DEF Store, hookVars, Carried
  <2>10. CASE UNCHANGED vars
    BY <2>10 DEF vars, Carried
  <2>. QED
    BY <2>1, <2>2, <2>3, <2>4, <2>5, <2>6, <2>7, <2>8, <2>9, <2>10 DEF Next
<1>. QED
  BY <1>1, <1>2, TypeCorrect, PTL DEF Spec

(* Once the hook has caught up, whoever has listened all along knows the   *)
(* current payload, unless a payload() came between.                       *)
THEOREM ListenersAreTold == Spec => []ToldUnlessRead
<1>1. TypeOK /\ KnownInv => ToldUnlessRead
  BY DEF TypeOK, KnownInv, KnownShape, ToldUnlessRead, CaughtUp, Carried, Current
<1>. QED
  BY <1>1, TypeCorrect, KnownInvariant, PTL

(* No listener is told the same payload twice, unless a payload() came     *)
(* between.                                                                *)
THEOREM NoRepeats == Spec => []RepeatsOnlyAfterRead
<1>1. KnownInv => RepeatsOnlyAfterRead
  BY DEF KnownInv
<1>. QED
  BY <1>1, KnownInvariant, PTL
=============================================================================
