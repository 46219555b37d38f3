-------------------------- MODULE TransportProofs --------------------------
(***************************************************************************)
(* How the SDK finds the runtime and what its watch stream carries: the    *)
(* bounds of connect() for every backoff, budget, request timeout and      *)
(* moment at which the runtime comes up, and the framing and decoding of   *)
(* the stream for every number of lines, connections and chunks, every     *)
(* width of an integer and every kind of double.                           *)
(***************************************************************************)
EXTENDS Connect, Wire, SequenceTheorems, TLAPS

(* Every variable keeps its type; the backoff stays within its two bounds. *)
THEOREM TypeCorrect == Spec => []TypeOK
<1>1. Init => TypeOK
  BY ConnectAssumption DEF Init, TypeOK, ResolveMode, Options, EnvModes
<1>2. TypeOK /\ [Next]_vars => TypeOK'
  <2> SUFFICES ASSUME TypeOK, [Next]_vars PROVE TypeOK'
    OBVIOUS
  <2>1. CASE Probe
    BY <2>1, ConnectAssumption DEF Probe, TypeOK, inputs
  <2>2. CASE Decide
    <3>1. PICK wait \in Jitter(backoff) :
            \/ pc' = "failed" /\ UNCHANGED <<now, backoff>>
            \/ pc' = "probe" /\ now' = now + wait /\ backoff' = NextBackoff
      BY <2>2 DEF Decide
    <3>2. NextBackoff \in InitialBackoff..MaxBackoff
      BY ConnectAssumption DEF NextBackoff, TypeOK
    <3>3. wait \in Nat
      BY <3>1 DEF Jitter
    <3>4. UNCHANGED inputs
      BY <2>2 DEF Decide
    <3>. QED
      BY <3>1, <3>2, <3>3, <3>4 DEF TypeOK, inputs
  <2>3. CASE UNCHANGED vars
    BY <2>3 DEF vars, inputs, TypeOK
  <2>. QED
    BY <2>1, <2>2, <2>3 DEF Next
<1>. QED
  BY <1>1, <1>2, PTL DEF Spec

-----------------------------------------------------------------------------
(* A probe is sent at once or before the deadline; when one has failed, it *)
(* was sent before the runtime came up; and a connected handle that is not *)
(* local has been answered.                                                *)
ProbeInv ==
  /\ pc = "probe" => now = 0 \/ now < ConnectTimeout
  /\ ReturnsInTime
  /\ (pc = "decide" /\ PortReaches(envPort) /\ upAt # -1) =>
       now < upAt + RequestTimeout
  /\ FindsRuntime
  /\ mode = ResolveMode(option, envMode, envPort)
  /\ pc = "connected" => mode = "local" \/ Answers(now)

LEMMA ProbeInvariant == Spec => []ProbeInv
<1>1. Init => ProbeInv
  BY ConnectAssumption DEF Init, ProbeInv, ReturnsInTime, FindsRuntime
<1>2. TypeOK /\ ProbeInv /\ [Next]_vars => ProbeInv'
  <2> SUFFICES ASSUME TypeOK, ProbeInv, [Next]_vars PROVE ProbeInv'
    OBVIOUS
  <2>1. CASE Probe
    <3>1. UNCHANGED inputs /\ pc = "probe" /\ pc' \in {"connected", "decide"}
      BY <2>1 DEF Probe
    <3>2. now' \in now..(now + RequestTimeout)
      BY <2>1, ConnectAssumption DEF Probe, TypeOK
    <3>3. ReturnsInTime'
      BY <3>1, <3>2, ConnectAssumption DEF ProbeInv, ReturnsInTime, TypeOK
    <3>4. pc' = "decide" => ~Answers(now)
      BY <2>1 DEF Probe
    <3>5. (pc' = "decide" /\ PortReaches(envPort) /\ upAt # -1) =>
            now' < upAt + RequestTimeout
      BY <3>2, <3>4, ConnectAssumption DEF Answers, TypeOK
    <3>6. pc' = "connected" => mode = "local" \/ Answers(now')
      BY <2>1 DEF Probe
    <3>7. /\ (pc = "connected" => mode = "local" \/ Answers(now))'
          /\ ((pc = "decide" /\ PortReaches(envPort) /\ upAt # -1) =>
                now < upAt + RequestTimeout)'
      BY <3>1, <3>5, <3>6 DEF inputs, Answers, PortReaches
    <3>8. mode' = ResolveMode(option, envMode, envPort)'
      BY <3>1 DEF inputs, ProbeInv, ResolveMode
    <3>. QED
      BY <3>1, <3>3, <3>7, <3>8 DEF ProbeInv, FindsRuntime
  <2>2. CASE Decide
    <3>1. UNCHANGED inputs /\ pc = "decide"
      BY <2>2 DEF Decide
    <3>2. PICK wait \in Jitter(backoff) :
            \/ OutOfTime(wait) /\ pc' = "failed" /\ now' = now
            \/ ~OutOfTime(wait) /\ pc' = "probe" /\ now' = now + wait
      BY <2>2 DEF Decide
    <3>3. wait \in Nat /\ 5 * wait <= 6 * MaxBackoff
      BY <3>2, ConnectAssumption DEF Jitter, TypeOK
    <3>4. CASE OutOfTime(wait) /\ pc' = "failed" /\ now' = now
      <4>1. (PortReaches(envPort) /\ upAt # -1) =>
              5 * (upAt + RequestTimeout) + 6 * MaxBackoff >= 5 * ConnectTimeout
        BY <3>1, <3>3, <3>4, ConnectAssumption DEF ProbeInv, OutOfTime, TypeOK
      <4>2. FindsRuntime'
        BY <3>1, <4>1 DEF FindsRuntime, inputs, PortReaches
      <4>3. ReturnsInTime'
        BY <3>4 DEF ProbeInv, ReturnsInTime
      <4>. QED
        BY <3>1, <3>4, <4>2, <4>3 DEF ProbeInv, inputs, ResolveMode
    <3>5. CASE ~OutOfTime(wait) /\ pc' = "probe" /\ now' = now + wait
      <4>1. now' \in Nat /\ now' < ConnectTimeout
        BY <3>3, <3>5, ConnectAssumption DEF OutOfTime, TypeOK
      <4>2. ReturnsInTime'
        BY <4>1, ConnectAssumption DEF ReturnsInTime
      <4>. QED
        BY <3>1, <3>5, <4>1, <4>2
           DEF ProbeInv, FindsRuntime, inputs, ResolveMode
    <3>. QED
      BY <3>2, <3>4, <3>5
  <2>3. CASE UNCHANGED vars
    BY <2>3 DEF vars, inputs, ProbeInv, ReturnsInTime, FindsRuntime, ResolveMode,
                Answers, PortReaches
  <2>. QED
    BY <2>1, <2>2, <2>3 DEF Next
<1>. QED
  BY <1>1, <1>2, TypeCorrect, PTL DEF Spec

(* connect() lasts no longer than its budget and one request.              *)
THEOREM ConnectIsBounded == Spec => []ReturnsInTime
<1>1. ProbeInv => ReturnsInTime
  BY DEF ProbeInv
<1>. QED
  BY <1>1, ProbeInvariant, PTL

(* A runtime that comes up early enough before the deadline is found.      *)
THEOREM RuntimeIsFound == Spec => []FindsRuntime
<1>1. ProbeInv => FindsRuntime
  BY DEF ProbeInv
<1>. QED
  BY <1>1, ProbeInvariant, PTL

(* With a port set and local mode not asked for, a connected handle has    *)
(* reached the runtime.                                                    *)
THEOREM NoSilentFallback == Spec => []ConnectedMeansReached
<1>1. TypeOK /\ ProbeInv => ConnectedMeansReached
  BY DEF TypeOK, ProbeInv, ConnectedMeansReached, ResolveMode, Options, EnvModes
<1>. QED
  BY <1>1, TypeCorrect, ProbeInvariant, PTL

-----------------------------------------------------------------------------
(* What the watch stream carries: numbers.                                 *)

(* A double between a number and its own would be nearer.                  *)
LEMMA Nearest ==
  ASSUME NEW n \in Numbers, n \in Int, NEW d \in Doubles
  PROVE  /\ Round(n) \in Int /\ d \in Int
         /\ d <= n => d <= Round(n)
         /\ n <= d => Round(n) <= d
<1>1. Round(n) \in Int /\ d \in Int /\ Abs(Round(n) - n) <= Abs(d - n)
  BY DoubleAssumption
<1>. QED
  BY <1>1 DEF Abs

(* A number is read from the literal as it stands or from the nearest      *)
(* double.                                                                 *)
LEMMA DoubleRead ==
  ASSUME NEW n \in Numbers, n \in Int, NEW v \in FromDouble(Round(n))
  PROVE  v \in MIN..MAX /\ (v = n \/ (Abs(n) > Precise /\ Abs(v - n) < Grain))
<1> DEFINE r == Round(n)
<1>1. /\ MAX \in Nat /\ MIN = -MAX - 1 /\ UMAX = 2 * MAX + 1 /\ Precise \in 0..MAX
      /\ Grain \in Nat /\ Grain > 2
  BY WireAssumption DEF MIN, UMAX
<1>2. /\ MIN \in Numbers /\ MAX \in Numbers
      /\ -(UMAX + 1) \in Doubles /\ MIN \in Doubles /\ MAX + 1 \in Doubles /\ UMAX + 1 \in Doubles
  BY DoubleAssumption DEF Numbers
<1>3. r \in Int /\ (Abs(n) <= UMAX + 1 => 2 * Abs(r - n) <= Grain)
  BY DoubleAssumption
<1>4. Round(MIN) = MIN
  BY <1>1, <1>2, Nearest
<1>5. Round(MAX) \in Int /\ Round(MAX) <= MAX + 1
  BY <1>1, <1>2, Nearest
<1>6. v = Clamped(r) /\ r >= MIN /\ r <= MAX + 1
  BY <1>1, <1>3, <1>4, <1>5 DEF FromDouble
<1>7. v \in MIN..MAX /\ (v = r \/ (r = MAX + 1 /\ v = MAX))
  BY <1>1, <1>3, <1>6 DEF Clamped
<1>8. Abs(n) <= UMAX + 1
  <2>1. /\ UMAX + 1 <= n => UMAX + 1 <= r
        /\ n <= -(UMAX + 1) => r <= -(UMAX + 1)
    BY <1>2, Nearest
  <2>. QED
    BY <1>1, <1>3, <1>6, <2>1 DEF Abs
<1>9. Abs(n) <= Precise => r = n
  <2>1. Abs(n) <= Precise => n \in Doubles
    BY <1>1, DoubleAssumption DEF Abs
  <2>. QED
    BY <1>3, <2>1, Nearest
<1>10. 2 * Abs(r - n) <= Grain
  BY <1>3, <1>8
<1>11. Abs(v - n) < Grain
  BY <1>1, <1>3, <1>7, <1>10 DEF Abs
<1>12. Abs(n) <= Precise => v = n
  BY <1>1, <1>3, <1>7, <1>9 DEF Abs
<1>. QED
  BY <1>1, <1>7, <1>11, <1>12 DEF Abs

LEMMA NumberRead ==
  ASSUME NEW body \in Bodies, NEW v \in Number(body.capacity)
  PROVE  v \in MIN..MAX /\ SameNumber(body.capacity, v)
<1> DEFINE json == body.capacity
           n == json.n
<1>1. /\ n \in Int /\ n \in Numbers
      /\ json.form \in {"absent", "null", "literal", "double", "string", "half", "other"}
  BY WireAssumption DEF Bodily, Numbers
<1>2. MAX \in Nat /\ MIN = -MAX - 1 /\ UMAX = 2 * MAX + 1
  BY WireAssumption DEF MIN, UMAX
<1>3. ASSUME v = n, v \in MIN..MAX, json.form \notin {"absent", "null"}
      PROVE  v \in MIN..MAX /\ SameNumber(body.capacity, v)
  BY <1>3 DEF SameNumber
<1>4. ASSUME v \in FromDouble(Round(n)), json.form \notin {"absent", "null"}
      PROVE  v \in MIN..MAX /\ SameNumber(body.capacity, v)
  <2>1. v \in MIN..MAX /\ (v = n \/ (Abs(n) > Precise /\ Abs(v - n) < Grain))
    BY <1>1, <1>4, DoubleRead
  <2>. QED
    BY <1>4, <2>1 DEF SameNumber
<1>5. CASE json.form \in {"absent", "null"}
  BY <1>2, <1>5 DEF Number, SameNumber
<1>6. CASE json.form = "literal"
  <2>1. v \in FromLiteral(n)
    BY <1>6 DEF Number
  <2>2. CASE n \in 0..UMAX
    BY <1>1, <1>2, <1>3, <1>6, <2>1, <2>2 DEF FromLiteral, FromUnsigned
  <2>3. CASE n \in MIN..(-1)
    BY <1>1, <1>2, <1>3, <1>6, <2>1, <2>3 DEF FromLiteral
  <2>4. CASE n \notin 0..UMAX /\ n \notin MIN..(-1)
    BY <1>4, <1>6, <2>1, <2>4 DEF FromLiteral
  <2>. QED
    BY <2>2, <2>3, <2>4
<1>7. CASE json.form = "double"
  BY <1>4, <1>7 DEF Number
<1>8. CASE json.form = "string"
  BY <1>3, <1>8 DEF Number, FromString
<1>9. CASE json.form \in {"half", "other"}
  BY <1>9 DEF Number
<1>. QED
  BY <1>1, <1>5, <1>6, <1>7, <1>8, <1>9

(* What the sink is given of a line that can be read.                      *)
LEMMA SnapshotRead ==
  ASSUME NEW body \in Bodies, Readable(body)
  PROVE  /\ Snapshot(body) \in Snapshots
         /\ body.lists = "players" =>
              /\ Snapshot(body).exists
              /\ Snapshot(body).capacity \in Number(body.capacity)
              /\ Snapshot(body).values = Values(body.values)
         /\ body.lists # "players" => ~Snapshot(body).exists
<1>1. CASE body.lists # "players"
  <2>1. 0 \in MIN..MAX
    BY WireAssumption DEF MIN
  <2>2. Snapshot(body) = [exists |-> FALSE, capacity |-> 0, values |-> {}]
    BY <1>1 DEF Snapshot, Disabled
  <2>. QED
    BY <1>1, <2>1, <2>2 DEF Snapshots
<1>2. CASE body.lists = "players"
  <2>1. PICK c : /\ c \in Number(body.capacity)
                 /\ Snapshot(body) = [exists |-> TRUE, capacity |-> c,
                                      values |-> Values(body.values)]
    <3>1. \E v : v \in Number(body.capacity)
      BY <1>2 DEF Readable
    <3>2. (CHOOSE w \in Number(body.capacity) : TRUE) \in Number(body.capacity)
      BY <3>1
    <3>. QED
      BY <1>2, <3>2 DEF Snapshot
  <2>2. c \in MIN..MAX
    BY <2>1, NumberRead
  <2>3. Values(body.values) \in SUBSET {"p"}
    BY DEF Values
  <2>. QED
    BY <1>2, <2>1, <2>2, <2>3 DEF Snapshots
<1>. QED
  BY <1>1, <1>2

LEMMA NameRead == \A body : Name(body) \in {"gs", ""}
  BY DEF Name

-----------------------------------------------------------------------------
(* Types.                                                                  *)
LEMMA SequencePrefix ==
  ASSUME NEW S, NEW s \in Seq(S), NEW n \in 0..Len(s)
  PROVE  /\ SubSeq(s, 1, n) \in Seq(S) /\ Len(SubSeq(s, 1, n)) = n
         /\ \A k \in 1..n : SubSeq(s, 1, n)[k] = s[k]
  OBVIOUS

LEMMA SequenceRest ==
  ASSUME NEW S, NEW s \in Seq(S), NEW n \in 0..Len(s)
  PROVE  /\ SubSeq(s, n + 1, Len(s)) \in Seq(S)
         /\ Len(SubSeq(s, n + 1, Len(s))) = Len(s) - n
         /\ \A k \in 1..(Len(s) - n) : SubSeq(s, n + 1, Len(s))[k] = s[n + k]
  OBVIOUS

LEMMA SequenceJoin ==
  ASSUME NEW S, NEW s \in Seq(S), NEW t \in Seq(S)
  PROVE  /\ s \o t \in Seq(S) /\ Len(s \o t) = Len(s) + Len(t)
         /\ \A k \in 1..Len(s) : (s \o t)[k] = s[k]
         /\ \A k \in 1..Len(t) : (s \o t)[Len(s) + k] = t[k]
  OBVIOUS

LEMMA SequenceFront ==
  ASSUME NEW S, NEW s \in Seq(S), NEW e \in S
  PROVE  SubSeq(Append(s, e), 1, Len(s)) = s
  OBVIOUS

LEMMA TwoBytes ==
  ASSUME NEW S, NEW a \in S, NEW b \in S
  PROVE  <<a, b>> \in Seq(S) /\ Len(<<a, b>>) = 2 /\ <<a, b>>[1] = a /\ <<a, b>>[2] = b
  OBVIOUS

LEMMA SequenceSplit ==
  ASSUME NEW S, NEW s \in Seq(S), NEW t \in Seq(S), NEW n \in 0..Len(t)
  PROVE  (s \o SubSeq(t, 1, n)) \o SubSeq(t, n + 1, Len(t)) = s \o t
<1> DEFINE a == SubSeq(t, 1, n)
           b == SubSeq(t, n + 1, Len(t))
<1>1. a \in Seq(S) /\ b \in Seq(S)
  BY SequencePrefix, SequenceRest
<1>2. a \o b = t
  <2>1. 1 \in 1..(Len(t) + 1) /\ n \in (1 - 1)..Len(t) /\ Len(t) \in n..Len(t)
    OBVIOUS
  <2>. QED
    BY <2>1, ConcatAdjacentSubSeq, SubSeqFull
<1> HIDE DEF a, b
<1>3. (s \o a) \o b = s \o (a \o b)
  BY <1>1, ConcatAssociative
<1>4. (s \o a) \o b = s \o t
  BY <1>2, <1>3
<1>. QED
  BY <1>4 DEF a, b

LEMMA UpdateType ==
  ASSUME WireTypeOK, NEW i \in DOMAIN lines, HasUpdate(lines[i])
  PROVE  Update(i) \in Updates
<1>1. lines[i] \in Bodies /\ i \in 1..MaxLines
  <2>1. lines \in Seq(Bodies) /\ Len(lines) <= MaxLines /\ MaxLines \in Nat
    BY WireAssumption DEF WireTypeOK
  <2>. QED
    BY <2>1
<1>2. Snapshot(lines[i]) \in Snapshots
  BY <1>1, SnapshotRead DEF HasUpdate
<1>3. Name(lines[i]) \in {"gs", ""}
  BY NameRead
<1>. QED
  BY <1>1, <1>2, <1>3 DEF Update, Updates

(* The bytes that Write adds. *)
WrittenText(body) == IF body.says = "nothing" THEN <<>> ELSE <<Len(lines) + 1, Close>>

WrittenCut(line) ==
  [connection |-> Len(got), start |-> got[Len(got)] + Len(wire),
   end |-> got[Len(got)] + Len(wire) + (Len(line) + 1)]

LEMMA Written ==
  ASSUME WireTypeOK, NEW body \in Bodies, Write(body)
  PROVE  \E line \in Seq(Codes) :
           /\ line = WrittenText(body) \/ line = Append(WrittenText(body), Return)
           /\ Append(line, LineFeed) \in Seq(Codes)
           /\ wire' = wire \o Append(line, LineFeed)
           /\ cut' = Append(cut, WrittenCut(line))
           /\ WrittenCut(line) \in Cuts
<1>1. Len(lines) + 1 \in 0..MaxLines /\ Close \in 0..MaxLines
  <2>1. Len(lines) \in Nat /\ Len(lines) < MaxLines /\ MaxLines \in Nat
    BY WireAssumption DEF Write, WireTypeOK
  <2>. QED
    BY <2>1 DEF Close
<1>2. PICK end \in {<<LineFeed>>, <<Return, LineFeed>>} :
        /\ wire' = wire \o (WrittenText(body) \o end)
        /\ cut' = Append(cut, [connection |-> Len(got), start |-> got[Len(got)] + Len(wire),
                               end |-> got[Len(got)] + Len(wire) + Len(WrittenText(body) \o end)])
  BY DEF Write, WrittenText
<1>3. {Return, LineFeed, Close, Len(lines) + 1} \subseteq Codes
  BY <1>1 DEF Codes
<1>4. WrittenText(body) \in Seq(Codes)
  BY <1>3 DEF WrittenText
<1>5. PICK line \in Seq(Codes) :
        /\ line = WrittenText(body) \/ line = Append(WrittenText(body), Return)
        /\ Append(line, LineFeed) = WrittenText(body) \o end
        /\ Append(line, LineFeed) \in Seq(Codes)
        /\ Len(Append(line, LineFeed)) = Len(line) + 1
        /\ Len(line) \in Nat
  <2> DEFINE text == WrittenText(body)
  <2> HIDE DEF text
  <2>1. text \in Seq(Codes) /\ Return \in Codes /\ LineFeed \in Codes
    BY <1>3, <1>4 DEF text
  <2>2. CASE end = <<LineFeed>>
    <3>1. Append(text, LineFeed) = text \o end
      BY <2>1, <2>2
    <3>. QED
      BY <2>1, <3>1 DEF text
  <2>3. CASE end = <<Return, LineFeed>>
    <3>1. Append(Append(text, Return), LineFeed) = text \o end
      BY <2>1, <2>3
    <3>2. Append(text, Return) \in Seq(Codes)
      BY <2>1
    <3>3. /\ Append(Append(text, Return), LineFeed) \in Seq(Codes)
          /\ Len(Append(Append(text, Return), LineFeed)) = Len(Append(text, Return)) + 1
          /\ Len(Append(text, Return)) \in Nat
      BY <2>1, <3>2
    <3>. QED
      BY <3>1, <3>2, <3>3 DEF text
  <2>. QED
    BY <2>2, <2>3
<1>6. /\ wire' = wire \o Append(line, LineFeed)
      /\ cut' = Append(cut, WrittenCut(line))
  BY <1>2, <1>5 DEF WrittenCut
<1>7. WrittenCut(line) \in Cuts
  <2>1. Len(got) \in Nat /\ got[Len(got)] \in Nat /\ Len(wire) \in Nat
    BY DEF WireTypeOK
  <2>2. Len(line) \in Nat
    BY <1>5
  <2>3. /\ got[Len(got)] + Len(wire) \in Nat
        /\ got[Len(got)] + Len(wire) + (Len(line) + 1) \in Nat
    BY <2>1, <2>2
  <2>. QED
    BY <2>1, <2>3 DEF WrittenCut, Cuts
<1>. QED
  BY <1>5, <1>6, <1>7

LEMMA WireTypeStep == WireTypeOK /\ [WireNext]_wireVars => WireTypeOK'
<1> SUFFICES ASSUME WireTypeOK, [WireNext]_wireVars PROVE WireTypeOK'
  OBVIOUS
<1>1. ASSUME NEW body \in Bodies, Write(body) PROVE WireTypeOK'
  <2>1. PICK line \in Seq(Codes) :
          /\ Append(line, LineFeed) \in Seq(Codes)
          /\ wire' = wire \o Append(line, LineFeed)
          /\ cut' = Append(cut, WrittenCut(line))
          /\ WrittenCut(line) \in Cuts
    BY <1>1, Written
  <2>2. wire' \in Seq(Codes)
    BY <2>1, SequenceJoin DEF WireTypeOK
  <2>3. cut' \in Seq(Cuts) /\ Len(cut') = Len(cut) + 1
    BY <2>1, AppendProperties DEF WireTypeOK
  <2>4. lines' \in Seq(Bodies) /\ Len(lines') = Len(lines) + 1
    BY <1>1, AppendProperties DEF Write, WireTypeOK
  <2>5. Len(lines') <= MaxLines
    BY <1>1, <2>4, WireAssumption DEF Write, WireTypeOK
  <2>6. UNCHANGED <<link, got, buffer, given>>
    BY <1>1 DEF Write
  <2>. QED
    BY <2>2, <2>3, <2>4, <2>5, <2>6 DEF WireTypeOK
<1>2. ASSUME Receive PROVE WireTypeOK'
  <2>1. PICK n \in 1..Len(wire) :
          /\ buffer' = buffer \o SubSeq(wire, 1, n)
          /\ wire' = SubSeq(wire, n + 1, Len(wire))
          /\ got' = [got EXCEPT ![Len(got)] = @ + n]
    BY <1>2 DEF Receive, Joined
  <2>2. buffer' \in Seq(Codes) /\ wire' \in Seq(Codes)
    BY <2>1, SequencePrefix, SequenceRest, SequenceJoin DEF WireTypeOK
  <2>3. got' \in Seq(Nat) /\ Len(got') = Len(got)
    <3>1. got \in Seq(Nat) /\ n \in Nat
      BY <2>1 DEF WireTypeOK
    <3>2. Len(got) \in Nat /\ got \in [1..Len(got) -> Nat]
      BY <3>1
    <3>3. got[Len(got)] + n \in Nat
      <4>1. Len(got) \in 1..Len(got)
        BY WireAssumption DEF WireTypeOK
      <4>. QED
        BY <3>1, <3>2, <4>1
    <3>4. got' \in [1..Len(got) -> Nat]
      BY <2>1, <3>2, <3>3
    <3>. QED
      BY <3>2, <3>4
  <2>. QED
    BY <1>2, <2>2, <2>3 DEF Receive, WireTypeOK
<1>3. ASSUME Frame PROVE WireTypeOK'
  <2>1. PICK n \in DOMAIN buffer :
          /\ buffer' = SubSeq(buffer, n + 1, Len(buffer))
          /\ \/ UNCHANGED given
             \/ \E i \in DOMAIN lines : HasUpdate(lines[i]) /\ given' = Append(given, Update(i))
    BY <1>3 DEF Frame, HandleLine, Says
  <2>2. buffer' \in Seq(Codes)
    BY <2>1, SequenceRest DEF WireTypeOK
  <2>3. given' \in Seq(Updates)
    <3>1. \A u \in Updates : Append(given, u) \in Seq(Updates)
      BY AppendProperties DEF WireTypeOK
    <3>. QED
      BY <2>1, <3>1, UpdateType DEF WireTypeOK
  <2>. QED
    BY <1>3, <2>2, <2>3 DEF Frame, WireTypeOK
<1>4. ASSUME NEW to \in {"ended", "cancelled"}, Drop(to) PROVE WireTypeOK'
  <2>1. <<>> \in Seq(Codes)
    OBVIOUS
  <2>. QED
    BY <1>4, <2>1 DEF Drop, WireTypeOK
<1>5. ASSUME Reconnect PROVE WireTypeOK'
  <2>1. got' \in Seq(Nat) /\ Len(got') = Len(got) + 1
    BY <1>5, AppendProperties DEF Reconnect, WireTypeOK
  <2>2. Len(got') \in 1..MaxConnections
    BY <1>5, <2>1, WireAssumption DEF Reconnect, WireTypeOK
  <2>. QED
    BY <1>5, <2>1, <2>2 DEF Reconnect, WireTypeOK
<1>6. ASSUME UNCHANGED wireVars PROVE WireTypeOK'
  BY <1>6 DEF wireVars, WireTypeOK
<1>. QED
  BY <1>1, <1>2, <1>3, <1>4, <1>5, <1>6 DEF WireNext, End, Cancel

(* Every variable of the stream keeps its type; in particular every        *)
(* capacity that the SDK is given is an integer of the machine.            *)
THEOREM WireTypeCorrect == WireSpec => []WireTypeOK
<1>1. WireInit => WireTypeOK
  BY WireAssumption DEF WireInit, WireTypeOK
<1>. QED
  BY <1>1, WireTypeStep, PTL DEF WireSpec

-----------------------------------------------------------------------------
(* The stream.  Base is the place of the first byte of the buffer in its   *)
(* connection, Bytes is what follows there, received or not.  A line is    *)
(* framed if it was taken out of the buffer, and pending until then.       *)
Base == got[Len(got)] - Len(buffer)

Bytes == buffer \o wire

Framed(i) ==
  \/ cut[i].connection < Len(got) /\ Arrived(i)
  \/ cut[i].connection = Len(got) /\ cut[i].end <= Base

Pending(i) == cut[i].connection = Len(got) /\ cut[i].end > Base

Spellings(i) == {Text(i), Append(Text(i), Return)}

Holds(i, line) ==
  /\ cut[i].end = cut[i].start + Len(line) + 1
  /\ \A k \in 1..Len(line) : Bytes[cut[i].start - Base + k] = line[k]
  /\ Bytes[cut[i].end - Base] = LineFeed

(* Lines follow one another, on one connection and from one to the next.   *)
CutShape ==
  /\ \A i \in DOMAIN lines :
       cut[i].connection \in 1..Len(got) /\ cut[i].start < cut[i].end
  /\ \A i, j \in DOMAIN lines : i < j =>
       \/ cut[i].connection < cut[j].connection
       \/ cut[i].connection = cut[j].connection /\ cut[i].end <= cut[j].start
  /\ Len(buffer) <= got[Len(got)]
  /\ link # "open" => buffer = <<>> /\ wire = <<>>

(* The bytes of an open stream are the pending lines, one after the other: *)
(* each follows another or comes first, and every line feed ends one.      *)
PendingShape ==
  \A i \in DOMAIN lines : Pending(i) =>
    /\ cut[i].start >= Base /\ cut[i].end <= Base + Len(Bytes)
    /\ \E line \in Spellings(i) : Holds(i, line)
    /\ cut[i].start = Base \/ \E j \in DOMAIN lines : Pending(j) /\ cut[j].end = cut[i].start

BreakShape ==
  /\ \A p \in 1..Len(Bytes) : Bytes[p] = LineFeed =>
       \E i \in DOMAIN lines : Pending(i) /\ cut[i].end = Base + p
  /\ Len(Bytes) > 0 => Bytes[Len(Bytes)] = LineFeed

StreamShape == link = "open" => PendingShape /\ BreakShape

(* The sink was given the updates of the framed lines, in order.           *)
GivenShape ==
  /\ \A k \in DOMAIN given : \E i \in DOMAIN lines :
       given[k] = Update(i) /\ Framed(i) /\ HasUpdate(lines[i])
  /\ \A i \in DOMAIN lines : Framed(i) /\ HasUpdate(lines[i]) =>
       \E k \in DOMAIN given : given[k] = Update(i)
  /\ \A j, k \in DOMAIN given : j < k => given[j].line < given[k].line

LEMMA BytesType ==
  ASSUME WireTypeOK, CutShape
  PROVE  /\ Base \in Nat /\ Len(got) \in Nat \ {0} /\ got[Len(got)] \in Nat
         /\ Len(buffer) \in Nat /\ Len(wire) \in Nat
         /\ Base + Len(buffer) = got[Len(got)]
         /\ Bytes \in Seq(Codes) /\ Len(Bytes) = Len(buffer) + Len(wire)
         /\ \A p \in 1..Len(buffer) : Bytes[p] = buffer[p]
         /\ \A p \in 1..Len(wire) : Bytes[Len(buffer) + p] = wire[p]
<1>1. Len(got) \in Nat \ {0} /\ got[Len(got)] \in Nat
  BY DEF WireTypeOK
<1>2. buffer \in Seq(Codes) /\ wire \in Seq(Codes) /\ Len(buffer) <= got[Len(got)]
  BY DEF WireTypeOK, CutShape
<1>3. Len(buffer) \in Nat /\ Len(wire) \in Nat
  BY <1>2
<1>. QED
  BY <1>1, <1>2, <1>3, SequenceJoin DEF Base, Bytes

LEMMA CutType ==
  ASSUME WireTypeOK, NEW i \in DOMAIN lines
  PROVE  /\ i \in Nat \ {0} /\ i <= Len(lines) /\ Len(lines) \in Nat /\ i \in 0..MaxLines
         /\ cut[i].connection \in Nat /\ cut[i].start \in Nat /\ cut[i].end \in Nat
<1>1. lines \in Seq(Bodies) /\ cut \in Seq(Cuts) /\ Len(cut) = Len(lines) /\ Len(lines) <= MaxLines
  BY DEF WireTypeOK
<1>2. i \in 1..Len(lines) /\ Len(lines) \in Nat /\ cut[i] \in Cuts
  BY <1>1
<1>3. /\ i \in Nat \ {0} /\ i <= Len(lines) /\ i \in 0..MaxLines
  BY <1>1, <1>2, WireAssumption
<1>4. cut[i].connection \in Nat /\ cut[i].start \in Nat /\ cut[i].end \in Nat
  BY <1>2 DEF Cuts
<1>. QED
  BY <1>2, <1>3, <1>4

LEMMA TextType ==
  ASSUME WireTypeOK, NEW i \in DOMAIN lines
  PROVE  /\ Text(i) \in Seq(Codes) /\ Append(Text(i), Return) \in Seq(Codes)
         /\ \/ Text(i) = <<>> /\ ~HasUpdate(lines[i])
            \/ Len(Text(i)) = 2 /\ Text(i)[1] = i /\ Text(i)[2] = 0
<1>1. i \in Codes /\ 0 \in Codes /\ Return \in Codes
  BY CutType, WireAssumption DEF Codes
<1>2. \/ Text(i) = <<>> /\ ~HasUpdate(lines[i])
      \/ Text(i) = <<i, 0>>
  BY DEF Text, Close, HasUpdate
<1>3. <<i, 0>> \in Seq(Codes) /\ Len(<<i, 0>>) = 2 /\ <<i, 0>>[1] = i /\ <<i, 0>>[2] = 0
  BY <1>1, TwoBytes
<1>4. Text(i) \in Seq(Codes)
  <2>1. <<>> \in Seq(Codes)
    OBVIOUS
  <2>. QED
    BY <1>2, <1>3, <2>1
<1>. QED
  BY <1>1, <1>2, <1>3, <1>4, AppendProperties

(* A text with a carriage return. *)
LEMMA TextReturned ==
  ASSUME NEW s \in Seq(Codes)
  PROVE  LET line == Append(s, Return)
         IN  /\ Len(line) = Len(s) + 1 /\ line[Len(s) + 1] = Return /\ line # <<>>
             /\ \A k \in 1..Len(s) : line[k] = s[k]
             /\ SubSeq(line, 1, Len(line) - 1) = s
<1>1. Return \in Codes
  BY DEF Codes
<1> DEFINE line == Append(s, Return)
<1>2. Len(line) = Len(s) + 1 /\ line[Len(s) + 1] = Return /\ \A k \in 1..Len(s) : line[k] = s[k]
  BY <1>1, AppendProperties
<1>3. SubSeq(line, 1, Len(s)) = s /\ Len(s) \in Nat
  BY <1>1, SequenceFront
<1>4. line # <<>>
  <2>1. Len(line) > 0 /\ Len(<<>>) = 0
    BY <1>2, <1>3
  <2>. QED
    BY <2>1
<1>. QED
  BY <1>2, <1>3, <1>4

(* A line in either spelling has no line feed, and says what it says.      *)
LEMMA SpellingType ==
  ASSUME WireTypeOK, NEW i \in DOMAIN lines, NEW line \in Spellings(i)
  PROVE  /\ line \in Seq(Codes) /\ Len(line) \in Nat
         /\ \A k \in 1..Len(line) : line[k] # LineFeed
         /\ StripReturn(line) = Text(i)
<1> DEFINE text == Text(i)
<1>1. /\ text \in Seq(Codes) /\ Append(text, Return) \in Seq(Codes)
      /\ text = <<>> \/ (Len(text) = 2 /\ text[1] = i /\ text[2] = 0)
      /\ i \in Nat \ {0}
  BY TextType, CutType
<1>2. line = text \/ line = Append(text, Return)
  BY DEF Spellings
<1> HIDE DEF text
<1>3. Len(text) \in Nat /\ \A k \in 1..Len(text) : text[k] # LineFeed /\ text[k] # Return
  BY <1>1 DEF LineFeed, Return
<1>4. CASE line = text
  <2>1. StripReturn(text) = text
    BY <1>1, <1>3 DEF StripReturn
  <2>. QED
    BY <1>1, <1>3, <1>4, <2>1 DEF text
<1>5. CASE line = Append(text, Return)
  <2>1. /\ Len(line) = Len(text) + 1 /\ line[Len(text) + 1] = Return /\ line # <<>>
        /\ \A k \in 1..Len(text) : line[k] = text[k]
        /\ SubSeq(line, 1, Len(line) - 1) = text
    BY <1>1, <1>5, TextReturned
  <2>2. StripReturn(line) = text
    BY <1>3, <2>1 DEF StripReturn
  <2>3. \A k \in 1..Len(line) : line[k] # LineFeed
    BY <1>3, <2>1 DEF LineFeed, Return
  <2>. QED
    BY <1>1, <1>3, <1>5, <2>1, <2>2, <2>3 DEF text
<1>. QED
  BY <1>2, <1>4, <1>5

(* A text that says something is the text of one line only.                *)
LEMMA TextIsOwn ==
  ASSUME WireTypeOK, NEW i \in DOMAIN lines, NEW j \in DOMAIN lines, Says(Text(i), j)
  PROVE  i = j
<1>1. Text(i) \in {Text(j), Append(Text(j), Return)} /\ HasUpdate(lines[j])
  BY DEF Says
<1>2. Len(Text(j)) = 2 /\ Text(j)[1] = j /\ Text(j) \in Seq(Codes)
  BY <1>1, TextType
<1>3. Len(Append(Text(j), Return)) = Len(Text(j)) + 1
  BY <1>2, TextReturned
<1>4. Text(i) = <<>> \/ (Len(Text(i)) = 2 /\ Text(i)[1] = i)
  BY TextType
<1>5. Len(Text(i)) \in {0, 2}
  BY <1>4
<1>6. Text(i) = Text(j)
  BY <1>1, <1>2, <1>3, <1>5
<1>. QED
  BY <1>2, <1>4, <1>6

(* The framed lines, the pending ones and those of other connections.      *)
LEMMA PendingNotFramed ==
  ASSUME WireTypeOK, CutShape, NEW i \in DOMAIN lines
  PROVE  cut[i].connection = Len(got) => (Pending(i) <=> ~Framed(i))
<1>1. cut[i].end \in Nat /\ Base \in Nat /\ Len(got) \in Nat
  BY CutType, BytesType
<1>. QED
  BY <1>1 DEF Pending, Framed

(* Between two rounds of the while-let, whatever has arrived is framed.    *)
LEMMA ArrivedIsFramed ==
  ASSUME WireTypeOK, CutShape, StreamShape, ~Framing, NEW i \in DOMAIN lines
  PROVE  Arrived(i) <=> Framed(i)
<1>1. /\ cut[i].connection \in 1..Len(got) /\ cut[i].end \in Nat /\ cut[i].start \in Nat
      /\ Len(got) \in Nat
  BY CutType, BytesType DEF CutShape
<1>2. CASE cut[i].connection < Len(got)
  BY <1>1, <1>2 DEF Framed
<1>3. CASE cut[i].connection = Len(got)
  <2>1. Arrived(i) <=> cut[i].end <= Base + Len(buffer)
    BY <1>3, BytesType DEF Arrived
  <2>2. ASSUME Arrived(i) PROVE cut[i].end <= Base
    <3> SUFFICES ASSUME cut[i].end > Base PROVE FALSE
      BY <1>1, BytesType
    <3>1. Pending(i)
      BY <1>3 DEF Pending
    <3>2. CASE link = "open"
      <4>1. Bytes[cut[i].end - Base] = LineFeed
        BY <3>1, <3>2 DEF StreamShape, PendingShape, Holds
      <4>2. cut[i].end - Base \in 1..Len(buffer)
        <5>1. /\ cut[i].end \in Nat /\ Base \in Nat /\ Len(buffer) \in Nat
              /\ cut[i].end <= Base + Len(buffer)
          BY <1>1, <2>1, <2>2, BytesType
        <5>. QED
          BY <2>2, <5>1
      <4>3. buffer[cut[i].end - Base] = LineFeed
        BY <4>1, <4>2, BytesType
      <4>. QED
        BY <4>2, <4>3 DEF Framing, WireTypeOK
    <3>3. CASE link # "open"
      BY <1>1, <2>1, <2>2, <3>3, BytesType DEF CutShape
    <3>. QED
      BY <3>2, <3>3
  <2>. QED
    BY <1>1, <1>3, <2>1, <2>2, BytesType DEF Framed
<1>. QED
  BY <1>1, <1>2, <1>3

-----------------------------------------------------------------------------
WireShape == CutShape /\ StreamShape /\ GivenShape

(* A chunk moves bytes from the wire to the buffer, no more.               *)
LEMMA ShapeReceive == ASSUME WireTypeOK, WireShape, Receive PROVE WireShape'
<1> USE DEF WireShape
<1>1. PICK n \in 1..Len(wire) :
        /\ buffer' = buffer \o SubSeq(wire, 1, n)
        /\ wire' = SubSeq(wire, n + 1, Len(wire))
        /\ got' = [got EXCEPT ![Len(got)] = @ + n]
  BY DEF Receive, Joined
<1>2. UNCHANGED <<link, lines, cut, given>> /\ link = "open"
  BY DEF Receive, Waiting
<1>3. wire \in Seq(Codes) /\ buffer \in Seq(Codes) /\ n \in Nat /\ n \in 0..Len(wire)
  BY <1>1 DEF WireTypeOK
<1>4. Len(got') = Len(got) /\ got'[Len(got)] = got[Len(got)] + n
      /\ \A c \in 1..(Len(got) - 1) : got'[c] = got[c]
  BY <1>1 DEF WireTypeOK
<1>5. Len(buffer') = Len(buffer) + n
  BY <1>1, <1>3, SequencePrefix, SequenceJoin
<1>6. Base' = Base
  BY <1>3, <1>4, <1>5, BytesType DEF Base
<1>7. Bytes' = Bytes
  BY <1>1, <1>3, SequenceSplit DEF Bytes
<1>8. \A i \in DOMAIN lines : (Framed(i)' <=> Framed(i)) /\ (Pending(i)' <=> Pending(i))
  <2> SUFFICES ASSUME NEW i \in DOMAIN lines
               PROVE  (Framed(i)' <=> Framed(i)) /\ (Pending(i)' <=> Pending(i))
    OBVIOUS
  <2>1. cut[i].connection \in 1..Len(got) /\ Len(got) \in Nat
    BY BytesType DEF CutShape
  <2>2. cut[i].connection < Len(got) => (Arrived(i)' <=> Arrived(i))
    BY <1>2, <1>4, <2>1 DEF Arrived
  <2>. QED
    BY <1>2, <1>4, <1>6, <2>1, <2>2 DEF Framed, Pending
<1>9. CutShape'
  <2>1. Len(buffer') <= got'[Len(got')]
    BY <1>3, <1>4, <1>5, BytesType DEF CutShape
  <2>. QED
    BY <1>2, <1>4, <2>1 DEF CutShape
<1>10. StreamShape'
  <2>1. \A i \in DOMAIN lines : Spellings(i)' = Spellings(i)
    BY <1>2 DEF Spellings, Text
  <2>2. \A i \in DOMAIN lines : \A line : Holds(i, line)' <=> Holds(i, line)
    BY <1>2, <1>6, <1>7 DEF Holds
  <2>. QED
    BY <1>2, <1>6, <1>7, <1>8, <2>1, <2>2 DEF StreamShape, PendingShape, BreakShape
<1>11. GivenShape'
  BY <1>2, <1>8 DEF GivenShape, Update
<1>. QED
  BY <1>9, <1>10, <1>11

(* The stream ends or is cancelled between two rounds.                     *)
LEMMA ShapeDrop ==
  ASSUME WireTypeOK, WireShape, NEW to \in {"ended", "cancelled"}, Drop(to) PROVE WireShape'
<1> USE DEF WireShape
<1>1. /\ ~Framing /\ UNCHANGED <<lines, cut, got, given>>
      /\ buffer' = <<>> /\ wire' = <<>> /\ link' # "open"
  BY DEF Drop, Waiting
<1>2. Len(buffer') = 0 /\ got[Len(got)] \in Nat /\ Len(got) \in Nat
  BY <1>1, BytesType
<1>3. CutShape'
  BY <1>1, <1>2 DEF CutShape
<1>4. \A i \in DOMAIN lines : Framed(i)' <=> Framed(i)
  <2> SUFFICES ASSUME NEW i \in DOMAIN lines PROVE Framed(i)' <=> Framed(i)
    OBVIOUS
  <2>1. Base' = got[Len(got)]
    BY <1>1, <1>2 DEF Base
  <2>2. cut[i].connection \in 1..Len(got)
    BY DEF CutShape
  <2>3. Framed(i)' <=> Arrived(i)
    BY <1>1, <1>2, <2>1, <2>2 DEF Framed, Arrived
  <2>. QED
    BY <1>1, <2>3, ArrivedIsFramed
<1>5. GivenShape'
  BY <1>1, <1>4 DEF GivenShape, Update
<1>. QED
  BY <1>1, <1>3, <1>5 DEF StreamShape

LEMMA ShapeReconnect == ASSUME WireTypeOK, WireShape, Reconnect PROVE WireShape'
<1> USE DEF WireShape
<1>1. /\ link = "ended" /\ buffer = <<>> /\ wire = <<>> /\ got' = Append(got, 0)
      /\ UNCHANGED <<lines, cut, wire, buffer, given>>
  BY DEF Reconnect, CutShape
<1>2. /\ Len(got') = Len(got) + 1 /\ got'[Len(got')] = 0
      /\ \A c \in 1..Len(got) : got'[c] = got[c]
  <2>1. got \in Seq(Nat) /\ 0 \in Nat
    BY DEF WireTypeOK
  <2>. QED
    BY <1>1, <2>1, AppendProperties
<1>3. Len(buffer) = 0 /\ Len(got) \in Nat
  BY <1>1, BytesType
<1>4. Base' = 0 /\ Base = got[Len(got)]
  BY <1>1, <1>2, <1>3, BytesType DEF Base
<1>5. \A i \in DOMAIN lines : cut[i].connection \in 1..Len(got)
  BY DEF CutShape
<1>6. \A i \in DOMAIN lines : Framed(i)' <=> Framed(i)
  <2> SUFFICES ASSUME NEW i \in DOMAIN lines PROVE Framed(i)' <=> Framed(i)
    OBVIOUS
  <2>1. Arrived(i)' <=> Arrived(i)
    BY <1>1, <1>2, <1>5 DEF Arrived
  <2>2. Framed(i)' <=> Arrived(i)
    BY <1>1, <1>2, <1>3, <1>5, <2>1 DEF Framed
  <2>3. Framed(i) <=> Arrived(i)
    BY <1>3, <1>4, <1>5 DEF Framed, Arrived
  <2>. QED
    BY <2>2, <2>3
<1>7. CutShape'
  BY <1>1, <1>2, <1>3, <1>5 DEF CutShape
<1>8. StreamShape'
  <2>1. \A i \in DOMAIN lines' : ~Pending(i)'
    BY <1>1, <1>2, <1>3, <1>5 DEF Pending
  <2>2. Len(Bytes') = 0
    BY <1>1 DEF Bytes
  <2>. QED
    BY <2>1, <2>2 DEF StreamShape, PendingShape, BreakShape
<1>9. GivenShape'
  BY <1>1, <1>6 DEF GivenShape, Update
<1>. QED
  BY <1>7, <1>8, <1>9

-----------------------------------------------------------------------------
(* The first line feed in the buffer ends the pending line that comes      *)
(* first, and what is before it is that line.                              *)
LEMMA FirstLine ==
  ASSUME WireTypeOK, CutShape, PendingShape, BreakShape,
         NEW n \in DOMAIN buffer, FirstBreak(n)
  PROVE  \E i \in DOMAIN lines :
           /\ Pending(i) /\ cut[i].start = Base /\ cut[i].end = Base + n
           /\ StripReturn(SubSeq(buffer, 1, n - 1)) = Text(i)
<1>1. /\ n \in 1..Len(buffer) /\ n \in Nat /\ n - 1 \in 0..Len(buffer) /\ n - 1 \in Nat
      /\ buffer[n] = LineFeed /\ \A m \in 1..(n - 1) : buffer[m] # LineFeed
      /\ buffer \in Seq(Codes)
  <2>1. buffer \in Seq(Codes)
    BY DEF WireTypeOK
  <2>2. n \in 1..Len(buffer) /\ Len(buffer) \in Nat
    BY <2>1
  <2>3. n \in Nat /\ n - 1 \in 0..Len(buffer) /\ n - 1 \in Nat
    BY <2>2
  <2>. QED
    BY <2>1, <2>2, <2>3 DEF FirstBreak
<1>2. Bytes[n] = LineFeed /\ n \in 1..Len(Bytes)
  BY <1>1, BytesType
<1>3. PICK i \in DOMAIN lines : Pending(i) /\ cut[i].end = Base + n
  BY <1>2 DEF BreakShape
<1>4. cut[i].start \in Nat /\ cut[i].start >= Base /\ cut[i].start < cut[i].end
  BY <1>3, CutType DEF PendingShape, CutShape
<1>5. cut[i].start = Base
  <2> SUFFICES ASSUME cut[i].start # Base PROVE FALSE
    OBVIOUS
  <2>1. PICK j \in DOMAIN lines : Pending(j) /\ cut[j].end = cut[i].start
    BY <1>3 DEF PendingShape
  <2>2. Bytes[cut[j].end - Base] = LineFeed
    BY <2>1 DEF PendingShape, Holds
  <2> DEFINE m == cut[i].start - Base
  <2>3. m \in 1..(n - 1) /\ m \in 1..Len(buffer)
    <3>1. /\ Base \in Nat /\ Len(buffer) \in Nat /\ n \in 1..Len(buffer)
          /\ cut[i].start \in Nat /\ cut[i].start >= Base /\ cut[i].start < Base + n
      BY <1>1, <1>3, <1>4, BytesType
    <3>. QED
      BY <3>1
  <2>4. Bytes[m] = LineFeed
    BY <2>1, <2>2
  <2>5. buffer[m] = LineFeed
    BY <2>3, <2>4, BytesType
  <2>. QED
    BY <1>1, <2>3, <2>5
<1>6. PICK line \in Spellings(i) : Holds(i, line)
  BY <1>3 DEF PendingShape
<1>7. /\ line \in Seq(Codes) /\ Len(line) \in Nat /\ StripReturn(line) = Text(i)
  BY <1>6, SpellingType
<1>8. Len(line) = n - 1
  BY <1>1, <1>3, <1>5, <1>6, <1>7, BytesType DEF Holds
<1>9. /\ SubSeq(buffer, 1, n - 1) \in Seq(Codes) /\ Len(SubSeq(buffer, 1, n - 1)) = n - 1
      /\ \A k \in 1..(n - 1) : SubSeq(buffer, 1, n - 1)[k] = buffer[k]
  BY <1>1, SequencePrefix
<1>10. \A k \in 1..(n - 1) : buffer[k] = line[k]
  <2> SUFFICES ASSUME NEW k \in 1..(n - 1) PROVE buffer[k] = line[k]
    OBVIOUS
  <2>1. Bytes[cut[i].start - Base + k] = line[k]
    BY <1>6, <1>8 DEF Holds
  <2>2. cut[i].start - Base + k = k /\ k \in 1..Len(buffer)
    BY <1>1, <1>5, BytesType
  <2>. QED
    BY <2>1, <2>2, BytesType
<1>11. SubSeq(buffer, 1, n - 1) = line
  BY <1>7, <1>8, <1>9, <1>10, SeqEqual
<1>. QED
  BY <1>3, <1>5, <1>7, <1>11

(* One round of the while-let: it takes out one line, the pending one that *)
(* comes first, and sends on what the line says.                           *)
LEMMA FrameEffect ==
  ASSUME WireTypeOK, WireShape, Frame
  PROVE  \E n \in 1..Len(buffer), i \in DOMAIN lines :
           /\ Pending(i) /\ cut[i].start = Base /\ cut[i].end = Base + n
           /\ buffer' = SubSeq(buffer, n + 1, Len(buffer))
           /\ given' = IF HasUpdate(lines[i]) THEN Append(given, Update(i)) ELSE given
<1>1. PICK n \in DOMAIN buffer :
        /\ FirstBreak(n) /\ buffer' = SubSeq(buffer, n + 1, Len(buffer))
        /\ LET line == StripReturn(SubSeq(buffer, 1, n - 1))
           IN  IF line = <<>> THEN UNCHANGED given ELSE HandleLine(line)
  BY DEF Frame
<1>2. PICK i \in DOMAIN lines :
        /\ Pending(i) /\ cut[i].start = Base /\ cut[i].end = Base + n
        /\ StripReturn(SubSeq(buffer, 1, n - 1)) = Text(i)
  BY <1>1, FirstLine DEF Frame, WireShape, StreamShape
<1>3. IF Text(i) = <<>> THEN UNCHANGED given ELSE HandleLine(Text(i))
  BY <1>1, <1>2
<1>4. given' = IF HasUpdate(lines[i]) THEN Append(given, Update(i)) ELSE given
  <2>1. CASE HasUpdate(lines[i])
    <3>1. Text(i) # <<>>
      <4>1. Len(Text(i)) = 2 /\ Len(<<>>) = 0
        BY <2>1, TextType
      <4>. QED
        BY <4>1
    <3>2. Says(Text(i), i)
      BY <2>1 DEF Says
    <3>3. \E j \in DOMAIN lines : Says(Text(i), j) /\ given' = Append(given, Update(j))
      BY <1>3, <3>1, <3>2 DEF HandleLine
    <3>. QED
      BY <2>1, <3>3, TextIsOwn
  <2>2. CASE ~HasUpdate(lines[i])
    <3>1. ~\E j \in DOMAIN lines : Says(Text(i), j)
      BY <2>2, TextIsOwn DEF Says
    <3>. QED
      BY <1>3, <2>2, <3>1 DEF HandleLine
  <2>. QED
    BY <2>1, <2>2
<1>5. n \in 1..Len(buffer)
  BY DEF WireTypeOK
<1>. QED
  BY <1>1, <1>2, <1>4, <1>5

(* A place in the bytes, counted from either end of the line taken out.    *)
LEMMA PlaceMoves ==
  ASSUME NEW base \in Nat, NEW n \in Nat, NEW start \in Nat, NEW end \in Nat,
         NEW length \in Nat, NEW all \in Nat,
         end = start + length + 1, end <= base + all, start >= base + n,
         NEW k \in 1..(length + 1)
  PROVE  \E p \in 1..(all - n) : p = start - (base + n) + k /\ n + p = start - base + k
<1>1. k \in Int /\ 1 <= k /\ k <= length + 1
  OBVIOUS
<1>. WITNESS start - (base + n) + k \in 1..(all - n)
<1>. QED
  BY <1>1

LEMMA ShapeFrame == ASSUME WireTypeOK, WireShape, Frame PROVE WireShape'
<1>1. PICK n \in 1..Len(buffer), i \in DOMAIN lines :
        /\ Pending(i) /\ cut[i].start = Base /\ cut[i].end = Base + n
        /\ buffer' = SubSeq(buffer, n + 1, Len(buffer))
        /\ given' = IF HasUpdate(lines[i]) THEN Append(given, Update(i)) ELSE given
  BY FrameEffect
<1>2. link = "open" /\ UNCHANGED <<link, lines, cut, wire, got>>
  BY DEF Frame
<1>3. CutShape /\ PendingShape /\ BreakShape /\ GivenShape
  BY <1>2 DEF WireShape, StreamShape
<1>4. /\ buffer \in Seq(Codes) /\ wire \in Seq(Codes) /\ buffer' \in Seq(Codes)
      /\ n \in Nat \ {0} /\ n \in 0..Len(buffer) /\ Len(buffer') = Len(buffer) - n
      /\ \A k \in 1..(Len(buffer) - n) : buffer'[k] = buffer[n + k]
  <2>1. buffer \in Seq(Codes) /\ wire \in Seq(Codes) /\ n \in Nat \ {0} /\ n \in 0..Len(buffer)
    BY <1>1, <1>3, BytesType DEF WireTypeOK
  <2>. QED
    BY <1>1, <2>1, SequenceRest
<1>5. Base' = Base + n
  BY <1>2, <1>3, <1>4, BytesType DEF Base
<1>6. Len(Bytes') = Len(Bytes) - n /\ \A p \in 1..(Len(Bytes) - n) : Bytes'[p] = Bytes[n + p]
  <2>1. /\ Len(Bytes') = Len(buffer') + Len(wire)
        /\ \A p \in 1..Len(buffer') : Bytes'[p] = buffer'[p]
        /\ \A p \in 1..Len(wire) : Bytes'[Len(buffer') + p] = wire[p]
    <3>1. Bytes' = buffer' \o wire
      BY <1>2 DEF Bytes
    <3> HIDE DEF Bytes
    <3>2. buffer' \in Seq(Codes) /\ wire \in Seq(Codes)
      BY <1>4
    <3>3. /\ Len(buffer' \o wire) = Len(buffer') + Len(wire)
          /\ \A p \in 1..Len(buffer') : (buffer' \o wire)[p] = buffer'[p]
          /\ \A p \in 1..Len(wire) : (buffer' \o wire)[Len(buffer') + p] = wire[p]
      BY <3>2, SequenceJoin
    <3>. QED
      BY <3>1, <3>3
  <2>2. ASSUME NEW p \in 1..(Len(Bytes) - n) PROVE Bytes'[p] = Bytes[n + p]
    <3>1. CASE p <= Len(buffer) - n
      BY <1>3, <1>4, <2>1, <3>1, BytesType
    <3>2. CASE p > Len(buffer) - n
      <4> DEFINE q == p - (Len(buffer) - n)
      <4>1. q \in 1..Len(wire) /\ p = Len(buffer') + q /\ n + p = Len(buffer) + q
        BY <1>3, <1>4, <3>2, BytesType
      <4>2. Bytes'[p] = wire[q]
        BY <2>1, <4>1
      <4>3. Bytes[n + p] = wire[q]
        BY <1>3, <4>1, BytesType
      <4>. QED
        BY <4>2, <4>3
    <3>. QED
      BY <1>3, <1>4, <3>1, <3>2, BytesType
  <2>. QED
    BY <1>3, <1>4, <2>1, <2>2, BytesType
<1>7. \A j \in DOMAIN lines :
        /\ cut[j].connection \in Nat /\ cut[j].start \in Nat /\ cut[j].end \in Nat
        /\ cut[j].connection \in 1..Len(got) /\ cut[j].start < cut[j].end /\ j \in Nat
  BY <1>3, CutType DEF CutShape
<1>8. /\ cut[i].connection = Len(got) /\ Base \in Nat /\ Len(got) \in Nat
      /\ Len(Bytes) \in Nat /\ Len(buffer) \in Nat /\ n <= Len(Bytes)
  <2>1. /\ Base \in Nat /\ Len(got) \in Nat /\ Len(buffer) \in Nat /\ Len(wire) \in Nat
        /\ Len(Bytes) = Len(buffer) + Len(wire)
    BY <1>3, BytesType
  <2>2. Len(Bytes) \in Nat /\ n <= Len(Bytes)
    BY <1>4, <2>1
  <2>3. cut[i].connection = Len(got)
    BY <1>1 DEF Pending
  <2>. QED
    BY <2>1, <2>2, <2>3
(* The other pending lines come behind i. *)
<1>9. \A j \in DOMAIN lines : Pending(j) /\ j # i => cut[j].start >= cut[i].end
  <2> SUFFICES ASSUME NEW j \in DOMAIN lines, Pending(j), j # i
               PROVE  cut[j].start >= cut[i].end
    OBVIOUS
  <2>1. cut[j].end > Base /\ cut[j].connection = cut[i].connection
    BY <1>8 DEF Pending
  <2>2. ~(j < i)
    <3>1. j < i => cut[j].connection < cut[i].connection \/ cut[j].end <= cut[i].start
      BY <1>3 DEF CutShape
    <3>. QED
      BY <1>1, <1>7, <1>8, <2>1, <3>1
  <2>3. i < j
    BY <1>7, <2>2
  <2>. QED
    BY <1>3, <1>7, <2>1, <2>3 DEF CutShape
<1>10. \A j \in DOMAIN lines : Pending(j)' <=> Pending(j) /\ j # i
  <2>1. ASSUME NEW j \in DOMAIN lines, Pending(j)' PROVE Pending(j) /\ j # i
    <3>1. cut[j].connection = Len(got) /\ cut[j].end > Base + n
      BY <1>2, <1>5, <2>1 DEF Pending
    <3>2. cut[j].end \in Nat /\ Base \in Nat /\ n \in Nat
      BY <1>4, <1>7, <1>8
    <3>3. cut[j].end > Base /\ cut[j].end # Base + n
      BY <3>1, <3>2
    <3>. QED
      BY <1>1, <3>1, <3>3 DEF Pending
  <2>2. ASSUME NEW j \in DOMAIN lines, Pending(j), j # i PROVE Pending(j)'
    <3>1. cut[j].start >= cut[i].end /\ cut[j].start < cut[j].end
      BY <1>7, <1>9, <2>2
    <3>2. cut[j].end > Base + n
      <4>1. /\ cut[i].end = Base + n /\ cut[i].end \in Nat
            /\ cut[j].start \in Nat /\ cut[j].end \in Nat
        BY <1>1, <1>7
      <4>. QED
        BY <3>1, <4>1
    <3>. QED
      BY <1>2, <1>5, <2>2, <3>2 DEF Pending
  <2>. QED
    BY <2>1, <2>2
<1>11. \A j \in DOMAIN lines : Framed(j)' <=> Framed(j) \/ j = i
  <2> SUFFICES ASSUME NEW j \in DOMAIN lines PROVE Framed(j)' <=> Framed(j) \/ j = i
    OBVIOUS
  <2>1. CASE cut[j].connection < Len(got)
    BY <1>2, <1>7, <1>8, <2>1 DEF Framed, Arrived
  <2>2. CASE cut[j].connection = Len(got)
    <3>1. Framed(j) <=> ~Pending(j)
      BY <1>3, <2>2, PendingNotFramed
    <3>2. /\ cut[j].end \in Nat /\ Base' \in Nat
      BY <1>4, <1>5, <1>7, <1>8
    <3>3. Framed(j)' <=> cut[j].end <= Base'
      BY <1>2, <1>8, <2>2 DEF Framed
    <3>4. Pending(j)' <=> cut[j].end > Base'
      BY <1>2, <2>2 DEF Pending
    <3>5. Framed(j)' <=> ~Pending(j)'
      BY <3>2, <3>3, <3>4
    <3>. QED
      BY <1>1, <1>10, <3>1, <3>5
  <2>. QED
    BY <1>7, <1>8, <2>1, <2>2
<1>12. CutShape'
  BY <1>2, <1>3, <1>4, BytesType DEF CutShape
<1>13. PendingShape'
  <2> SUFFICES ASSUME NEW j \in DOMAIN lines, Pending(j), j # i
               PROVE  /\ cut[j].start >= Base' /\ cut[j].end <= Base' + Len(Bytes')
                      /\ \E line \in Spellings(j)' : Holds(j, line)'
                      /\ cut[j].start = Base' \/ \E k \in DOMAIN lines : Pending(k)' /\ cut[k].end = cut[j].start
    BY <1>2, <1>10 DEF PendingShape
  <2>1. cut[j].start >= Base' /\ cut[j].end <= Base' + Len(Bytes')
    BY <1>1, <1>3, <1>4, <1>5, <1>6, <1>7, <1>8, <1>9 DEF PendingShape
  <2>2. PICK line \in Spellings(j) : Holds(j, line)
    BY <1>3 DEF PendingShape
  <2>3. Len(line) \in Nat
    BY <2>2, SpellingType
  <2>4. Holds(j, line)'
    <3>1. cut[j].end = cut[j].start + Len(line) + 1 /\ cut[j].end <= Base + Len(Bytes)
      BY <1>3, <2>2 DEF Holds, PendingShape
    <3>2. cut[j].start >= Base + n /\ cut[j].start \in Nat /\ cut[j].end \in Nat
      BY <1>1, <1>7, <1>9
    <3>3. \A k \in 1..(Len(line) + 1) : \E p \in 1..(Len(Bytes) - n) :
            p = cut[j].start - (Base + n) + k /\ n + p = cut[j].start - Base + k
      <4>1. /\ n \in Nat /\ Base \in Nat /\ Len(Bytes) \in Nat /\ Len(line) \in Nat
            /\ cut[j].start \in Nat /\ cut[j].end \in Nat
        BY <1>4, <1>8, <2>3, <3>2
      <4>2. PICK b \in Nat, start \in Nat, end \in Nat, length \in Nat, all \in Nat :
              /\ b = Base /\ start = cut[j].start /\ end = cut[j].end
              /\ length = Len(line) /\ all = Len(Bytes)
        BY <4>1, Zenon
      <4>3. end = start + length + 1 /\ end <= b + all /\ start >= b + n
        BY <3>1, <3>2, <4>2
      <4>4. \A k \in 1..(length + 1) : \E p \in 1..(all - n) :
              p = start - (b + n) + k /\ n + p = start - b + k
        BY <4>1, <4>3, PlaceMoves
      <4>. QED
        BY <4>2, <4>4
    <3>4. ASSUME NEW k \in 1..(Len(line) + 1)
          PROVE  Bytes'[cut[j].start - Base' + k] = Bytes[cut[j].start - Base + k]
      BY <1>5, <1>6, <3>3
    <3>5. \A k \in 1..Len(line) : Bytes'[cut[j].start - Base' + k] = line[k]
      BY <2>2, <2>3, <3>4 DEF Holds
    <3>6. Bytes'[cut[j].end - Base'] = LineFeed
      <4>1. /\ Len(line) + 1 \in 1..(Len(line) + 1)
            /\ cut[j].end - Base = cut[j].start - Base + (Len(line) + 1)
            /\ cut[j].end - Base' = cut[j].start - Base' + (Len(line) + 1)
        <5>1. /\ n \in Nat /\ Base \in Nat /\ Len(line) \in Nat /\ Base' = Base + n
              /\ cut[j].start \in Nat /\ cut[j].end = cut[j].start + Len(line) + 1
          BY <1>4, <1>5, <1>8, <2>3, <3>1, <3>2
        <5>2. PICK b \in Nat, s \in Nat, length \in Nat :
                b = Base /\ s = cut[j].start /\ length = Len(line)
          BY <5>1, Zenon
        <5>3. /\ length + 1 \in 1..(length + 1)
              /\ (s + length + 1) - b = s - b + (length + 1)
              /\ (s + length + 1) - (b + n) = s - (b + n) + (length + 1)
          <6>1. n \in Nat
            BY <1>4
          <6>. QED
            BY <6>1
        <5>. QED
          BY <5>1, <5>2, <5>3
      <4>2. Bytes[cut[j].end - Base] = LineFeed
        BY <2>2 DEF Holds
      <4>. QED
        BY <3>4, <4>1, <4>2
    <3>. QED
      BY <1>2, <3>1, <3>5, <3>6 DEF Holds
  <2>5. line \in Spellings(j)'
    BY <1>2, <2>2 DEF Spellings, Text
  <2>6. cut[j].start = Base' \/ \E k \in DOMAIN lines : Pending(k)' /\ cut[k].end = cut[j].start
    <3>1. cut[j].start # Base
      BY <1>4, <1>5, <1>7, <1>8, <2>1
    <3>2. PICK k \in DOMAIN lines : Pending(k) /\ cut[k].end = cut[j].start
      BY <1>3, <3>1 DEF PendingShape
    <3>. QED
      BY <1>1, <1>5, <1>10, <3>2
  <2>. QED
    BY <2>1, <2>2, <2>4, <2>5, <2>6
<1>14. BreakShape'
  <2>1. ASSUME NEW p \in 1..Len(Bytes'), Bytes'[p] = LineFeed
        PROVE  \E j \in DOMAIN lines : Pending(j)' /\ cut[j].end = Base' + p
    <3>1. Bytes[n + p] = LineFeed /\ n + p \in 1..Len(Bytes)
      <4>1. /\ p \in 1..(Len(Bytes) - n) /\ n \in Nat /\ Len(Bytes) \in Nat
        BY <1>4, <1>6, <1>8
      <4>2. n + p \in 1..Len(Bytes)
        BY <4>1
      <4>. QED
        BY <1>6, <2>1, <4>1, <4>2
    <3>2. PICK j \in DOMAIN lines : Pending(j) /\ cut[j].end = Base + (n + p)
      BY <1>3, <3>1 DEF BreakShape
    <3>3. j # i
      BY <1>1, <1>4, <1>6, <1>8, <3>2
    <3>. QED
      BY <1>4, <1>5, <1>6, <1>8, <1>10, <3>2, <3>3
  <2>2. Len(Bytes') > 0 => Bytes'[Len(Bytes')] = LineFeed
    <3> SUFFICES ASSUME Len(Bytes') > 0 PROVE Bytes'[Len(Bytes')] = LineFeed
      OBVIOUS
    <3>1. /\ Len(Bytes') \in 1..(Len(Bytes) - n) /\ n + Len(Bytes') = Len(Bytes)
          /\ Len(Bytes) > 0
      BY <1>4, <1>6, <1>8
    <3>. QED
      BY <1>3, <1>6, <3>1 DEF BreakShape
  <2>. QED
    BY <1>2, <2>1, <2>2 DEF BreakShape
<1>15. GivenShape'
  <2>1. CASE ~HasUpdate(lines[i])
    <3>1. given' = given
      BY <1>1, <2>1
    <3>. QED
      BY <1>2, <1>3, <1>11, <2>1, <3>1 DEF GivenShape, Update
  <2>2. CASE HasUpdate(lines[i])
    <3>1. given \in Seq(Updates) /\ Update(i) \in Updates /\ given' = Append(given, Update(i))
      BY <1>1, <2>2, UpdateType DEF WireTypeOK
    <3> DEFINE m == Len(given)
    <3>2. /\ m \in Nat /\ DOMAIN given = 1..m /\ DOMAIN given' = 1..(m + 1)
          /\ given'[m + 1] = Update(i) /\ \A k \in 1..m : given'[k] = given[k]
      BY <3>1
    <3>3. Update(i).line = i /\ \A j \in DOMAIN lines : Update(j)' = Update(j)
      BY <1>2 DEF Update
    <3>4. \A k \in DOMAIN given : given[k].line < i
      <4> SUFFICES ASSUME NEW k \in DOMAIN given PROVE given[k].line < i
        OBVIOUS
      <4>1. PICK g \in DOMAIN lines : given[k] = Update(g) /\ Framed(g)
        BY <1>3 DEF GivenShape
      <4>2. cut[g].connection < Len(got) \/ (cut[g].connection = Len(got) /\ cut[g].end <= Base)
        BY <4>1 DEF Framed
      <4>3. g # i
        BY <1>1, <1>4, <1>7, <1>8, <4>2
      <4>4. i < g => \/ cut[i].connection < cut[g].connection
                     \/ cut[i].connection = cut[g].connection /\ cut[i].end <= cut[g].start
        BY <1>3 DEF CutShape
      <4>5. ~(i < g)
        <5>1. /\ cut[i].connection = Len(got) /\ cut[i].end = Base + n /\ n \in Nat \ {0}
              /\ cut[g].start \in Nat /\ cut[g].end \in Nat /\ cut[g].start < cut[g].end
              /\ cut[g].connection \in Nat /\ Len(got) \in Nat /\ Base \in Nat
          BY <1>1, <1>4, <1>7, <1>8
        <5>. QED
          BY <4>2, <4>4, <5>1
      <4>6. given[k].line = g
        BY <4>1 DEF Update
      <4>. QED
        BY <1>7, <4>3, <4>5, <4>6
    <3>5. ASSUME NEW k \in DOMAIN given'
          PROVE  \E j \in DOMAIN lines' :
                   given'[k] = Update(j)' /\ Framed(j)' /\ HasUpdate(lines'[j])
      <4>1. CASE k = m + 1
        <5>1. given'[k] = Update(i)' /\ Framed(i)' /\ HasUpdate(lines'[i])
          BY <1>2, <1>11, <2>2, <3>2, <3>3, <4>1
        <5>. QED
          BY <1>2, <5>1
      <4>2. CASE k \in 1..m
        <5>1. PICK j \in DOMAIN lines : given[k] = Update(j) /\ Framed(j) /\ HasUpdate(lines[j])
          BY <1>3, <3>2, <4>2 DEF GivenShape
        <5>2. given'[k] = Update(j)' /\ Framed(j)' /\ HasUpdate(lines'[j])
          BY <1>2, <1>11, <3>2, <3>3, <4>2, <5>1
        <5>. QED
          BY <1>2, <5>2
      <4>. QED
        BY <3>2, <4>1, <4>2
    <3>6. ASSUME NEW j \in DOMAIN lines', Framed(j)', HasUpdate(lines'[j])
          PROVE  \E k \in DOMAIN given' : given'[k] = Update(j)'
      <4>1. CASE j = i
        BY <1>2, <3>2, <3>3, <4>1
      <4>2. CASE j # i
        <5>1. PICK k \in DOMAIN given : given[k] = Update(j)
          BY <1>2, <1>3, <1>11, <3>6, <4>2 DEF GivenShape
        <5>. QED
          BY <1>2, <3>2, <3>3, <5>1
      <4>. QED
        BY <4>1, <4>2
    <3>7. ASSUME NEW j \in DOMAIN given', NEW k \in DOMAIN given', j < k
          PROVE  given'[j].line < given'[k].line
      <4>1. CASE k = m + 1
        BY <3>2, <3>3, <3>4, <3>7, <4>1
      <4>2. CASE k \in 1..m
        BY <1>3, <3>2, <3>7, <4>2 DEF GivenShape
      <4>. QED
        BY <3>2, <4>1, <4>2
    <3>. QED
      BY <3>5, <3>6, <3>7 DEF GivenShape
  <2>. QED
    BY <2>1, <2>2
<1>. QED
  BY <1>12, <1>13, <1>14, <1>15 DEF WireShape, StreamShape

(* A place in a line among the bytes that hold it.                         *)
LEMMA PlaceIsInside ==
  ASSUME NEW base \in Nat, NEW start \in Nat, NEW end \in Nat,
         NEW length \in Nat, NEW all \in Nat,
         end = start + length + 1, end <= base + all, start >= base,
         NEW k \in 1..(length + 1)
  PROVE  start - base + k \in 1..all
  OBVIOUS

(* A line that is written comes behind all others of its connection.       *)
LEMMA ShapeWrite ==
  ASSUME WireTypeOK, WireShape, NEW body \in Bodies, Write(body) PROVE WireShape'
<1>1. PICK m \in Nat, start \in Nat : m = Len(lines) /\ start = Base + Len(Bytes)
  <2>1. CutShape
    BY DEF WireShape
  <2>2. Len(lines) \in Nat
    BY DEF WireTypeOK
  <2>3. Base + Len(Bytes) \in Nat
    <3>1. /\ Base \in Nat /\ Len(buffer) \in Nat /\ Len(wire) \in Nat
          /\ Len(Bytes) = Len(buffer) + Len(wire)
      BY <2>1, BytesType
    <3>. QED
      BY <3>1
  <2>. QED
    BY <2>2, <2>3
<1>2. PICK line \in Seq(Codes) :
        /\ line = WrittenText(body) \/ line = Append(WrittenText(body), Return)
        /\ Append(line, LineFeed) \in Seq(Codes)
        /\ wire' = wire \o Append(line, LineFeed)
        /\ cut' = Append(cut, WrittenCut(line))
        /\ WrittenCut(line) \in Cuts
  BY Written
<1>3. /\ link = "open" /\ lines' = Append(lines, body)
      /\ UNCHANGED <<link, got, buffer, given>>
  BY DEF Write
<1>4. CutShape /\ PendingShape /\ BreakShape /\ GivenShape
  BY <1>3 DEF WireShape, StreamShape
<1>5. /\ m \in Nat /\ DOMAIN lines = 1..m /\ DOMAIN lines' = 1..(m + 1)
      /\ lines'[m + 1] = body /\ cut'[m + 1] = WrittenCut(line)
      /\ \A i \in 1..m : lines'[i] = lines[i] /\ cut'[i] = cut[i]
  <2>1. lines \in Seq(Bodies) /\ cut \in Seq(Cuts) /\ Len(cut) = Len(lines)
    BY DEF WireTypeOK
  <2>2. /\ Len(lines') = m + 1 /\ lines' \in Seq(Bodies) /\ lines'[m + 1] = body
        /\ \A i \in 1..m : lines'[i] = lines[i]
    BY <1>1, <1>3, <2>1, AppendProperties
  <2>3. cut'[m + 1] = WrittenCut(line) /\ \A i \in 1..m : cut'[i] = cut[i]
    BY <1>1, <1>2, <2>1, AppendProperties
  <2>. QED
    BY <1>1, <2>1, <2>2, <2>3
<1>6. /\ Base \in Nat /\ Len(got) \in Nat \ {0} /\ Len(Bytes) \in Nat
      /\ Len(line) \in Nat
      /\ got[Len(got)] + Len(wire) = start /\ start = Base + Len(Bytes)
  <2>1. /\ Base \in Nat /\ Len(got) \in Nat \ {0} /\ got[Len(got)] \in Nat
        /\ Len(buffer) \in Nat /\ Len(wire) \in Nat
        /\ Base + Len(buffer) = got[Len(got)]
        /\ Bytes \in Seq(Codes) /\ Len(Bytes) = Len(buffer) + Len(wire)
    BY <1>4, BytesType
  <2>2. got[Len(got)] + Len(wire) = start
    BY <1>1, <2>1
  <2>3. Len(Bytes) \in Nat
    BY <2>1
  <2>4. Len(line) \in Nat
    BY <1>2
  <2>. QED
    BY <1>1, <2>1, <2>2, <2>3, <2>4
<1>7. Bytes \in Seq(Codes) /\ buffer \in Seq(Codes) /\ wire \in Seq(Codes)
  BY <1>4, BytesType DEF WireTypeOK
<1>8. Base' = Base /\ Bytes' = Bytes \o Append(line, LineFeed)
  <2>1. Bytes' = buffer \o (wire \o Append(line, LineFeed))
    BY <1>2, <1>3 DEF Bytes
  <2>2. Base' = Base
    BY <1>3 DEF Base
  <2> DEFINE added == Append(line, LineFeed)
  <2>3. added \in Seq(Codes) /\ buffer \in Seq(Codes) /\ wire \in Seq(Codes)
    BY <1>2, <1>7
  <2> HIDE DEF added
  <2>4. (buffer \o wire) \o added = buffer \o (wire \o added)
    BY <2>3, ConcatAssociative
  <2>. QED
    BY <2>1, <2>2, <2>4 DEF added, Bytes
<1>9. /\ Len(Bytes') = Len(Bytes) + Len(line) + 1
      /\ \A p \in 1..Len(Bytes) : Bytes'[p] = Bytes[p]
      /\ \A k \in 1..Len(line) : Bytes'[Len(Bytes) + k] = line[k]
      /\ Bytes'[Len(Bytes) + Len(line) + 1] = LineFeed
  <2> DEFINE added == Append(line, LineFeed)
             old == Bytes
  <2>1. /\ added \in Seq(Codes) /\ Len(added) = Len(line) + 1 /\ added[Len(line) + 1] = LineFeed
        /\ \A k \in 1..Len(line) : added[k] = line[k]
    BY <1>2, AppendProperties
  <2> HIDE DEF added, old
  <2>2. /\ Len(old \o added) = Len(old) + Len(added)
        /\ \A p \in 1..Len(old) : (old \o added)[p] = old[p]
        /\ \A k \in 1..Len(added) : (old \o added)[Len(old) + k] = added[k]
    <3>1. old \in Seq(Codes) /\ added \in Seq(Codes)
      BY <1>7, <2>1 DEF old
    <3>. QED
      BY <3>1, SequenceJoin
  <2>3. /\ Len(old \o added) = Len(old) + Len(line) + 1
        /\ \A k \in 1..Len(line) : (old \o added)[Len(old) + k] = line[k]
        /\ (old \o added)[Len(old) + Len(line) + 1] = LineFeed
    <3>1. Len(old) \in Nat /\ Len(line) \in Nat
      BY <1>6 DEF old
    <3>2. Len(old) + (Len(line) + 1) = Len(old) + Len(line) + 1 /\ Len(line) + 1 \in 1..(Len(line) + 1)
      BY <3>1
    <3>. QED
      BY <2>1, <2>2, <3>1, <3>2
  <2>. QED
    BY <1>8, <2>2, <2>3 DEF old, added
<1>10. /\ cut'[m + 1].connection = Len(got) /\ cut'[m + 1].start = start
      /\ cut'[m + 1].end = start + Len(line) + 1
  BY <1>5, <1>6 DEF WrittenCut
<1>11. \A i \in 1..m :
        /\ cut[i].connection \in 1..Len(got) /\ cut[i].connection \in Nat
        /\ cut[i].start \in Nat /\ cut[i].end \in Nat /\ cut[i].start < cut[i].end
  BY <1>4, <1>5, CutType DEF CutShape
<1>12. \A i \in 1..m :
         /\ Pending(i)' <=> Pending(i)
         /\ Framed(i)' <=> Framed(i)
         /\ Text(i)' = Text(i) /\ Spellings(i)' = Spellings(i) /\ Update(i)' = Update(i)
  <2> SUFFICES ASSUME NEW i \in 1..m
               PROVE  /\ Pending(i)' <=> Pending(i)
                      /\ Framed(i)' <=> Framed(i)
                      /\ Text(i)' = Text(i) /\ Spellings(i)' = Spellings(i) /\ Update(i)' = Update(i)
    OBVIOUS
  <2>1. lines'[i] = lines[i] /\ cut'[i] = cut[i]
    BY <1>5
  <2>2. Pending(i)' <=> Pending(i)
    BY <1>3, <1>8, <2>1 DEF Pending
  <2>3. Framed(i)' <=> Framed(i)
    BY <1>3, <1>8, <2>1 DEF Framed, Arrived
  <2>4. Text(i)' = Text(i) /\ Update(i)' = Update(i)
    BY <2>1 DEF Text, Update
  <2>. QED
    BY <2>2, <2>3, <2>4 DEF Spellings
<1>13. /\ Pending(m + 1)' /\ ~Framed(m + 1)' /\ line \in Spellings(m + 1)'
  <2>1. Text(m + 1)' = WrittenText(body)
    BY <1>5 DEF Text, WrittenText
  <2>2. start \in Nat /\ start + Len(line) + 1 > Base
    BY <1>6
  <2>3. Pending(m + 1)'
    BY <1>3, <1>8, <1>10, <2>2 DEF Pending
  <2>4. ~(Len(got) < Len(got)) /\ ~(start + Len(line) + 1 <= Base)
    BY <1>6
  <2>5. ~Framed(m + 1)'
    BY <1>3, <1>8, <1>10, <2>4 DEF Framed
  <2>. QED
    BY <1>2, <2>1, <2>3, <2>5 DEF Spellings
<1>14. \A i \in 1..m : cut[i].connection = Len(got) => cut[i].end <= start
  <2> SUFFICES ASSUME NEW i \in 1..m, cut[i].connection = Len(got) PROVE cut[i].end <= start
    OBVIOUS
  <2>1. CASE Pending(i)
    BY <1>1, <1>4, <1>5, <2>1 DEF PendingShape
  <2>2. CASE ~Pending(i)
    BY <1>6, <1>11, <2>2 DEF Pending
  <2>. QED
    BY <2>1, <2>2
<1>15. CutShape'
  <2>1. ASSUME NEW i \in DOMAIN lines'
        PROVE  cut'[i].connection \in 1..Len(got') /\ cut'[i].start < cut'[i].end
    <3>1. CASE i \in 1..m
      BY <1>3, <1>5, <1>11, <3>1
    <3>2. CASE i = m + 1
      <4>1. start < start + Len(line) + 1 /\ Len(got) \in 1..Len(got)
        BY <1>6
      <4>. QED
        BY <1>3, <1>10, <3>2, <4>1
    <3>. QED
      BY <1>5, <2>1, <3>1, <3>2
  <2>2. ASSUME NEW i \in DOMAIN lines', NEW j \in DOMAIN lines', i < j
        PROVE  \/ cut'[i].connection < cut'[j].connection
               \/ cut'[i].connection = cut'[j].connection /\ cut'[i].end <= cut'[j].start
    <3>1. i \in 1..m /\ cut'[i] = cut[i]
      BY <1>5, <2>2
    <3>2. CASE j \in 1..m
      <4>1. cut'[j] = cut[j]
        BY <1>5, <3>2
      <4>. QED
        BY <1>4, <1>5, <2>2, <3>1, <3>2, <4>1 DEF CutShape
    <3>3. CASE j = m + 1
      <4>1. cut[i].connection < Len(got) \/ cut[i].connection = Len(got)
        BY <1>6, <1>11, <3>1
      <4>. QED
        BY <1>10, <1>14, <3>1, <3>3, <4>1
    <3>. QED
      BY <1>5, <3>2, <3>3
  <2>3. Len(buffer') <= got'[Len(got')] /\ link' = "open"
    BY <1>3, <1>4 DEF CutShape
  <2>. QED
    BY <2>1, <2>2, <2>3 DEF CutShape
<1>16. \A k \in 1..Len(line) : line[k] # LineFeed
  <2> DEFINE text == WrittenText(body)
  <2>1. text = <<>> \/ text = <<m + 1, 0>>
    BY <1>1 DEF WrittenText, Close
  <2>2. line = text \/ line = Append(text, Return)
    BY <1>2
  <2> HIDE DEF text
  <2>3. text \in Seq(Int) /\ \A k \in 1..Len(text) : text[k] # LineFeed
    <3>1. <<m + 1, 0>> \in Seq(Int) /\ <<>> \in Seq(Int)
      OBVIOUS
    <3>2. \A k \in 1..Len(<<m + 1, 0>>) : <<m + 1, 0>>[k] # LineFeed
      BY DEF LineFeed
    <3>3. CASE text = <<>>
      BY <3>1, <3>3
    <3>4. CASE text = <<m + 1, 0>>
      BY <3>1, <3>2, <3>4
    <3>. QED
      BY <2>1, <3>3, <3>4
  <2>4. /\ Len(Append(text, Return)) = Len(text) + 1
        /\ \A k \in 1..Len(text) : Append(text, Return)[k] = text[k]
        /\ Append(text, Return)[Len(text) + 1] # LineFeed
    <3>1. Return \in Int /\ Return # LineFeed
      BY DEF LineFeed, Return
    <3>. QED
      BY <2>3, <3>1, AppendProperties
  <2>5. CASE line = text
    BY <2>3, <2>5
  <2>6. CASE line = Append(text, Return)
    <3>1. Len(text) \in Nat
      BY <2>3
    <3>2. ASSUME NEW k \in 1..(Len(text) + 1) PROVE Append(text, Return)[k] # LineFeed
      <4>1. k \in 1..Len(text) \/ k = Len(text) + 1
        BY <3>1
      <4>. QED
        BY <2>3, <2>4, <4>1
    <3>. QED
      BY <2>4, <2>6, <3>2
  <2>. QED
    BY <2>2, <2>5, <2>6
<1>17. start = Base \/ \E j \in 1..m : Pending(j) /\ cut[j].end = start
  <2>1. CASE Len(Bytes) = 0
    BY <1>6, <2>1
  <2>2. CASE Len(Bytes) > 0
    <3>1. Bytes[Len(Bytes)] = LineFeed /\ Len(Bytes) \in 1..Len(Bytes)
      BY <1>4, <1>6, <2>2 DEF BreakShape
    <3>. QED
      BY <1>1, <1>4, <1>5, <3>1 DEF BreakShape
  <2>. QED
    BY <1>6, <2>1, <2>2
<1>18. PendingShape'
  <2> SUFFICES ASSUME NEW i \in 1..(m + 1), Pending(i)'
               PROVE  /\ cut'[i].start >= Base /\ cut'[i].end <= Base + Len(Bytes')
                      /\ \E text \in Spellings(i)' : Holds(i, text)'
                      /\ cut'[i].start = Base
                           \/ \E j \in 1..(m + 1) : Pending(j)' /\ cut'[j].end = cut'[i].start
    BY <1>5, <1>8 DEF PendingShape
  <2>1. CASE i \in 1..m
    <3>1. Pending(i) /\ cut'[i] = cut[i] /\ i \in DOMAIN lines
      BY <1>5, <1>12, <2>1
    <3>2. cut[i].start >= Base /\ cut[i].end <= start
      BY <1>1, <1>4, <3>1 DEF PendingShape
    <3>3. start <= Base + Len(Bytes')
      BY <1>6, <1>9
    <3>4. PICK text \in Spellings(i) : Holds(i, text)
      BY <1>4, <3>1 DEF PendingShape
    <3>5. Len(text) \in Nat
      BY <3>1, <3>4, SpellingType
    <3>6. Holds(i, text)'
      <4>1. cut[i].end = cut[i].start + Len(text) + 1
        BY <3>4 DEF Holds
      <4>2. /\ Base \in Nat /\ Len(Bytes) \in Nat /\ Len(text) \in Nat
            /\ cut[i].start \in Nat /\ cut[i].end \in Nat
            /\ cut[i].start >= Base /\ cut[i].end <= Base + Len(Bytes)
        BY <1>6, <1>11, <2>1, <3>2, <3>5
      <4>3. PICK b \in Nat, s \in Nat, end \in Nat, length \in Nat, all \in Nat :
              /\ b = Base /\ s = cut[i].start /\ end = cut[i].end
              /\ length = Len(text) /\ all = Len(Bytes)
        BY <4>2, Zenon
      <4>4. end = s + length + 1 /\ end <= b + all /\ s >= b
        BY <4>1, <4>2, <4>3
      <4>5. ASSUME NEW k \in 1..(Len(text) + 1)
            PROVE  Bytes'[cut[i].start - Base + k] = Bytes[cut[i].start - Base + k]
        <5>1. k \in 1..(length + 1)
          BY <4>3
        <5>2. s - b + k \in 1..all
          BY <4>4, <5>1, PlaceIsInside
        <5>3. cut[i].start - Base + k \in 1..Len(Bytes)
          BY <4>3, <5>2
        <5>. QED
          BY <1>9, <5>3
      <4>6. \A k \in 1..Len(text) : Bytes'[cut[i].start - Base + k] = text[k]
        BY <3>4, <4>2, <4>5 DEF Holds
      <4>7. Bytes'[cut[i].end - Base] = LineFeed
        <5>1. /\ Len(text) + 1 \in 1..(Len(text) + 1)
              /\ cut[i].end - Base = cut[i].start - Base + (Len(text) + 1)
          <6>1. length + 1 \in 1..(length + 1) /\ end - b = s - b + (length + 1)
            BY <4>4
          <6>. QED
            BY <4>3, <6>1
        <5>. QED
          BY <3>4, <4>5, <5>1 DEF Holds
      <4>. QED
        BY <1>8, <3>1, <4>1, <4>6, <4>7 DEF Holds
    <3>7. text \in Spellings(i)'
      BY <1>12, <2>1, <3>4
    <3>8. cut[i].start = Base \/ \E j \in 1..(m + 1) : Pending(j)' /\ cut'[j].end = cut[i].start
      <4>1. cut[i].start = Base \/ \E j \in 1..m : Pending(j) /\ cut[j].end = cut[i].start
        BY <1>4, <1>5, <3>1 DEF PendingShape
      <4>. QED
        BY <1>5, <1>12, <4>1
    <3>9. cut[i].end <= Base + Len(Bytes')
      <4>1. cut[i].end \in Nat /\ start \in Nat /\ start <= Base + Len(Bytes') /\ cut[i].end <= start
        BY <1>11, <2>1, <3>2, <3>3
      <4>2. Base + Len(Bytes') \in Nat
        BY <1>6, <1>9
      <4>. QED
        BY <4>1, <4>2
    <3>. QED
      BY <3>1, <3>2, <3>6, <3>7, <3>8, <3>9
  <2>2. CASE i = m + 1
    <3>1. start >= Base /\ start + Len(line) + 1 <= Base + Len(Bytes')
      BY <1>6, <1>9
    <3>2. Holds(m + 1, line)'
      <4>1. ASSUME NEW k \in 1..Len(line) PROVE Bytes'[start - Base + k] = line[k]
        <5>1. start - Base + k = Len(Bytes) + k
          BY <1>6
        <5>. QED
          BY <1>9, <5>1
      <4>2. (start + Len(line) + 1) - Base = Len(Bytes) + Len(line) + 1
        BY <1>6
      <4>3. Bytes'[(start + Len(line) + 1) - Base] = LineFeed
        BY <1>9, <4>2
      <4>. QED
        BY <1>8, <1>10, <4>1, <4>3 DEF Holds
    <3>3. start = Base \/ \E j \in 1..(m + 1) : Pending(j)' /\ cut'[j].end = start
      BY <1>5, <1>12, <1>17
    <3>. QED
      BY <1>10, <1>13, <2>2, <3>1, <3>2, <3>3
  <2>. QED
    BY <1>5, <2>1, <2>2
<1>19. BreakShape'
  <2>1. ASSUME NEW p \in 1..Len(Bytes'), Bytes'[p] = LineFeed
        PROVE  \E j \in DOMAIN lines' : Pending(j)' /\ cut'[j].end = Base + p
    <3>1. CASE p \in 1..Len(Bytes)
      <4>1. PICK j \in 1..m : Pending(j) /\ cut[j].end = Base + p
        BY <1>4, <1>5, <1>9, <2>1, <3>1 DEF BreakShape
      <4>. QED
        BY <1>5, <1>12, <4>1
    <3>2. CASE p = Len(Bytes) + Len(line) + 1
      <4>1. start + Len(line) + 1 = Base + p
        BY <1>6, <3>2
      <4>2. cut'[m + 1].end = Base + p
        BY <1>10, <4>1
      <4>. QED
        BY <1>5, <1>13, <4>2
    <3>3. CASE p \notin 1..Len(Bytes) /\ p # Len(Bytes) + Len(line) + 1
      <4>1. PICK k \in 1..Len(line) : p = Len(Bytes) + k
        <5>1. p - Len(Bytes) \in 1..Len(line) /\ p = Len(Bytes) + (p - Len(Bytes))
          <6>1. /\ Len(Bytes) \in Nat /\ Len(line) \in Nat
                /\ p \in 1..(Len(Bytes) + Len(line) + 1)
            BY <1>6, <1>9
          <6>. QED
            BY <3>3, <6>1
        <5>. QED
          BY <5>1
      <4>2. line[k] = LineFeed
        BY <1>9, <2>1, <4>1
      <4>. QED
        BY <4>1, <4>2, <1>16
    <3>. QED
      BY <3>1, <3>2, <3>3
  <2>2. Bytes'[Len(Bytes')] = LineFeed
    BY <1>9
  <2>. QED
    BY <1>8, <2>1, <2>2 DEF BreakShape
<1>20. GivenShape'
  <2>1. ASSUME NEW k \in DOMAIN given'
        PROVE  \E j \in DOMAIN lines' :
                 given'[k] = Update(j)' /\ Framed(j)' /\ HasUpdate(lines'[j])
    <3>1. PICK j \in 1..m : given[k] = Update(j) /\ Framed(j) /\ HasUpdate(lines[j])
      BY <1>3, <1>4, <1>5 DEF GivenShape
    <3>2. given'[k] = Update(j)' /\ Framed(j)' /\ HasUpdate(lines'[j])
      BY <1>3, <1>5, <1>12, <3>1
    <3>. QED
      BY <1>5, <3>2
  <2>2. ASSUME NEW j \in DOMAIN lines', Framed(j)', HasUpdate(lines'[j])
        PROVE  \E k \in DOMAIN given' : given'[k] = Update(j)'
    <3>1. j \in 1..m
      BY <1>5, <1>13, <2>2
    <3>. QED
      BY <1>3, <1>4, <1>5, <1>12, <2>2, <3>1 DEF GivenShape
  <2>3. \A j, k \in DOMAIN given' : j < k => given'[j].line < given'[k].line
    BY <1>3, <1>4 DEF GivenShape
  <2>. QED
    BY <2>1, <2>2, <2>3 DEF GivenShape
<1>. QED
  BY <1>15, <1>18, <1>19, <1>20 DEF WireShape, StreamShape

LEMMA WireShapeInit == WireInit => WireTypeOK /\ WireShape
<1> SUFFICES ASSUME WireInit PROVE WireTypeOK /\ WireShape
  OBVIOUS
<1>1. WireTypeOK
  BY WireAssumption DEF WireInit, WireTypeOK
<1>2. /\ DOMAIN lines = {} /\ DOMAIN given = {} /\ Len(buffer) = 0 /\ Len(got) = 1
      /\ got[1] = 0 /\ link = "open" /\ Len(Bytes) = 0
  BY DEF WireInit, Bytes
<1>3. CutShape
  BY <1>2 DEF CutShape
<1>4. StreamShape
  BY <1>2 DEF StreamShape, PendingShape, BreakShape
<1>5. GivenShape
  BY <1>2 DEF GivenShape
<1>. QED
  BY <1>1, <1>3, <1>4, <1>5 DEF WireShape

LEMMA WireShapeStep == WireTypeOK /\ WireShape /\ [WireNext]_wireVars => WireShape'
<1> SUFFICES ASSUME WireTypeOK, WireShape, [WireNext]_wireVars PROVE WireShape'
  OBVIOUS
<1>1. ASSUME UNCHANGED wireVars PROVE WireShape'
  <2>1. UNCHANGED <<link, lines, cut, wire, got, buffer, given>>
    BY <1>1 DEF wireVars
  <2>2. CutShape'
    BY <2>1 DEF WireShape, CutShape
  <2>3. StreamShape'
    <3>1. Base' = Base /\ Bytes' = Bytes
      BY <2>1 DEF Base, Bytes
    <3>2. \A i : (Pending(i)' <=> Pending(i)) /\ Spellings(i)' = Spellings(i)
      BY <2>1, <3>1 DEF Pending, Spellings, Text
    <3>3. \A i, line : Holds(i, line)' <=> Holds(i, line)
      BY <2>1, <3>1 DEF Holds
    <3>4. PendingShape' <=> PendingShape
      BY <2>1, <3>1, <3>2, <3>3 DEF PendingShape
    <3>5. BreakShape' <=> BreakShape
      BY <2>1, <3>1, <3>2 DEF BreakShape
    <3>. QED
      BY <2>1, <3>4, <3>5 DEF WireShape, StreamShape
  <2>4. GivenShape'
    <3>1. \A i : (Framed(i)' <=> Framed(i)) /\ Update(i)' = Update(i)
      BY <2>1 DEF Framed, Arrived, Base, Update
    <3>. QED
      BY <2>1, <3>1 DEF WireShape, GivenShape
  <2>. QED
    BY <2>2, <2>3, <2>4 DEF WireShape
<1>. QED
  BY <1>1, ShapeWrite, ShapeReceive, ShapeFrame, ShapeDrop, ShapeReconnect
  DEF WireNext, End, Cancel

LEMMA WireInvariant == WireSpec => [](WireTypeOK /\ WireShape)
  BY WireShapeInit, WireTypeStep, WireShapeStep, PTL DEF WireSpec

(* However the chunks are cut and wherever connections break, the sink is  *)
(* given the update of every readable line that has arrived to its end,    *)
(* once and in order (the framing loop of sidecar.rs:247-258).             *)
THEOREM UpdatesAreLines == WireSpec => []UpdatesAreExact
<1>1. WireTypeOK /\ WireShape => UpdatesAreExact
  <2> SUFFICES ASSUME WireTypeOK, WireShape PROVE UpdatesAreExact
    OBVIOUS
  <2>1. CutShape /\ StreamShape /\ GivenShape
    BY DEF WireShape
  <2>2. ASSUME ~Framing
        PROVE  {given[k].line : k \in DOMAIN given} =
                 {i \in DOMAIN lines : Arrived(i) /\ HasUpdate(lines[i])}
    <3>1. \A i \in DOMAIN lines : Arrived(i) <=> Framed(i)
      BY <2>1, <2>2, ArrivedIsFramed
    <3>2. ASSUME NEW k \in DOMAIN given
          PROVE  given[k].line \in {i \in DOMAIN lines : Arrived(i) /\ HasUpdate(lines[i])}
      <4>1. PICK i \in DOMAIN lines : given[k] = Update(i) /\ Framed(i) /\ HasUpdate(lines[i])
        BY <2>1 DEF GivenShape
      <4>2. given[k].line = i
        BY <4>1 DEF Update
      <4>. QED
        BY <3>1, <4>1, <4>2
    <3>3. ASSUME NEW i \in DOMAIN lines, Arrived(i), HasUpdate(lines[i])
          PROVE  \E k \in DOMAIN given : given[k].line = i
      <4>1. PICK k \in DOMAIN given : given[k] = Update(i)
        BY <2>1, <3>1, <3>3 DEF GivenShape
      <4>. QED
        BY <4>1 DEF Update
    <3>. QED
      BY <3>2, <3>3
  <2>. QED
    BY <2>1, <2>2 DEF UpdatesAreExact, GivenShape
<1>. QED
  BY <1>1, WireInvariant, PTL

(* The object in an update is the one that the line holds, in either       *)
(* spelling, and its capacity is exact as far as a double is, for every    *)
(* number and every width of the machine's integers (types.rs:129-210).    *)
THEOREM ObjectIsRead == WireSpec => []ObjectIsKept
<1>1. WireTypeOK /\ WireShape => ObjectIsKept
  <2> SUFFICES ASSUME WireTypeOK, WireShape, NEW k \in DOMAIN given
               PROVE  LET body == lines[given[k].line]
                          list == given[k].list
                      IN  /\ given[k].info = "gs" <=> body.meta # "absent"
                          /\ list.exists = (body.lists = "players")
                          /\ list.exists => /\ SameNumber(body.capacity, list.capacity)
                                            /\ list.values = {} <=> body.values # "some"
    BY DEF ObjectIsKept
  <2>1. PICK i \in DOMAIN lines : given[k] = Update(i) /\ HasUpdate(lines[i])
    BY DEF WireShape, GivenShape
  <2> DEFINE body == lines[i]
  <2>2. /\ given[k].line = i /\ given[k].info = Name(body) /\ given[k].list = Snapshot(body)
    BY <2>1 DEF Update
  <2>3. body \in Bodies /\ Readable(body)
    BY <2>1 DEF HasUpdate, WireTypeOK
  <2>4. Name(body) = "gs" <=> body.meta # "absent"
    <3>1. body.meta \in {"absent", "object_meta", "objectMeta"}
      BY <2>3, WireAssumption DEF Bodily, Readable
    <3>. QED
      BY <3>1 DEF Name
  <2>5. /\ Snapshot(body).exists = (body.lists = "players")
        /\ Snapshot(body).exists =>
             /\ SameNumber(body.capacity, Snapshot(body).capacity)
             /\ Snapshot(body).values = {} <=> body.values # "some"
    <3>1. Snapshot(body) \in Snapshots
      BY <2>3, SnapshotRead
    <3>2. Snapshot(body).exists <=> body.lists = "players"
      BY <2>3, SnapshotRead
    <3>3. Snapshot(body).exists \in BOOLEAN
      BY <3>1 DEF Snapshots
    <3>4. Snapshot(body).exists = (body.lists = "players")
      BY <3>2, <3>3
    <3>5. ASSUME body.lists = "players"
          PROVE  /\ SameNumber(body.capacity, Snapshot(body).capacity)
                 /\ Snapshot(body).values = {} <=> body.values # "some"
      BY <2>3, <3>5, SnapshotRead, NumberRead DEF Values
    <3>. QED
      BY <3>2, <3>4, <3>5
  <2>. QED
    BY <2>2, <2>4, <2>5
<1>. QED
  BY <1>1, WireInvariant, PTL
=============================================================================
