-------------------------------- MODULE Wire --------------------------------
(***************************************************************************)
(* What the watch stream carries (sdk/rust/gameflow/src/transport/         *)
(* sidecar.rs, types.rs): lines that arrive in chunks cut anywhere, and    *)
(* the game server object in a line, with the players list in it.          *)
(*                                                                         *)
(* A byte is a number.  The i-th line that the runtime writes has the text *)
(* <<i, Close>>, so that half a line, or the halves of two, is not a text; *)
(* what the text says is lines[i].  The machine integers are those from    *)
(* MIN to MAX, and Round is what a literal becomes as a double.            *)
(***************************************************************************)
EXTENDS Integers, Sequences

CONSTANTS
  Bodies,         \* what a line may say
  MaxLines,       \* bound: lines the runtime writes
  MaxConnections, \* bound: connections
  MAX,            \* the largest integer (2^63 - 1 in the code)
  Doubles,        \* the whole numbers that are doubles
  Precise,        \* up to here all of them are (2^53 in the code)
  Grain,          \* the distance of two beyond MAX (2048 in the code)
  Round(_)        \* the nearest double

MIN == -MAX - 1
UMAX == 2 * MAX + 1

Abs(n) == IF n < 0 THEN -n ELSE n

Bodily ==
  [says : {"result", "error", "nothing", "garbage"},
   meta : {"absent", "object_meta", "objectMeta", "both"},
   lists : {"absent", "null", "players", "other"},
   capacity : [form : {"absent", "null", "literal", "double", "string", "half", "other"},
               n : Int],
   values : {"absent", "null", "some"}]

Numbers == {body.capacity.n : body \in Bodies} \cup {MIN, MAX}

ASSUME WireAssumption ==
  /\ Bodies \subseteq Bodily
  /\ MaxLines \in Nat /\ MaxConnections \in Nat \ {0}
  /\ MAX \in Nat /\ Precise \in 0..MAX /\ Grain \in Nat /\ Grain > 2

(* What is known of doubles: they hold all small numbers and the powers of *)
(* two next to the bounds; no other is nearer to a number than its own,    *)
(* which is half a grain away at most as far as unsigned integers go.  The *)
(* parser is taken to find the nearest, whatever the literal looks like.   *)
ASSUME DoubleAssumption ==
  /\ Doubles \subseteq Int
  /\ (-Precise)..Precise \subseteq Doubles
  /\ {-(UMAX + 1), MIN, MAX + 1, UMAX + 1} \subseteq Doubles
  /\ \A n \in Numbers :
       /\ Round(n) \in Doubles
       /\ \A d \in Doubles : Abs(Round(n) - n) <= Abs(d - n)
       /\ Abs(n) <= UMAX + 1 => 2 * Abs(Round(n) - n) <= Grain

VARIABLES
  link,     \* "open", "ended", "cancelled"
  lines,    \* ghost: what the lines say, in the order they are written
  cut,      \* ghost: per line, its connection and the bytes there before and with it
  wire,     \* bytes written and not yet received
  got,      \* ghost: per connection, the bytes received
  buffer,   \* bytes received and not yet framed
  given     \* what the sink was given: [line, info, list]

wireVars == <<link, lines, cut, wire, got, buffer, given>>

LineFeed == -1
Return   == -2
Close    == 0

-----------------------------------------------------------------------------
(* Numbers. *)

Clamped(n) == IF n > MAX THEN MAX ELSE IF n < MIN THEN MIN ELSE n

(* The decoders return the set of their results: one, or none if they     *)
(* refuse.  A double is compared with the bounds as doubles, and the cast  *)
(* saturates.                                                              *)
FromDouble(v) == IF v >= Round(MIN) /\ v <= Round(MAX) THEN {Clamped(v)} ELSE {}

FromUnsigned_Wraps(v) == {IF v <= MAX THEN v ELSE v - (UMAX + 1)}

FromUnsigned(v) == IF v <= MAX THEN {v} ELSE {}

(* An integer literal that no machine integer can hold is read as a double. *)
FromLiteral(n) == IF n \in 0..UMAX THEN FromUnsigned(n)
                  ELSE IF n \in MIN..(-1) THEN {n}
                  ELSE FromDouble(Round(n))

FromString(n) == IF n \in MIN..MAX THEN {n} ELSE {}

(* de_i64_str_or_num, and the default of a field that is absent.  "half"   *)
(* is a literal with a fraction, "other" a boolean, an array, an object or *)
(* a text that is no number.                                               *)
Number(json) == IF json.form \in {"absent", "null"} THEN {0}
                ELSE IF json.form = "literal" THEN FromLiteral(json.n)
                ELSE IF json.form = "double" THEN FromDouble(Round(json.n))
                ELSE IF json.form = "string" THEN FromString(json.n)
                ELSE {}

-----------------------------------------------------------------------------
(* What a line says. *)

Disabled == [exists |-> FALSE, capacity |-> 0, values |-> {}]

(* A list of values, absent or null: de_null_default. *)
Values(json) == IF json = "some" THEN {"p"} ELSE {}

(* One bad field makes the whole line unreadable: a capacity that is not a *)
(* number, of whichever list, or object_meta in both of its spellings.     *)
Readable(body) ==
  /\ body.says # "garbage"
  /\ body.meta # "both"
  /\ body.lists \in {"players", "other"} => Number(body.capacity) # {}

(* RawGameServer as the rest of the SDK sees it: to_info and parse_list. *)
Name(body) == IF body.meta \in {"object_meta", "objectMeta"} THEN "gs" ELSE ""

Snapshot(body) ==
  IF body.lists # "players" THEN Disabled
  ELSE [exists |-> TRUE, capacity |-> CHOOSE n \in Number(body.capacity) : TRUE,
        values |-> Values(body.values)]

(* handle_watch_line: an error goes to the log, even beside a result. *)
HasUpdate(body) == Readable(body) /\ body.says = "result"

Text(i) == IF lines[i].says = "nothing" THEN <<>> ELSE <<i, Close>>

(* Line i, if JSON can read it: it ignores a carriage return after a text. *)
Says(line, i) ==
  /\ line \in {Text(i), Append(Text(i), Return)}
  /\ HasUpdate(lines[i])

Update(i) == [line |-> i, info |-> Name(lines[i]), list |-> Snapshot(lines[i])]

HandleLine(line) ==
  IF \E i \in DOMAIN lines : Says(line, i)
  THEN \E i \in DOMAIN lines : Says(line, i) /\ given' = Append(given, Update(i))
  ELSE UNCHANGED given

-----------------------------------------------------------------------------
(* Framing. *)

Codes == {Return, LineFeed} \cup 0..MaxLines
Cuts == [connection : Nat, start : Nat, end : Nat]
Snapshots == [exists : BOOLEAN, capacity : MIN..MAX, values : SUBSET {"p"}]
Updates == [line : 1..MaxLines, info : {"gs", ""}, list : Snapshots]

WireTypeOK ==
  /\ link \in {"open", "ended", "cancelled"}
  /\ lines \in Seq(Bodies) /\ Len(lines) <= MaxLines
  /\ cut \in Seq(Cuts) /\ Len(cut) = Len(lines)
  /\ wire \in Seq(Codes) /\ buffer \in Seq(Codes)
  /\ got \in Seq(Nat) /\ Len(got) \in 1..MaxConnections
  /\ given \in Seq(Updates)

WireInit ==
  /\ link = "open"
  /\ lines = <<>>
  /\ cut = <<>>
  /\ wire = <<>>
  /\ got = <<0>>
  /\ buffer = <<>>
  /\ given = <<>>

StripReturn(line) ==
  IF line # <<>> /\ line[Len(line)] = Return THEN SubSeq(line, 1, Len(line) - 1) ELSE line

(* A whole line waits in the buffer: the while-let goes on.  Otherwise the *)
(* stream waits in its select.                                             *)
Framing == \E n \in DOMAIN buffer : buffer[n] = LineFeed

Waiting == link = "open" /\ ~Framing

FirstBreak(n) ==
  n \in DOMAIN buffer /\ buffer[n] = LineFeed /\ \A m \in 1..(n - 1) : buffer[m] # LineFeed

(* One round of the while-let: the next line is taken out and handled,     *)
(* unless it is empty.                                                     *)
Frame ==
  /\ link = "open"
  /\ \E n \in DOMAIN buffer :
       /\ FirstBreak(n)
       /\ buffer' = SubSeq(buffer, n + 1, Len(buffer))
       /\ LET line == StripReturn(SubSeq(buffer, 1, n - 1))
          IN  IF line = <<>> THEN UNCHANGED given ELSE HandleLine(line)
  /\ UNCHANGED <<link, lines, cut, wire, got>>

(* The runtime writes a line, with either line end. *)
Write(body) ==
  /\ link = "open"
  /\ Len(lines) < MaxLines
  /\ lines' = Append(lines, body)
  /\ \E end \in {<<LineFeed>>, <<Return, LineFeed>>} :
       LET bytes == (IF body.says = "nothing" THEN <<>> ELSE <<Len(lines) + 1, Close>>) \o end
           start == got[Len(got)] + Len(wire)
       IN  /\ wire' = wire \o bytes
           /\ cut' = Append(cut, [connection |-> Len(got), start |-> start,
                                  end |-> start + Len(bytes)])
  /\ UNCHANGED <<link, got, buffer, given>>

Joined_Afresh(chunk) == chunk

(* buffer.extend_from_slice *)
Joined(chunk) == buffer \o chunk

(* The next chunk: any number of bytes. *)
Receive ==
  /\ Waiting
  /\ \E n \in 1..Len(wire) :
       /\ buffer' = Joined(SubSeq(wire, 1, n))
       /\ wire' = SubSeq(wire, n + 1, Len(wire))
       /\ got' = [got EXCEPT ![Len(got)] = @ + n]
  /\ UNCHANGED <<link, lines, cut, given>>

(* The bytes on their way and in the buffer are gone. *)
Drop(to) ==
  /\ Waiting
  /\ link' = to
  /\ wire' = <<>>
  /\ buffer' = <<>>
  /\ UNCHANGED <<lines, cut, got, given>>

(* The stream ends or breaks; the caller connects again. *)
End == Drop("ended")

Reconnect ==
  /\ link = "ended"
  /\ Len(got) < MaxConnections
  /\ link' = "open"
  /\ got' = Append(got, 0)
  /\ UNCHANGED <<lines, cut, wire, buffer, given>>

(* The token is cancelled; the response is dropped with the future. *)
Cancel == Drop("cancelled")

WireNext ==
  \/ \E body \in Bodies : Write(body)
  \/ Receive
  \/ Frame
  \/ End
  \/ Reconnect
  \/ Cancel

WireSpec == WireInit /\ [][WireNext]_wireVars

-----------------------------------------------------------------------------
(* Properties. *)

(* The sink is given the update of every line that has arrived to its end  *)
(* and can be read, once and in order, wherever the chunks are cut and     *)
(* connections break; a line that cannot be read costs no other            *)
(* (sidecar.rs:247-258, :268-286).                                         *)
Arrived(i) == got[cut[i].connection] >= cut[i].end

UpdatesAreExact ==
  /\ \A j, k \in DOMAIN given : j < k => given[j].line < given[k].line
  /\ ~Framing => {given[k].line : k \in DOMAIN given} =
                   {i \in DOMAIN lines : Arrived(i) /\ HasUpdate(lines[i])}

(* The object that the SDK works with is the one that was written, in      *)
(* either spelling and whatever is null in it: the capacity is exact as    *)
(* far as a double is, beyond that at most one step of a double away, and  *)
(* never another number altogether (types.rs:80-91, :129-210).             *)
SameNumber(sent, read) ==
  \/ read = (IF sent.form \in {"absent", "null"} THEN 0 ELSE sent.n)
  \/ Abs(sent.n) > Precise /\ Abs(read - sent.n) < Grain

ObjectIsKept ==
  \A k \in DOMAIN given :
    LET body == lines[given[k].line]
        list == given[k].list
    IN  /\ given[k].info = "gs" <=> body.meta # "absent"
        /\ list.exists = (body.lists = "players")
        /\ list.exists => /\ SameNumber(body.capacity, list.capacity)
                          /\ list.values = {} <=> body.values # "some"
=============================================================================
