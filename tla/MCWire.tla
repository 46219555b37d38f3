------------------------------- MODULE MCWire -------------------------------
(* Instances of Wire for TLC: one body for each thing that a line can say, *)
(* integers of Width bits and doubles of Precision bits of mantissa.       *)
EXTENDS Wire

Width == 5
Precision == 3

MCMAX == 2^(Width - 1) - 1

(* The distance between two doubles of the size of n. *)
Ulp(n) == CHOOSE u \in {2^k : k \in 0..Width} :
            /\ Abs(n) < u * 2^Precision
            /\ u = 1 \/ Abs(n) >= (u \div 2) * 2^Precision

(* The nearest double, the even one of two. *)
MCRound(n) ==
  LET u == Ulp(n)
      below == n - (n % u)
      twice == 2 * (n % u)
  IN  IF twice > u \/ (twice = u /\ (below \div u) % 2 = 1) THEN below + u ELSE below

MCPrecise == 2^Precision
MCGrain == Ulp(MCMAX + 1)

(* As far as the numbers below go, and beyond. *)
MCDoubles == {MCRound(n) : n \in -(2^(Width + 1))..(2^(Width + 1))}

(* A readable object, with the capacity in a string as the gateway sends   *)
(* it; the bodies below differ from it.                                    *)
Plain == [says |-> "result", meta |-> "object_meta", lists |-> "players",
          capacity |-> [form |-> "string", n |-> 3], values |-> "some"]

(* Beyond the bounds of an integer. *)
MCNumbers ==
  [form : {"literal"}, n : {MAX + 1, MIN - 1}] \cup [form : {"double"}, n : {MAX + 2}]

MCBodies ==
  {Plain, [Plain EXCEPT !.meta = "both"]} \cup
  {[Plain EXCEPT !.capacity = json] : json \in MCNumbers} \cup
  {[Plain EXCEPT !.says = what] : what \in {"error", "nothing"}} \cup
  {[Plain EXCEPT !.meta = "objectMeta", !.lists = list,
                 !.capacity.form = "null", !.values = "null"] :
     list \in {"players", "null"}}
=============================================================================
