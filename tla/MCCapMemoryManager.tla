------------------------ MODULE MCCapMemoryManager ------------------------
(***************************************************************************)
(* Instances of CapMemoryManager for TLC: lines of four bytes of two bits  *)
(* (eight elements), four characters.  Elements are written by number.     *)
(***************************************************************************)
EXTENDS CapMemoryManager

MCBits == 0..1

Vector(numbers) == [i \in Positions |-> {j \in Bits : 2 * i + j \in numbers}]

(* An automaton: accepts[c] are the elements that accept character c,
   edges[s] those that element s activates.                               *)
Automaton(accepts, edges, start, report) ==
  [rows    |-> [c \in 0..NumLines - 1 |-> Vector(accepts[c])],
   swizzle |-> [s \in STEs |->
                  LET number == 2 * s[1] + s[2]
                  IN  Vector(IF number \in DOMAIN edges THEN edges[number]
                             ELSE {})],
   start   |-> Vector(start),
   report  |-> Vector(report)]

Accepts(a0, a3) == [c \in 0..3 |-> CASE c = 0 -> a0 [] c = 3 -> a3 [] OTHER -> {5}]
Edges(e0, e2, e5) == [s \in {0, 2, 5} |-> CASE s = 0 -> e0 [] s = 2 -> e2 [] OTHER -> e5]

(* Elements 0, 2 and 5 accept characters, 7 reports (and so does 3 in some):
   chains, loops, branches that meet in one byte, and two reports at once. *)
MCPrograms ==
  {Automaton(Accepts({0, 2}, a3), Edges(e0, {3, 7}, {7}), {0, 5}, report) :
     a3 \in {{2, 5}, {0, 5}}, e0 \in {{2, 5}, {0, 2}}, report \in {{7}, {3, 7}}}

(* Inputs shorter than a line, one with a character whose row the masks'
   stores spill into, and two that need more than a line.                  *)
MCInputs == {<<>>, <<0, 1, 3>>, <<0, 3, 3, 0>>, <<0, 0, 3, 0, 3>>}
              \cup {<<0, 0, 3>>, <<0, 3, 0>>, <<3, 0, 3>>, <<3, 3, 0>>}

MCFewPrograms ==
  {Automaton(Accepts({0}, {2}), Edges({2}, {7}, {7}), {0}, {7})}
MCFewInputs == UNION {[1..n -> {0, 3}] : n \in 0..5}
=============================================================================
