-------------------------- MODULE ArithmeticCases ---------------------------
(***************************************************************************)
(* One arithmetic instruction on every pair of boundary operands, and one  *)
(* shift by every count on every boundary register file.                   *)
(***************************************************************************)
EXTENDS Bench

\* The signs, the zeros, the extremes, all-ones halves and mixed patterns.
Boundary == {0, 1, 2, \o77, \o777, \o2525, \o3776, \o3777, \o4000, \o4001, \o5252,
             \o7000, \o7700, \o7776, \o7777}

\* ADD 0300; ADA, ADM and MUL with the operand next, at 0300 and as a fraction at 0300.
Operations == {<<\o2300, 0>>} \union
  { <<\o1000 + op * \o40, at>> : op \in {2, 3, 5}, at \in {\o300, \o4300} } \union
  { <<\o1020 + op * \o40, -1>> : op \in {2, 3, 5} }
SumStarts ==
  { [Booted(0, Code(LincOrigin, <<w[1], IF w[2] < 0 THEN y ELSE w[2], 0>>)
               @@ At(LincField + \o300, y))
       EXCEPT !.ac = x, !.flags = @ \union flo]
    : w \in Operations, x \in Boundary, y \in Boundary, flo \in {{}, {"FLO"}} }

ShiftStarts ==
  { [Booted(0, At(LincOrigin, op * \o40 + i + a)) EXCEPT !.ac = ac, !.l = l, !.mq = \o5253]
    : op \in {5, 6, 7}, i \in {0, \o20}, a \in 0 .. 15,
      ac \in {0, 1, \o2525, \o4000, \o7776, \o7777}, l \in {0, 1} }

ArithmeticStarts == SumStarts \union ShiftStarts
=============================================================================
