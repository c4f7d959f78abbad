---------------------------- MODULE DisplayCases ----------------------------
(***************************************************************************)
(* Display instructions: a point at every boundary coordinate, and two     *)
(* characters drawn one after the other in both sizes.                     *)
(***************************************************************************)
EXTENDS Bench

Horizontals == {0, 1, \o77, \o376, \o777, \o1000, \o1777, \o3777, \o4000, \o4776, \o7777}
Verticals == {0, 1, \o377, \o400, \o401, \o777, \o1400, \o7777}

\* DIS 5; DIS I 5; HLT.
PointStarts ==
  { [Booted(0, Code(LincOrigin, <<\o145, \o165>>) @@ At(LincField + 5, t)) EXCEPT !.ac = ac]
    : t \in Horizontals, ac \in Verticals }
\* DSC I; pattern; DSC I; pattern; HLT.
DSC_I == \o1760
CharacterStarts ==
  { [Booted(size, Code(LincOrigin, <<DSC_I, pattern, DSC_I, pattern>>) @@ At(LincField + 1, x))
       EXCEPT !.ac = ac]
    : size \in {0, CPU_ESF_CHAR_SIZE}, pattern \in {0, \o4177},
      x \in {0, \o100, \o700, \o760, \o1010}, ac \in Verticals }
DisplayStarts == PointStarts \union CharacterStarts
----------------------------------------------------------------------------
Points(c) == {o \in c.out : o[1] = "dis"}
OnScreen(p) == p[2] \in 0 .. \o777 /\ p[3] \in 0 .. \o777

\* DSC steps the horizontal register past the character: the next one is drawn beside it.
CharactersDoNotOverlap ==
  [][DSC => Points(cpu) \intersect Points(cpu') = {}]_cpu

\* vr12.h: dsc is emulated with dis in translated coordinates, (0, 0) to (0777, 0777).
CharactersAreOnScreen == [][DSC => \A p \in Points(cpu') : OnScreen(p)]_cpu
=============================================================================
