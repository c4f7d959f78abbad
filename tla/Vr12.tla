-------------------------------- MODULE Vr12 -------------------------------
(***************************************************************************)
(* The VR-12 display (vr12.c): the points a display instruction hands to   *)
(* the frontend's dis callback.  The console has no character callbacks,   *)
(* so characters are always drawn point by point (vr12_dsce).              *)
(***************************************************************************)
EXTENDS Cpu

Point(x, y, channel) == <<"dis", x, y, channel>>

\* A nine-bit ones' complement number: the vertical coordinate in AC.
Vertical(ac) ==
  IF Has(ac, \o400) THEN -(Comp(ac) % \o400) ELSE ac % \o400

\* vr12_dis: the top of the screen, 0377, becomes line 0.
Vr12Dis(c, x, y, channel) == Emit(c, Point(x, \o377 - y, channel))

\* vr12_dsce: two columns of six points.
CharacterPoints(x, y, spacing) ==
  {Point(x + spacing * (IF i <= 5 THEN 2 ELSE 1), y + ((i % 6) - 5) * spacing, 2) : i \in 0 .. 11}
Vr12Dsc(c, full, x, y, pattern) ==
  [c EXCEPT !.out = @ \union CharacterPoints(x, y, IF full THEN 4 ELSE 2)]
=============================================================================
