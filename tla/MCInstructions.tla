--------------------------- MODULE MCInstructions ---------------------------
(***************************************************************************)
(* Every instruction of both modes, on the operands, in the places and     *)
(* before the instructions that make a difference.                         *)
(***************************************************************************)
EXTENDS LincCases, ArithmeticCases, Pdp8Cases, DisplayCases

\* TLC sorts what it filters, and searches a sorted set faster.
Sorted(S) == {c \in S : TRUE}
MCStarts == Sorted(Sorted(LincStarts) \union Sorted(ArithmeticStarts))
            \union Sorted(Pdp8Starts) \union DisplayStarts
MCKeys == {}
MCSamples == {0, 5}
=============================================================================
