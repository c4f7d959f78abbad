------------------------------- MODULE Bench -------------------------------
(***************************************************************************)
(* What the model-checking modules share: laying a program out in core and *)
(* building the state in which the operator starts it.                     *)
(***************************************************************************)
EXTENDS Pdp12, TLC

\* A run of words from an address on, and single cells.
Code(at, words) == [a \in at .. at + Len(words) - 1 |-> words[a - at + 1]]
At(at, word) == Code(at, <<word>>)

\* The machine as switched on (LINC mode, IF 2, DF 3, PC 0200), loaded and started.
Booted(junk, image) == Started(Deposited(PowerOn(junk), image))
\* The operator's "pdp8" command and "set pc".
Pdp8Booted(image, pc) == [SetFlag(Booted(0, image), "8MODE") EXCEPT !.pc = pc]

\* The first word executed in LINC mode after power on, and the registers of its field.
LincOrigin == 2 * \o2000 + \o200
LincField == 2 * \o2000
DataField == 3 * \o2000

PDP8_HLT == \o7402
=============================================================================
