----------------------------- MODULE LincCases ------------------------------
(***************************************************************************)
(* Every LINC instruction, direct and through an index register, followed  *)
(* by a jump, a field change, a mode switch or a trap.                     *)
(***************************************************************************)
EXTENDS Bench

\* Each beta operation with the operand in the next word and through register 5, and each
\* alpha operation with both values of i.
BetaWords == {\o1000 + op * \o40 + i + b : op \in 0 .. 15, i \in {0, \o20}, b \in {0, 5}}
AlphaWords == {op * \o40 + i + 5 : op \in 1 .. 15, i \in {0, \o20}}
SkipWords == {9 * \o40 + i + a : i \in {0, \o20}, a \in {2} \union 8 .. 15}
MiscWords == 0 .. \o17 \union {\o24, \o500, \o516, \o517, \o501, \o415, \o435}
DirectWords == {\o2005, \o4005, \o6000, \o6300}
FirstWords == BetaWords \union AlphaWords \union SkipWords \union MiscWords \union DirectWords

\* JMP 0300, JMP 0, PDP, HLT, LIF 4, an undefined word, and IOB with its operand next.
SecondWords == {\o6300, \o6000, \o2, \o604, \o6141, \o540}

\* What ESF was left with, trapping or not, an accumulator and register 5.
Settings == {<<\o77, \o7776, \o3777>>, <<\o10, \o3421, \o7777>>, <<\o10, \o3421, \o201>>}
InstructionStarts ==
  { [Booted(s[1], Code(LincOrigin, <<w1, w2, PDP8_HLT, PDP8_HLT>>) @@ At(LincField + 5, s[3]))
       EXCEPT !.ac = s[2], !.l = 1, !.mq = \o2525, !.rs = \o1234, !.ls = \o4321, !.ss = 4]
    : w1 \in FirstWords, w2 \in SecondWords, s \in Settings }
\* PDP, HLT, SKP and a skipped operand at both ends of every kind of field.
EdgeStarts ==
  { [Booted(0, At(field * \o2000 + pc, w) @@ At(field * \o2000 + ((pc + 1) % \o2000), PDP8_HLT))
       EXCEPT !.pc = pc, !.ifr = field]
    : w \in {2, 0, \o456, \o1020, \o540}, pc \in {0, \o1775, \o1776, \o1777},
      field \in {0, 1, 3, 6, \o37} }
LincStarts == InstructionStarts \union EdgeStarts
=============================================================================
