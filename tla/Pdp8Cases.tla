----------------------------- MODULE Pdp8Cases ------------------------------
(***************************************************************************)
(* Every PDP-8 instruction: memory references direct and indirect, through *)
(* page 0, this page and an auto-index cell, every Group 1 word, every     *)
(* Group 2 word, the I/O codes, each followed by a halt or a mode switch.  *)
(***************************************************************************)
EXTENDS Bench, Arithmetic

MemoryWords == {op * \o1000 + i + p : op \in 0 .. 5, i \in {0, \o400},
                                      p \in {\o10, \o50, \o220}}
GroupWords == {\o7000 + n : n \in 0 .. \o377} \union {\o7400 + 2 * n : n \in 0 .. \o177}
IotWords == {\o6001, \o6002, \o6141, \o6224, \o6031, \o6036, \o6041, \o6046, \o6305, \o7401}

Origin == \o200
Block(field, cell) ==
  At(field + \o10, cell) @@ At(field + \o50, cell) @@ At(field + \o220, cell)
  @@ Code(field + \o300, <<PDP8_HLT, PDP8_HLT, PDP8_HLT>>)
Programs(ws, nexts, cells, fields) ==
  { [Pdp8Booted(Code(Origin, <<w, next, PDP8_HLT, PDP8_HLT>>)
                 @@ Block(0, cell) @@ Block(\o40000, cell), Origin)
       EXCEPT !.ac = ac, !.l = l, !.rs = \o7070, !.kf = 1, !.dfr = df]
    : w \in ws, next \in nexts, cell \in cells, df \in fields,
      ac \in {0, \o2, \o3777, \o7777}, l \in {0, 1} }
\* IOB_LINC at both ends of every LINC field of three PDP-8 fields.
SwitchStarts ==
  { [Pdp8Booted(At((ifr \div 4) * \o10000 + pc, \o6141), pc) EXCEPT !.ifr = ifr]
    : pc \in {0, \o1776, \o1777, \o2000, \o3777, \o5000, \o7776, \o7777}, ifr \in {0, 3, 6, \o37} }
Pdp8Starts ==
  SwitchStarts
  \union Programs(MemoryWords, {PDP8_HLT, \o6141}, {\o277, \o300, \o7776, \o7777}, {3, \o20})
  \union Programs(GroupWords \union IotWords, {PDP8_HLT}, {\o300}, {3})
=============================================================================
