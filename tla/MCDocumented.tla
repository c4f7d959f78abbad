---------------------------- MODULE MCDocumented ---------------------------
(***************************************************************************)
(* What comments and declarations of the source say of single              *)
(* instructions, each checked by a run of its own in which the code does   *)
(* something else.                                                         *)
(***************************************************************************)
EXTENDS Bench

\* cpu.h, CPU_FLAGS_LINC_II: "Inhibit Interrupts until next JMP in new IF"; linc.c, instr_JMP:
\* "Disable LIF interrupt inhibit if we aren't waiting for a new IF."  The jump that enters the
\* field may leave the flag set; a jump with no field pending may not.
InhibitEndsInNewField ==
  [][JMP /\ "LIF" \notin cpu.flags => "LINC_II" \notin cpu'.flags]_cpu
\* LIF 4; JMP 0200 of field 4; there JMP 0300.
InhibitStarts ==
  {Booted(0, Code(LincOrigin, <<\o600 + n, \o6200, \o6200>>)
             @@ Code(n * \o2000 + \o200, <<\o6300, 0>>)) : n \in {4, 5}}

\* cpu.h: "Link (AC extension)"; pdp8.c: "Two's Complement Add to Accumulator".
TadAddsToLinkAndAc ==
  [][TAD8 => cpu'.l * \o10000 + cpu'.ac = (cpu.l * \o10000 + cpu.ac + Operand8) % \o20000]_cpu
TadStarts ==
  {[Pdp8Booted(Code(\o200, <<\o1203, PDP8_HLT, 0, \o7777>>), \o200) EXCEPT !.l = l, !.ac = 1]
     : l \in {0, 1}}

\* pdp8.c, instr_mem: "This page or page 0?" - the page the instruction is on.
DcaStoresOnThisPage ==
  [][DCA8 /\ Bit(\o200) /\ ~Indirect
       => \A a \in DOMAIN cpu'.core :
            Cell(cpu'.core, a) # Cell(cpu.core, a) => a \div \o200 = cpu.pc \div \o200]_cpu
DcaStarts ==
  {[Pdp8Booted(Code(pc, <<\o3210, PDP8_HLT>>), pc) EXCEPT !.ac = 5] : pc \in {\o200, \o377}}

MCKeys == {}
MCSamples == {0}
=============================================================================
