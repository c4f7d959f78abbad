------------------------------- MODULE Pdp12 -------------------------------
(***************************************************************************)
(* The machine: cpu_step in the loop of cmd_run, in either mode, with the  *)
(* keyboard beside it.  Starts is the set of states in which the operator  *)
(* can have typed "run".                                                   *)
(***************************************************************************)
EXTENDS Linc, Pdp8

CONSTANT Starts

\* A field request survives a halt only together with the field it names.
StartOK(c) ==
  /\ IsCpu(c)
  /\ "8MODE" \notin c.flags => c.pc < \o2000
  /\ "LIF" \in c.flags => c.ifb # NoField
ASSUME StartsAssumption == \A c \in Starts : StartOK(c)
ASSUME KeysAssumption == Keys \subseteq 0 .. \o377
ASSUME SamplesAssumption == Samples \subseteq -\o777 .. \o777

Init == cpu \in Starts

\* cmd_run calls cpu_step while the run flip-flop is set, then returns to the prompt.
Step == LincStep \/ Pdp8Step
Halted == ~Running /\ UNCHANGED cpu

Next == Step \/ KeyStruck \/ Halted
Spec == Init /\ [][Next]_cpu

\* The run loop never pauses: a running machine takes its next step.
FairSpec == Spec /\ WF_cpu(Step)
----------------------------------------------------------------------------
\* Every register keeps its width, and core stays inside its 32768 words of 12 bits.
TypeOK == IsCpu(cpu)

\* In LINC mode the counter is an offset in the 1024-word instruction field.
LincPcInSegment == LincMode => cpu.pc < \o2000

\* A pending field change names a field: the buffer cpu_create leaves unset is never used.
PendingFieldLoaded == "LIF" \in cpu.flags => cpu.ifb # NoField

\* The core address of the word the program counter points at.
Place(c) ==
  IF "8MODE" \in c.flags THEN Pdp8Address(c.ifr, c.pc) ELSE LincAddress(c, c.pc)

\* PDP and IOB_LINC renumber the counter and the field, yet execution goes on with the
\* word after the one that switched the mode.
ModeSwitchKeepsPlace ==
  [][("8MODE" \in cpu.flags) # ("8MODE" \in cpu'.flags)
       => Place(cpu') = Place(IF LincMode THEN F ELSE G)]_cpu

\* What a step stores lands in the fields it may address: in LINC mode the 1024-word data
\* and instruction fields (a trap stores in field 0), in PDP-8 mode their 4096-word fields.
\* A jump stores its return in the field it arrives in, never in the one it leaves.
ReachableLinc == IF JMP THEN {cpu'.ifr} ELSE {cpu.ifr, cpu.dfr, cpu'.ifr}
ReachablePdp8 == {cpu.ifr \div 4, cpu.dfr \div 4}
InFields(a) ==
  IF LincMode THEN a \div \o2000 \in ReachableLinc ELSE a \div \o10000 \in ReachablePdp8
WritesStayInFields ==
  [][\A a \in DOMAIN cpu'.core : Cell(cpu'.core, a) # Cell(cpu.core, a) => InFields(a)]_cpu

\* The instruction field is changed behind the program's back by no instruction: a change
\* is a jump that had been announced by LIF, a trap that recorded both fields in the save
\* field register, or IOB_LINC.
FieldChangesAreAnnounced ==
  [][cpu'.ifr # cpu.ifr =>
       \/ "LIF" \in cpu.flags \ cpu'.flags /\ cpu'.ifr = cpu.ifb % \o40
       \/ cpu'.ifr = 0 /\ cpu'.sfr = cpu.ifr * \o40 + cpu.dfr /\ cpu'.pc = LINC_TRAP_PC
       \/ cpu'.ir = IOB_LINC]_cpu

\* A trap leaves enough behind to resume: the saved instruction field and the word in
\* LINC_TRAP_SAVE_PC name the place the program would have gone on from.
TapeTrapped == TAPE /\ Has(cpu.esf, CPU_ESF_TAPE_TRAP)
Trapped == Has(cpu.esf, CPU_ESF_INSTRUCTION_TRAP) /\ (TRAP1 \/ TRAP23 \/ TapeTrapped)
TrapIsResumable ==
  [][Trapped
       => (cpu'.sfr \div \o40) * \o2000 + Cell(cpu'.core, LINC_TRAP_SAVE_PC)
            = Place(IF Beta(14) THEN B ELSE F)]_cpu
=============================================================================
