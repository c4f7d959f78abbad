-------------------------------- MODULE Pdp8 -------------------------------
(***************************************************************************)
(* PDP-8 mode (pdp8.c).  One action per memory reference instruction, one  *)
(* for each group of operate instructions and one for the I/O class; the   *)
(* names carry an 8 where LINC mode has the same mnemonic.                 *)
(***************************************************************************)
EXTENDS Iob

\* pdp8_read_i, pdp8_read_d and the writes: 4096-word fields, three high field bits.
Pdp8Address(field, addr) == (addr % \o10000) + (field \div 4) * \o10000
ReadI(c, addr) == CpuRead(c, Pdp8Address(c.ifr, addr))
ReadD(c, addr) == CpuRead(c, Pdp8Address(c.dfr, addr))
WriteI(c, addr, data) == CpuWrite(c, Pdp8Address(c.ifr, addr), data)
WriteD(c, addr, data) == CpuWrite(c, Pdp8Address(c.dfr, addr), data)

\* pdp8_step up to pdp8_do.
Pdp8Fetch(c) == Pdp8IncPc([c EXCEPT !.ir = ReadI(c, c.pc), !.out = {}])
G == Pdp8Fetch(cpu)
Pdp8Turn == Running /\ ~LincMode
Class(op) == Pdp8Turn /\ G.ir \div \o1000 = op
Bit(p) == Has(G.ir, p)
----------------------------------------------------------------------------
\* instr_mem: pointers of a jump live in the instruction field, the others in the data field.
Indirect == Bit(\o400)
PageAddress(c) == (IF Has(c.ir, \o200) THEN (c.pc \div \o200) * \o200 ELSE 0) + (c.ir % \o200)
IsJump(c) == c.ir \div \o1000 \in {4, 5}
Pointer(c) == IF IsJump(c) THEN ReadI(c, PageAddress(c)) ELSE ReadD(c, PageAddress(c))
AutoIndexed(c) == PageAddress(c) \in \o10 .. \o17
\* Mutant: an auto-index pointer is used before it is stepped.
EffectiveAddressMutant(c) == IF ~Has(c.ir, \o400) THEN PageAddress(c) ELSE Pointer(c)
\* eaddr, and the state once an auto-index pointer is stepped.
EffectiveAddress(c) ==
  IF ~Has(c.ir, \o400) THEN PageAddress(c)
  ELSE IF AutoIndexed(c) THEN (Pointer(c) + 1) % \o10000 ELSE Pointer(c)
Addressed(c) ==
  IF ~(Has(c.ir, \o400) /\ AutoIndexed(c)) THEN c
  ELSE IF IsJump(c) THEN WriteI(c, PageAddress(c), Pointer(c) + 1)
  ELSE WriteD(c, PageAddress(c), Pointer(c) + 1)

E8 == EffectiveAddress(G)
N == Addressed(G)
Operand8 == IF Indirect THEN ReadD(N, E8) ELSE ReadI(N, E8)
Store8(c, data) == IF Indirect THEN WriteD(c, E8, data) ELSE WriteI(c, E8, data)

\* ~l is never 0 for l in {0, 1}, so complementing the link sets it.
ComplementLink(c) == SetL(c, Comp(c.l))
CarryIfSet(t, c) == IF Has(t, \o10000) THEN ComplementLink(c) ELSE c

AND8 == Class(0) /\ cpu' = SetAc(N, FromBits(Bits(N.ac) \intersect Bits(Operand8)))
\* Mutant: the accumulator is overwritten.
TAD8Mutant == Class(1) /\ cpu' = SetAc(N, Operand8)
TAD8 ==
  /\ Class(1)
  /\ LET sum == Operand8 + N.ac IN cpu' = CarryIfSet(sum, SetAc(N, sum))
ISZ8 ==
  /\ Class(2)
  /\ LET sum == (Operand8 + 1) % \o10000
     IN cpu' = Store8(IF sum = 0 THEN Pdp8IncPc(N) ELSE N, sum)
DCA8 == Class(3) /\ cpu' = SetAc(Store8(N, N.ac), 0)
JMS8 == Class(4) /\ cpu' = SetPc(WriteI(N, E8, N.pc), E8 + 1)
JMP8 == Class(5) /\ cpu' = SetPc(N, E8)
IOT8 == Class(6) /\ cpu' = IobIo(G)
----------------------------------------------------------------------------
\* Group 1: the microinstructions of one word, in the order of instr_g1.
Micro(bit, c, next) == IF Has(c.ir, bit) THEN next ELSE c
Rotated(c, t) == SetL(SetAc(c, t), IF Has(t, \o10000) THEN 1 ELSE 0)
Places(c) == IF Has(c.ir, 2) THEN 2 ELSE 1
G1Clear(c) ==
  LET d == Micro(\o200, c, SetAc(c, 0)) IN Micro(\o100, d, SetL(d, 0))
G1Complement(c) ==
  LET d == Micro(\o40, c, SetAc(c, Comp(c.ac))) IN Micro(\o20, d, ComplementLink(d))
G1Increment(c) == Micro(1, c, CarryIfSet(c.ac + 1, SetAc(c, c.ac + 1)))
G1Rotate(c) ==
  LET d == Micro(\o10, c, Rotated(c, RotateRight(WithLink(c.ac, c.l), Places(c), 13)))
  IN Micro(\o4, d, Rotated(d, RotateLeft(WithLink(d.ac, d.l), Places(d), 13)))
\* Mutant: the increment comes before the complement.
Group1Mutant ==
  /\ Class(7) /\ ~Bit(\o400)
  /\ cpu' = G1Rotate(G1Complement(G1Increment(G1Clear(G))))
Group1 ==
  /\ Class(7) /\ ~Bit(\o400)
  /\ cpu' = G1Rotate(G1Increment(G1Complement(G1Clear(G))))

\* Group 2: with the sense bit all the complements must hold, without it one condition.
Conditions(c) ==
  (IF Has(c.ir, \o100) THEN {Has(c.ac, \o4000)} ELSE {})
  \union (IF Has(c.ir, \o40) THEN {c.ac = 0} ELSE {})
  \union (IF Has(c.ir, \o20) THEN {c.l # 0} ELSE {})
Skips(c) == IF Has(c.ir, \o10) THEN TRUE \notin Conditions(c) ELSE TRUE \in Conditions(c)
G2Skip(c) == IF Skips(c) THEN Pdp8IncPc(c) ELSE c
G2Clear(c) == Micro(\o200, c, SetAc(c, 0))
G2Switches(c) == Micro(\o4, c, SetAc(c, c.rs))
G2Halt(c) == Micro(\o2, c, ClearFlag(c, "RUN"))
Group2 ==
  /\ Class(7) /\ Bit(\o400) /\ ~Bit(1)
  /\ cpu' = G2Halt(G2Switches(G2Clear(G2Skip(G))))

\* The extended arithmetic element is missing.
Eae == Class(7) /\ Bit(\o400) /\ Bit(1) /\ cpu' = ClearFlag(G, "RUN")
----------------------------------------------------------------------------
MemoryInstr == AND8 \/ TAD8 \/ ISZ8 \/ DCA8 \/ JMS8 \/ JMP8
OperateInstr == Group1 \/ Group2 \/ Eae
Pdp8Step == MemoryInstr \/ IOT8 \/ OperateInstr
=============================================================================
