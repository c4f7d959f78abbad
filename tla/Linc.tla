-------------------------------- MODULE Linc -------------------------------
(***************************************************************************)
(* LINC mode (linc.c).  One action per instruction, named by its mnemonic: *)
(* the whole of linc_step for a word of that instruction - fetch, decode,  *)
(* operand address with its index register, and the instr_ function.       *)
(***************************************************************************)
EXTENDS Iob, Vr12

LINC_TRAP_SAVE_PC == \o140
LINC_TRAP_PC == \o141
LINC_DSC_ADDR_X == 1

\* Mutant: the data field bit stays in the offset.
LincAddressMutant(c, addr) ==
  addr + (IF Has(addr, \o2000) THEN c.dfr ELSE c.ifr) * \o2000
\* linc_read and linc_write: bit 02000 of an address selects the data field.
LincAddress(c, addr) ==
  (addr % \o2000) + (IF Has(addr, \o2000) THEN c.dfr ELSE c.ifr) * \o2000
LincRead(c, addr) == CpuRead(c, LincAddress(c, addr))
LincWrite(c, addr, data) == CpuWrite(c, LincAddress(c, addr), data)

SetSfr(c) == [c EXCEPT !.sfr = c.ifr * \o40 + c.dfr]

\* Mutant: the fields are saved after the switch.
LincTrapMutant(c) ==
  SetPc(LincWrite(SetSfr(SetIfr(c, 0)), LINC_TRAP_SAVE_PC, c.pc), LINC_TRAP_PC)
\* linc_trap
LincTrap(c) ==
  SetPc(LincWrite(SetIfr(SetSfr(c), 0), LINC_TRAP_SAVE_PC, c.pc), LINC_TRAP_PC)

\* An instruction nobody implements: a trap when they are enabled, a halt otherwise.
TrapOrHalt(c) ==
  IF Has(c.esf, CPU_ESF_INSTRUCTION_TRAP) THEN LincTrap(c) ELSE ClearFlag(c, "RUN")

SkipIf(cond, c) == IF cond THEN LincIncPc(c) ELSE c
SetOverflow(c, x, y, t) ==
  IF Overflows(x, y, t) THEN SetFlag(c, "FLO") ELSE ClearFlag(c, "FLO")
----------------------------------------------------------------------------
\* linc_step up to linc_do: the instruction is in ir and pc is past it.
LincFetch(c) ==
  LincIncPc([c EXCEPT !.ir = LincRead(c, c.pc % \o2000), !.out = {}])
F == LincFetch(cpu)

\* cpu_step takes this path while the machine runs with 8MODE clear.
LincTurn == Running /\ LincMode

\* The fields of the instruction word.
I == Has(F.ir, \o20)
A == F.ir % \o20
Op == (F.ir \div \o40) % \o20
IA == (IF I THEN \o400 ELSE 0) + A   \* (i << 4) | a, where i is ir & 020

AlphaClass == LincTurn /\ F.ir \div \o1000 = 0
BetaClass == LincTurn /\ F.ir \div \o1000 = 1
Alpha(op) == AlphaClass /\ Op = op
Beta(op) == BetaClass /\ Op = op
Direct(op) == LincTurn /\ F.ir \div \o2000 = op
Extended1(ia) == Alpha(0) /\ IA = ia
Extended2(ia) == Alpha(10) /\ IA = ia

\* beta_addr and the skip of the address word: the operand address, then the state.
HalfWordOps == {6, 7, 8}   \* LDH, STH, SHD
NextOperand(op, x) == IF op \in HalfWordOps THEN NextHalf(x) ELSE IncIndex(x)
BetaAddr(c, op, i, b) ==
  IF b = 0 THEN (IF i THEN c.pc ELSE LincRead(c, c.pc))
  ELSE IF i THEN NextOperand(op, LincRead(c, b)) ELSE LincRead(c, b)
BetaState(c, op, i, b) ==
  IF b = 0 THEN LincIncPc(c)
  ELSE IF i THEN LincWrite(c, b, NextOperand(op, LincRead(c, b))) ELSE c

Y == BetaAddr(F, Op, I, A)
B == BetaState(F, Op, I, A)
Operand == LincRead(B, Y)
RightHand == Has(Y, \o4000) /\ ~(I /\ A = 0)   \* hf: the right half, or a fraction
----------------------------------------------------------------------------
\* Direct instructions.
D == F.ir % \o2000

\* Mutant: the accumulator is overwritten.
AddedMutant(c, y) == SetAc(SetOverflow(c, c.ac, y, OnesSum(c.ac, y)), y)
Added(c, y) ==
  LET t == OnesSum(c.ac, y) IN SetAc(SetOverflow(c, c.ac, y, t), t)

ADD == Direct(1) /\ cpu' = Added(F, LincRead(F, D))
STC == Direct(2) /\ cpu' = SetAc(LincWrite(F, D, F.ac), 0)

\* Mutant: the pending request is not tested.
EnterFieldMutant(c) == ClearFlag(SetIfr(c, c.ifb), "LIF")
\* JMP Y: a pending field is entered first, so the return jump is stored in the new field.
EnterField(c) ==
  IF "LIF" \in c.flags THEN ClearFlag(SetIfr(c, c.ifb), "LIF") ELSE c
\* Mutant: the return skips a word.
SaveReturnMutant(c) ==
  IF "DJR" \in c.flags THEN c ELSE LincWrite(c, 0, c.pc + 1)
SaveReturn(c) == IF "DJR" \in c.flags THEN c ELSE LincWrite(c, 0, c.pc)
\* Mutant: the return is stored before the new field is entered.
JumpMutant(c, y) ==
  ClearFlag(IF y # 0 THEN SetPc(EnterField(SaveReturn(c)), y)
            ELSE SetPc(c, LincRead(c, 0) % \o2000), "DJR")
\* The test on LINC_II clears the flag only when it is clear.
Jump(c, y) ==
  LET c0 == IF "LINC_II" \notin c.flags THEN ClearFlag(c, "LINC_II") ELSE c
      c1 == IF y # 0 THEN SetPc(SaveReturn(EnterField(c0)), y)
            ELSE SetPc(c0, LincRead(c0, 0) % \o2000)
  IN ClearFlag(c1, "DJR")
JMP == Direct(3) /\ cpu' = Jump(F, D)
----------------------------------------------------------------------------
\* Beta instructions.
LDA == Beta(0) /\ cpu' = SetAc(B, Operand)
STA == Beta(1) /\ cpu' = LincWrite(B, Y, B.ac)
ADA == Beta(2) /\ cpu' = Added(B, Operand)
ADM ==
  /\ Beta(3)
  /\ cpu' = LincWrite(Added(B, Operand), Y, OnesSum(B.ac, Operand))
LinkAdded(c, y, m) ==
  LET t == c.ac + c.l + m IN LincWrite(SetAc(SetL(c, LamCarry(t)), t), y, t % \o10000)
LAM == Beta(4) /\ cpu' = LinkAdded(B, Y, Operand)
Multiplied(c, hf, m) ==
  SetL(SetMq(SetAc(c, MulAc(hf, c.ac, m)), MulMq(c.ac, m)), ProductSign(c.ac, m))
MUL == Beta(5) /\ cpu' = Multiplied(B, RightHand, Operand)
LDH ==
  /\ Beta(6)
  /\ cpu' = SetAc(B, IF RightHand THEN RightHalf(Operand) ELSE LeftHalf(Operand))
HalfStored(hf, m, ac) ==
  IF hf THEN LeftHalf(m) * \o100 + RightHalf(ac) ELSE RightHalf(ac) * \o100 + RightHalf(m)
STH == Beta(7) /\ cpu' = LincWrite(B, Y, HalfStored(RightHand, Operand, B.ac))
SHD ==
  /\ Beta(8)
  /\ cpu' = SkipIf((IF RightHand THEN RightHalf(Operand) ELSE LeftHalf(Operand))
                     # RightHalf(B.ac), B)
SAE == Beta(9) /\ cpu' = SkipIf(B.ac = Operand, B)
SRO == Beta(10) /\ cpu' = LincWrite(SkipIf(Operand % 2 = 0, B), Y, RotatedWord(Operand))
BCL == Beta(11) /\ cpu' = SetAc(B, FromBits(Bits(B.ac) \ Bits(Operand)))
BSE == Beta(12) /\ cpu' = SetAc(B, FromBits(Bits(B.ac) \union Bits(Operand)))
BCO ==
  /\ Beta(13)
  /\ cpu' = SetAc(B, FromBits((Bits(B.ac) \ Bits(Operand)) \union (Bits(Operand) \ Bits(B.ac))))

\* Mutant: the step is a half-size character's.
CharacterMutant(c, full, y) ==
  LET x == LincRead(c, LINC_DSC_ADDR_X)
      stepped == ((x \div \o2000) % 4) * \o2000 + ((x + 4) % \o2000)
      ac == IF full THEN ((c.ac % \o10000) \div \o40) * \o40 + \o30
            ELSE ((c.ac % \o10000) \div \o20) * \o20 + \o14
      moved == LincWrite(SetAc(c, ac), LINC_DSC_ADDR_X, stepped)
  IN Vr12Dsc(moved, full, x % \o1000, Vertical(moved.ac), LincRead(moved, y))
\* A character: AC and the horizontal coordinate in register 1 step past it.
Character(c, full, y) ==
  LET x == LincRead(c, LINC_DSC_ADDR_X)
      width == IF full THEN 8 ELSE 4
      stepped == ((x \div \o2000) % 4) * \o2000 + ((x + width) % \o2000)
      ac == IF full THEN ((c.ac % \o10000) \div \o40) * \o40 + \o30
            ELSE ((c.ac % \o10000) \div \o20) * \o20 + \o14
      moved == LincWrite(SetAc(c, ac), LINC_DSC_ADDR_X, stepped)
  IN Vr12Dsc(moved, full, x % \o1000, Vertical(moved.ac), LincRead(moved, y))
DSC == Beta(15) /\ cpu' = Character(B, Has(B.esf, CPU_ESF_CHAR_SIZE), Y)
\* Operation 14 is reserved for traps; the index register has been stepped all the same.
TRAP1 == Beta(14) /\ cpu' = TrapOrHalt(B)
----------------------------------------------------------------------------
\* Alpha instructions.
SET ==
  /\ Alpha(1)
  /\ LET word == LincRead(F, F.pc)
         t == IF I THEN word ELSE LincRead(F, word)
     IN cpu' = LincIncPc(LincWrite(F, A, t))
\* instr_SAM stores ac unmasked; v < 0777 holds for every v that is not positive.
Sampled(c, v) ==
  [c EXCEPT !.ac = IF v > \o777 THEN \o777 ELSE IF v > 0 THEN v ELSE SamNonPositive]
SAM == Alpha(2) /\ \E v \in Samples : cpu' = Sampled(F, v)

\* Register a, stepped first when i is set.
Indexed(c, i, a) == IF i THEN LincWrite(c, a, IncIndex(LincRead(c, a))) ELSE c
DIS ==
  /\ Alpha(3)
  /\ LET c == Indexed(F, I, A)
         t == LincRead(c, A)
     IN cpu' = Vr12Dis(c, t % \o1000, Vertical(c.ac), IF Has(t, \o4000) THEN 1 ELSE 0)
XSK ==
  /\ Alpha(4)
  /\ LET c == Indexed(F, I, A) IN cpu' = SkipIf(LincRead(c, A) % \o2000 = \o1777, c)

RotatedLeft(c, i, a) ==
  IF i
  THEN LET t == RotateLeft(WithLink(c.ac, c.l), a % 13, 13)
       IN SetAc(SetL(c, IF Has(t, \o10000) THEN 1 ELSE 0), t)
  ELSE SetAc(c, RotateLeft(c.ac, a % 12, 12))
ROL == Alpha(5) /\ cpu' = RotatedLeft(F, I, A)

RotatedRight(c, i, a) ==
  LET m == RorMq(c.ac, c.mq, a)
      t == IF i THEN RotateRight(WithLink(c.ac, c.l), a % 13, 13)
           ELSE RotateRight(c.ac, a % 12, 12)
      link == IF Has(t, \o10000) THEN 1 ELSE 0
  IN SetAc(SetMq(IF i THEN SetL(c, link) ELSE c, m), t)
ROR == Alpha(6) /\ cpu' = RotatedRight(F, I, A)

ScaledRight(c, i, a) ==
  LET t == Scaled(c.ac, c.mq, a)
      link == IF Has(t, \o4000) THEN 1 ELSE 0
  IN SetMq(SetAc(IF i /\ a >= 1 THEN SetL(c, link) ELSE c, t \div \o10000), t)
SCR == Alpha(7) /\ cpu' = ScaledRight(F, I, A)

\* Skip on external level: only the keyboard is wired, the other levels read as one.
Level(c, a) == IF a = \o15 THEN c.kf = 1 ELSE TRUE
SXL == Alpha(8) /\ cpu' = SkipIf(Level(F, A) # I, F)

\* Mutant: the field number is not kept.
FieldRequestedMutant(c, n) == SetFlag(SetFlag(SetSfr(c), "LIF"), "LINC_II")
\* The field number is the instruction's (i << 4) | a.
FieldRequested(c, n) ==
  SetFlag(SetFlag([SetSfr(c) EXCEPT !.ifb = n], "LIF"), "LINC_II")
LIF == Alpha(12) /\ cpu' = FieldRequested(F, IA)
LDF == Alpha(13) /\ cpu' = SetDfr(F, IA)

\* LINCtape: a halt, unless both traps are on.
TAPE ==
  /\ Alpha(14)
  /\ cpu' = IF Has(F.esf, CPU_ESF_INSTRUCTION_TRAP) /\ Has(F.esf, CPU_ESF_TAPE_TRAP)
            THEN TrapOrHalt(F) ELSE ClearFlag(F, "RUN")
----------------------------------------------------------------------------
\* The skip class: the condition, or its complement when i is set.
Skip(a) == Alpha(9) /\ A = a
Sensed(cond, c) == SkipIf(cond # I, c)

SNS == Alpha(9) /\ A < 8 /\ cpu' = Sensed(Has(F.ss, Pow2(A)), F)
AZE == Skip(8) /\ cpu' = Sensed(F.ac \in {0, \o7777}, F)
APO == Skip(9) /\ cpu' = Sensed(~Has(F.ac, \o4000), F)
LZE == Skip(10) /\ cpu' = Sensed(F.l = 0, F)
IBZ == Skip(11) /\ cpu' = Sensed(FALSE, ClearFlag(F, "RUN"))
FLO == Skip(12) /\ cpu' = Sensed("FLO" \in F.flags, F)
QLZ == Skip(13) /\ cpu' = Sensed(F.mq % 2 = 0, F)
SKP == Skip(14) /\ cpu' = Sensed(TRUE, F)
----------------------------------------------------------------------------
\* Class-zero instructions; with i set no code matches, SFA (024) included.
HLT == Extended1(0) /\ cpu' = ClearFlag(F, "RUN")
\* Mutant: the field bits are dropped.
EnterPdp8Mutant(c) == SetPc(SetFlag(c, "8MODE"), c.pc % \o2000)
\* To PDP-8 mode: the two low field bits go on top of the ten-bit counter.
EnterPdp8(c) ==
  SetPc(SetFlag(c, "8MODE"), (c.pc % \o2000) + (c.ifr % 4) * \o2000)
PDP == Extended1(2) /\ cpu' = EnterPdp8(F)
SpecialFunction(c) ==
  IF Has(c.ac \div 16, CPU_ESF_IO_PRESET) THEN IoPreset(c) ELSE SetEsf(c, c.ac \div 16)
ESF == Extended1(4) /\ cpu' = SpecialFunction(F)
QAC == Extended1(5) /\ cpu' = SetAc(F, F.mq \div 2)
DJR == Extended1(6) /\ cpu' = SetFlag(F, "DJR")
CLR == Extended1(9) /\ cpu' = SetL(SetMq(SetAc(F, 0), 0), 0)
ATR == Extended1(12) /\ cpu' = SetRelays(F, F.ac)
RTA == Extended1(13) /\ cpu' = SetAc(F, (F.ac \div \o100) * \o100 + F.relays)
NOP == Extended1(14) /\ cpu' = F
COM == Extended1(15) /\ cpu' = SetAc(F, Comp(F.ac))

\* IOB executes the I/O instruction in the next word and steps over it.
IOB ==
  /\ Extended2(0)
  /\ cpu' = LincIncPc(IobIo([F EXCEPT !.ir = LincRead(F, F.pc)]))
RSW == Extended2(14) /\ cpu' = SetAc(F, F.rs)
LSW == Extended2(15) /\ cpu' = SetAc(F, F.ls)

\* Every other alpha word falls out of the switch.
Undefined ==
  \/ Op \in {11, 15}
  \/ Op = 0 /\ IA \notin {0, 2, 4, 5, 6, 9, 12, 13, 14, 15}
  \/ Op = 9 /\ A = 15
  \/ Op = 10 /\ IA \notin {0, 14, 15}
TRAP23 == AlphaClass /\ Undefined /\ cpu' = TrapOrHalt(F)
----------------------------------------------------------------------------
DirectInstr == ADD \/ STC \/ JMP
BetaInstr ==
  \/ LDA \/ STA \/ ADA \/ ADM \/ LAM \/ MUL \/ LDH \/ STH \/ SHD \/ SAE \/ SRO
  \/ BCL \/ BSE \/ BCO \/ DSC \/ TRAP1
SkipInstr == SNS \/ AZE \/ APO \/ LZE \/ IBZ \/ FLO \/ QLZ \/ SKP
MiscInstr ==
  \/ HLT \/ PDP \/ ESF \/ QAC \/ DJR \/ CLR \/ ATR \/ RTA \/ NOP \/ COM
  \/ IOB \/ RSW \/ LSW
AlphaInstr ==
  \/ SET \/ SAM \/ DIS \/ XSK \/ ROL \/ ROR \/ SCR \/ SXL \/ LIF \/ LDF \/ TAPE
  \/ SkipInstr \/ MiscInstr \/ TRAP23
LincStep == DirectInstr \/ BetaInstr \/ AlphaInstr
=============================================================================
