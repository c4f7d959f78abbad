-------------------------------- MODULE Iob --------------------------------
(***************************************************************************)
(* The I/O bus (iob.c) with the ASR-33 on it (asr33.c), as one function of *)
(* the state: the instruction is in ir, the program counter is past it.    *)
(* The console frontend attaches an empty device list.                     *)
(***************************************************************************)
EXTENDS Cpu

IOB_ION == \o6001
IOB_IOF == \o6002
IOB_LINC == \o6141
Unimplemented == {\o6224, \o6214, \o6234}   \* RIF, RDF, RIB

\* IOB_LINC: the two high bits of a 4096-word address become the instruction field.
EnterLinc(c) ==
  SetPc(SetIfr(ClearFlag(c, "8MODE"), ((c.ifr \div 4) * 4) + (c.pc \div \o2000)),
        c.pc % \o2000)

Pdp12Codes == {IOB_ION, IOB_IOF, IOB_LINC} \union Unimplemented
Pdp12Io(c) ==
  CASE c.ir = IOB_ION -> SetFlag(c, "ION")
    [] c.ir = IOB_IOF -> ClearFlag(c, "ION")
    [] c.ir = IOB_LINC -> EnterLinc(c)
    [] c.ir \in Unimplemented -> ClearFlag(c, "RUN")
----------------------------------------------------------------------------
KSF == \o6031
KCC == \o6032
KRS == \o6034
TSF == \o6041
TCF == \o6042
TPC == \o6044
Asr33Codes == {KSF, KCC, KRS, TSF, TCF, TPC}

\* HAS_INSTR: every bit of the code is set, whatever the others are.
HasInstr(c, code) == Contains(c.ir, code)

(***************************************************************************)
(* asr33_instr makes six tests one after the other, and one word can pass  *)
(* several.  The skips look at the flags before the clears, and what is    *)
(* printed is the accumulator after a key has been read into it.           *)
(* asr33_print prints at once and raises the printer flag again.           *)
(***************************************************************************)
\* Mutant: the skip is taken while there is no key.
SkipOnKeyMutant(c) == HasInstr(c, KSF) /\ c.kf = 0
SkipOnKey(c) == HasInstr(c, KSF) /\ c.kf = 1
SkipOnPrinter(c) == HasInstr(c, TSF) /\ c.pf = 1
\* Mutant: the counter is stepped twice.
NextPcMutant(c) == IncPc(IncPc(c)).pc
NextPc(c) == IncPc(c).pc
AfterSkips(c) ==
  IF SkipOnKey(c) /\ SkipOnPrinter(c) THEN NextPc(IncPc(c))
  ELSE IF SkipOnKey(c) \/ SkipOnPrinter(c) THEN NextPc(c) ELSE c.pc
KeyRead(c) ==
  IF HasInstr(c, KRS) /\ Keys # {} THEN FromBits(Bits(c.ac) \intersect (8 .. 11)) + c.key ELSE c.ac
\* Mutant: the skip on a key clears its flag.
KeyFlagMutant(c) == IF HasInstr(c, KSF) THEN 0 ELSE c.kf
KeyFlag(c) == IF HasInstr(c, KCC) THEN 0 ELSE c.kf
\* Mutant: printing does not raise the flag.
PrinterFlagNotRaised(c) == IF HasInstr(c, TCF) THEN 0 ELSE c.pf
PrinterFlag(c) == IF HasInstr(c, TPC) THEN 1 ELSE IF HasInstr(c, TCF) THEN 0 ELSE c.pf
\* Mutant: the parity bit is printed too.
Asr33PrintMutant(ch) == ch
\* asr33_print: the low seven bits of the byte it is given, its parity bit left off.
Asr33Print(ch) == ch % \o200
\* The byte handed to asr33_print is the low eight bits of the accumulator.
CharacterOut(c) ==
  IF HasInstr(c, TPC) THEN {<<"print", Asr33Print(KeyRead(c) % \o400)>>} ELSE {}
Asr33Instr(c) ==
  [c EXCEPT !.pc = AfterSkips(c), !.ac = KeyRead(c), !.kf = KeyFlag(c), !.pf = PrinterFlag(c),
            !.out = @ \union CharacterOut(c)]

\* iob_io: the processor's own codes, then the ASR-33, then nobody: halt.
IobIo(c) ==
  IF c.ir \in Pdp12Codes THEN Pdp12Io(c)
  ELSE IF \E code \in Asr33Codes : HasInstr(c, code) THEN Asr33Instr(c)
  ELSE ClearFlag(c, "RUN")
=============================================================================
