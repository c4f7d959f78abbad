---------------------------- MODULE ProgramProofs ---------------------------
(***************************************************************************)
(* Whole programs, from the instructions they are made of: what a program  *)
(* computes, whatever its operands, the rest of core and the registers it  *)
(* does not use are, and whichever keys are struck while it runs.          *)
(***************************************************************************)
EXTENDS Programs, Pdp12Proofs

\* A PDP-8 address in field 0 is the address.
LEMMA InFieldZero ==
  ASSUME NEW f \in Field, f \div 4 = 0, NEW a \in Word
  PROVE  Pdp8Address(f, a) = a /\ a \in Address
<1>1. a \in Int /\ 0 <= a /\ a <= \o7777
  BY WordBounds
<1>2. a % \o10000 = a
  BY <1>1
<1>3. a \in Address
  BY <1>1, AddressBounds
<1> QED
  BY <1>1, <1>2, <1>3 DEF Pdp8Address

\* Reading and writing in field 0.
LEMMA CoreZero ==
  ASSUME NEW c, IsCpu(c), InPdp8Field(c, 0), NEW a \in Word
  PROVE  /\ ReadI(c, a) = Cell(c.core, a) /\ ReadD(c, a) = Cell(c.core, a)
         /\ \A n : /\ WriteI(c, a, n) = CpuWrite(c, a, n)
                   /\ WriteD(c, a, n) = CpuWrite(c, a, n)
<1>1. c.ifr \in Field /\ c.dfr \in Field
  BY Types
<1>2. Pdp8Address(c.ifr, a) = a /\ Pdp8Address(c.dfr, a) = a /\ a \in Address
  BY <1>1, InFieldZero DEF InPdp8Field
<1>3. ~(a > CPU_CORE_SIZE)
  BY <1>2, AddressInCore
<1> QED
  BY <1>2, <1>3 DEF ReadI, ReadD, WriteI, WriteD, CpuRead

\* Instructions in field 0, whatever field the data is in.
LEMMA InstructionsZero ==
  ASSUME NEW c, IsCpu(c), c.ifr \div 4 = 0, NEW a \in Word
  PROVE  ReadI(c, a) = Cell(c.core, a) /\ \A n : WriteI(c, a, n) = CpuWrite(c, a, n)
<1>1. Pdp8Address(c.ifr, a) = a /\ a \in Address
  BY Types, InFieldZero
<1>2. ~(a > CPU_CORE_SIZE)
  BY <1>1, AddressInCore
<1> QED
  BY <1>1, <1>2 DEF ReadI, WriteI, CpuRead

\* The step of a machine in PDP-8 mode is the one its word calls for.
LEMMA StepOfClass ==
  ASSUME Pdp8Step, G.ir \in Int
  PROVE  /\ G.ir \div \o1000 = 1 => TAD8
         /\ G.ir \div \o1000 = 2 => ISZ8
         /\ G.ir \div \o1000 = 3 => DCA8
         /\ G.ir \div \o1000 = 4 => JMS8
         /\ G.ir \div \o1000 = 5 => JMP8
         /\ G.ir \div \o1000 = 6 => IOT8
         /\ G.ir \div \o1000 = 7 /\ ~Bit(\o400) => Group1
         /\ G.ir \div \o1000 = 7 /\ Bit(\o400) /\ ~Bit(1) => Group2
<1> DEFINE k == G.ir \div \o1000
<1>1. /\ (AND8 => k = 0) /\ (TAD8 => k = 1) /\ (ISZ8 => k = 2) /\ (DCA8 => k = 3)
      /\ (JMS8 => k = 4) /\ (JMP8 => k = 5) /\ (IOT8 => k = 6)
  BY DEF AND8, TAD8, ISZ8, DCA8, JMS8, JMP8, IOT8, Class
<1>2. /\ Group1 => k = 7 /\ ~Bit(\o400)
      /\ Group2 => k = 7 /\ Bit(\o400)
      /\ Eae => k = 7 /\ Bit(\o400) /\ Bit(1)
  BY DEF Group1, Group2, Eae, Class
<1> HIDE DEF k
<1>3. AND8 \/ TAD8 \/ ISZ8 \/ DCA8 \/ JMS8 \/ JMP8 \/ IOT8 \/ Group1 \/ Group2 \/ Eae
  BY DEF Pdp8Step, MemoryInstr, OperateInstr
<1>4. /\ k = 1 => ~(k = 0) /\ ~(k = 2) /\ ~(k = 3) /\ ~(k = 4) /\ ~(k = 5) /\ ~(k = 6) /\ ~(k = 7)
      /\ k = 2 => ~(k = 0) /\ ~(k = 1) /\ ~(k = 3) /\ ~(k = 4) /\ ~(k = 5) /\ ~(k = 6) /\ ~(k = 7)
      /\ k = 3 => ~(k = 0) /\ ~(k = 1) /\ ~(k = 2) /\ ~(k = 4) /\ ~(k = 5) /\ ~(k = 6) /\ ~(k = 7)
      /\ k = 4 => ~(k = 0) /\ ~(k = 1) /\ ~(k = 2) /\ ~(k = 3) /\ ~(k = 5) /\ ~(k = 6) /\ ~(k = 7)
      /\ k = 5 => ~(k = 0) /\ ~(k = 1) /\ ~(k = 2) /\ ~(k = 3) /\ ~(k = 4) /\ ~(k = 6) /\ ~(k = 7)
      /\ k = 6 => ~(k = 0) /\ ~(k = 1) /\ ~(k = 2) /\ ~(k = 3) /\ ~(k = 4) /\ ~(k = 5) /\ ~(k = 7)
      /\ k = 7 => ~(k = 0) /\ ~(k = 1) /\ ~(k = 2) /\ ~(k = 3) /\ ~(k = 4) /\ ~(k = 5) /\ ~(k = 6)
  BY SMT
<1>5. k = 1 => TAD8
  <2> SUFFICES ASSUME k = 1 PROVE TAD8
    OBVIOUS
  <2>1. ~AND8 /\ ~IOT8 /\ ~Group1 /\ ~Group2 /\ ~Eae
    BY <1>1, <1>2, <1>4
  <2>2. ~ISZ8 /\ ~DCA8 /\ ~JMS8 /\ ~JMP8
    BY <1>1, <1>4
  <2> QED
    BY <1>3, <2>1, <2>2
<1>6. k = 2 => ISZ8
  <2> SUFFICES ASSUME k = 2 PROVE ISZ8
    OBVIOUS
  <2>1. ~AND8 /\ ~IOT8 /\ ~Group1 /\ ~Group2 /\ ~Eae
    BY <1>1, <1>2, <1>4
  <2>2. ~TAD8 /\ ~DCA8 /\ ~JMS8 /\ ~JMP8
    BY <1>1, <1>4
  <2> QED
    BY <1>3, <2>1, <2>2
<1>7. k = 3 => DCA8
  <2> SUFFICES ASSUME k = 3 PROVE DCA8
    OBVIOUS
  <2>1. ~AND8 /\ ~IOT8 /\ ~Group1 /\ ~Group2 /\ ~Eae
    BY <1>1, <1>2, <1>4
  <2>2. ~TAD8 /\ ~ISZ8 /\ ~JMS8 /\ ~JMP8
    BY <1>1, <1>4
  <2> QED
    BY <1>3, <2>1, <2>2
<1>8. k = 4 => JMS8
  <2> SUFFICES ASSUME k = 4 PROVE JMS8
    OBVIOUS
  <2>1. ~AND8 /\ ~IOT8 /\ ~Group1 /\ ~Group2 /\ ~Eae
    BY <1>1, <1>2, <1>4
  <2>2. ~TAD8 /\ ~ISZ8 /\ ~DCA8 /\ ~JMP8
    BY <1>1, <1>4
  <2> QED
    BY <1>3, <2>1, <2>2
<1>9. k = 5 => JMP8
  <2> SUFFICES ASSUME k = 5 PROVE JMP8
    OBVIOUS
  <2>1. ~AND8 /\ ~IOT8 /\ ~Group1 /\ ~Group2 /\ ~Eae
    BY <1>1, <1>2, <1>4
  <2>2. ~TAD8 /\ ~ISZ8 /\ ~DCA8 /\ ~JMS8
    BY <1>1, <1>4
  <2> QED
    BY <1>3, <2>1, <2>2
<1>10. k = 7 /\ Bit(\o400) /\ ~Bit(1) => Group2
  <2> SUFFICES ASSUME k = 7, Bit(\o400), ~Bit(1) PROVE Group2
    OBVIOUS
  <2>1. ~AND8 /\ ~TAD8 /\ ~ISZ8 /\ ~DCA8 /\ ~JMS8 /\ ~JMP8 /\ ~IOT8
    BY <1>1, <1>4
  <2>2. ~Group1 /\ ~Eae
    BY <1>2
  <2> QED
    BY <1>3, <2>1, <2>2
<1>11. k = 7 /\ ~Bit(\o400) => Group1
  <2> SUFFICES ASSUME k = 7, ~Bit(\o400) PROVE Group1
    OBVIOUS
  <2>1. ~AND8 /\ ~TAD8 /\ ~ISZ8 /\ ~DCA8 /\ ~JMS8 /\ ~JMP8 /\ ~IOT8
    BY <1>1, <1>4
  <2>2. ~Group2 /\ ~Eae
    BY <1>2
  <2> QED
    BY <1>3, <2>1, <2>2
<1>12. k = 6 => IOT8
  <2> SUFFICES ASSUME k = 6 PROVE IOT8
    OBVIOUS
  <2>1. ~AND8 /\ ~TAD8 /\ ~Group1 /\ ~Group2 /\ ~Eae
    BY <1>1, <1>2, <1>4
  <2>2. ~ISZ8 /\ ~DCA8 /\ ~JMS8 /\ ~JMP8
    BY <1>1, <1>4
  <2> QED
    BY <1>3, <2>1, <2>2
<1> QED
  BY <1>5, <1>6, <1>7, <1>8, <1>9, <1>10, <1>11, <1>12 DEF k

(***************************************************************************)
(* Calls with arguments in line.  cpu is somewhere in a program of field 0 *)
(* whose text is in core.                                                  *)
(***************************************************************************)
Sub == \o420
Text(c) == \A t \in ArgumentText : Cell(c.core, t[1]) = t[2]
Loaded == EOK(cpu) /\ InPdp8Field(cpu, 0) /\ Text(cpu)

\* What a step leaves alone: the fields, and every word but the one at Sub.
Kept(d) ==
  /\ d.ifr = cpu.ifr /\ d.dfr = cpu.dfr
  /\ \A a : a # Sub => Cell(d.core, a) = Cell(cpu.core, a)

\* The text, word by word.
LEMMA TextWords ==
  ASSUME NEW c, Text(c)
  PROVE  /\ Cell(c.core, \o400) = \o4220 /\ Cell(c.core, \o402) = \o4220
         /\ Cell(c.core, \o404) = \o7402 /\ Cell(c.core, \o421) = \o1620
         /\ Cell(c.core, \o422) = \o2220 /\ Cell(c.core, \o423) = \o5620
BY DEF Text, ArgumentText, PDP8_HLT

\* The text is not at Sub, so what is kept is still loaded.
LEMMA StillLoaded ==
  ASSUME Loaded, NEW d, EOK(d), Kept(d)
  PROVE  EOK(d) /\ InPdp8Field(d, 0) /\ Text(d)
<1>1. \A t \in ArgumentText : t[1] # Sub
  BY DEF ArgumentText, Sub
<1> QED
  BY <1>1 DEF Loaded, Kept, InPdp8Field, Text

\* The fetch, at a place of the program.
LEMMA FetchedText ==
  ASSUME Loaded, cpu.pc < \o7777
  PROVE  /\ EOK(G) /\ IsCpu(G) /\ InPdp8Field(G, 0) /\ Kept(G)
         /\ G.ac = cpu.ac /\ G.flags = cpu.flags /\ G.core = cpu.core
         /\ G.pc = cpu.pc + 1 /\ G.ir = Cell(cpu.core, cpu.pc)
<1> DEFINE p == cpu.pc
<1>1. EOK(G) /\ IsCpu(G) /\ IsCpu(cpu)
  BY Pdp8FetchOK, Steps8, Setters8 DEF Loaded, Follows8
<1>2. p \in Word
  BY <1>1, Types
<1>3. (p + 1) % \o10000 = p + 1
  <2>1. p \in Int /\ 0 <= p /\ p < \o7777
    BY <1>2, WordBounds
  <2> HIDE DEF p
  <2> QED
    BY <2>1
<1>4. ReadI(cpu, p) = Cell(cpu.core, p)
  BY <1>1, <1>2, CoreZero DEF Loaded
<1> QED
  BY <1>1, <1>3, <1>4, Fetch8Registers DEF Loaded, InPdp8Field, Kept

\* A store at Sub.
LEMMA StoredAtSub ==
  ASSUME NEW c, EOK(c), InPdp8Field(c, 0), Kept(c), NEW n \in Word
  PROVE  LET d == WriteI(c, Sub, n)
         IN /\ EOK(d) /\ IsCpu(d) /\ InPdp8Field(d, 0) /\ Kept(d)
            /\ d.ac = c.ac /\ d.pc = c.pc /\ d.flags = c.flags
            /\ Cell(d.core, Sub) = n
<1> DEFINE d == CpuWrite(c, Sub, n)
<1>1. Sub \in Word /\ Sub \in Address
  BY AddressBounds DEF Sub, Word
<1>2. IsCpu(c)
  BY Setters8
<1>3. WriteI(c, Sub, n) = d
  BY <1>1, <1>2, CoreZero
<1>4. EOK(d)
  <2>1. n \in Int
    BY WordBounds
  <2> QED
    BY <1>1, <2>1, CpuWriteOK DEF EOK, ModeNames
<1>5. /\ \A g \in Registers \union {"out"} : d[g] = c[g]
      /\ Cell(d.core, Sub) = n % \o10000
      /\ \A a : a # Sub => Cell(d.core, a) = Cell(c.core, a)
  BY <1>1, <1>2, WriteFrame
<1>6. n % \o10000 = n
  <2>1. n \in Int /\ 0 <= n /\ n <= \o7777
    BY WordBounds
  <2> QED
    BY <2>1
<1>7. IsCpu(d)
  BY <1>4, Setters8
<1> HIDE DEF d
<1>8. d.ac = c.ac /\ d.pc = c.pc /\ d.flags = c.flags /\ d.ifr = c.ifr /\ d.dfr = c.dfr
  BY <1>5, RegisterNames
<1> QED
  BY <1>3, <1>4, <1>5, <1>7, <1>8, <1>6 DEF Kept, InPdp8Field

\* A word of the subroutine or a call names the cell Sub on its own page.
LEMMA NamesSub ==
  ASSUME NEW c, NEW p \in \o401 .. \o424, c.pc = p, c.ir \in {\o4220, \o1620, \o2220, \o5620}
  PROVE  PageAddress(c) = Sub /\ ~AutoIndexed(c)
<1>1. Has(c.ir, \o200) /\ c.ir % \o200 = \o20
  BY DEF Has
<1>2. p \div \o200 = 2
  OBVIOUS
<1>3. PageAddress(c) = Sub
  BY <1>1, <1>2 DEF PageAddress, Sub
<1> QED
  BY <1>3 DEF AutoIndexed, Sub

\* JMS SUB: the place of the argument is stored in Sub, and the counter goes to the word
\* after it.
LEMMA CallStep ==
  ASSUME Loaded, Pdp8Step, NEW p \in {\o400, \o402}, cpu.pc = p
  PROVE  /\ EOK(cpu') /\ Kept(cpu') /\ cpu'.pc = \o421
         /\ cpu'.ac = cpu.ac /\ cpu'.flags = cpu.flags /\ Cell(cpu'.core, Sub) = p + 1
<1>1. /\ EOK(G) /\ IsCpu(G) /\ InPdp8Field(G, 0) /\ Kept(G)
      /\ G.ac = cpu.ac /\ G.flags = cpu.flags /\ G.pc = p + 1 /\ G.ir = \o4220
  <2>1. cpu.pc < \o7777 /\ Cell(cpu.core, cpu.pc) = \o4220
    BY TextWords DEF Loaded
  <2> QED
    BY <2>1, FetchedText
<1>2. JMS8
  BY <1>1, StepOfClass
<1>3. ~Has(G.ir, \o400)
  BY <1>1 DEF Has
<1>4. PageAddress(G) = Sub
  BY <1>1, NamesSub
<1>5. E8 = Sub /\ N = G
  BY <1>3, <1>4 DEF E8, N, EffectiveAddress, Addressed
<1> DEFINE d == WriteI(G, Sub, G.pc)
<1>6. cpu' = SetPc(d, Sub + 1)
  BY <1>2, <1>5 DEF JMS8
<1>7. (p + 1) % \o10000 = p + 1 /\ p + 1 \in Int /\ (Sub + 1) % \o10000 = \o421
  BY DEF Sub
<1>8. /\ EOK(d) /\ IsCpu(d) /\ InPdp8Field(d, 0) /\ Kept(d)
      /\ d.ac = G.ac /\ d.flags = G.flags /\ Cell(d.core, Sub) = p + 1
  <2>1. G.pc \in Word
    BY <1>1, Types
  <2>2. /\ EOK(d) /\ IsCpu(d) /\ InPdp8Field(d, 0) /\ Kept(d)
        /\ d.ac = G.ac /\ d.flags = G.flags /\ Cell(d.core, Sub) = G.pc
    BY <1>1, <2>1, StoredAtSub
  <2> QED
    BY <1>1, <1>7, <2>2
<1> HIDE DEF d
<1>9. /\ cpu'.core = d.core /\ cpu'.pc = \o421 /\ cpu'.ac = d.ac
      /\ cpu'.ifr = d.ifr /\ cpu'.dfr = d.dfr /\ cpu'.flags = d.flags
  BY <1>6, <1>7, <1>8, PcFrame
<1>10. EOK(cpu')
  BY <1>2, MemoryInstrOK, Steps8 DEF MemoryInstr, Loaded
<1> QED
  BY <1>1, <1>8, <1>9, <1>10 DEF Kept

\* TAD I SUB: the word that Sub names is added to the accumulator.
LEMMA TakeStep ==
  ASSUME Loaded, Pdp8Step, cpu.pc = \o421, NEW r \in {\o401, \o403}, Cell(cpu.core, Sub) = r
  PROVE  /\ EOK(cpu') /\ Kept(cpu') /\ cpu'.pc = \o422 /\ cpu'.flags = cpu.flags
         /\ cpu'.ac = (Cell(cpu.core, r) + cpu.ac) % \o10000 /\ Cell(cpu'.core, Sub) = r
<1>1. /\ EOK(G) /\ IsCpu(G) /\ InPdp8Field(G, 0) /\ Kept(G) /\ G.core = cpu.core
      /\ G.ac = cpu.ac /\ G.flags = cpu.flags /\ G.pc = \o422 /\ G.ir = \o1620
  <2>1. cpu.pc < \o7777 /\ Cell(cpu.core, cpu.pc) = \o1620
    BY TextWords DEF Loaded
  <2> QED
    BY <2>1, FetchedText
<1>2. TAD8
  BY <1>1, StepOfClass
<1>3. Has(G.ir, \o400) /\ ~IsJump(G)
  BY <1>1 DEF Has, IsJump
<1>4. PageAddress(G) = Sub /\ ~AutoIndexed(G) /\ Sub \in Word /\ r \in Word
  BY <1>1, NamesSub DEF Sub, Word
<1>5. Pointer(G) = r
  BY <1>1, <1>3, <1>4, CoreZero DEF Pointer
<1>6. E8 = r /\ N = G
  BY <1>3, <1>4, <1>5 DEF E8, N, EffectiveAddress, Addressed
<1>7. Operand8 = Cell(cpu.core, r)
  BY <1>1, <1>3, <1>4, <1>6, CoreZero DEF Operand8, Indirect, Bit
<1> DEFINE x == Operand8 + G.ac
           d == SetAc(G, x)
<1>8. cpu' = CarryIfSet(x, d)
  BY <1>2, <1>6 DEF TAD8
<1>9. EOK(cpu')
  BY <1>2, MemoryInstrOK, Steps8 DEF MemoryInstr, Loaded
<1> HIDE DEF x
<1>10. /\ d.ac = x % \o10000 /\ d.core = G.core /\ d.pc = G.pc /\ d.flags = G.flags
       /\ d.ifr = G.ifr /\ d.dfr = G.dfr
  BY <1>1, AcFrame
<1>11. IsCpu(d)
  <2>1. x \in Int
    BY <1>1, <1>9, Fetched8, Integral DEF Loaded, x
  <2> QED
    BY <1>1, <2>1, Setters8
<1> HIDE DEF d
<1>12. /\ cpu'.ac = d.ac /\ cpu'.core = d.core /\ cpu'.pc = d.pc /\ cpu'.flags = d.flags
       /\ cpu'.ifr = d.ifr /\ cpu'.dfr = d.dfr
  BY <1>8, <1>11, LinkFrame DEF CarryIfSet, ComplementLink
<1> QED
  BY <1>1, <1>7, <1>9, <1>10, <1>12 DEF Kept, x

\* ISZ SUB: the return place steps over the argument.
LEMMA StepOverStep ==
  ASSUME Loaded, Pdp8Step, cpu.pc = \o422, NEW r \in {\o401, \o403}, Cell(cpu.core, Sub) = r
  PROVE  /\ EOK(cpu') /\ Kept(cpu') /\ cpu'.pc = \o423 /\ cpu'.flags = cpu.flags
         /\ cpu'.ac = cpu.ac /\ Cell(cpu'.core, Sub) = r + 1
<1>1. /\ EOK(G) /\ IsCpu(G) /\ InPdp8Field(G, 0) /\ Kept(G) /\ G.core = cpu.core
      /\ G.ac = cpu.ac /\ G.flags = cpu.flags /\ G.pc = \o423 /\ G.ir = \o2220
  <2>1. cpu.pc < \o7777 /\ Cell(cpu.core, cpu.pc) = \o2220
    BY TextWords DEF Loaded
  <2> QED
    BY <2>1, FetchedText
<1>2. ISZ8
  BY <1>1, StepOfClass
<1>3. ~Has(G.ir, \o400)
  BY <1>1 DEF Has
<1>4. PageAddress(G) = Sub /\ Sub \in Word
  BY <1>1, NamesSub DEF Sub, Word
<1>5. E8 = Sub /\ N = G
  BY <1>3, <1>4 DEF E8, N, EffectiveAddress, Addressed
<1>6. Operand8 = r
  BY <1>1, <1>3, <1>4, <1>5, CoreZero DEF Operand8, Indirect, Bit
<1>7. (Operand8 + 1) % \o10000 = r + 1 /\ r + 1 # 0 /\ r + 1 \in Int /\ (r + 1) % \o10000 = r + 1
  BY <1>6
<1>8. PICK k \in Word : k = r + 1
  BY <1>7 DEF Word
<1> DEFINE d == WriteI(G, Sub, k)
<1>9. cpu' = d
  <2>1. (Operand8 + 1) % \o10000 = k /\ k # 0
    BY <1>7, <1>8
  <2> QED
    BY <1>2, <1>3, <1>5, <2>1 DEF ISZ8, Store8, Indirect, Bit
<1>10. /\ EOK(d) /\ Kept(d) /\ d.ac = G.ac /\ d.pc = G.pc /\ d.flags = G.flags
       /\ Cell(d.core, Sub) = k
  BY <1>1, StoredAtSub
<1> HIDE DEF d
<1> QED
  BY <1>1, <1>8, <1>9, <1>10

\* JMP I SUB: the counter goes where Sub says.
LEMMA ReturnStep ==
  ASSUME Loaded, Pdp8Step, cpu.pc = \o423, NEW r \in {\o402, \o404}, Cell(cpu.core, Sub) = r
  PROVE  /\ EOK(cpu') /\ Kept(cpu') /\ cpu'.pc = r /\ cpu'.flags = cpu.flags
         /\ cpu'.ac = cpu.ac
<1>1. /\ EOK(G) /\ IsCpu(G) /\ InPdp8Field(G, 0) /\ Kept(G) /\ G.core = cpu.core
      /\ G.ac = cpu.ac /\ G.flags = cpu.flags /\ G.pc = \o424 /\ G.ir = \o5620
  <2>1. cpu.pc < \o7777 /\ Cell(cpu.core, cpu.pc) = \o5620
    BY TextWords DEF Loaded
  <2> QED
    BY <2>1, FetchedText
<1>2. JMP8
  BY <1>1, StepOfClass
<1>3. Has(G.ir, \o400) /\ IsJump(G)
  BY <1>1 DEF Has, IsJump
<1>4. PageAddress(G) = Sub /\ ~AutoIndexed(G) /\ Sub \in Word
  BY <1>1, NamesSub DEF Sub, Word
<1>5. Pointer(G) = r
  BY <1>1, <1>3, <1>4, CoreZero DEF Pointer
<1>6. E8 = r /\ N = G
  BY <1>3, <1>4, <1>5 DEF E8, N, EffectiveAddress, Addressed
<1>7. cpu' = SetPc(G, r) /\ r % \o10000 = r
  BY <1>2, <1>6 DEF JMP8
<1>8. EOK(cpu')
  BY <1>2, MemoryInstrOK, Steps8 DEF MemoryInstr, Loaded
<1> QED
  BY <1>1, <1>7, <1>8, PcFrame DEF Kept

\* HLT: the machine stops with the counter behind the word.
LEMMA HaltStep ==
  ASSUME Loaded, Pdp8Step, cpu.pc = \o404
  PROVE  /\ EOK(cpu') /\ Kept(cpu') /\ cpu'.pc = \o405 /\ "RUN" \notin cpu'.flags
         /\ cpu'.ac = cpu.ac
<1>1. /\ EOK(G) /\ IsCpu(G) /\ InPdp8Field(G, 0) /\ Kept(G) /\ G.core = cpu.core
      /\ G.ac = cpu.ac /\ G.pc = \o405 /\ G.ir = \o7402
  <2>1. cpu.pc < \o7777 /\ Cell(cpu.core, cpu.pc) = \o7402
    BY TextWords DEF Loaded
  <2> QED
    BY <2>1, FetchedText
<1>2. /\ Has(G.ir, \o400) /\ ~Has(G.ir, 1) /\ ~Has(G.ir, \o100) /\ ~Has(G.ir, \o40)
      /\ ~Has(G.ir, \o20) /\ ~Has(G.ir, \o10) /\ ~Has(G.ir, \o200) /\ ~Has(G.ir, \o4)
      /\ Has(G.ir, 2)
  BY <1>1 DEF Has
<1>3. Group2
  BY <1>1, <1>2, StepOfClass DEF Bit
<1>4. ~Skips(G)
  BY <1>2 DEF Skips, Conditions
<1>5. cpu' = ClearFlag(G, "RUN")
  BY <1>2, <1>3, <1>4 DEF Group2, G2Halt, G2Switches, G2Clear, G2Skip, Micro
<1>6. EOK(cpu')
  BY <1>1, <1>5, Setters8
<1>7. cpu' = [G EXCEPT !.flags = G.flags \ {"RUN"}]
  BY <1>5 DEF ClearFlag
<1> QED
  BY <1>1, <1>6, <1>7, FlagsFrame DEF Kept

(***************************************************************************)
(* Where the program can be.  r is the place of the argument of the call   *)
(* under way; the accumulator holds the sum of those taken before.         *)
(***************************************************************************)
Before(c, r) == IF r = \o401 THEN 0 ELSE Cell(c.core, \o401)
After(c, r) == (Cell(c.core, r) + Before(c, r)) % \o10000
Calling(c, r) == "RUN" \in c.flags /\ c.pc = r - 1 /\ c.ac = Before(c, r)
Inside(c, r) ==
  /\ "RUN" \in c.flags
  /\ \/ c.pc = \o421 /\ Cell(c.core, Sub) = r /\ c.ac = Before(c, r)
     \/ c.pc = \o422 /\ Cell(c.core, Sub) = r /\ c.ac = After(c, r)
     \/ c.pc = \o423 /\ Cell(c.core, Sub) = r + 1 /\ c.ac = After(c, r)
Back(c) == c.pc = IF "RUN" \in c.flags THEN \o404 ELSE \o405
Control(c) ==
  \/ \E r \in {\o401, \o403} : Calling(c, r) \/ Inside(c, r)
  \/ Back(c) /\ c.ac = After(c, \o403)

\* The arguments are not at Sub, so the sums stay what they are.
LEMMA SumsKept ==
  ASSUME NEW d, Kept(d), NEW r \in {\o401, \o403}
  PROVE  /\ Before(d, r) = Before(cpu, r) /\ After(d, r) = After(cpu, r)
         /\ Before(cpu, \o401) = 0 /\ Before(cpu, \o403) = Cell(cpu.core, \o401)
<1>1. \o401 # Sub /\ \o403 # Sub
  BY DEF Sub
<1>2. Cell(d.core, \o401) = Cell(cpu.core, \o401) /\ Cell(d.core, \o403) = Cell(cpu.core, \o403)
  BY <1>1 DEF Kept
<1> QED
  BY <1>2 DEF Before, After

\* What is in core is a word.
LEMMA CellIsWord ==
  ASSUME NEW c, IsCpu(c), NEW a
  PROVE  Cell(c.core, a) \in Word
<1>1. IsCore(c.core) /\ 0 \in Word
  BY DEF IsCpu, Word
<1> QED
  BY <1>1 DEF Cell, IsCore

\* The sum before the second call is the first argument.
LEMMA FirstSum ==
  ASSUME NEW c, IsCpu(c)
  PROVE  After(c, \o401) = Before(c, \o403)
<1> DEFINE w == Cell(c.core, \o401)
<1>1. w \in Word
  BY CellIsWord
<1>2. (w + 0) % \o10000 = w
  <2>1. w \in Int /\ 0 <= w /\ w <= \o7777
    BY <1>1, WordBounds
  <2> HIDE DEF w
  <2> QED
    BY <2>1
<1> QED
  BY <1>2 DEF Before, After

\* A call is entered with the sum so far in the accumulator.
LEMMA CallingMoves ==
  ASSUME Loaded, Pdp8Step, NEW r \in {\o401, \o403}, Calling(cpu, r)
  PROVE  EOK(cpu') /\ Kept(cpu') /\ Inside(cpu', r)
<1> DEFINE p == r - 1
<1>1. p \in {\o400, \o402} /\ p + 1 = r
  OBVIOUS
<1>2. cpu.pc = p /\ cpu.ac = Before(cpu, r) /\ "RUN" \in cpu.flags
  BY DEF Calling
<1> HIDE DEF p
<1>3. /\ EOK(cpu') /\ Kept(cpu') /\ cpu'.pc = \o421
      /\ cpu'.ac = cpu.ac /\ cpu'.flags = cpu.flags /\ Cell(cpu'.core, Sub) = p + 1
  BY <1>1, <1>2, CallStep
<1>4. Before(cpu', r) = Before(cpu, r)
  BY <1>3, SumsKept
<1> QED
  BY <1>1, <1>2, <1>3, <1>4 DEF Inside

\* The subroutine adds the argument, steps over it and returns to the word behind it.
LEMMA InsideMoves ==
  ASSUME Loaded, Pdp8Step, NEW r \in {\o401, \o403}, Inside(cpu, r)
  PROVE  EOK(cpu') /\ Kept(cpu') /\ Control(cpu')
<1> DEFINE running == "RUN" \in cpu.flags
<1>1. running
  BY DEF Inside
<1>2. CASE cpu.pc = \o421 /\ Cell(cpu.core, Sub) = r /\ cpu.ac = Before(cpu, r)
  <2>1. /\ EOK(cpu') /\ Kept(cpu') /\ cpu'.pc = \o422 /\ cpu'.flags = cpu.flags
        /\ cpu'.ac = After(cpu, r) /\ Cell(cpu'.core, Sub) = r
    BY <1>2, TakeStep DEF After
  <2>2. After(cpu', r) = After(cpu, r)
    BY <2>1, SumsKept
  <2> QED
    BY <1>1, <2>1, <2>2 DEF Inside, Control
<1>3. CASE cpu.pc = \o422 /\ Cell(cpu.core, Sub) = r /\ cpu.ac = After(cpu, r)
  <2>1. /\ EOK(cpu') /\ Kept(cpu') /\ cpu'.pc = \o423 /\ cpu'.flags = cpu.flags
        /\ cpu'.ac = cpu.ac /\ Cell(cpu'.core, Sub) = r + 1
    BY <1>3, StepOverStep
  <2>2. After(cpu', r) = After(cpu, r)
    BY <2>1, SumsKept
  <2> QED
    BY <1>1, <1>3, <2>1, <2>2 DEF Inside, Control
<1>4. CASE cpu.pc = \o423 /\ Cell(cpu.core, Sub) = r + 1 /\ cpu.ac = After(cpu, r)
  <2> DEFINE q == r + 1
  <2>1. q \in {\o402, \o404} /\ (r = \o401 => q = \o403 - 1) /\ (r = \o403 => q = \o404)
    OBVIOUS
  <2> HIDE DEF q
  <2>2. Cell(cpu.core, Sub) = q
    BY <1>4 DEF q
  <2>3. /\ EOK(cpu') /\ Kept(cpu') /\ cpu'.pc = q /\ cpu'.flags = cpu.flags
        /\ cpu'.ac = cpu.ac
    BY <1>4, <2>1, <2>2, ReturnStep
  <2>4. CASE r = \o401
    <3>1. Before(cpu', \o403) = Before(cpu, \o403)
      BY <2>3, SumsKept
    <3>2. After(cpu, \o401) = Before(cpu, \o403)
      BY FirstSum, Setters8 DEF Loaded
    <3>3. Calling(cpu', \o403)
      BY <1>1, <1>4, <2>1, <2>3, <2>4, <3>1, <3>2 DEF Calling
    <3> QED
      BY <2>3, <3>3 DEF Control
  <2>5. CASE r = \o403
    <3>1. After(cpu', \o403) = After(cpu, \o403)
      BY <2>3, SumsKept
    <3>2. Back(cpu')
      BY <1>1, <2>1, <2>3, <2>5 DEF Back
    <3> QED
      BY <1>4, <2>3, <2>5, <3>1, <3>2 DEF Control
  <2> QED
    BY <2>4, <2>5
<1> QED
  BY <1>2, <1>3, <1>4 DEF Inside

\* So a step of the machine is a step of the program.
LEMMA ProgramMoves ==
  ASSUME Loaded, Pdp8Step, Control(cpu), "RUN" \in cpu.flags
  PROVE  EOK(cpu') /\ Kept(cpu') /\ Control(cpu')
<1>1. ASSUME NEW r \in {\o401, \o403}, Calling(cpu, r)
      PROVE  EOK(cpu') /\ Kept(cpu') /\ Control(cpu')
  BY <1>1, CallingMoves DEF Control
<1>2. ASSUME NEW r \in {\o401, \o403}, Inside(cpu, r)
      PROVE  EOK(cpu') /\ Kept(cpu') /\ Control(cpu')
  BY <1>2, InsideMoves
<1>3. CASE Back(cpu) /\ cpu.ac = After(cpu, \o403)
  <2>1. /\ EOK(cpu') /\ Kept(cpu') /\ cpu'.pc = \o405 /\ "RUN" \notin cpu'.flags
        /\ cpu'.ac = cpu.ac
    BY <1>3, HaltStep DEF Back
  <2>2. After(cpu', \o403) = After(cpu, \o403)
    BY <2>1, SumsKept
  <2> QED
    BY <1>3, <2>1, <2>2 DEF Control, Back
<1> QED
  BY <1>1, <1>2, <1>3 DEF Control

\* The invariant of the program: its text is there, and the counter and the accumulator
\* are where the calls have brought them.
AtWork == Loaded /\ Control(cpu)

\* It starts that way.
LEMMA StartsAtWork ==
  ASSUME NEW c, StartOK(c), ArgumentStart(c)
  PROVE  EOK(c) /\ InPdp8Field(c, 0) /\ Text(c) /\ Control(c)
<1>1. EOK(c)
  BY DEF ArgumentStart, StartOK, EOK, OK
<1>2. Calling(c, \o401)
  <2>1. \o401 - 1 = \o400
    OBVIOUS
  <2> QED
    BY <2>1 DEF ArgumentStart, Calling, Before
<1> QED
  BY <1>1, <1>2 DEF ArgumentStart, Control, Text

\* A key struck is not noticed.
LEMMA KeyUnnoticed ==
  ASSUME AtWork, KeyStruck
  PROVE  AtWork'
<1>1. StartOK(cpu)
  BY StartIsOK DEF AtWork, Loaded, EOK
<1>2. EOK(cpu')
  BY KeyStruckOK DEF AtWork, Loaded, EOK, ModeNames
<1>3. /\ cpu'.core = cpu.core /\ cpu'.ifr = cpu.ifr /\ cpu'.dfr = cpu.dfr
      /\ cpu'.flags = cpu.flags /\ cpu'.pc = cpu.pc /\ cpu'.ac = cpu.ac
  BY <1>1, KeyStruckFrame
<1> QED
  BY <1>2, <1>3 DEF AtWork, Loaded, InPdp8Field, Text, Control, Calling, Inside, Back,
                    Before, After

\* Subroutine calls with arguments in line work on any machine: whatever two words follow
\* the calls, whatever the rest of core, the registers the program does not use and the
\* keyboard hold, the program halts nowhere but at its HLT, with their sum modulo 010000 in
\* the accumulator: JMS has stored, ISZ stepped and JMP I followed the return address both
\* times.
THEOREM ArgumentsReachSubroutine ==
  ASSUME \A c \in Starts : ArgumentStart(c)
  PROVE  Spec => [](ArgumentsAreAdded /\ (~Running => Pdp8Done(ArgumentHalt)))
<1>1. Init => AtWork
  BY StartsAssumption, StartsAtWork DEF Init, AtWork, Loaded
<1>2. AtWork /\ [Next]_cpu => AtWork'
  <2> SUFFICES ASSUME AtWork, [Next]_cpu PROVE AtWork'
    OBVIOUS
  <2>1. CASE Step
    <3>1. ~LincMode /\ Running
      BY <2>1, StepModes DEF AtWork, Loaded, EOK, OK, LincMode
    <3>2. Pdp8Step
      BY <2>1, <3>1, StepModes DEF Step
    <3>3. EOK(cpu') /\ Kept(cpu') /\ Control(cpu')
      BY <3>1, <3>2, ProgramMoves DEF AtWork, Running
    <3> QED
      BY <3>3, StillLoaded DEF AtWork, Loaded
  <2>2. CASE KeyStruck
    BY <2>2, KeyUnnoticed
  <2>3. CASE Halted \/ UNCHANGED cpu
    BY <2>3 DEF Halted, AtWork, Loaded
  <2> QED
    BY <2>1, <2>2, <2>3 DEF Next
<1>3. AtWork => ArgumentsAreAdded /\ (~Running => Pdp8Done(ArgumentHalt))
  <2> SUFFICES ASSUME AtWork, "RUN" \notin cpu.flags
               PROVE  /\ cpu.ac = (Word8(\o401) + Word8(\o403)) % \o10000
                      /\ "8MODE" \in cpu.flags /\ cpu.pc = \o405
    BY DEF ArgumentsAreAdded, ArgumentHalt, Pdp8Done, Running
  <2>1. cpu.ac = (Cell(cpu.core, \o403) + Cell(cpu.core, \o401)) % \o10000
    BY DEF AtWork, Control, Calling, Inside, After, Before
  <2>2. Cell(cpu.core, \o401) + Cell(cpu.core, \o403) = Cell(cpu.core, \o403) + Cell(cpu.core, \o401)
    <3>1. Cell(cpu.core, \o401) \in Int /\ Cell(cpu.core, \o403) \in Int
      BY Setters8, CellIsWord, WordBounds DEF AtWork, Loaded
    <3> QED
      BY <3>1
  <2>3. "8MODE" \in cpu.flags
    BY DEF AtWork, Loaded, EOK, OK
  <2>4. cpu.pc = \o405
    BY DEF AtWork, Control, Calling, Inside, Back
  <2> QED
    BY <2>1, <2>2, <2>3, <2>4 DEF Word8
<1> QED
  BY <1>1, <1>2, <1>3, PTL DEF Spec
(***************************************************************************)
(* Double-word sums.  First what a word of a program in field 0 does that  *)
(* names a cell of its own page, and the two operate words.                *)
(***************************************************************************)
Here == EOK(cpu) /\ InPdp8Field(cpu, 0)
Left(d, S) ==
  /\ EOK(d) /\ InPdp8Field(d, 0) /\ d.flags = cpu.flags
  /\ \A a : a \notin S => Cell(d.core, a) = Cell(cpu.core, a)

\* The other registers, when AC, the link or the flags are set.
LEMMA SetAlone ==
  ASSUME NEW c, IsCpu(c)
  PROVE  /\ \A n : SetAc(c, n).l = c.l /\ SetAc(c, n).ir = c.ir
         /\ \A n : SetL(c, n).l = (IF n # 0 THEN 1 ELSE 0) /\ SetL(c, n).ir = c.ir
         /\ \A fs : [c EXCEPT !.flags = fs].l = c.l
<1>1. \A v : LET d == [c EXCEPT !["ac"] = v] IN d["l"] = c["l"] /\ d["ir"] = c["ir"]
  BY RegisterFrame, RegisterNames
<1>2. \A v : LET d == [c EXCEPT !["l"] = v] IN d["l"] = v /\ d["ir"] = c["ir"]
  BY RegisterFrame, RegisterNames
<1>3. \A v : [c EXCEPT !["flags"] = v]["l"] = c["l"]
  BY RegisterFrame, RegisterNames
<1> QED
  BY <1>1, <1>2, <1>3 DEF SetAc, SetL

\* The list of what the last step handed out, when something else is set.
LEMMA OutAlone ==
  ASSUME NEW c, IsCpu(c)
  PROVE  /\ \A n : SetAc(c, n).out = c.out /\ SetPc(c, n).out = c.out /\ SetL(c, n).out = c.out
         /\ Pdp8IncPc(c).out = c.out
         /\ \A f : ClearFlag(c, f).out = c.out
         /\ \A w : [c EXCEPT !.ir = w].out = c.out
<1> DEFINE S == Registers \union {"core", "out"}
<1>1. c = [f \in S |-> c[f]] /\ "out" \in S
  BY DEF IsCpu
<1>2. "out" \notin Registers
  BY RegisterNames
<1>3. \A f \in Registers : \A v : [c EXCEPT ![f] = v].out = c.out
  BY <1>1, <1>2
<1>4. {"ac", "pc", "l", "flags", "ir"} \subseteq Registers
  BY RegisterNames
<1>5. \A v : /\ [c EXCEPT !["ac"] = v].out = c.out /\ [c EXCEPT !["pc"] = v].out = c.out
             /\ [c EXCEPT !["l"] = v].out = c.out /\ [c EXCEPT !["flags"] = v].out = c.out
             /\ [c EXCEPT !["ir"] = v].out = c.out
  BY <1>3, <1>4
<1> QED
  BY <1>5 DEF SetAc, SetPc, SetL, Pdp8IncPc, ClearFlag

\* A fetch forgets what the last instruction handed out.
LEMMA FetchForgets ==
  ASSUME EOK(cpu)
  PROVE  G.out = {}
<1> DEFINE c == [cpu EXCEPT !.ir = ReadI(cpu, cpu.pc)]
           d == [c EXCEPT !.out = {}]
<1>1. IsCpu(cpu) /\ ReadI(cpu, cpu.pc) \in Word
  BY Setters8, Pdp8ReadWord
<1>2. IsCpu(c) /\ EOK(c)
  BY <1>1, SetIrOK, Setters8 DEF EOK, ModeNames
<1>3. G = Pdp8IncPc(d)
  BY DEF G, Pdp8Fetch
<1> HIDE DEF c
<1>4. d.out = {}
  BY <1>2 DEF IsCpu
<1>5. IsCpu(d)
  BY <1>2, SetOut, Setters8 DEF EOK, ModeNames
<1> HIDE DEF d
<1> QED
  BY <1>3, <1>4, <1>5, OutAlone

\* The fetch, in field 0.
LEMMA FetchedZero ==
  ASSUME EOK(cpu), cpu.ifr \div 4 = 0, cpu.pc < \o7777
  PROVE  /\ EOK(G) /\ IsCpu(G) /\ G.ifr = cpu.ifr /\ G.dfr = cpu.dfr
         /\ G.ac = cpu.ac /\ G.l = cpu.l /\ G.flags = cpu.flags /\ G.core = cpu.core
         /\ G.pc = cpu.pc + 1 /\ G.ir = Cell(cpu.core, cpu.pc)
<1> DEFINE p == cpu.pc
<1>1. EOK(G) /\ IsCpu(G) /\ IsCpu(cpu)
  BY Pdp8FetchOK, Steps8, Setters8 DEF Follows8
<1>2. p \in Word
  BY <1>1, Types
<1>3. (p + 1) % \o10000 = p + 1
  <2>1. p \in Int /\ 0 <= p /\ p < \o7777
    BY <1>2, WordBounds
  <2> HIDE DEF p
  <2> QED
    BY <2>1
<1>4. ReadI(cpu, p) = Cell(cpu.core, p)
  BY <1>1, <1>2, InstructionsZero
<1> QED
  BY <1>1, <1>3, <1>4, Fetch8Registers

\* The same where the data is in field 0 too.
LEMMA NothingOut ==
  ASSUME Here
  PROVE  G.out = {}
BY FetchForgets DEF Here
LEMMA FetchedHere ==
  ASSUME Here, cpu.pc < \o7777
  PROVE  /\ EOK(G) /\ IsCpu(G) /\ InPdp8Field(G, 0)
         /\ G.ac = cpu.ac /\ G.l = cpu.l /\ G.flags = cpu.flags /\ G.core = cpu.core
         /\ G.pc = cpu.pc + 1 /\ G.ir = Cell(cpu.core, cpu.pc)
BY FetchedZero DEF Here, InPdp8Field

\* A word of the page at 0600 that names a cell from 0650 on.
LEMMA NamesCell ==
  ASSUME NEW c, NEW p \in \o601 .. \o611, c.pc = p, NEW a \in \o650 .. \o655,
         c.ir \in {a + \o400, a + \o2400}
  PROVE  PageAddress(c) = a /\ ~Has(c.ir, \o400) /\ a \in Word
<1>1. Has(c.ir, \o200) /\ c.ir % \o200 = a - \o600 /\ ~Has(c.ir, \o400)
  BY DEF Has
<1>2. p \div \o200 = 3
  OBVIOUS
<1>3. PageAddress(c) = a
  BY <1>1, <1>2 DEF PageAddress
<1>4. a \in Word
  BY DEF Word
<1> QED
  BY <1>1, <1>3, <1>4

\* TAD: the cell is added, and a carry sets the link.
LEMMA TadStep ==
  ASSUME Here, Pdp8Step, NEW p \in \o600 .. \o610, cpu.pc = p, NEW a \in \o650 .. \o655,
         Cell(cpu.core, p) = a + \o400
  PROVE  LET s == Cell(cpu.core, a) + cpu.ac
         IN /\ Left(cpu', {}) /\ cpu'.pc = p + 1 /\ cpu'.ac = s % \o10000
            /\ cpu'.l = IF Has(s, \o10000) THEN 1 ELSE cpu.l
<1>1. /\ EOK(G) /\ IsCpu(G) /\ InPdp8Field(G, 0) /\ G.core = cpu.core /\ G.l = cpu.l
      /\ G.ac = cpu.ac /\ G.flags = cpu.flags /\ G.pc = p + 1 /\ G.ir = a + \o400
  BY FetchedHere
<1>2. TAD8
  <2>1. G.ir \div \o1000 = 1 /\ G.ir \in Int
    BY <1>1
  <2> QED
    BY <2>1, StepOfClass
<1>3. PageAddress(G) = a /\ ~Has(G.ir, \o400) /\ a \in Word
  <2>1. p + 1 \in \o601 .. \o611
    OBVIOUS
  <2>2. PICK q \in \o601 .. \o611 : q = p + 1
    BY <2>1
  <2> QED
    BY <1>1, <2>2, NamesCell
<1>4. E8 = a /\ N = G
  BY <1>3 DEF E8, N, EffectiveAddress, Addressed
<1>5. Operand8 = Cell(cpu.core, a)
  BY <1>1, <1>3, <1>4, CoreZero DEF Operand8, Indirect, Bit
<1> DEFINE x == Operand8 + G.ac
           d == SetAc(G, x)
<1>6. cpu' = CarryIfSet(x, d)
  BY <1>2, <1>4 DEF TAD8
<1>7. EOK(cpu')
  BY <1>2, MemoryInstrOK, Steps8 DEF MemoryInstr, Here
<1>8. x \in Int
  BY <1>1, Fetched8, Integral DEF Here
<1> HIDE DEF x
<1>9. /\ d.ac = x % \o10000 /\ d.core = G.core /\ d.pc = G.pc /\ d.flags = G.flags
      /\ d.ifr = G.ifr /\ d.dfr = G.dfr /\ d.l = G.l
  BY <1>1, AcFrame, SetAlone
<1>10. IsCpu(d) /\ d.l \in Int
  BY <1>1, <1>8, Setters8, Integral
<1> HIDE DEF d
<1>11. Comp(d.l) # 0
  BY <1>1, <1>9, <1>10, Types DEF Comp
<1>12. /\ cpu'.ac = d.ac /\ cpu'.core = d.core /\ cpu'.pc = d.pc /\ cpu'.flags = d.flags
       /\ cpu'.ifr = d.ifr /\ cpu'.dfr = d.dfr /\ cpu'.l = IF Has(x, \o10000) THEN 1 ELSE d.l
  BY <1>6, <1>10, <1>11, LinkFrame, SetAlone DEF CarryIfSet, ComplementLink
<1>13. Left(cpu', {}) /\ cpu'.pc = p + 1
  BY <1>1, <1>7, <1>9, <1>12 DEF Left, InPdp8Field
<1> QED
  BY <1>1, <1>5, <1>9, <1>12, <1>13 DEF x

\* DCA: the accumulator is stored and cleared.
LEMMA DcaStep ==
  ASSUME Here, Pdp8Step, NEW p \in \o600 .. \o610, cpu.pc = p, NEW a \in \o650 .. \o655,
         Cell(cpu.core, p) = a + \o2400, cpu.ac \in Word
  PROVE  /\ Left(cpu', {a}) /\ cpu'.pc = p + 1 /\ cpu'.ac = 0 /\ cpu'.l = cpu.l
         /\ Cell(cpu'.core, a) = cpu.ac
<1>1. /\ EOK(G) /\ IsCpu(G) /\ InPdp8Field(G, 0) /\ G.core = cpu.core /\ G.l = cpu.l
      /\ G.ac = cpu.ac /\ G.flags = cpu.flags /\ G.pc = p + 1 /\ G.ir = a + \o2400
  BY FetchedHere
<1>2. DCA8
  <2>1. G.ir \div \o1000 = 3 /\ G.ir \in Int
    BY <1>1
  <2> QED
    BY <2>1, StepOfClass
<1>3. PageAddress(G) = a /\ ~Has(G.ir, \o400) /\ a \in Word
  <2>1. p + 1 \in \o601 .. \o611
    OBVIOUS
  <2>2. PICK q \in \o601 .. \o611 : q = p + 1
    BY <2>1
  <2> QED
    BY <1>1, <2>2, NamesCell
<1>4. E8 = a /\ N = G
  BY <1>3 DEF E8, N, EffectiveAddress, Addressed
<1>7. PICK k \in Address : k = a
  BY AddressBounds
<1> DEFINE d == CpuWrite(G, k, G.ac)
<1>5. cpu' = SetAc(d, 0)
  <2>1. WriteI(G, a, G.ac) = d
    BY <1>1, <1>3, <1>7, CoreZero
  <2> QED
    BY <1>2, <1>3, <1>4, <2>1 DEF DCA8, Store8, Indirect, Bit
<1>6. EOK(cpu')
  BY <1>2, MemoryInstrOK, Steps8 DEF MemoryInstr, Here
<1>8. /\ \A g \in Registers \union {"out"} : d[g] = G[g]
      /\ Cell(d.core, a) = G.ac % \o10000
      /\ \A b : b # a => Cell(d.core, b) = Cell(G.core, b)
  <2>1. /\ \A g \in Registers \union {"out"} : d[g] = G[g]
        /\ Cell(d.core, k) = G.ac % \o10000
        /\ \A b : b # k => Cell(d.core, b) = Cell(G.core, b)
    BY <1>1, WriteFrame
  <2> QED
    BY <1>7, <2>1
<1>9. EOK(d)
  <2>1. G.ac \in Int
    BY <1>1, WordBounds
  <2> QED
    BY <1>1, <2>1, CpuWriteOK DEF EOK, ModeNames
<1>10. G.ac % \o10000 = cpu.ac /\ 0 % \o10000 = 0
  <2>1. cpu.ac \in Int /\ 0 <= cpu.ac /\ cpu.ac <= \o7777
    BY WordBounds
  <2> QED
    BY <1>1, <2>1
<1> HIDE DEF d
<1>11. /\ d.pc = G.pc /\ d.flags = G.flags /\ d.ifr = G.ifr /\ d.dfr = G.dfr /\ d.l = G.l
  BY <1>8, RegisterNames
<1>12. /\ cpu'.ac = 0 /\ cpu'.core = d.core /\ cpu'.pc = d.pc /\ cpu'.flags = d.flags
       /\ cpu'.ifr = d.ifr /\ cpu'.dfr = d.dfr /\ cpu'.l = d.l
  BY <1>5, <1>9, <1>10, Setters8, AcFrame, SetAlone
<1> QED
  BY <1>1, <1>6, <1>8, <1>10, <1>11, <1>12 DEF Left, InPdp8Field

\* The parts of a group 1 word whose bits are not there do nothing.
LEMMA NoG1 ==
  ASSUME NEW c
  PROVE  /\ ~Has(c.ir, \o200) /\ ~Has(c.ir, \o100) => G1Clear(c) = c
         /\ ~Has(c.ir, \o40) /\ ~Has(c.ir, \o20) => G1Complement(c) = c
         /\ ~Has(c.ir, 1) => G1Increment(c) = c
         /\ ~Has(c.ir, \o10) /\ ~Has(c.ir, \o4) => G1Rotate(c) = c
         /\ ~Has(c.ir, \o10) /\ Has(c.ir, \o4) =>
              G1Rotate(c) = Rotated(c, RotateLeft(WithLink(c.ac, c.l), Places(c), 13))
<1>1. ASSUME ~Has(c.ir, \o200), ~Has(c.ir, \o100) PROVE G1Clear(c) = c
  BY <1>1 DEF G1Clear, Micro
<1>2. ASSUME ~Has(c.ir, \o40), ~Has(c.ir, \o20) PROVE G1Complement(c) = c
  BY <1>2 DEF G1Complement, Micro
<1>3. ASSUME ~Has(c.ir, 1) PROVE G1Increment(c) = c
  BY <1>3 DEF G1Increment, Micro
<1>4. ASSUME ~Has(c.ir, \o10), ~Has(c.ir, \o4) PROVE G1Rotate(c) = c
  BY <1>4 DEF G1Rotate, Micro
<1>5. ASSUME ~Has(c.ir, \o10), Has(c.ir, \o4)
      PROVE  G1Rotate(c) = Rotated(c, RotateLeft(WithLink(c.ac, c.l), Places(c), 13))
  BY <1>5 DEF G1Rotate, Micro
<1> QED
  BY <1>1, <1>2, <1>3, <1>4, <1>5

\* CLA CLL: the accumulator and the link are cleared.
LEMMA ClearStep ==
  ASSUME Here, Pdp8Step, cpu.pc = \o600, Cell(cpu.core, \o600) = \o7300
  PROVE  Left(cpu', {}) /\ cpu'.pc = \o601 /\ cpu'.ac = 0 /\ cpu'.l = 0
<1>1. /\ EOK(G) /\ IsCpu(G) /\ InPdp8Field(G, 0) /\ G.core = cpu.core
      /\ G.flags = cpu.flags /\ G.pc = \o601 /\ G.ir = \o7300
  BY FetchedHere
<1>2. Has(\o7300, \o200) /\ Has(\o7300, \o100) /\ ~Has(\o7300, \o400)
  BY DEF Has
<1>3. ~Has(\o7300, \o40) /\ ~Has(\o7300, \o20) /\ ~Has(\o7300, 1)
  BY DEF Has
<1>4. ~Has(\o7300, \o10) /\ ~Has(\o7300, \o4)
  BY DEF Has
<1>5. Group1
  BY <1>1, <1>2, StepOfClass DEF Bit
<1> DEFINE d == SetAc(G, 0)
           e == SetL(d, 0)
<1>6. /\ d.core = G.core /\ d.ac = 0 /\ d.pc = G.pc /\ d.flags = G.flags
      /\ d.ifr = G.ifr /\ d.dfr = G.dfr /\ d.ir = G.ir
  <2>1. 0 % \o10000 = 0
    OBVIOUS
  <2> QED
    BY <1>1, <2>1, AcFrame, SetAlone
<1>7. EOK(d) /\ IsCpu(d)
  BY <1>1, Setters8
<1>8. G1Clear(G) = e
  BY <1>1, <1>2, <1>6 DEF G1Clear, Micro
<1> HIDE DEF d
<1>9. /\ e.core = d.core /\ e.ac = d.ac /\ e.pc = d.pc /\ e.flags = d.flags
      /\ e.ifr = d.ifr /\ e.dfr = d.dfr /\ e.ir = d.ir /\ e.l = 0
  BY <1>7, LinkFrame, SetAlone
<1>10. EOK(e)
  BY <1>7, Setters8
<1> HIDE DEF e
<1>11. G1Rotate(G1Increment(G1Complement(e))) = e
  <2>1. e.ir = \o7300
    BY <1>1, <1>6, <1>9
  <2> QED
    BY <1>3, <1>4, <2>1, NoG1
<1>12. cpu' = e
  BY <1>5, <1>8, <1>11 DEF Group1
<1> QED
  BY <1>1, <1>6, <1>9, <1>10, <1>12 DEF Left, InPdp8Field

\* RAL on a clear accumulator: the link goes to its lowest bit, and is clear.
LEMMA RalStep ==
  ASSUME Here, Pdp8Step, cpu.pc = \o604, Cell(cpu.core, \o604) = \o7004, cpu.ac = 0
  PROVE  Left(cpu', {}) /\ cpu'.pc = \o605 /\ cpu'.ac = cpu.l /\ cpu'.l = 0
<1>1. /\ EOK(G) /\ IsCpu(G) /\ InPdp8Field(G, 0) /\ G.core = cpu.core /\ G.ac = 0
      /\ G.l = cpu.l /\ G.flags = cpu.flags /\ G.pc = \o605 /\ G.ir = \o7004
  BY FetchedHere
<1>2. Has(\o7004, 4) /\ ~Has(\o7004, \o400) /\ ~Has(\o7004, 2)
  BY DEF Has
<1>3. ~Has(\o7004, \o200) /\ ~Has(\o7004, \o100) /\ ~Has(\o7004, \o40)
  BY DEF Has
<1>4. ~Has(\o7004, \o20) /\ ~Has(\o7004, 1) /\ ~Has(\o7004, \o10)
  BY DEF Has
<1>5. Group1
  BY <1>1, <1>2, StepOfClass DEF Bit
<1> DEFINE t == RotateLeft(WithLink(G.ac, G.l), Places(G), 13)
<1>6. t = cpu.l * \o20001 /\ t % \o10000 = cpu.l /\ ~Has(t, \o10000)
  <2>1. cpu.l \in {0, 1}
    BY <1>1, Types
  <2>2. WithLink(G.ac, G.l) = cpu.l * \o10000 /\ Places(G) = 1
    BY <1>1, <1>2, <2>1 DEF WithLink, Places
  <2>3. Pow2(1) = 2 /\ Pow2(12) = \o10000 /\ 13 - 1 = 12
    BY DEF Pow2, Powers
  <2>4. t = Join(cpu.l * \o10000 * 2, (cpu.l * \o10000) \div \o10000)
    BY <2>2, <2>3 DEF RotateLeft
  <2>5. t = cpu.l * \o20001
    BY <2>1, <2>4 DEF Join
  <2> QED
    BY <2>1, <2>5 DEF Has
<1>7. G1Rotate(G1Increment(G1Complement(G1Clear(G)))) = Rotated(G, t)
  BY <1>1, <1>2, <1>3, <1>4, NoG1
<1> DEFINE d == SetAc(G, t)
           e == SetL(d, 0)
<1>8. cpu' = e
  BY <1>5, <1>6, <1>7 DEF Group1, Rotated
<1>9. /\ d.core = G.core /\ d.ac = t % \o10000 /\ d.pc = G.pc /\ d.flags = G.flags
      /\ d.ifr = G.ifr /\ d.dfr = G.dfr
  BY <1>1, AcFrame
<1>10. EOK(d) /\ IsCpu(d)
  <2>1. t \in Int
    <3>1. cpu.l \in {0, 1}
      BY <1>1, Types
    <3> QED
      BY <1>6, <3>1
  <2> QED
    BY <1>1, <2>1, Setters8
<1> HIDE DEF d
<1>11. /\ e.core = d.core /\ e.ac = d.ac /\ e.pc = d.pc /\ e.flags = d.flags
       /\ e.ifr = d.ifr /\ e.dfr = d.dfr /\ e.l = 0
  BY <1>10, LinkFrame, SetAlone
<1>12. EOK(e)
  BY <1>10, Setters8
<1> HIDE DEF e
<1> QED
  BY <1>1, <1>6, <1>8, <1>9, <1>11, <1>12 DEF Left, InPdp8Field

\* HLT: the machine stops with the counter behind the word.
LEMMA StopZero ==
  ASSUME EOK(cpu), cpu.ifr \div 4 = 0, Pdp8Step, cpu.pc < \o7777, Cell(cpu.core, cpu.pc) = \o7402
  PROVE  /\ EOK(cpu') /\ cpu'.ifr = cpu.ifr /\ cpu'.dfr = cpu.dfr /\ cpu'.core = cpu.core
         /\ cpu'.pc = cpu.pc + 1 /\ "RUN" \notin cpu'.flags
         /\ cpu'.ac = cpu.ac /\ cpu'.l = cpu.l /\ cpu'.out = {}
<1>1. /\ EOK(G) /\ IsCpu(G) /\ G.ifr = cpu.ifr /\ G.dfr = cpu.dfr /\ G.core = cpu.core
      /\ G.ac = cpu.ac /\ G.l = cpu.l /\ G.pc = cpu.pc + 1 /\ G.ir = \o7402
      /\ G.out = {}
  BY FetchedZero, FetchForgets
<1>2. /\ Has(G.ir, \o400) /\ ~Has(G.ir, 1) /\ ~Has(G.ir, \o100) /\ ~Has(G.ir, \o40)
      /\ ~Has(G.ir, \o20) /\ ~Has(G.ir, \o10) /\ ~Has(G.ir, \o200) /\ ~Has(G.ir, \o4)
      /\ Has(G.ir, 2)
  BY <1>1 DEF Has
<1>3. Group2
  BY <1>1, <1>2, StepOfClass DEF Bit
<1>4. ~Skips(G)
  BY <1>2 DEF Skips, Conditions
<1>5. cpu' = ClearFlag(G, "RUN")
  BY <1>2, <1>3, <1>4 DEF Group2, G2Halt, G2Switches, G2Clear, G2Skip, Micro
<1>6. EOK(cpu')
  BY <1>1, <1>5, Setters8
<1>7. cpu' = [G EXCEPT !.flags = G.flags \ {"RUN"}]
  BY <1>5 DEF ClearFlag
<1> DEFINE d == cpu'
<1>8. /\ d.core = G.core /\ d.pc = G.pc /\ d.ac = G.ac /\ d.l = G.l /\ d.out = G.out
      /\ d.ifr = G.ifr /\ d.dfr = G.dfr /\ d.flags = G.flags \ {"RUN"}
  BY <1>1, <1>7 DEF IsCpu
<1> QED
  BY <1>1, <1>6, <1>8

\* The same where the data is in field 0 too.
LEMMA StopStep ==
  ASSUME Here, Pdp8Step, cpu.pc < \o7777, Cell(cpu.core, cpu.pc) = \o7402
  PROVE  /\ EOK(cpu') /\ InPdp8Field(cpu', 0) /\ cpu'.core = cpu.core
         /\ cpu'.pc = cpu.pc + 1 /\ "RUN" \notin cpu'.flags
         /\ cpu'.ac = cpu.ac /\ cpu'.l = cpu.l /\ cpu'.out = {}
BY StopZero DEF Here, InPdp8Field

\* Two words and a carry added in two steps: the carry of either step is the carry of the
\* whole, and they cannot both be one.
LEMMA CarryTwice ==
  ASSUME NEW x \in Word, NEW y \in Word, NEW k \in {0, 1}
  PROVE  LET t == x + k
             s == y + (t % \o10000)
             u == x + y + k
             l == IF Has(t, \o10000) THEN 1 ELSE 0
         IN /\ t % \o10000 \in Word /\ s % \o10000 = u % \o10000
            /\ (IF Has(s, \o10000) THEN 1 ELSE l) = u \div \o10000
            /\ l \in {0, 1} /\ u \div \o10000 \in {0, 1}
<1> DEFINE t == x + k
           s == y + (t % \o10000)
           u == x + y + k
           l == IF Has(t, \o10000) THEN 1 ELSE 0
<1> SUFFICES /\ t % \o10000 \in Word /\ s % \o10000 = u % \o10000
             /\ (IF Has(s, \o10000) THEN 1 ELSE l) = u \div \o10000
             /\ l \in {0, 1} /\ u \div \o10000 \in {0, 1}
  OBVIOUS
<1>1. x \in Int /\ 0 <= x /\ x <= \o7777 /\ y \in Int /\ 0 <= y /\ y <= \o7777
  BY WordBounds
<1>2. u \in Int /\ u \div \o10000 \in {0, 1} /\ l \in {0, 1}
  BY <1>1
<1>3. t \in Int /\ 0 <= t /\ t <= \o10000 /\ u = y + t
  BY <1>1
<1>4. CASE t < \o10000
  <2>1. t % \o10000 = t /\ ~Has(t, \o10000) /\ t \in Word
    BY <1>3, <1>4 DEF Has, Word
  <2>2. s = u /\ l = 0
    BY <1>3, <2>1
  <2>3. (IF Has(u, \o10000) THEN 1 ELSE 0) = u \div \o10000
    BY <1>2 DEF Has
  <2> HIDE DEF t, s, u, l
  <2> QED
    BY <1>2, <2>1, <2>2, <2>3
<1>5. CASE t = \o10000
  <2>1. t % \o10000 = 0 /\ Has(t, \o10000) /\ 0 \in Word
    BY <1>5 DEF Has, Word
  <2>2. s = y /\ l = 1
    BY <1>1, <2>1
  <2>3. ~Has(y, \o10000) /\ y % \o10000 = y /\ u \div \o10000 = 1 /\ u % \o10000 = y
    BY <1>1, <1>3, <1>5 DEF Has
  <2> HIDE DEF t, s, u, l
  <2> QED
    BY <1>2, <2>1, <2>2, <2>3
<1>6. t < \o10000 \/ t = \o10000
  BY <1>3
<1> QED
  BY <1>4, <1>5, <1>6

(***************************************************************************)
(* Where the double-word sum can be.  Two words and a carry are added with *)
(* two TADs, first the low words, then the high ones and the carry.        *)
(***************************************************************************)
Low == <<\o650, \o652>>
High == <<\o651, \o653>>
Results == {\o654, \o655}
SumText(c) == \A t \in TadText : Cell(c.core, t[1]) = t[2]
AddedFirst(c, x, k) ==
  LET t == Cell(c.core, x) + k
  IN c.ac = t % \o10000 /\ c.l = IF Has(t, \o10000) THEN 1 ELSE 0
Total(c, p, k) == Cell(c.core, p[1]) + Cell(c.core, p[2]) + k
CarryOf(c) == Total(c, Low, 0) \div \o10000
LowStored(c) == Cell(c.core, \o654) = Total(c, Low, 0) % \o10000
HighStored(c) == Cell(c.core, \o655) = Total(c, High, CarryOf(c)) % \o10000
Summed(c, p, k) == c.ac = Total(c, p, k) % \o10000 /\ c.l = Total(c, p, k) \div \o10000
Lower(c) ==
  \/ c.pc = \o600
  \/ c.pc = \o601 /\ c.ac = 0 /\ c.l = 0
  \/ c.pc = \o602 /\ AddedFirst(c, \o650, 0)
  \/ c.pc = \o603 /\ Summed(c, Low, 0)
Upper(c) ==
  \/ c.pc = \o604 /\ c.ac = 0 /\ c.l = CarryOf(c)
  \/ c.pc = \o605 /\ c.ac = CarryOf(c) /\ c.l = 0
  \/ c.pc = \o606 /\ AddedFirst(c, \o651, CarryOf(c))
  \/ c.pc = \o607 /\ Summed(c, High, CarryOf(c))
SumReady(c) ==
  /\ c.pc = IF "RUN" \in c.flags THEN \o610 ELSE \o611
  /\ c.l = Total(c, High, CarryOf(c)) \div \o10000 /\ HighStored(c)
Summing(c) ==
  \/ "RUN" \in c.flags /\ Lower(c)
  \/ "RUN" \in c.flags /\ LowStored(c) /\ Upper(c)
  \/ LowStored(c) /\ SumReady(c)

\* The text, word by word.
LEMMA SumWords ==
  ASSUME NEW c, SumText(c)
  PROVE  /\ Cell(c.core, \o600) = \o7300 /\ Cell(c.core, \o601) = \o650 + \o400
         /\ Cell(c.core, \o602) = \o652 + \o400 /\ Cell(c.core, \o603) = \o654 + \o2400
         /\ Cell(c.core, \o604) = \o7004 /\ Cell(c.core, \o605) = \o651 + \o400
         /\ Cell(c.core, \o606) = \o653 + \o400 /\ Cell(c.core, \o607) = \o655 + \o2400
         /\ Cell(c.core, \o610) = \o7402
<1>1. /\ Cell(c.core, \o600) = \o7300 /\ Cell(c.core, \o601) = \o1250
      /\ Cell(c.core, \o602) = \o1252 /\ Cell(c.core, \o603) = \o3254
      /\ Cell(c.core, \o604) = \o7004 /\ Cell(c.core, \o605) = \o1251
      /\ Cell(c.core, \o606) = \o1253 /\ Cell(c.core, \o607) = \o3255
      /\ Cell(c.core, \o610) = \o7402
  BY DEF SumText, TadText, PDP8_HLT
<1>2. /\ \o650 + \o400 = \o1250 /\ \o652 + \o400 = \o1252 /\ \o654 + \o2400 = \o3254
      /\ \o651 + \o400 = \o1251 /\ \o653 + \o400 = \o1253 /\ \o655 + \o2400 = \o3255
  OBVIOUS
<1> QED
  BY <1>1, <1>2

\* Stores at the results leave the text and the numbers, and so every sum, alone.
LEMMA SumsStay ==
  ASSUME Here, SumText(cpu), NEW d, Left(d, Results)
  PROVE  /\ EOK(d) /\ InPdp8Field(d, 0) /\ SumText(d)
         /\ Cell(d.core, \o650) = Cell(cpu.core, \o650)
         /\ Cell(d.core, \o651) = Cell(cpu.core, \o651)
         /\ \A k : Total(d, Low, k) = Total(cpu, Low, k)
         /\ \A k : Total(d, High, k) = Total(cpu, High, k)
         /\ CarryOf(d) = CarryOf(cpu)
<1>1. \A t \in TadText : t[1] \notin Results
  BY DEF TadText, Results
<1>2. \o650 \notin Results /\ \o651 \notin Results /\ \o652 \notin Results /\ \o653 \notin Results
  BY DEF Results
<1>3. SumText(d)
  BY <1>1 DEF Left, SumText
<1>4. /\ Cell(d.core, \o650) = Cell(cpu.core, \o650) /\ Cell(d.core, \o651) = Cell(cpu.core, \o651)
      /\ Cell(d.core, \o652) = Cell(cpu.core, \o652) /\ Cell(d.core, \o653) = Cell(cpu.core, \o653)
  BY <1>2 DEF Left
<1>5. /\ \A k : Total(d, Low, k) = Total(cpu, Low, k)
      /\ \A k : Total(d, High, k) = Total(cpu, High, k)
  BY <1>4 DEF Total, Low, High
<1> QED
  BY <1>3, <1>4, <1>5 DEF Left, CarryOf

\* What the sums are: words and carries.
LEMMA TotalsBounded ==
  ASSUME NEW c, IsCpu(c), NEW p, NEW k \in {0, 1}
  PROVE  /\ Total(c, p, k) \in Int /\ Total(c, p, k) \div \o10000 \in {0, 1}
         /\ Total(c, p, k) % \o10000 \in Word
<1> DEFINE x == Cell(c.core, p[1])
           y == Cell(c.core, p[2])
<1>1. x \in Word /\ y \in Word
  BY CellIsWord
<1>2. x \in Int /\ 0 <= x /\ x <= \o7777 /\ y \in Int /\ 0 <= y /\ y <= \o7777
  BY <1>1, WordBounds
<1> HIDE DEF x, y
<1>3. PICK u \in Int : u = x + y + k
  BY <1>2
<1>4. u \div \o10000 \in {0, 1} /\ u % \o10000 \in Word
  BY <1>2, <1>3 DEF Word
<1>5. Total(c, p, k) = u
  BY <1>3 DEF Total, x, y
<1> QED
  BY <1>4, <1>5

\* The first TAD of two adds a word to a carry.
LEMMA FirstTad ==
  ASSUME Here, Pdp8Step, NEW p \in {\o601, \o605}, cpu.pc = p, NEW a \in {\o650, \o651},
         Cell(cpu.core, p) = a + \o400, NEW k \in {0, 1}, cpu.ac = k, cpu.l = 0
  PROVE  Left(cpu', {}) /\ cpu'.pc = p + 1 /\ AddedFirst(cpu', a, k)
<1> DEFINE s == Cell(cpu.core, a) + cpu.ac
<1>1. p \in \o600 .. \o610 /\ a \in \o650 .. \o655
  OBVIOUS
<1>2. /\ Left(cpu', {}) /\ cpu'.pc = p + 1 /\ cpu'.ac = s % \o10000
      /\ cpu'.l = IF Has(s, \o10000) THEN 1 ELSE cpu.l
  BY <1>1, TadStep
<1>3. Cell(cpu'.core, a) = Cell(cpu.core, a)
  BY <1>2 DEF Left
<1> HIDE DEF s
<1> QED
  BY <1>2, <1>3 DEF AddedFirst, s

\* The second adds a word to that, and the link is the carry of the whole.
LEMMA SecondTad ==
  ASSUME Here, Pdp8Step, NEW p \in {\o602, \o606}, cpu.pc = p, NEW q \in {Low, High},
         Cell(cpu.core, p) = q[2] + \o400, NEW k \in {0, 1}, AddedFirst(cpu, q[1], k)
  PROVE  Left(cpu', {}) /\ cpu'.pc = p + 1 /\ Summed(cpu', q, k)
<1> DEFINE x == Cell(cpu.core, q[1])
           y == Cell(cpu.core, q[2])
           s == y + cpu.ac
<1>1. p \in \o600 .. \o610 /\ q[2] \in \o650 .. \o655
  BY DEF Low, High
<1>2. /\ Left(cpu', {}) /\ cpu'.pc = p + 1 /\ cpu'.ac = s % \o10000
      /\ cpu'.l = IF Has(s, \o10000) THEN 1 ELSE cpu.l
  BY <1>1, TadStep
<1>3. Cell(cpu'.core, q[1]) = x /\ Cell(cpu'.core, q[2]) = y
  BY <1>2 DEF Left
<1>4. x \in Word /\ y \in Word
  BY CellIsWord, Setters8 DEF Here
<1>5. cpu.ac = (x + k) % \o10000 /\ cpu.l = IF Has(x + k, \o10000) THEN 1 ELSE 0
  BY DEF AddedFirst
<1> HIDE DEF x, y
<1>6. /\ s % \o10000 = (x + y + k) % \o10000
      /\ (IF Has(s, \o10000) THEN 1 ELSE cpu.l) = (x + y + k) \div \o10000
  BY <1>4, <1>5, CarryTwice
<1> HIDE DEF s
<1>7. Total(cpu', q, k) = x + y + k
  BY <1>3 DEF Total
<1> QED
  BY <1>2, <1>6, <1>7 DEF Summed

\* The sum of the low words is made and stored.
LEMMA LowerMoves ==
  ASSUME Here, SumText(cpu), Pdp8Step, "RUN" \in cpu.flags, Lower(cpu)
  PROVE  Left(cpu', Results) /\ Summing(cpu')
<1>1. CASE cpu.pc = \o600
  <2>1. Left(cpu', {}) /\ cpu'.pc = \o601 /\ cpu'.ac = 0 /\ cpu'.l = 0
    BY <1>1, SumWords, ClearStep
  <2> QED
    BY <2>1 DEF Left, Summing, Lower
<1>2. CASE cpu.pc = \o601 /\ cpu.ac = 0 /\ cpu.l = 0
  <2>1. Left(cpu', {}) /\ cpu'.pc = \o601 + 1 /\ AddedFirst(cpu', \o650, 0)
    BY <1>2, SumWords, FirstTad
  <2>2. \o601 + 1 = \o602
    OBVIOUS
  <2> QED
    BY <2>1, <2>2 DEF Left, Summing, Lower
<1>3. CASE cpu.pc = \o602 /\ AddedFirst(cpu, \o650, 0)
  <2>1. Low[1] = \o650 /\ Low[2] = \o652
    BY DEF Low
  <2>2. Left(cpu', {}) /\ cpu'.pc = \o602 + 1 /\ Summed(cpu', Low, 0)
    BY <1>3, <2>1, SumWords, SecondTad
  <2>3. \o602 + 1 = \o603
    OBVIOUS
  <2> QED
    BY <2>2, <2>3 DEF Left, Summing, Lower
<1>4. CASE cpu.pc = \o603 /\ Summed(cpu, Low, 0)
  <2>1. cpu.ac \in Word /\ cpu.ac = Total(cpu, Low, 0) % \o10000 /\ cpu.l = CarryOf(cpu)
    BY <1>4, TotalsBounded, Setters8 DEF Summed, CarryOf, Here
  <2>2. /\ Left(cpu', {\o654}) /\ cpu'.pc = \o603 + 1 /\ cpu'.ac = 0 /\ cpu'.l = cpu.l
        /\ Cell(cpu'.core, \o654) = cpu.ac
    <3>1. \o603 \in \o600 .. \o610 /\ \o654 \in \o650 .. \o655
      OBVIOUS
    <3> QED
      BY <1>4, <2>1, <3>1, SumWords, DcaStep
  <2>3. Left(cpu', Results)
    BY <2>2 DEF Left, Results
  <2>4. Total(cpu', Low, 0) = Total(cpu, Low, 0) /\ CarryOf(cpu') = CarryOf(cpu)
    BY <2>3, SumsStay
  <2>5. \o603 + 1 = \o604
    OBVIOUS
  <2>6. LowStored(cpu') /\ Upper(cpu')
    BY <2>1, <2>2, <2>4, <2>5 DEF LowStored, Upper
  <2> QED
    BY <2>3, <2>6 DEF Left, Summing
<1> QED
  BY <1>1, <1>2, <1>3, <1>4 DEF Lower

\* So are the high words and the carry.
LEMMA UpperMoves ==
  ASSUME Here, SumText(cpu), Pdp8Step, "RUN" \in cpu.flags, LowStored(cpu), Upper(cpu)
  PROVE  Left(cpu', Results) /\ Summing(cpu')
<1> DEFINE k == CarryOf(cpu)
<1>1. k \in {0, 1}
  BY TotalsBounded, Setters8 DEF CarryOf, Here
<1>2. ASSUME Left(cpu', {}) \/ Left(cpu', {\o655})
      PROVE  Left(cpu', Results) /\ LowStored(cpu') /\ CarryOf(cpu') = k
  <2>1. Left(cpu', Results)
    BY <1>2 DEF Left, Results
  <2>2. Cell(cpu'.core, \o654) = Cell(cpu.core, \o654)
    BY <1>2 DEF Left
  <2> QED
    BY <2>1, <2>2, SumsStay DEF LowStored
<1> SUFFICES /\ Left(cpu', {}) \/ Left(cpu', {\o655})
             /\ cpu'.flags = cpu.flags
             /\ \/ cpu'.pc = \o605 /\ cpu'.ac = k /\ cpu'.l = 0
                \/ cpu'.pc = \o606 /\ AddedFirst(cpu', \o651, k)
                \/ cpu'.pc = \o607 /\ Summed(cpu', High, k)
                \/ /\ cpu'.pc = \o610 /\ cpu'.l = Total(cpu', High, k) \div \o10000
                   /\ Cell(cpu'.core, \o655) = Total(cpu', High, k) % \o10000
  BY <1>2 DEF Summing, Upper, SumReady, HighStored
<1> HIDE DEF k
<1>3. CASE cpu.pc = \o604 /\ cpu.ac = 0 /\ cpu.l = k
  <2>1. Left(cpu', {}) /\ cpu'.pc = \o605 /\ cpu'.ac = cpu.l /\ cpu'.l = 0
    BY <1>3, SumWords, RalStep
  <2> QED
    BY <1>3, <2>1 DEF Left
<1>4. CASE cpu.pc = \o605 /\ cpu.ac = k /\ cpu.l = 0
  <2>1. Left(cpu', {}) /\ cpu'.pc = \o605 + 1 /\ AddedFirst(cpu', \o651, k)
    BY <1>1, <1>4, SumWords, FirstTad
  <2>2. \o605 + 1 = \o606
    OBVIOUS
  <2> QED
    BY <2>1, <2>2 DEF Left
<1>5. CASE cpu.pc = \o606 /\ AddedFirst(cpu, \o651, k)
  <2>1. High[1] = \o651 /\ High[2] = \o653
    BY DEF High
  <2>2. Left(cpu', {}) /\ cpu'.pc = \o606 + 1 /\ Summed(cpu', High, k)
    BY <1>1, <1>5, <2>1, SumWords, SecondTad
  <2>3. \o606 + 1 = \o607
    OBVIOUS
  <2> QED
    BY <2>2, <2>3 DEF Left
<1>6. CASE cpu.pc = \o607 /\ Summed(cpu, High, k)
  <2>1. /\ cpu.ac \in Word /\ cpu.ac = Total(cpu, High, k) % \o10000
        /\ cpu.l = Total(cpu, High, k) \div \o10000
    BY <1>1, <1>6, TotalsBounded, Setters8 DEF Summed, Here
  <2>2. /\ Left(cpu', {\o655}) /\ cpu'.pc = \o607 + 1 /\ cpu'.l = cpu.l
        /\ Cell(cpu'.core, \o655) = cpu.ac
    <3>1. \o607 \in \o600 .. \o610 /\ \o655 \in \o650 .. \o655
      OBVIOUS
    <3> QED
      BY <1>6, <2>1, <3>1, SumWords, DcaStep
  <2>3. Total(cpu', High, k) = Total(cpu, High, k)
    <3>1. Left(cpu', Results)
      BY <2>2 DEF Left, Results
    <3> QED
      BY <3>1, SumsStay
  <2>4. \o607 + 1 = \o610
    OBVIOUS
  <2> QED
    BY <2>1, <2>2, <2>3, <2>4 DEF Left
<1> QED
  BY <1>3, <1>4, <1>5, <1>6 DEF Upper, k

\* The invariant of the program.
SumAtWork == Here /\ SumText(cpu) /\ Summing(cpu)

\* A step of the machine is a step of the sum.
LEMMA SumMoves ==
  ASSUME SumAtWork, Pdp8Step, "RUN" \in cpu.flags
  PROVE  SumAtWork'
<1>1. CASE Lower(cpu) \/ (LowStored(cpu) /\ Upper(cpu))
  <2>1. Left(cpu', Results) /\ Summing(cpu')
    BY <1>1, LowerMoves, UpperMoves DEF SumAtWork
  <2> QED
    BY <2>1, SumsStay DEF SumAtWork, Here
<1>2. CASE LowStored(cpu) /\ SumReady(cpu)
  <2>1. /\ EOK(cpu') /\ InPdp8Field(cpu', 0) /\ cpu'.core = cpu.core
        /\ cpu'.pc = \o611 /\ "RUN" \notin cpu'.flags /\ cpu'.l = cpu.l
    <3>1. cpu.pc = \o610 /\ cpu.pc + 1 = \o611
      BY <1>2 DEF SumReady
    <3> QED
      BY <3>1, SumWords, StopStep DEF SumAtWork
  <2>2. /\ \A p, k : Total(cpu', p, k) = Total(cpu, p, k)
        /\ CarryOf(cpu') = CarryOf(cpu)
    BY <2>1 DEF Total, CarryOf
  <2>3. SumReady(cpu') /\ LowStored(cpu')
    BY <1>2, <2>1, <2>2 DEF SumReady, LowStored, HighStored
  <2>4. SumText(cpu')
    BY <2>1 DEF SumAtWork, SumText
  <2> QED
    BY <2>1, <2>3, <2>4 DEF SumAtWork, Here, Summing
<1> QED
  BY <1>1, <1>2 DEF SumAtWork, Summing

\* A key struck is not noticed here either.
LEMMA KeyUnnoticedBySum ==
  ASSUME SumAtWork, KeyStruck
  PROVE  SumAtWork'
<1>1. StartOK(cpu)
  BY StartIsOK DEF SumAtWork, Here, EOK
<1>2. EOK(cpu')
  BY KeyStruckOK DEF SumAtWork, Here, EOK, ModeNames
<1>3. /\ cpu'.core = cpu.core /\ cpu'.ifr = cpu.ifr /\ cpu'.dfr = cpu.dfr
      /\ cpu'.flags = cpu.flags /\ cpu'.pc = cpu.pc /\ cpu'.ac = cpu.ac /\ cpu'.l = cpu.l
  BY <1>1, KeyStruckFrame
<1>4. /\ \A p, k : Total(cpu', p, k) = Total(cpu, p, k)
      /\ CarryOf(cpu') = CarryOf(cpu)
  BY <1>3 DEF Total, CarryOf
<1>5. Here' /\ SumText(cpu')
  BY <1>2, <1>3 DEF SumAtWork, Here, InPdp8Field, SumText
<1>6. /\ Lower(cpu) => Lower(cpu')
      /\ Upper(cpu) => Upper(cpu')
      /\ SumReady(cpu) => SumReady(cpu')
      /\ LowStored(cpu) => LowStored(cpu')
  BY <1>3, <1>4 DEF Lower, Upper, SumReady, LowStored, HighStored, AddedFirst, Summed
<1> QED
  BY <1>3, <1>5, <1>6 DEF SumAtWork, Summing

\* When it has halted, the stored words and the link are the whole sum.
LEMMA SumIsWhole ==
  ASSUME SumAtWork, "RUN" \notin cpu.flags
  PROVE  TadSumIsExact /\ Pdp8Done(TadHalt)
<1>1. LowStored(cpu) /\ SumReady(cpu) /\ cpu.pc = \o611
  BY DEF SumAtWork, Summing, SumReady
<1>2. Pdp8Done(TadHalt)
  BY <1>1 DEF SumAtWork, Here, EOK, OK, Pdp8Done, TadHalt, Running
<1>3. CarryOf(cpu) \in {0, 1}
  BY TotalsBounded, Setters8 DEF CarryOf, SumAtWork, Here
<1>4. PICK u \in Int : u = Total(cpu, Low, 0)
  BY TotalsBounded, Setters8 DEF SumAtWork, Here
<1>5. PICK v \in Int : v = Total(cpu, High, CarryOf(cpu))
  BY <1>3, TotalsBounded, Setters8 DEF SumAtWork, Here
<1>6. /\ Word8(\o654) = u % \o10000 /\ Word8(\o655) = v % \o10000 /\ cpu.l = v \div \o10000
      /\ u = Word8(\o650) + Word8(\o652) + 0
      /\ v = Word8(\o651) + Word8(\o653) + u \div \o10000
  BY <1>1, <1>4, <1>5 DEF LowStored, SumReady, HighStored, CarryOf, Word8, Total, Low, High
<1>7. \A a : Word8(a) \in Int
  BY CellIsWord, Setters8, WordBounds DEF SumAtWork, Here, Word8
<1>8. u = (u % \o10000) + (u \div \o10000) * \o10000 /\ v = (v % \o10000) + (v \div \o10000) * \o10000
  OBVIOUS
<1>9. Word8(\o654) + Word8(\o655) * \o10000 + cpu.l * \o100000000
        = Word8(\o650) + Word8(\o652) + (Word8(\o651) + Word8(\o653)) * \o10000
  BY <1>6, <1>7, <1>8
<1> QED
  BY <1>2, <1>9 DEF TadSumIsExact

(***************************************************************************)
(* The same in LINC mode.  First what the words of the program do, in the  *)
(* instruction field that holds it.                                        *)
(***************************************************************************)
Offset == 0 .. \o1777

\* The offsets in a field.
LEMMA Offsets ==
  /\ \A n \in Int : 0 <= n /\ n <= \o1777 => n \in Offset
  /\ \A a \in Offset : a \in Int /\ 0 <= a /\ a < \o2000
BY DEF Offset

InLincField(c) == LOK(c) /\ c.ifr * \o2000 = LincField
LincHere == InLincField(cpu)
LincLeft(d, S) ==
  /\ InLincField(d) /\ d.flags = cpu.flags
  /\ \A a \in Offset \ S : Cell(d.core, L(a)) = Cell(cpu.core, L(a))

\* Reading and writing there.
LEMMA LincCells ==
  ASSUME NEW c, InLincField(c), NEW a \in Offset
  PROVE  /\ LincRead(c, a) = Cell(c.core, L(a)) /\ L(a) \in Address
         /\ \A n : LincWrite(c, a, n) = CpuWrite(c, L(a), n)
<1>1. a \in Int /\ 0 <= a /\ a < \o2000
  BY Offsets
<1>2. IsCpu(c)
  BY Setters DEF InLincField
<1>3. LincAddress(c, a) = a + c.ifr * \o2000 /\ LincAddress(c, a) \in Address
  BY <1>1, <1>2, LincAddressField, LincAddressInCore
<1>4. LincAddress(c, a) = L(a)
  <2>1. LincField \in Int
    BY DEF LincField
  <2>2. a + LincField = LincField + a
    BY <1>1, <2>1
  <2> QED
    BY <1>3, <2>2 DEF InLincField, L
<1>5. ~(L(a) > CPU_CORE_SIZE)
  BY <1>3, <1>4, AddressInCore
<1> QED
  BY <1>3, <1>4, <1>5 DEF LincRead, LincWrite, CpuRead

\* Places in the field are as far apart as their offsets.
LEMMA LincPlaces ==
  ASSUME NEW a \in Int, NEW b \in Int, L(a) = L(b)
  PROVE  a = b
BY DEF L, LincField

\* The counter stepped, short of the end of the field.
LEMMA LincStepped ==
  ASSUME NEW c, LOK(c), c.pc < \o1777
  PROVE  LET d == LincIncPc(c)
         IN /\ d.pc = c.pc + 1 /\ d.core = c.core /\ d.ac = c.ac /\ d.ir = c.ir /\ d.ifr = c.ifr
            /\ d.flags = c.flags /\ d.l = c.l
<1> DEFINE p == c.pc
           n == IncIndex(p)
           d == [c EXCEPT !["pc"] = n % \o10000]
<1>1. IsCpu(c)
  BY Setters
<1>2. p \in Int /\ 0 <= p /\ p < \o1777
  BY <1>1, Types, WordBounds
<1>3. n % \o10000 = p + 1
  <2> HIDE DEF p
  <2>1. (p \div \o2000) % 4 = 0 /\ (p + 1) % \o2000 = p + 1
    BY <1>2
  <2> QED
    BY <1>2, <2>1 DEF IncIndex
<1>4. LincIncPc(c) = SetPc(c, n) /\ SetPc(c, n) = d
  BY DEF LincIncPc, SetPc
<1>5. \A v : [c EXCEPT !["pc"] = v].l = c.l
  BY <1>1, RegisterFrame, RegisterNames
<1>6. d.l = c.l
  BY <1>5
<1> HIDE DEF n, d
<1> QED
  BY <1>1, <1>3, <1>4, <1>6, PcFrame

\* The fetch there.
LEMMA LincFetchedHere ==
  ASSUME LincHere, cpu.pc < \o1777
  PROVE  /\ InLincField(F) /\ IsCpu(F) /\ F.core = cpu.core /\ F.ac = cpu.ac /\ F.l = cpu.l
         /\ F.flags = cpu.flags /\ F.ir = Cell(cpu.core, L(cpu.pc)) /\ F.pc = cpu.pc + 1
<1> DEFINE p == cpu.pc
<1>1. /\ F.core = cpu.core /\ F.ac = cpu.ac /\ F.l = cpu.l /\ F.ifr = cpu.ifr
      /\ F.flags = cpu.flags
  BY FetchFrame DEF LincHere, InLincField
<1>2. LOK(F) /\ IsCpu(F) /\ IsCpu(cpu)
  BY Fetched, Setters DEF LincHere, InLincField
<1> DEFINE w == LincRead(cpu, p)
           d == [cpu EXCEPT !["ir"] = w]
           e == [d EXCEPT !.out = {}]
<1>3. p \in Offset /\ p % \o2000 = p
  <2>1. p \in Int /\ 0 <= p /\ p < \o1777
    BY <1>2, Types, WordBounds
  <2> HIDE DEF p
  <2> QED
    BY <2>1, Offsets
<1>4. F = LincIncPc(e)
  <2> DEFINE v == LincRead(cpu, p % \o2000)
  <2>1. v = w
    BY <1>3
  <2>2. F = LincIncPc([[cpu EXCEPT !.ir = v] EXCEPT !.out = {}])
    BY DEF F, LincFetch
  <2> HIDE DEF v, w
  <2> QED
    BY <2>1, <2>2
<1>5. w = Cell(cpu.core, L(p)) /\ w \in Word
  <2>1. w = Cell(cpu.core, L(p))
    BY <1>3, LincCells DEF LincHere
  <2>2. w \in Word
    BY <1>2, LincReadWord
  <2> QED
    BY <2>1, <2>2
<1> HIDE DEF w
<1>6. d.ir = w /\ d.pc = p /\ LOK(d)
  <2>1. d["ir"] = w /\ d.pc = p
    BY <1>2, OtherRegisters, RegisterNames
  <2>2. LOK(d)
    BY <1>2, <1>5, SetIrOK DEF LincHere, InLincField, LOK, ModeNames
  <2> HIDE DEF d
  <2> QED
    BY <2>1, <2>2
<1> HIDE DEF d
<1>7. e.ir = w /\ e.pc = p /\ LOK(e)
  BY <1>6, Setters, OutFrame, RegisterNames
<1> HIDE DEF e
<1>8. F.ir = w /\ F.pc = p + 1
  BY <1>3, <1>4, <1>7, LincStepped
<1> QED
  BY <1>1, <1>2, <1>5, <1>8 DEF LincHere, InLincField

\* The size of an instruction is told from its word.
LEMMA SizeOfWord ==
  ASSUME LincStep
  PROVE  /\ DirectInstr => F.ir \div \o2000 \in {1, 2, 3}
         /\ BetaInstr => F.ir \div \o1000 = 1
         /\ AlphaInstr => F.ir \div \o1000 = 0
         /\ DirectInstr \/ BetaInstr \/ AlphaInstr
<1> DEFINE alpha == F.ir \div \o1000 = 0
<1>1. DirectInstr => F.ir \div \o2000 \in {1, 2, 3}
  BY DEF DirectInstr, ADD, STC, JMP, Direct
<1>2. BetaInstr => F.ir \div \o1000 = 1
  BY DEF BetaInstr, LDA, STA, ADA, ADM, LAM, MUL, LDH, STH, SHD, SAE, SRO, BCL, BSE, BCO,
         DSC, TRAP1, Beta, BetaClass
<1>3. AlphaInstr => alpha
  <2>1. SkipInstr => alpha
    <3>1. SNS \/ AZE \/ APO \/ LZE => alpha
      BY DEF SNS, AZE, APO, LZE, Skip, Alpha, AlphaClass
    <3>2. IBZ \/ FLO \/ QLZ \/ SKP => alpha
      BY DEF IBZ, FLO, QLZ, SKP, Skip, Alpha, AlphaClass
    <3> QED
      BY <3>1, <3>2 DEF SkipInstr
  <2>2. MiscInstr => alpha
    BY DEF MiscInstr, HLT, PDP, ESF, QAC, DJR, CLR, ATR, RTA, NOP, COM, IOB, RSW, LSW,
           Extended1, Extended2, Alpha, AlphaClass
  <2>3. SET \/ SAM \/ DIS \/ XSK \/ ROL \/ ROR => alpha
    BY DEF SET, SAM, DIS, XSK, ROL, ROR, Alpha, AlphaClass
  <2>4. SCR \/ SXL \/ LIF \/ LDF \/ TAPE \/ TRAP23 => alpha
    BY DEF SCR, SXL, LIF, LDF, TAPE, TRAP23, Alpha, AlphaClass
  <2> HIDE DEF alpha
  <2> QED
    BY <2>1, <2>2, <2>3, <2>4 DEF AlphaInstr
<1> QED
  BY <1>1, <1>2, <1>3 DEF LincStep

\* The step of a machine in LINC mode is the one its word calls for.
LEMMA StepOfWord ==
  ASSUME LincStep
  PROVE  /\ F.ir \in {\o1000, \o1020} => LDA
         /\ F.ir = \o1123 => ADA
         /\ F.ir = \o1200 => LAM
         /\ F.ir = 0 => HLT
         /\ F.ir = \o11 => CLR
         /\ F.ir \in {\o62, \o63} => SET
         /\ F.ir = \o222 => XSK
<1>1. CASE F.ir \in {\o1000, \o1020, \o1123, \o1200}
  <2>1. BetaInstr
    BY <1>1, SizeOfWord
  <2>2. /\ F.ir \in {\o1000, \o1020} => Op = 0
        /\ F.ir = \o1123 => Op = 2
        /\ F.ir = \o1200 => Op = 4
    BY DEF Op
  <2>3. /\ Op = 0 => LDA
        /\ Op = 2 => ADA
        /\ Op = 4 => LAM
    BY <2>1 DEF BetaInstr, LDA, STA, ADA, ADM, LAM, MUL, LDH, STH, SHD, SAE, SRO, BCL, BSE, BCO,
                DSC, TRAP1, Beta
  <2> QED
    BY <1>1, <2>2, <2>3
<1>2. CASE F.ir = 0 \/ F.ir = \o11
  <2>1. AlphaInstr
    BY <1>2, SizeOfWord
  <2>2. Op = 0 /\ ~Has(F.ir, \o20)
    BY <1>2 DEF Op, Has
  <2>3. (F.ir = 0 => IA = 0) /\ (F.ir = \o11 => IA = 9)
    BY <2>2 DEF IA, I, A
  <2>4. MiscInstr \/ TRAP23
    BY <2>1, <2>2 DEF AlphaInstr, SET, SAM, DIS, XSK, ROL, ROR, SCR, SXL, LIF, LDF, TAPE, SkipInstr,
                      SNS, AZE, APO, LZE, IBZ, FLO, QLZ, SKP, Skip, Alpha
  <2>5. ~TRAP23
    BY <1>2, <2>2, <2>3 DEF TRAP23, Undefined
  <2>6. /\ IA = 0 => HLT
        /\ IA = 9 => CLR
    BY <2>2, <2>4, <2>5 DEF MiscInstr, HLT, PDP, ESF, QAC, DJR, CLR, ATR, RTA, NOP, COM, IOB, RSW,
                            LSW, Extended1, Extended2, Alpha
  <2> QED
    BY <1>2, <2>3, <2>6
<1>3. CASE F.ir \in {\o62, \o63, \o222}
  <2>1. AlphaInstr
    BY <1>3, SizeOfWord
  <2>2. /\ F.ir \in {\o62, \o63} => Op = 1
        /\ F.ir = \o222 => Op = 4
        /\ Op \in {1, 4}
    BY <1>3 DEF Op
  <2>3. ~SkipInstr /\ ~MiscInstr /\ ~TRAP23
    <3>1. ~MiscInstr
      BY <2>2 DEF MiscInstr, HLT, PDP, ESF, QAC, DJR, CLR, ATR, RTA, NOP, COM, IOB, RSW, LSW,
                  Extended1, Extended2, Alpha
    <3>2. SkipInstr => Op = 9
      <4>1. SNS \/ AZE \/ APO \/ LZE => Op = 9
        BY DEF SNS, AZE, APO, LZE, Skip, Alpha
      <4>2. IBZ \/ FLO \/ QLZ \/ SKP => Op = 9
        BY DEF IBZ, FLO, QLZ, SKP, Skip, Alpha
      <4> QED
        BY <4>1, <4>2 DEF SkipInstr
    <3>3. ~TRAP23
      BY <2>2 DEF TRAP23, Undefined
    <3> QED
      BY <2>2, <3>1, <3>2, <3>3
  <2>4. /\ Op = 1 => SET
        /\ Op = 4 => XSK
    BY <2>1, <2>2, <2>3 DEF AlphaInstr, SET, SAM, DIS, XSK, ROL, ROR, SCR, SXL, LIF, LDF, TAPE, Alpha
  <2> QED
    BY <1>3, <2>2, <2>4
<1> QED
  BY <1>1, <1>2, <1>3

\* The operand of a word with neither an index register nor the i bit is named by the word
\* behind it.
LEMMA LincOperand ==
  ASSUME LincHere, F.ir \in {\o1000, \o1200}, cpu.pc < \o1776, NEW y \in Offset, Cell(cpu.core, L(cpu.pc + 1)) = y
  PROVE  /\ Y = y /\ Operand = Cell(cpu.core, L(y))
         /\ InLincField(B) /\ IsCpu(B) /\ B.core = cpu.core /\ B.ac = cpu.ac /\ B.l = cpu.l
         /\ B.flags = cpu.flags /\ B.pc = cpu.pc + 2
<1> DEFINE p == cpu.pc
<1>1. p \in Int /\ 0 <= p /\ p < \o1776
  BY Setters, Types, WordBounds DEF LincHere, InLincField
<1>2. /\ InLincField(F) /\ IsCpu(F) /\ F.core = cpu.core /\ F.ac = cpu.ac /\ F.l = cpu.l
      /\ F.flags = cpu.flags /\ F.pc = p + 1
  BY <1>1, LincFetchedHere
<1>3. A = 0 /\ ~I
  BY DEF A, I, Has
<1>4. B = LincIncPc(F) /\ Y = LincRead(F, F.pc)
  BY <1>3 DEF B, Y, BetaState, BetaAddr
<1>5. Y = y
  <2>1. p + 1 \in Offset
    <3> HIDE DEF p
    <3> QED
      BY <1>1, Offsets
  <2>2. PICK q \in Offset : q = p + 1
    BY <2>1
  <2>3. LincRead(F, q) = Cell(F.core, L(q))
    BY <1>2, LincCells
  <2> QED
    BY <1>2, <1>4, <2>2, <2>3
<1>6. /\ B.core = cpu.core /\ B.ac = cpu.ac /\ B.l = cpu.l /\ B.flags = cpu.flags
      /\ B.ifr = F.ifr /\ B.pc = p + 2
  <2>1. F.pc < \o1777 /\ F.pc + 1 = p + 2 /\ LOK(F)
    BY <1>1, <1>2 DEF InLincField
  <2> QED
    BY <1>2, <1>4, <2>1, LincStepped
<1>7. InLincField(B) /\ IsCpu(B)
  BY <1>2, <1>6, OperandFetched DEF InLincField, LincHere
<1>8. Operand = Cell(cpu.core, L(y))
  BY <1>5, <1>6, <1>7, LincCells DEF Operand
<1> QED
  BY <1>5, <1>6, <1>7, <1>8

\* LDA: the word is loaded.
LEMMA LdaStep ==
  ASSUME LincHere, LincStep, cpu.pc < \o1776, Cell(cpu.core, L(cpu.pc)) = \o1000,
         NEW y \in Offset, Cell(cpu.core, L(cpu.pc + 1)) = y
  PROVE  /\ LincLeft(cpu', {}) /\ cpu'.pc = cpu.pc + 2
         /\ cpu'.ac = Cell(cpu.core, L(y)) /\ cpu'.l = cpu.l
<1>1. F.ir = \o1000
  <2>1. cpu.pc < \o1777
    BY Integral, Setters DEF LincHere, InLincField
  <2> QED
    BY <2>1, LincFetchedHere
<1>2. LDA
  BY <1>1, StepOfWord
<1>3. /\ Operand = Cell(cpu.core, L(y)) /\ InLincField(B) /\ IsCpu(B)
      /\ B.core = cpu.core /\ B.l = cpu.l /\ B.flags = cpu.flags /\ B.pc = cpu.pc + 2
  BY <1>1, LincOperand
<1>4. cpu' = SetAc(B, Operand)
  BY <1>2 DEF LDA
<1>5. Operand \in Word /\ Operand % \o10000 = Operand
  <2>1. Operand \in Word
    BY OperandFetched DEF LincHere, InLincField
  <2>2. PICK w \in Int : w = Operand /\ 0 <= w /\ w <= \o7777
    BY <2>1, WordBounds
  <2>3. w % \o10000 = w
    BY <2>2
  <2> QED
    BY <2>1, <2>2, <2>3
<1>6. LOK(cpu')
  <2>1. Operand \in Int
    BY <1>5, WordBounds
  <2> QED
    BY <1>3, <1>4, <2>1, Setters DEF InLincField
<1>7. /\ cpu'.core = B.core /\ cpu'.ac = Operand /\ cpu'.pc = B.pc /\ cpu'.flags = B.flags
      /\ cpu'.ifr = B.ifr /\ cpu'.l = B.l
  BY <1>3, <1>4, <1>5, AcFrame, SetAlone
<1> QED
  BY <1>3, <1>6, <1>7 DEF LincLeft, InLincField

\* LAM: the word and the link are added, and the sum is stored as well.
LEMMA LamStep ==
  ASSUME LincHere, LincStep, cpu.pc < \o1776, Cell(cpu.core, L(cpu.pc)) = \o1200,
         NEW y \in Offset, Cell(cpu.core, L(cpu.pc + 1)) = y, cpu.ac \in Word
  PROVE  LET t == cpu.ac + cpu.l + Cell(cpu.core, L(y))
         IN /\ LincLeft(cpu', {y}) /\ cpu'.pc = cpu.pc + 2
            /\ cpu'.l = t \div \o10000 /\ Cell(cpu'.core, L(y)) = t % \o10000
<1>1. F.ir = \o1200
  <2>1. cpu.pc < \o1777
    BY Integral, Setters DEF LincHere, InLincField
  <2> QED
    BY <2>1, LincFetchedHere
<1>2. LAM
  BY <1>1, StepOfWord
<1>3. /\ Y = y /\ Operand = Cell(cpu.core, L(y)) /\ InLincField(B) /\ IsCpu(B)
      /\ B.core = cpu.core /\ B.ac = cpu.ac /\ B.l = cpu.l /\ B.flags = cpu.flags
      /\ B.pc = cpu.pc + 2
  BY <1>1, LincOperand
<1> DEFINE m == Cell(cpu.core, L(y))
           t == cpu.ac + cpu.l + m
           d == SetAc(SetL(B, LamCarry(t)), t)
<1>4. cpu' = LincWrite(d, y, t % \o10000)
  BY <1>2, <1>3 DEF LAM, LinkAdded
<1>5. t \in Int /\ LamCarry(t) = t \div \o10000 /\ t \div \o10000 \in {0, 1}
  <2>1. cpu.ac \in Int /\ 0 <= cpu.ac /\ cpu.ac <= \o7777
    BY WordBounds
  <2>2. m \in Int /\ 0 <= m /\ m <= \o7777
    BY CellIsWord, Setters, WordBounds DEF LincHere, InLincField
  <2>3. cpu.l \in {0, 1}
    BY Setters, Types DEF LincHere, InLincField
  <2> HIDE DEF m
  <2>4. PICK u \in Int : u = t /\ 0 <= u /\ u < \o20000
    BY <2>1, <2>2, <2>3
  <2> HIDE DEF t
  <2>5. u \div \o10000 \in {0, 1} /\ (u \div \o10000) % 4 = u \div \o10000
    BY <2>4
  <2> QED
    BY <2>4, <2>5 DEF LamCarry
<1> HIDE DEF t
<1> DEFINE e == SetL(B, LamCarry(t))
<1>6. /\ e.core = B.core /\ e.pc = B.pc /\ e.flags = B.flags /\ e.ifr = B.ifr
      /\ e.l = t \div \o10000 /\ LOK(e) /\ IsCpu(e)
  BY <1>3, <1>5, LinkFrame, SetAlone, Setters DEF InLincField
<1> HIDE DEF e
<1>7. d = SetAc(e, t)
  BY DEF e
<1>8. /\ d.core = e.core /\ d.pc = e.pc /\ d.flags = e.flags /\ d.ifr = e.ifr /\ d.l = e.l
      /\ LOK(d) /\ IsCpu(d)
  BY <1>5, <1>6, <1>7, AcFrame, SetAlone, Setters
<1> HIDE DEF d
<1>9. InLincField(d)
  BY <1>3, <1>6, <1>8 DEF InLincField
<1>10. PICK k \in Address : k = L(y)
  BY <1>9, LincCells
<1>11. PICK n \in Int : n = t % \o10000 /\ n % \o10000 = n
  BY <1>5
<1>12. cpu' = CpuWrite(d, k, n)
  BY <1>4, <1>9, <1>10, <1>11, LincCells
<1>13. LOK(cpu')
  BY <1>8, <1>12, CpuWriteOK DEF LOK, ModeNames
<1>14. /\ cpu'.pc = d.pc /\ cpu'.flags = d.flags /\ cpu'.ifr = d.ifr /\ cpu'.l = d.l
       /\ Cell(cpu'.core, k) = n % \o10000
       /\ \A a : a # k => Cell(cpu'.core, a) = Cell(d.core, a)
  BY <1>8, <1>12, WriteFrame, RegisterNames
<1>15. ASSUME NEW a \in Offset \ {y} PROVE Cell(cpu'.core, L(a)) = Cell(cpu.core, L(a))
  <2>1. L(a) # k
    BY <1>10, Offsets, LincPlaces
  <2> QED
    BY <1>3, <1>6, <1>8, <1>14, <2>1
<1>16. LincLeft(cpu', {y})
  BY <1>3, <1>6, <1>8, <1>13, <1>14, <1>15 DEF LincLeft, InLincField
<1>17. Cell(cpu'.core, L(y)) = t % \o10000
  BY <1>10, <1>11, <1>14
<1>18. cpu'.pc = cpu.pc + 2 /\ cpu'.l = t \div \o10000
  BY <1>3, <1>6, <1>8, <1>14
<1> QED
  BY <1>16, <1>17, <1>18 DEF t

\* CLR: the accumulator and the link are cleared.
LEMMA LincClearStep ==
  ASSUME LincHere, LincStep, cpu.pc < \o1777, Cell(cpu.core, L(cpu.pc)) = \o11
  PROVE  LincLeft(cpu', {}) /\ cpu'.pc = cpu.pc + 1 /\ cpu'.ac = 0 /\ cpu'.l = 0
<1>1. /\ F.ir = \o11 /\ InLincField(F) /\ IsCpu(F) /\ F.core = cpu.core
      /\ F.flags = cpu.flags /\ F.pc = cpu.pc + 1
  BY LincFetchedHere
<1>2. CLR
  BY <1>1, StepOfWord
<1> DEFINE c == SetAc(F, 0)
           v == 0 % \o10000
           d == [c EXCEPT !["mq"] = v]
<1>3. cpu' = SetL(d, 0)
  BY <1>2 DEF CLR, SetMq
<1>4. v = 0 /\ 0 % \o10000 = 0
  OBVIOUS
<1>5. /\ c.core = F.core /\ c.ac = 0 /\ c.pc = F.pc /\ c.flags = F.flags /\ c.ifr = F.ifr
      /\ LOK(c) /\ IsCpu(c)
  <2>1. /\ c.core = F.core /\ c.ac = 0 /\ c.pc = F.pc /\ c.flags = F.flags /\ c.ifr = F.ifr
    BY <1>1, <1>4, AcFrame
  <2>2. LOK(c)
    BY <1>1, Setters DEF InLincField
  <2> QED
    BY <2>1, <2>2, Setters
<1> HIDE DEF c
<1>6. d = SetMq(c, 0)
  BY DEF SetMq
<1>7. LOK(d) /\ IsCpu(d)
  <2> HIDE DEF d
  <2>1. LOK(SetMq(c, 0))
    BY <1>5, Setters
  <2> QED
    BY <1>6, <2>1, Setters
<1> HIDE DEF v
<1>8. d.core = c.core /\ d.ac = c.ac /\ d.pc = c.pc /\ d.flags = c.flags /\ d.ifr = c.ifr
  BY <1>5, OtherRegisters, RegisterNames
<1> HIDE DEF d
<1>9. /\ cpu'.core = d.core /\ cpu'.ac = d.ac /\ cpu'.pc = d.pc /\ cpu'.flags = d.flags
      /\ cpu'.ifr = d.ifr /\ cpu'.l = 0 /\ LOK(cpu')
  BY <1>3, <1>7, LinkFrame, SetAlone, Setters
<1> QED
  BY <1>1, <1>5, <1>8, <1>9 DEF LincLeft, InLincField

\* HLT: the machine stops with the counter behind the word.
LEMMA LincStopStep ==
  ASSUME LincHere, LincStep, cpu.pc < \o1777, Cell(cpu.core, L(cpu.pc)) = 0
  PROVE  /\ InLincField(cpu') /\ cpu'.core = cpu.core /\ cpu'.pc = cpu.pc + 1
         /\ "RUN" \notin cpu'.flags /\ cpu'.l = cpu.l /\ cpu'.ac = cpu.ac
<1>1. /\ F.ir = 0 /\ InLincField(F) /\ IsCpu(F) /\ F.core = cpu.core /\ F.l = cpu.l
      /\ F.pc = cpu.pc + 1 /\ F.ac = cpu.ac
  BY LincFetchedHere
<1>2. HLT
  BY <1>1, StepOfWord
<1>3. cpu' = ClearFlag(F, "RUN")
  BY <1>2 DEF HLT
<1>4. LOK(cpu')
  <2>1. "RUN" \in FlagNames \ {"8MODE"}
    BY DEF FlagNames
  <2> QED
    BY <1>1, <1>3, <2>1, Setters DEF InLincField
<1>5. cpu' = [F EXCEPT !.flags = F.flags \ {"RUN"}]
  BY <1>3 DEF ClearFlag
<1> QED
  BY <1>1, <1>4, <1>5, FlagsFrame, SetAlone DEF InLincField

(***************************************************************************)
(* Where the LINC sum can be.  The sum replaces one of the two numbers, of *)
(* which there is a copy that stays.                                       *)
(***************************************************************************)
LincLow == <<L(\o1501), L(\o1511)>>
LincHigh == <<L(\o1502), L(\o1512)>>
LincResults == {\o1503, \o1504}
LamLoaded(c) == \A t \in LamText : Cell(c.core, L(t[1])) = t[2]
LincCarry(c) == Total(c, LincLow, 0) \div \o10000
HighCopied(c) == Cell(c.core, L(\o1504)) = Cell(c.core, L(\o1512))
LincLowStored(c) == Cell(c.core, L(\o1503)) = Total(c, LincLow, 0) % \o10000
LincHighStored(c) == Cell(c.core, L(\o1504)) = Total(c, LincHigh, LincCarry(c)) % \o10000
LincLower(c) ==
  /\ Cell(c.core, L(\o1503)) = Cell(c.core, L(\o1511))
  /\ \/ c.pc = \o1400
     \/ c.pc = \o1401 /\ c.l = 0
     \/ c.pc = \o1403 /\ c.l = 0 /\ c.ac = Cell(c.core, L(\o1501))
LincUpper(c) ==
  /\ LincLowStored(c) /\ c.l = LincCarry(c)
  /\ \/ c.pc = \o1405
     \/ c.pc = \o1407 /\ c.ac = Cell(c.core, L(\o1502))
LincReady(c) ==
  /\ LincLowStored(c) /\ LincHighStored(c)
  /\ c.l = Total(c, LincHigh, LincCarry(c)) \div \o10000
  /\ c.pc = IF "RUN" \in c.flags THEN \o1411 ELSE \o1412
LincSumming(c) ==
  \/ "RUN" \in c.flags /\ HighCopied(c) /\ (LincLower(c) \/ LincUpper(c))
  \/ LincReady(c)

\* The text, word by word.
LEMMA LamWords ==
  ASSUME NEW c, LamLoaded(c)
  PROVE  /\ Cell(c.core, L(\o1400)) = \o11
         /\ Cell(c.core, L(\o1401)) = \o1000 /\ Cell(c.core, L(\o1402)) = \o1501
         /\ Cell(c.core, L(\o1403)) = \o1200 /\ Cell(c.core, L(\o1404)) = \o1503
         /\ Cell(c.core, L(\o1405)) = \o1000 /\ Cell(c.core, L(\o1406)) = \o1502
         /\ Cell(c.core, L(\o1407)) = \o1200 /\ Cell(c.core, L(\o1410)) = \o1504
         /\ Cell(c.core, L(\o1411)) = 0
BY DEF LamLoaded, LamText

\* Stores at the results leave the text and the numbers, and so every sum, alone.
LEMMA LincSumsStay ==
  ASSUME LincHere, LamLoaded(cpu), NEW d, LincLeft(d, LincResults)
  PROVE  /\ InLincField(d) /\ LamLoaded(d)
         /\ Cell(d.core, L(\o1501)) = Cell(cpu.core, L(\o1501))
         /\ Cell(d.core, L(\o1502)) = Cell(cpu.core, L(\o1502))
         /\ Cell(d.core, L(\o1512)) = Cell(cpu.core, L(\o1512))
         /\ Cell(d.core, L(\o1511)) = Cell(cpu.core, L(\o1511))
         /\ \A k : Total(d, LincLow, k) = Total(cpu, LincLow, k)
         /\ \A k : Total(d, LincHigh, k) = Total(cpu, LincHigh, k)
         /\ LincCarry(d) = LincCarry(cpu)
<1>1. \A t \in LamText : t[1] \in Offset \ LincResults
  BY DEF LamText, LincResults, Offset
<1>2. {\o1501, \o1502, \o1511, \o1512} \subseteq Offset \ LincResults
  BY DEF LincResults, Offset
<1>3. LamLoaded(d)
  BY <1>1 DEF LincLeft, LamLoaded
<1>4. /\ Cell(d.core, L(\o1501)) = Cell(cpu.core, L(\o1501))
      /\ Cell(d.core, L(\o1502)) = Cell(cpu.core, L(\o1502))
      /\ Cell(d.core, L(\o1511)) = Cell(cpu.core, L(\o1511))
      /\ Cell(d.core, L(\o1512)) = Cell(cpu.core, L(\o1512))
  BY <1>2 DEF LincLeft
<1>5. /\ \A k : Total(d, LincLow, k) = Total(cpu, LincLow, k)
      /\ \A k : Total(d, LincHigh, k) = Total(cpu, LincHigh, k)
  BY <1>4 DEF Total, LincLow, LincHigh
<1> QED
  BY <1>3, <1>4, <1>5 DEF LincLeft, LincCarry

\* A LAM of the program adds a word in the accumulator, the carry and the word at y.
LEMMA LamAdds ==
  ASSUME LincHere, LincStep, NEW p \in {\o1403, \o1407}, cpu.pc = p,
         Cell(cpu.core, L(p)) = \o1200, NEW y \in {\o1503, \o1504},
         Cell(cpu.core, L(p + 1)) = y, NEW q, cpu.ac = Cell(cpu.core, q[1]),
         Cell(cpu.core, L(y)) = Cell(cpu.core, q[2])
  PROVE  /\ LincLeft(cpu', {y}) /\ cpu'.pc = p + 2
         /\ cpu'.l = Total(cpu, q, cpu.l) \div \o10000
         /\ Cell(cpu'.core, L(y)) = Total(cpu, q, cpu.l) % \o10000
<1> DEFINE t == cpu.ac + cpu.l + Cell(cpu.core, L(y))
<1>1. \A a : Cell(cpu.core, a) \in Word
  BY CellIsWord, Setters DEF LincHere, InLincField
<1>2. cpu.ac \in Word
  BY <1>1
<1>3. PICK z \in Offset : z = y
  BY Offsets
<1>4. cpu.pc < \o1776
  OBVIOUS
<1>5. /\ LincLeft(cpu', {z}) /\ cpu'.pc = cpu.pc + 2
      /\ cpu'.l = t \div \o10000 /\ Cell(cpu'.core, L(z)) = t % \o10000
  BY <1>2, <1>3, <1>4, LamStep
<1>6. t = Total(cpu, q, cpu.l)
  <2>1. /\ Cell(cpu.core, q[1]) \in Int /\ Cell(cpu.core, q[2]) \in Int
    BY <1>1, WordBounds
  <2>2. cpu.l \in Int
    BY Integral, Setters DEF LincHere, InLincField
  <2> QED
    BY <2>1, <2>2 DEF Total
<1> HIDE DEF t
<1> QED
  BY <1>3, <1>5, <1>6

\* The sum of the low words is made and stored.
LEMMA LincLowerMoves ==
  ASSUME LincHere, LamLoaded(cpu), LincStep, "RUN" \in cpu.flags, HighCopied(cpu),
         LincLower(cpu)
  PROVE  LincLeft(cpu', LincResults) /\ LincSumming(cpu')
<1>1. \o1501 \in Offset /\ \o1503 \in Offset /\ \o1504 \in Offset
  BY DEF Offset
<1>2. ASSUME LincLeft(cpu', {}) \/ LincLeft(cpu', {\o1503})
      PROVE  LincLeft(cpu', LincResults) /\ HighCopied(cpu') /\ "RUN" \in cpu'.flags
  <2>1. LincLeft(cpu', LincResults)
    BY <1>2 DEF LincLeft, LincResults
  <2>2. Cell(cpu'.core, L(\o1504)) = Cell(cpu.core, L(\o1504))
    BY <1>1, <1>2 DEF LincLeft
  <2> QED
    BY <2>1, <2>2, LincSumsStay DEF HighCopied, LincLeft
<1>3. ASSUME LincLeft(cpu', {})
      PROVE  Cell(cpu'.core, L(\o1503)) = Cell(cpu'.core, L(\o1511))
  <2>1. Cell(cpu'.core, L(\o1503)) = Cell(cpu.core, L(\o1503))
    BY <1>1, <1>3 DEF LincLeft
  <2> QED
    BY <1>2, <1>3, <2>1, LincSumsStay DEF LincLower
<1>4. CASE cpu.pc = \o1400
  <2>1. LincLeft(cpu', {}) /\ cpu'.pc = \o1401 /\ cpu'.l = 0
    BY <1>4, LamWords, LincClearStep
  <2> QED
    BY <1>2, <1>3, <2>1 DEF LincSumming, LincLower
<1>5. CASE cpu.pc = \o1401 /\ cpu.l = 0
  <2>1. cpu.pc < \o1776 /\ Cell(cpu.core, L(cpu.pc)) = \o1000 /\ Cell(cpu.core, L(cpu.pc + 1)) = \o1501
    <3>1. \o1401 + 1 = \o1402
      OBVIOUS
    <3> QED
      BY <1>5, <3>1, LamWords
  <2>2. /\ LincLeft(cpu', {}) /\ cpu'.pc = cpu.pc + 2
        /\ cpu'.ac = Cell(cpu.core, L(\o1501)) /\ cpu'.l = cpu.l
    BY <1>1, <2>1, LdaStep
  <2>3. Cell(cpu'.core, L(\o1501)) = Cell(cpu.core, L(\o1501))
    BY <1>2, <2>2, LincSumsStay
  <2>4. cpu'.pc = \o1403
    BY <1>5, <2>2
  <2> QED
    BY <1>2, <1>3, <1>5, <2>2, <2>3, <2>4 DEF LincSumming, LincLower
<1>6. CASE cpu.pc = \o1403 /\ cpu.l = 0 /\ cpu.ac = Cell(cpu.core, L(\o1501))
  <2>1. /\ Cell(cpu.core, L(\o1403)) = \o1200 /\ Cell(cpu.core, L(\o1403 + 1)) = \o1503
        /\ LincLow[1] = L(\o1501) /\ LincLow[2] = L(\o1511)
    <3>1. \o1403 + 1 = \o1404
      OBVIOUS
    <3> QED
      BY <3>1, LamWords DEF LincLow
  <2>2. /\ LincLeft(cpu', {\o1503}) /\ cpu'.pc = \o1403 + 2
        /\ cpu'.l = Total(cpu, LincLow, 0) \div \o10000
        /\ Cell(cpu'.core, L(\o1503)) = Total(cpu, LincLow, 0) % \o10000
    BY <1>6, <2>1, LamAdds DEF LincLower
  <2>3. Total(cpu', LincLow, 0) = Total(cpu, LincLow, 0)
    BY <1>2, <2>2, LincSumsStay
  <2>4. LincLowStored(cpu') /\ cpu'.l = LincCarry(cpu')
    BY <2>2, <2>3 DEF LincLowStored, LincCarry
  <2>5. cpu'.pc = \o1405
    BY <2>2
  <2> QED
    BY <1>2, <2>2, <2>4, <2>5 DEF LincSumming, LincUpper
<1> QED
  BY <1>4, <1>5, <1>6 DEF LincLower

\* So are the high words and the carry.
LEMMA LincUpperMoves ==
  ASSUME LincHere, LamLoaded(cpu), LincStep, "RUN" \in cpu.flags, HighCopied(cpu),
         LincUpper(cpu)
  PROVE  LincLeft(cpu', LincResults) /\ LincSumming(cpu')
<1>1. \o1502 \in Offset /\ \o1503 \in Offset /\ \o1504 \in Offset
  BY DEF Offset
<1>2. ASSUME LincLeft(cpu', {}) \/ LincLeft(cpu', {\o1504})
      PROVE  /\ LincLeft(cpu', LincResults) /\ LincLowStored(cpu') /\ "RUN" \in cpu'.flags
             /\ LincCarry(cpu') = LincCarry(cpu)
  <2>1. LincLeft(cpu', LincResults)
    BY <1>2 DEF LincLeft, LincResults
  <2>2. Cell(cpu'.core, L(\o1503)) = Cell(cpu.core, L(\o1503))
    BY <1>1, <1>2 DEF LincLeft
  <2> QED
    BY <2>1, <2>2, LincSumsStay DEF LincLowStored, LincUpper, LincLeft
<1>3. CASE cpu.pc = \o1405
  <2>1. cpu.pc < \o1776 /\ Cell(cpu.core, L(cpu.pc)) = \o1000 /\ Cell(cpu.core, L(cpu.pc + 1)) = \o1502
    <3>1. \o1405 + 1 = \o1406
      OBVIOUS
    <3> QED
      BY <1>3, <3>1, LamWords
  <2>2. /\ LincLeft(cpu', {}) /\ cpu'.pc = cpu.pc + 2
        /\ cpu'.ac = Cell(cpu.core, L(\o1502)) /\ cpu'.l = cpu.l
    BY <1>1, <2>1, LdaStep
  <2>3. /\ Cell(cpu'.core, L(\o1502)) = Cell(cpu.core, L(\o1502))
        /\ Cell(cpu'.core, L(\o1512)) = Cell(cpu.core, L(\o1512))
        /\ Cell(cpu'.core, L(\o1504)) = Cell(cpu.core, L(\o1504))
    BY <1>1, <1>2, <2>2, LincSumsStay DEF LincLeft
  <2>4. cpu'.pc = \o1407
    BY <1>3, <2>2
  <2> QED
    BY <1>2, <2>2, <2>3, <2>4 DEF LincSumming, LincUpper, HighCopied
<1>4. CASE cpu.pc = \o1407 /\ cpu.ac = Cell(cpu.core, L(\o1502))
  <2>1. /\ Cell(cpu.core, L(\o1407)) = \o1200 /\ Cell(cpu.core, L(\o1407 + 1)) = \o1504
        /\ LincHigh[1] = L(\o1502) /\ LincHigh[2] = L(\o1512)
    <3>1. \o1407 + 1 = \o1410
      OBVIOUS
    <3> QED
      BY <3>1, LamWords DEF LincHigh
  <2>2. /\ LincLeft(cpu', {\o1504}) /\ cpu'.pc = \o1407 + 2
        /\ cpu'.l = Total(cpu, LincHigh, cpu.l) \div \o10000
        /\ Cell(cpu'.core, L(\o1504)) = Total(cpu, LincHigh, cpu.l) % \o10000
    BY <1>4, <2>1, LamAdds DEF HighCopied
  <2>3. Total(cpu', LincHigh, cpu.l) = Total(cpu, LincHigh, cpu.l)
    BY <1>2, <2>2, LincSumsStay
  <2>4. cpu'.pc = \o1411
    BY <2>2
  <2> QED
    BY <1>2, <2>2, <2>3, <2>4 DEF LincSumming, LincReady, LincHighStored, LincUpper
<1> QED
  BY <1>3, <1>4 DEF LincUpper

\* The invariant of the program.
LamAtWork == LincHere /\ LamLoaded(cpu) /\ LincSumming(cpu)

\* A step of the machine is a step of the sum.
LEMMA LamMoves ==
  ASSUME LamAtWork, LincStep, "RUN" \in cpu.flags
  PROVE  LamAtWork'
<1>1. CASE HighCopied(cpu) /\ (LincLower(cpu) \/ LincUpper(cpu))
  <2>1. LincLeft(cpu', LincResults) /\ LincSumming(cpu')
    BY <1>1, LincLowerMoves, LincUpperMoves DEF LamAtWork
  <2> QED
    BY <2>1, LincSumsStay DEF LamAtWork, LincHere
<1>2. CASE LincReady(cpu)
  <2>1. cpu.pc = \o1411 /\ cpu.pc < \o1777 /\ Cell(cpu.core, L(cpu.pc)) = 0
    BY <1>2, LamWords DEF LamAtWork, LincReady
  <2>2. /\ InLincField(cpu') /\ cpu'.core = cpu.core /\ cpu'.pc = cpu.pc + 1
        /\ "RUN" \notin cpu'.flags /\ cpu'.l = cpu.l
    BY <2>1, LincStopStep DEF LamAtWork
  <2>3. /\ \A p, k : Total(cpu', p, k) = Total(cpu, p, k)
        /\ LincCarry(cpu') = LincCarry(cpu) /\ cpu'.pc = \o1412
    BY <2>1, <2>2 DEF Total, LincCarry
  <2>4. LincReady(cpu')
    BY <1>2, <2>2, <2>3 DEF LincReady, LincLowStored, LincHighStored
  <2>5. LamLoaded(cpu')
    BY <2>2 DEF LamAtWork, LamLoaded
  <2> QED
    BY <2>2, <2>4, <2>5 DEF LamAtWork, LincHere, LincSumming
<1> QED
  BY <1>1, <1>2 DEF LamAtWork, LincSumming

\* A key struck is not noticed.
LEMMA KeyUnnoticedByLam ==
  ASSUME LamAtWork, KeyStruck
  PROVE  LamAtWork'
<1>1. StartOK(cpu)
  BY StartIsOK DEF LamAtWork, LincHere, InLincField, LOK
<1>2. LOK(cpu')
  BY KeyStruckOK DEF LamAtWork, LincHere, InLincField, LOK, ModeNames
<1>3. /\ cpu'.core = cpu.core /\ cpu'.ifr = cpu.ifr /\ cpu'.flags = cpu.flags
      /\ cpu'.pc = cpu.pc /\ cpu'.ac = cpu.ac /\ cpu'.l = cpu.l
  BY <1>1, KeyStruckFrame
<1>4. /\ \A p, k : Total(cpu', p, k) = Total(cpu, p, k)
      /\ LincCarry(cpu') = LincCarry(cpu)
  BY <1>3 DEF Total, LincCarry
<1>5. LincHere' /\ LamLoaded(cpu')
  BY <1>2, <1>3 DEF LamAtWork, LincHere, InLincField, LamLoaded
<1>6. /\ HighCopied(cpu) => HighCopied(cpu')
      /\ LincLower(cpu) => LincLower(cpu')
      /\ LincUpper(cpu) => LincUpper(cpu')
      /\ LincReady(cpu) => LincReady(cpu')
  BY <1>3, <1>4 DEF HighCopied, LincLower, LincUpper, LincReady, LincLowStored, LincHighStored
<1> QED
  BY <1>3, <1>5, <1>6 DEF LamAtWork, LincSumming

\* When it has halted, the stored words and the link are the whole sum.
LEMMA LamIsWhole ==
  ASSUME LamAtWork, "RUN" \notin cpu.flags
  PROVE  LamSumIsExact /\ LincDone(LamHalt)
<1>1. LincReady(cpu) /\ cpu.pc = \o1412
  BY DEF LamAtWork, LincSumming, LincReady
<1>2. LincDone(LamHalt)
  <2>1. "8MODE" \notin cpu.flags
    BY DEF LamAtWork, LincHere, InLincField, LOK, OK
  <2>2. \o1412 % \o2000 = \o1412
    OBVIOUS
  <2> QED
    BY <1>1, <2>1, <2>2 DEF LincDone, LamHalt, Running
<1>3. LincCarry(cpu) \in {0, 1}
  BY TotalsBounded, Setters DEF LincCarry, LamAtWork, LincHere, InLincField
<1>4. PICK u \in Int : u = Total(cpu, LincLow, 0)
  BY TotalsBounded, Setters DEF LamAtWork, LincHere, InLincField
<1>5. PICK v \in Int : v = Total(cpu, LincHigh, LincCarry(cpu))
  BY <1>3, TotalsBounded, Setters DEF LamAtWork, LincHere, InLincField
<1> DEFINE C(a) == Cell(cpu.core, L(a))
<1>6. /\ C(\o1503) = u % \o10000 /\ C(\o1504) = v % \o10000 /\ cpu.l = v \div \o10000
      /\ u = C(\o1501) + C(\o1511) + 0
      /\ v = C(\o1502) + C(\o1512) + u \div \o10000
  BY <1>1, <1>4, <1>5 DEF LincReady, LincLowStored, LincHighStored, LincCarry, Total, LincLow,
                          LincHigh
<1>7. \A a : C(a) \in Int
  BY CellIsWord, Setters, WordBounds DEF LamAtWork, LincHere, InLincField
<1>8. u = (u % \o10000) + (u \div \o10000) * \o10000 /\ v = (v % \o10000) + (v \div \o10000) * \o10000
  OBVIOUS
<1>9. /\ Word2(\o1503) = C(\o1503) + C(\o1504) * \o10000
      /\ Word2(\o1501) = C(\o1501) + C(\o1502) * \o10000
      /\ Word2(\o1511) = C(\o1511) + C(\o1512) * \o10000
  <2>1. \o1503 + 1 = \o1504 /\ \o1501 + 1 = \o1502 /\ \o1511 + 1 = \o1512
    OBVIOUS
  <2> QED
    BY <2>1 DEF Word2
<1> HIDE DEF C
<1>10. Word2(\o1503) + cpu.l * \o100000000 = Word2(\o1501) + Word2(\o1511)
  BY <1>6, <1>7, <1>8, <1>9
<1> QED
  BY <1>2, <1>10 DEF LamSumIsExact

(***************************************************************************)
(* Long additions are exact on any machine, with LAM as with TAD and RAL:  *)
(* whatever the two numbers, the accumulator, the link and the rest of     *)
(* core hold, and whichever keys are struck meanwhile, the program halts   *)
(* nowhere but at its HLT, with the 24-bit sum in the result words and the *)
(* carry out of it in the link.                                            *)
(***************************************************************************)
THEOREM LongSumsAreExact ==
  ASSUME \A c \in Starts : TadStart(c) \/ LamStart(c)
  PROVE  Spec => [](LongSumIsExact /\ (~Running => Pdp8Done(TadHalt) \/ LincDone(LamHalt)))
<1> DEFINE AtSum == SumAtWork \/ LamAtWork
<1>1. Init => AtSum
  <2> SUFFICES ASSUME NEW c \in Starts, cpu = c PROVE SumAtWork \/ LamAtWork
    BY DEF Init
  <2>1. StartOK(c)
    BY StartsAssumption
  <2>2. CASE TadStart(c)
    BY <2>1, <2>2 DEF TadStart, StartOK, EOK, OK, SumAtWork, Here, SumText, Summing, Lower
  <2>3. CASE LamStart(c)
    <3>1. LOK(c)
      BY <2>1, <2>3 DEF LamStart, StartOK, LOK, OK
    <3> QED
      BY <2>3, <3>1 DEF LamStart, LamAtWork, LincHere, InLincField, LamLoaded, LincSumming,
                        LincLower, HighCopied
  <2> QED
    BY <2>2, <2>3
<1>2. AtSum /\ [Next]_cpu => AtSum'
  <2>1. ASSUME SumAtWork, Step PROVE SumAtWork'
    <3>1. ~LincMode /\ Running
      BY <2>1, StepModes DEF SumAtWork, Here, EOK, OK, LincMode
    <3>2. Pdp8Step
      BY <2>1, <3>1, StepModes DEF Step
    <3> QED
      BY <2>1, <3>1, <3>2, SumMoves DEF Running
  <2>2. ASSUME LamAtWork, Step PROVE LamAtWork'
    <3>1. LincMode /\ Running
      BY <2>2, StepModes DEF LamAtWork, LincHere, InLincField, LOK, OK, LincMode
    <3>2. LincStep
      BY <2>2, <3>1, StepModes DEF Step
    <3> QED
      BY <2>2, <3>1, <3>2, LamMoves DEF Running
  <2>3. ASSUME AtSum, KeyStruck PROVE AtSum'
    BY <2>3, KeyUnnoticedBySum, KeyUnnoticedByLam
  <2>4. ASSUME AtSum, Halted \/ UNCHANGED cpu PROVE AtSum'
    BY <2>4 DEF Halted, SumAtWork, Here, LamAtWork, LincHere
  <2> QED
    BY <2>1, <2>2, <2>3, <2>4 DEF Next
<1>3. AtSum => LongSumIsExact /\ (~Running => Pdp8Done(TadHalt) \/ LincDone(LamHalt))
  <2>1. ASSUME SumAtWork PROVE LamSumIsExact /\ TadSumIsExact /\ (~Running => Pdp8Done(TadHalt))
    <3>1. "8MODE" \in cpu.flags
      BY <2>1 DEF SumAtWork, Here, EOK, OK
    <3>2. LamSumIsExact
      BY <3>1 DEF LamSumIsExact, LincDone
    <3>3. CASE "RUN" \in cpu.flags
      BY <3>2, <3>3 DEF TadSumIsExact, Pdp8Done, Running
    <3>4. CASE "RUN" \notin cpu.flags
      BY <2>1, <3>2, <3>4, SumIsWhole
    <3> QED
      BY <3>3, <3>4
  <2>2. ASSUME LamAtWork PROVE LamSumIsExact /\ TadSumIsExact /\ (~Running => LincDone(LamHalt))
    <3>1. "8MODE" \notin cpu.flags
      BY <2>2 DEF LamAtWork, LincHere, InLincField, LOK, OK
    <3>2. TadSumIsExact
      BY <3>1 DEF TadSumIsExact, Pdp8Done
    <3>3. CASE "RUN" \in cpu.flags
      BY <3>2, <3>3 DEF LamSumIsExact, LincDone, Running
    <3>4. CASE "RUN" \notin cpu.flags
      BY <2>2, <3>2, <3>4, LamIsWhole
    <3> QED
      BY <3>3, <3>4
  <2> QED
    BY <2>1, <2>2 DEF LongSumIsExact
<1> QED
  BY <1>1, <1>2, <1>3, PTL DEF Spec

(***************************************************************************)
(* A text printed through the teletype.                                    *)
(***************************************************************************)
\* The words of the program.
LEMMA PrintWords ==
  ASSUME NEW c, \A k \in 1 .. 8 : Cell(c.core, \o177 + k) = PrintCode[k]
  PROVE  /\ Cell(c.core, \o200) = \o1410 /\ Cell(c.core, \o201) = \o7450
         /\ Cell(c.core, \o202) = \o7402 /\ Cell(c.core, \o203) = \o6046
         /\ Cell(c.core, \o204) = \o6041 /\ Cell(c.core, \o205) = \o5204
         /\ Cell(c.core, \o206) = \o7200 /\ Cell(c.core, \o207) = \o5200
<1>1. /\ PrintCode[1] = \o1410 /\ PrintCode[2] = \o7450 /\ PrintCode[3] = \o7402
      /\ PrintCode[4] = \o6046 /\ PrintCode[5] = \o6041 /\ PrintCode[6] = \o5204
      /\ PrintCode[7] = \o7200 /\ PrintCode[8] = \o5200
  BY DEF PrintCode, PDP8_HLT
<1>2. /\ \o177 + 1 = \o200 /\ \o177 + 2 = \o201 /\ \o177 + 3 = \o202 /\ \o177 + 4 = \o203
      /\ \o177 + 5 = \o204 /\ \o177 + 6 = \o205 /\ \o177 + 7 = \o206 /\ \o177 + 8 = \o207
  OBVIOUS
<1>3. \A k \in {1, 2, 3, 4, 5, 6, 7, 8} : Cell(c.core, \o177 + k) = PrintCode[k]
  OBVIOUS
<1> QED
  BY <1>1, <1>2, <1>3

\* TAD I 10: the pointer steps, and the word it then names is loaded.
LEMMA NextWordStep ==
  ASSUME Here, Pdp8Step, cpu.pc = \o200, Cell(cpu.core, \o200) = \o1410, cpu.ac = 0
  PROVE  /\ Left(cpu', {TextPointer}) /\ cpu'.pc = \o201 /\ cpu'.ac = TextWord(cpu')
         /\ cpu'.out = {}
<1>1. /\ EOK(G) /\ IsCpu(G) /\ InPdp8Field(G, 0) /\ G.core = cpu.core /\ G.out = {}
      /\ G.ac = 0 /\ G.flags = cpu.flags /\ G.pc = \o201 /\ G.ir = \o1410
  BY FetchedHere, NothingOut
<1>2. TAD8
  <2>1. G.ir \div \o1000 = 1 /\ G.ir \in Int
    BY <1>1
  <2> QED
    BY <2>1, StepOfClass
<1>3. Has(G.ir, \o400) /\ ~IsJump(G) /\ PageAddress(G) = TextPointer /\ AutoIndexed(G)
  BY <1>1 DEF Has, IsJump, PageAddress, AutoIndexed, TextPointer
<1> DEFINE p == Cell(cpu.core, TextPointer)
           e == (p + 1) % \o10000
           d == CpuWrite(G, TextPointer, p + 1)
<1>4. TextPointer \in Word /\ TextPointer \in Address
  BY AddressBounds DEF TextPointer, Word
<1>5. p \in Int /\ e \in Word /\ e \in Int /\ e % \o10000 = e
  <2>1. p \in Int
    BY <1>1, CellIsWord, WordBounds
  <2> HIDE DEF p
  <2> QED
    BY <2>1 DEF Word
<1>6. Pointer(G) = p
  BY <1>1, <1>3, <1>4, CoreZero DEF Pointer
<1>7. E8 = e /\ N = d
  <2>1. WriteD(G, TextPointer, p + 1) = d
    BY <1>1, <1>4, CoreZero
  <2> QED
    BY <1>3, <1>6, <2>1 DEF E8, N, EffectiveAddress, Addressed
<1>8. /\ \A g \in Registers \union {"out"} : d[g] = G[g]
      /\ Cell(d.core, TextPointer) = e
      /\ \A b : b # TextPointer => Cell(d.core, b) = Cell(G.core, b)
  BY <1>1, <1>4, WriteFrame
<1>9. EOK(d) /\ IsCpu(d)
  <2>1. p + 1 \in Int
    BY <1>5
  <2> QED
    BY <1>1, <1>4, <2>1, CpuWriteOK, Setters8 DEF EOK, ModeNames
<1> HIDE DEF d, e
<1>10. /\ d.pc = G.pc /\ d.flags = G.flags /\ d.ifr = G.ifr /\ d.dfr = G.dfr /\ d.ac = G.ac
       /\ d.out = G.out
  BY <1>8, RegisterNames
<1>11. Operand8 = Cell(d.core, e)
  <2>1. InPdp8Field(d, 0)
    BY <1>1, <1>10 DEF InPdp8Field
  <2> QED
    BY <1>3, <1>5, <1>7, <1>9, <2>1, CoreZero DEF Operand8, Indirect, Bit
<1> DEFINE x == Operand8 + d.ac
           a == SetAc(d, x)
<1>12. x \in Int /\ x % \o10000 = Cell(d.core, e)
  <2>1. PICK w \in Int : w = Cell(d.core, e) /\ 0 <= w /\ w <= \o7777
    BY <1>9, CellIsWord, WordBounds
  <2>2. x = w /\ w % \o10000 = w
    BY <1>1, <1>10, <1>11, <2>1
  <2> QED
    BY <2>1, <2>2
<1>13. cpu' = CarryIfSet(x, a)
  BY <1>2, <1>7 DEF TAD8
<1>14. EOK(cpu')
  BY <1>2, MemoryInstrOK, Steps8 DEF MemoryInstr, Here
<1> HIDE DEF x
<1>15. /\ a.ac = Cell(d.core, e) /\ a.core = d.core /\ a.pc = d.pc /\ a.flags = d.flags
       /\ a.ifr = d.ifr /\ a.dfr = d.dfr /\ a.out = d.out
  BY <1>9, <1>12, AcFrame, OutAlone
<1>16. IsCpu(a)
  BY <1>9, <1>12, Setters8
<1> HIDE DEF a
<1>17. /\ cpu'.ac = a.ac /\ cpu'.core = a.core /\ cpu'.pc = a.pc /\ cpu'.flags = a.flags
       /\ cpu'.ifr = a.ifr /\ cpu'.dfr = a.dfr /\ cpu'.out = a.out
  BY <1>13, <1>16, LinkFrame, OutAlone DEF CarryIfSet, ComplementLink
<1>18. cpu'.ac = TextWord(cpu')
  BY <1>8, <1>15, <1>17 DEF TextWord
<1>19. Left(cpu', {TextPointer})
  BY <1>1, <1>8, <1>10, <1>14, <1>15, <1>17 DEF Left, InPdp8Field
<1> QED
  BY <1>1, <1>10, <1>15, <1>17, <1>18, <1>19

\* The sense bit and the zero test alone: a skip is taken when AC is not zero.
LEMMA NonzeroSkips ==
  ASSUME NEW c, Has(c.ir, \o10), Has(c.ir, \o40), ~Has(c.ir, \o100), ~Has(c.ir, \o20)
  PROVE  Skips(c) <=> c.ac # 0
<1>1. Conditions(c) = {c.ac = 0}
  BY DEF Conditions
<1>2. (TRUE \in {c.ac = 0}) <=> c.ac = 0
  BY Zenon
<1>3. (TRUE \in Conditions(c)) <=> c.ac = 0
  BY <1>1, <1>2, Zenon
<1>4. Skips(c) <=> ~(TRUE \in Conditions(c))
  BY Zenon DEF Skips
<1> QED
  BY <1>3, <1>4, Zenon

\* SNA: a word other than zero is not the end.
LEMMA NonzeroStep ==
  ASSUME Here, Pdp8Step, cpu.pc = \o201, Cell(cpu.core, \o201) = \o7450
  PROVE  /\ Left(cpu', {}) /\ cpu'.pc = (IF cpu.ac # 0 THEN \o203 ELSE \o202)
         /\ cpu'.ac = cpu.ac /\ cpu'.out = {}
<1>1. /\ EOK(G) /\ IsCpu(G) /\ InPdp8Field(G, 0) /\ G.core = cpu.core /\ G.out = {}
      /\ G.ac = cpu.ac /\ G.flags = cpu.flags /\ G.pc = \o202 /\ G.ir = \o7450
  BY FetchedHere, NothingOut
<1>2. /\ Has(G.ir, \o400) /\ ~Has(G.ir, 1) /\ ~Has(G.ir, \o100) /\ Has(G.ir, \o40)
      /\ ~Has(G.ir, \o20) /\ Has(G.ir, \o10) /\ ~Has(G.ir, \o200) /\ ~Has(G.ir, \o4)
      /\ ~Has(G.ir, 2)
  BY <1>1 DEF Has
<1>3. Group2
  <2>1. G.ir \div \o1000 = 7 /\ G.ir \in Int
    BY <1>1
  <2> QED
    BY <1>2, <2>1, StepOfClass DEF Bit
<1>4. Skips(G) <=> cpu.ac # 0
  BY <1>1, <1>2, NonzeroSkips
<1> DEFINE d == G2Skip(G)
<1>5. d.ir = G.ir /\ d = IF cpu.ac # 0 THEN SetPc(G, \o203) ELSE G
  <2>1. G.pc + 1 = \o203
    BY <1>1
  <2>2. Pdp8IncPc(G) = SetPc(G, \o203)
    BY <2>1 DEF Pdp8IncPc
  <2> QED
    BY <1>1, <1>4, <2>2, PcFrame DEF G2Skip
<1> HIDE DEF d
<1>6. cpu' = d
  <2>1. G2Clear(d) = d /\ G2Switches(d) = d /\ G2Halt(d) = d
    BY <1>2, <1>5 DEF G2Clear, G2Switches, G2Halt, Micro
  <2> QED
    BY <1>3, <2>1 DEF Group2, d
<1>7. EOK(cpu')
  BY <1>3, OperateInstrOK, Steps8 DEF OperateInstr, Here
<1>8. CASE cpu.ac # 0
  <2>1. cpu' = SetPc(G, \o203) /\ \o203 % \o10000 = \o203
    BY <1>5, <1>6, <1>8
  <2> QED
    BY <1>1, <1>7, <1>8, <2>1, PcFrame, OutAlone DEF Left, InPdp8Field
<1>9. CASE ~(cpu.ac # 0)
  <2>1. cpu' = G
    BY <1>5, <1>6, <1>9
  <2> QED
    BY <1>1, <1>9, <2>1 DEF Left, InPdp8Field
<1> QED
  BY <1>8, <1>9

\* The words that print and that wait, as the teletype sees them.
LEMMA PrintCodes ==
  /\ Contains(\o6046, TPC) /\ ~Contains(\o6046, KSF) /\ ~Contains(\o6046, KRS)
  /\ ~Contains(\o6046, TSF)
  /\ Contains(\o6041, TSF) /\ ~Contains(\o6041, KSF) /\ ~Contains(\o6041, KRS)
  /\ ~Contains(\o6041, TPC)
<1>1. /\ Pow2(0) = 1 /\ Pow2(1) = 2 /\ Pow2(2) = 4 /\ Pow2(3) = 8 /\ Pow2(4) = 16 /\ Pow2(5) = 32
      /\ Pow2(6) = 64 /\ Pow2(7) = 128 /\ Pow2(8) = 256 /\ Pow2(9) = 512 /\ Pow2(10) = 1024
      /\ Pow2(11) = 2048
  BY DEF Pow2, Powers
<1>2. 0 .. 11 = {0, 1, 2, 3, 4, 5, 6, 7, 8, 9, 10, 11}
  OBVIOUS
<1>3. Bits(\o6046) = {1, 2, 5, 10, 11}
  BY <1>1, <1>2 DEF Bits, Has
<1>4. Bits(\o6041) = {0, 5, 10, 11}
  BY <1>1, <1>2 DEF Bits, Has
<1>5. Bits(TPC) = {2, 5, 10, 11} /\ Bits(TSF) = {0, 5, 10, 11}
  BY <1>1, <1>2 DEF Bits, Has, TPC, TSF
<1>6. Bits(KSF) = {0, 3, 4, 10, 11} /\ Bits(KRS) = {2, 3, 4, 10, 11}
  BY <1>1, <1>2 DEF Bits, Has, KSF, KRS
<1> QED
  BY <1>3, <1>4, <1>5, <1>6 DEF Contains

\* The word in PDP-8 mode that is none of the processor's own goes to the teletype.
LEMMA TeletypeStep ==
  ASSUME Here, Pdp8Step, cpu.pc < \o7777, NEW w \in {\o6046, \o6041},
         Cell(cpu.core, cpu.pc) = w
  PROVE  cpu' = Asr33Instr(G) /\ Left(cpu', {})
<1>1. /\ EOK(G) /\ IsCpu(G) /\ InPdp8Field(G, 0) /\ G.core = cpu.core
      /\ G.flags = cpu.flags /\ G.ir = w
  BY FetchedHere
<1>2. IOT8
  <2>1. G.ir \div \o1000 = 6 /\ G.ir \in Int
    BY <1>1
  <2> QED
    BY <2>1, StepOfClass
<1>3. G.ir \notin Pdp12Codes
  BY <1>1 DEF Pdp12Codes, IOB_ION, IOB_IOF, IOB_LINC, Unimplemented
<1>4. \E code \in Asr33Codes : HasInstr(G, code)
  BY <1>1, PrintCodes DEF Asr33Codes, HasInstr
<1>5. cpu' = Asr33Instr(G)
  BY <1>2, <1>3, <1>4 DEF IOT8, IobIo
<1>6. EOK(cpu')
  BY <1>1, <1>5, Asr33InstrOK DEF EOK, ModeNames
<1> QED
  BY <1>1, <1>5, <1>6, Asr33Frame DEF Left, InPdp8Field

\* What the teletype hands out.
LEMMA TeletypeOut ==
  ASSUME NEW c, IsCpu(c), c.out = {}
  PROVE  Asr33Instr(c).out = CharacterOut(c)
<1> DEFINE S == Registers \union {"core", "out"}
           d == [c EXCEPT !.pc = AfterSkips(c), !.ac = KeyRead(c), !.kf = KeyFlag(c), !.pf = PrinterFlag(c)]
<1>1. c = [f \in S |-> c[f]] /\ "out" \in S
  BY DEF IsCpu
<1>2. d = [f \in S |-> d[f]] /\ d.out = c.out
  BY <1>1
<1>3. Asr33Instr(c) = [d EXCEPT !.out = c.out \union CharacterOut(c)]
  BY DEF Asr33Instr
<1> HIDE DEF d
<1> QED
  BY <1>1, <1>2, <1>3

\* The seven bits printed are the same whether they are taken from the byte or from the word.
LEMMA SevenBits == ASSUME NEW n \in Int PROVE (n % \o400) % \o200 = n % \o200
OBVIOUS

\* TLS: the accumulator is printed.
LEMMA PrintStep ==
  ASSUME Here, Pdp8Step, cpu.pc = \o203, Cell(cpu.core, \o203) = \o6046
  PROVE  /\ Left(cpu', {}) /\ cpu'.pc = \o204 /\ cpu'.out = {<<"print", cpu.ac % \o200>>}
<1>1. /\ EOK(G) /\ IsCpu(G) /\ G.out = {} /\ G.ac = cpu.ac /\ G.pc = \o204 /\ G.ir = \o6046
  BY FetchedHere, NothingOut
<1>2. cpu' = Asr33Instr(G) /\ Left(cpu', {})
  BY TeletypeStep
<1>3. HasInstr(G, TPC) /\ ~HasInstr(G, KSF) /\ ~HasInstr(G, KRS) /\ ~HasInstr(G, TSF)
  BY <1>1, PrintCodes DEF HasInstr
<1>4. KeyRead(G) = G.ac /\ AfterSkips(G) = G.pc
  BY <1>3 DEF KeyRead, AfterSkips, SkipOnKey, SkipOnPrinter
<1>5. CharacterOut(G) = {<<"print", G.ac % \o200>>}
  <2>1. G.ac \in Int
    BY <1>1, Integral
  <2>2. (G.ac % \o400) % \o200 = G.ac % \o200
    BY <2>1, SevenBits
  <2> QED
    BY <1>3, <1>4, <2>2 DEF CharacterOut, Asr33Print
<1>6. cpu'.pc = G.pc
  BY <1>1, <1>2, <1>4, Asr33Frame
<1> QED
  BY <1>1, <1>2, <1>5, <1>6, TeletypeOut

\* TSF: perhaps the next word is skipped.
LEMMA WaitStep ==
  ASSUME Here, Pdp8Step, cpu.pc = \o204, Cell(cpu.core, \o204) = \o6041
  PROVE  Left(cpu', {}) /\ cpu'.pc \in {\o205, \o206} /\ cpu'.out = {}
<1>1. /\ EOK(G) /\ IsCpu(G) /\ G.out = {} /\ G.ac = cpu.ac /\ G.pc = \o205 /\ G.ir = \o6041
      /\ G.flags = cpu.flags
  BY FetchedHere, NothingOut
<1>2. cpu' = Asr33Instr(G) /\ Left(cpu', {})
  BY TeletypeStep
<1>3. ~HasInstr(G, TPC) /\ ~HasInstr(G, KSF)
  BY <1>1, PrintCodes DEF HasInstr
<1>4. NextPc(G) = \o206
  <2>1. "8MODE" \in G.flags
    BY <1>1 DEF EOK, OK
  <2>2. IncPc(G) = SetPc(G, G.pc + 1)
    BY <2>1 DEF IncPc, Pdp8IncPc
  <2>3. (G.pc + 1) % \o10000 = \o206
    BY <1>1
  <2> QED
    BY <1>1, <2>2, <2>3, PcFrame DEF NextPc
<1>5. AfterSkips(G) \in {\o205, \o206}
  BY <1>1, <1>3, <1>4 DEF AfterSkips, SkipOnKey
<1>6. CharacterOut(G) = {}
  BY <1>3 DEF CharacterOut
<1>7. cpu'.pc = AfterSkips(G)
  BY <1>1, <1>2, Asr33Frame
<1> QED
  BY <1>1, <1>2, <1>5, <1>6, <1>7, TeletypeOut

\* CLA: the accumulator is cleared.
LEMMA ClearAcStep ==
  ASSUME Here, Pdp8Step, cpu.pc = \o206, Cell(cpu.core, \o206) = \o7200
  PROVE  Left(cpu', {}) /\ cpu'.pc = \o207 /\ cpu'.ac = 0 /\ cpu'.out = {}
<1>1. /\ EOK(G) /\ IsCpu(G) /\ InPdp8Field(G, 0) /\ G.core = cpu.core /\ G.out = {}
      /\ G.flags = cpu.flags /\ G.pc = \o207 /\ G.ir = \o7200
  BY FetchedHere, NothingOut
<1>2. Has(\o7200, \o200) /\ ~Has(\o7200, \o100) /\ ~Has(\o7200, \o400)
  BY DEF Has
<1>3. ~Has(\o7200, \o40) /\ ~Has(\o7200, \o20) /\ ~Has(\o7200, 1)
  BY DEF Has
<1>4. ~Has(\o7200, \o10) /\ ~Has(\o7200, \o4)
  BY DEF Has
<1>5. Group1
  BY <1>1, <1>2, StepOfClass DEF Bit
<1> DEFINE d == SetAc(G, 0)
<1>6. /\ d.core = G.core /\ d.ac = 0 /\ d.pc = G.pc /\ d.flags = G.flags
      /\ d.ifr = G.ifr /\ d.dfr = G.dfr /\ d.ir = G.ir /\ d.out = G.out
  <2>1. 0 % \o10000 = 0
    OBVIOUS
  <2> QED
    BY <1>1, <2>1, AcFrame, SetAlone, OutAlone
<1>7. EOK(d)
  BY <1>1, Setters8
<1>8. G1Clear(G) = d
  BY <1>1, <1>2, <1>6 DEF G1Clear, Micro
<1> HIDE DEF d
<1>9. G1Rotate(G1Increment(G1Complement(d))) = d
  <2>1. d.ir = \o7200
    BY <1>1, <1>6
  <2> QED
    BY <1>3, <1>4, <2>1, NoG1
<1>10. cpu' = d
  BY <1>5, <1>8, <1>9 DEF Group1
<1> QED
  BY <1>1, <1>6, <1>7, <1>10 DEF Left, InPdp8Field

\* JMP to a word of this page.
LEMMA JumpZero ==
  ASSUME EOK(cpu), cpu.ifr \div 4 = 0, Pdp8Step,
         NEW p \in {\o205, \o207, \o303}, cpu.pc = p, NEW y \in {\o200, \o204, \o300},
         Cell(cpu.core, p) = \o5000 + y
  PROVE  /\ EOK(cpu') /\ cpu'.ifr = cpu.ifr /\ cpu'.dfr = cpu.dfr /\ cpu'.core = cpu.core
         /\ cpu'.flags = cpu.flags /\ cpu'.pc = y /\ cpu'.ac = cpu.ac /\ cpu'.out = {}
<1>1. /\ EOK(G) /\ IsCpu(G) /\ G.ifr = cpu.ifr /\ G.dfr = cpu.dfr /\ G.core = cpu.core /\ G.out = {}
      /\ G.ac = cpu.ac /\ G.flags = cpu.flags /\ G.pc = p + 1 /\ G.ir = \o5000 + y
  BY FetchedZero, FetchForgets
<1>2. JMP8
  <2>1. G.ir \div \o1000 = 5 /\ G.ir \in Int
    BY <1>1
  <2> QED
    BY <2>1, StepOfClass
<1>3. PageAddress(G) = y /\ ~Has(G.ir, \o400)
  <2>1. Has(G.ir, \o200) /\ G.ir % \o200 = y - \o200 /\ ~Has(G.ir, \o400)
    BY <1>1 DEF Has
  <2>2. G.pc \div \o200 = 1
    BY <1>1
  <2> QED
    BY <2>1, <2>2 DEF PageAddress
<1>4. E8 = y /\ N = G
  BY <1>3 DEF E8, N, EffectiveAddress, Addressed
<1>5. cpu' = SetPc(G, y) /\ y % \o10000 = y
  BY <1>2, <1>4 DEF JMP8
<1>6. EOK(cpu')
  BY <1>2, MemoryInstrOK, Steps8 DEF MemoryInstr
<1> QED
  BY <1>1, <1>5, <1>6, PcFrame, OutAlone

\* The same where the data is in field 0 too.
LEMMA JumpStep ==
  ASSUME Here, Pdp8Step, NEW p \in {\o205, \o207}, cpu.pc = p, NEW y \in {\o200, \o204},
         Cell(cpu.core, p) = \o5000 + y
  PROVE  Left(cpu', {}) /\ cpu'.pc = y /\ cpu'.ac = cpu.ac /\ cpu'.out = {}
BY JumpZero DEF Here, Left, InPdp8Field

(***************************************************************************)
(* Where the printing program can be, and what has just been printed.      *)
(***************************************************************************)
PrintLoaded(c) == \A k \in 1 .. 8 : Cell(c.core, \o177 + k) = PrintCode[k]
Printing(c) ==
  /\ "RUN" \in c.flags
  /\ \/ c.pc = \o200 /\ c.ac = 0
     \/ c.pc = \o201 /\ c.ac = TextWord(c)
     \/ c.pc = \o202 /\ TextWord(c) = 0
     \/ c.pc = \o203 /\ c.ac = TextWord(c)
     \/ c.pc \in {\o204, \o205, \o206}
     \/ c.pc = \o207 /\ c.ac = 0
PrintEnded(c) == "RUN" \notin c.flags /\ c.pc = PrintHalt /\ TextWord(c) = 0
OnPaper(c) == c.out \subseteq {<<"print", TextWord(c) % \o200>>}
AtPrinter == Here /\ PrintLoaded(cpu) /\ (Printing(cpu) \/ PrintEnded(cpu)) /\ OnPaper(cpu)

\* The text is not at the pointer, so it stays.
LEMMA PrintStays ==
  ASSUME Here, PrintLoaded(cpu), NEW d
  PROVE  /\ Left(d, {TextPointer}) => EOK(d) /\ InPdp8Field(d, 0) /\ PrintLoaded(d)
         /\ Left(d, {}) => Left(d, {TextPointer}) /\ TextWord(d) = TextWord(cpu)
<1>1. \A k \in 1 .. 8 : \o177 + k # TextPointer
  BY DEF TextPointer
<1>2. Left(d, {TextPointer}) => PrintLoaded(d)
  BY <1>1 DEF Left, PrintLoaded
<1>3. Left(d, {}) => TextWord(d) = TextWord(cpu)
  BY DEF Left, TextWord
<1> QED
  BY <1>2, <1>3 DEF Left

\* The first three words take the next word of the text, and stop at its end.
LEMMA TakingMoves ==
  ASSUME AtPrinter, Pdp8Step, "RUN" \in cpu.flags, cpu.pc \in {\o200, \o201, \o202}
  PROVE  AtPrinter' /\ (cpu'.out = {} \/ TextWord(cpu') = TextWord(cpu))
<1>1. Printing(cpu)
  BY DEF AtPrinter, PrintEnded
<1>2. /\ Cell(cpu.core, \o200) = \o1410 /\ Cell(cpu.core, \o201) = \o7450
      /\ Cell(cpu.core, \o202) = \o7402
  BY PrintWords DEF AtPrinter, PrintLoaded
<1>3. CASE cpu.pc = \o200
  <2>1. cpu.ac = 0
    BY <1>1, <1>3 DEF Printing
  <2>2. /\ Left(cpu', {TextPointer}) /\ cpu'.pc = \o201 /\ cpu'.ac = TextWord(cpu')
        /\ cpu'.out = {}
    BY <1>2, <1>3, <2>1, NextWordStep DEF AtPrinter
  <2>3. Here' /\ PrintLoaded(cpu')
    BY <2>2, PrintStays DEF AtPrinter, Here
  <2>4. Printing(cpu') /\ OnPaper(cpu')
    BY <2>2 DEF Printing, OnPaper, Left
  <2> QED
    BY <2>2, <2>3, <2>4 DEF AtPrinter
<1>4. CASE cpu.pc = \o201
  <2>1. cpu.ac = TextWord(cpu)
    BY <1>1, <1>4 DEF Printing
  <2>2. /\ Left(cpu', {}) /\ cpu'.pc = (IF cpu.ac # 0 THEN \o203 ELSE \o202)
        /\ cpu'.ac = cpu.ac /\ cpu'.out = {}
    BY <1>2, <1>4, NonzeroStep DEF AtPrinter
  <2>3. Here' /\ PrintLoaded(cpu') /\ TextWord(cpu') = TextWord(cpu)
    BY <2>2, PrintStays DEF AtPrinter, Here
  <2>4. Printing(cpu') /\ OnPaper(cpu')
    BY <2>1, <2>2, <2>3 DEF Printing, OnPaper, Left
  <2> QED
    BY <2>2, <2>3, <2>4 DEF AtPrinter
<1>5. CASE cpu.pc = \o202
  <2>1. TextWord(cpu) = 0
    BY <1>1, <1>5 DEF Printing
  <2>2. /\ EOK(cpu') /\ InPdp8Field(cpu', 0) /\ cpu'.core = cpu.core
        /\ cpu'.pc = \o203 /\ "RUN" \notin cpu'.flags /\ cpu'.out = {}
    BY <1>2, <1>5, StopStep DEF AtPrinter
  <2>3. Here' /\ PrintLoaded(cpu') /\ TextWord(cpu') = TextWord(cpu)
    BY <2>2 DEF Here, AtPrinter, PrintLoaded, TextWord
  <2>4. PrintEnded(cpu') /\ OnPaper(cpu')
    BY <2>1, <2>2, <2>3 DEF PrintEnded, OnPaper, PrintHalt
  <2> QED
    BY <2>2, <2>3, <2>4 DEF AtPrinter
<1> QED
  BY <1>3, <1>4, <1>5

\* The others print it, wait, and go back with a clear accumulator.
LEMMA PrintingMoves ==
  ASSUME AtPrinter, Pdp8Step, "RUN" \in cpu.flags, cpu.pc \notin {\o200, \o201, \o202}
  PROVE  AtPrinter' /\ TextWord(cpu') = TextWord(cpu)
<1>1. Printing(cpu)
  BY DEF AtPrinter, PrintEnded
<1>2. /\ Cell(cpu.core, \o203) = \o6046 /\ Cell(cpu.core, \o204) = \o6041
      /\ Cell(cpu.core, \o205) = \o5204 /\ Cell(cpu.core, \o206) = \o7200
      /\ Cell(cpu.core, \o207) = \o5200
  BY PrintWords DEF AtPrinter, PrintLoaded
<1>3. ASSUME Left(cpu', {}) PROVE Here' /\ PrintLoaded(cpu') /\ TextWord(cpu') = TextWord(cpu)
  BY <1>3, PrintStays DEF AtPrinter, Here
<1>4. CASE cpu.pc = \o203
  <2>1. cpu.ac = TextWord(cpu)
    BY <1>1, <1>4 DEF Printing
  <2>2. Left(cpu', {}) /\ cpu'.pc = \o204 /\ cpu'.out = {<<"print", cpu.ac % \o200>>}
    BY <1>2, <1>4, PrintStep DEF AtPrinter
  <2>3. Printing(cpu') /\ OnPaper(cpu')
    BY <1>1, <1>3, <2>1, <2>2 DEF Printing, OnPaper, Left
  <2> QED
    BY <1>3, <2>2, <2>3 DEF AtPrinter
<1>5. CASE cpu.pc = \o204
  <2>1. Left(cpu', {}) /\ cpu'.pc \in {\o205, \o206} /\ cpu'.out = {}
    BY <1>2, <1>5, WaitStep DEF AtPrinter
  <2>2. Printing(cpu') /\ OnPaper(cpu')
    BY <1>1, <2>1 DEF Printing, OnPaper, Left
  <2> QED
    BY <1>3, <2>1, <2>2 DEF AtPrinter
<1>6. CASE cpu.pc = \o205
  <2>1. \o5204 = \o5000 + \o204
    OBVIOUS
  <2>2. Left(cpu', {}) /\ cpu'.pc = \o204 /\ cpu'.out = {}
    BY <1>2, <1>6, <2>1, JumpStep DEF AtPrinter
  <2>3. Printing(cpu') /\ OnPaper(cpu')
    BY <1>1, <2>2 DEF Printing, OnPaper, Left
  <2> QED
    BY <1>3, <2>2, <2>3 DEF AtPrinter
<1>7. CASE cpu.pc = \o206
  <2>1. Left(cpu', {}) /\ cpu'.pc = \o207 /\ cpu'.ac = 0 /\ cpu'.out = {}
    BY <1>2, <1>7, ClearAcStep DEF AtPrinter
  <2>2. Printing(cpu') /\ OnPaper(cpu')
    BY <1>1, <2>1 DEF Printing, OnPaper, Left
  <2> QED
    BY <1>3, <2>1, <2>2 DEF AtPrinter
<1>8. CASE cpu.pc = \o207
  <2>1. \o5200 = \o5000 + \o200 /\ cpu.ac = 0
    BY <1>1, <1>8 DEF Printing
  <2>2. Left(cpu', {}) /\ cpu'.pc = \o200 /\ cpu'.ac = 0 /\ cpu'.out = {}
    BY <1>2, <1>8, <2>1, JumpStep DEF AtPrinter
  <2>3. Printing(cpu') /\ OnPaper(cpu')
    BY <1>1, <2>2 DEF Printing, OnPaper, Left
  <2> QED
    BY <1>3, <2>2, <2>3 DEF AtPrinter
<1> QED
  BY <1>1, <1>4, <1>5, <1>6, <1>7, <1>8 DEF Printing

\* A key struck does not disturb the paper.
LEMMA KeyUnnoticedByPrinter ==
  ASSUME AtPrinter, KeyStruck
  PROVE  AtPrinter'
<1>1. StartOK(cpu)
  BY StartIsOK DEF AtPrinter, Here, EOK
<1>2. EOK(cpu')
  BY KeyStruckOK DEF AtPrinter, Here, EOK, ModeNames
<1>3. /\ cpu'.core = cpu.core /\ cpu'.ifr = cpu.ifr /\ cpu'.dfr = cpu.dfr
      /\ cpu'.flags = cpu.flags /\ cpu'.pc = cpu.pc /\ cpu'.ac = cpu.ac
  BY <1>1, KeyStruckFrame
<1>4. cpu'.out = cpu.out
  BY DEF KeyStruck
<1> QED
  BY <1>2, <1>3, <1>4 DEF AtPrinter, Here, InPdp8Field, PrintLoaded, Printing, PrintEnded, OnPaper,
                         TextWord

\* The print loop works on any machine and for any text, of any length and also where it
\* runs past the end of the field, whichever keys are struck while it waits: each
\* character printed is the seven low bits of the word the pointer has reached, and the
\* machine halts nowhere but at the HLT behind the test, at a word of zero.
THEOREM AnyTextIsPrinted ==
  ASSUME \A c \in Starts : PrintStart(c)
  PROVE  Spec => TextIsPrinted /\ [](~Running => Pdp8Done(PrintHalt) /\ TextWord(cpu) = 0)
<1>1. Init => AtPrinter
  <2> SUFFICES ASSUME Init PROVE AtPrinter
    OBVIOUS
  <2>1. StartOK(cpu) /\ PrintStart(cpu)
    BY StartsAssumption DEF Init
  <2>2. Here
    BY <2>1 DEF PrintStart, StartOK, Here, EOK, OK
  <2> QED
    BY <2>1, <2>2 DEF PrintStart, AtPrinter, PrintLoaded, Printing, OnPaper
<1>2. AtPrinter /\ [Next]_cpu => AtPrinter'
  <2> SUFFICES ASSUME AtPrinter, [Next]_cpu PROVE AtPrinter'
    OBVIOUS
  <2>1. CASE Step
    <3>1. ~LincMode /\ Running
      BY <2>1, StepModes DEF AtPrinter, Here, EOK, OK, LincMode
    <3>2. Pdp8Step
      BY <2>1, <3>1, StepModes DEF Step
    <3> QED
      BY <3>1, <3>2, TakingMoves, PrintingMoves DEF Running
  <2>2. CASE KeyStruck
    BY <2>2, KeyUnnoticedByPrinter
  <2>3. CASE Halted \/ UNCHANGED cpu
    BY <2>3 DEF Halted, AtPrinter, Here, PrintLoaded, Printing, PrintEnded, OnPaper, TextWord
  <2> QED
    BY <2>1, <2>2, <2>3 DEF Next
<1>3. AtPrinter => (~Running => Pdp8Done(PrintHalt) /\ TextWord(cpu) = 0)
  BY DEF AtPrinter, Printing, PrintEnded, Running, Pdp8Done, Here, EOK, OK
<1>4. AtPrinter /\ AtPrinter' /\ [Next]_cpu
        => [\A ch \in Printed(cpu') :
              Cell(cpu.core, TextPointer) # 0 => ch = TextWord(cpu) % \o200]_cpu
  <2> SUFFICES ASSUME AtPrinter, AtPrinter', [Next]_cpu, NEW ch \in Printed(cpu')
               PROVE  ch = TextWord(cpu) % \o200
    OBVIOUS
  <2>1. ch = TextWord(cpu') % \o200 /\ cpu'.out # {}
    BY DEF AtPrinter, OnPaper, Printed
  <2>2. CASE Step
    <3>1. ~LincMode /\ Running
      BY <2>2, StepModes DEF AtPrinter, Here, EOK, OK, LincMode
    <3>2. Pdp8Step
      BY <2>2, <3>1, StepModes DEF Step
    <3> QED
      BY <2>1, <3>1, <3>2, TakingMoves, PrintingMoves DEF Running
  <2>3. CASE KeyStruck
    <3>1. cpu'.core = cpu.core
      BY <2>3, KeyStruckFrame, StartIsOK DEF AtPrinter, Here, EOK
    <3> QED
      BY <2>1, <3>1 DEF TextWord
  <2>4. CASE Halted \/ UNCHANGED cpu
    BY <2>1, <2>4 DEF Halted, TextWord
  <2> QED
    BY <2>2, <2>3, <2>4 DEF Next
<1> QED
  BY <1>1, <1>2, <1>3, <1>4, PTL DEF Spec, TextIsPrinted

(***************************************************************************)
(* LINC calls.  A jump leaves its return in word 0 of the field, and a     *)
(* jump to word 0 goes where that word says.                               *)
(***************************************************************************)
\* No pending field and no suppressed return; ADD may change the overflow flag.
Plain(c) == c.flags \intersect {"LIF", "DJR"} = {}
LincKept(d, S) ==
  /\ InLincField(d) /\ d.flags \ {"FLO"} = cpu.flags \ {"FLO"}
  /\ \A a \in Offset \ S : Cell(d.core, L(a)) = Cell(cpu.core, L(a))

LEMMA LeftIsKept ==
  ASSUME NEW d, NEW S, LincLeft(d, S)
  PROVE  LincKept(d, S)
BY DEF LincLeft, LincKept

\* The direct words.
LEMMA StepOfDirect ==
  ASSUME LincStep, NEW y \in Offset, NEW op \in {1, 2, 3}, F.ir = op * \o2000 + y
  PROVE  /\ D = y
         /\ op = 1 => ADD
         /\ op = 2 => STC
         /\ op = 3 => JMP
<1> DEFINE w == F.ir
<1>1. y \in Int /\ 0 <= y /\ y < \o2000
  BY Offsets
<1>2. w \div \o2000 = op /\ w % \o2000 = y /\ w \div \o1000 \notin {0, 1}
  <2>1. op \in Int /\ 1 <= op /\ w = op * \o2000 + y
    OBVIOUS
  <2> HIDE DEF w
  <2> QED
    BY <1>1, <2>1
<1>3. DirectInstr
  BY <1>2, SizeOfWord
<1>4. D = y
  BY <1>2 DEF D
<1> QED
  BY <1>2, <1>3, <1>4 DEF DirectInstr, ADD, STC, JMP, Direct

\* A write into the field, of a word.
LEMMA LincStored ==
  ASSUME NEW c, InLincField(c), NEW y \in Offset, NEW n \in Word
  PROVE  LET d == LincWrite(c, y, n)
         IN /\ InLincField(d) /\ IsCpu(d) /\ d.pc = c.pc /\ d.ac = c.ac /\ d.flags = c.flags
            /\ Cell(d.core, L(y)) = n
            /\ \A a \in Offset \ {y} : Cell(d.core, L(a)) = Cell(c.core, L(a))
<1> DEFINE d == LincWrite(c, y, n)
<1>1. IsCpu(c) /\ LOK(c)
  BY Setters DEF InLincField
<1>2. PICK k \in Address : k = L(y)
  BY LincCells
<1>3. d = CpuWrite(c, k, n)
  BY <1>2, LincCells
<1>4. n \in Int /\ n % \o10000 = n
  BY WordBounds
<1> HIDE DEF d
<1>5. LOK(d)
  BY <1>1, <1>3, <1>4, CpuWriteOK DEF LOK, ModeNames
<1>6. /\ d.pc = c.pc /\ d.ac = c.ac /\ d.flags = c.flags /\ d.ifr = c.ifr
      /\ Cell(d.core, k) = n /\ \A a : a # k => Cell(d.core, a) = Cell(c.core, a)
  BY <1>1, <1>3, <1>4, WriteFrame, RegisterNames
<1>7. ASSUME NEW a \in Offset \ {y} PROVE Cell(d.core, L(a)) = Cell(c.core, L(a))
  <2>1. L(a) # k
    BY <1>2, Offsets, LincPlaces
  <2> QED
    BY <1>6, <2>1
<1>8. InLincField(d) /\ IsCpu(d)
  BY <1>5, <1>6, Setters DEF InLincField
<1> QED
  BY <1>2, <1>6, <1>7, <1>8 DEF d

\* The test of JMP on LINC_II clears the flag only when it is clear.
LEMMA IdleClear ==
  ASSUME NEW c, InLincField(c)
  PROVE  LET d == IF "LINC_II" \notin c.flags THEN ClearFlag(c, "LINC_II") ELSE c
         IN /\ InLincField(d) /\ IsCpu(d) /\ d.core = c.core /\ d.ac = c.ac
            /\ d.flags = c.flags /\ d.pc = c.pc
<1> DEFINE e == ClearFlag(c, "LINC_II")
<1>1. LOK(c) /\ IsCpu(c)
  BY Setters DEF InLincField
<1>2. ASSUME "LINC_II" \notin c.flags
      PROVE  /\ InLincField(e) /\ IsCpu(e) /\ e.core = c.core /\ e.ac = c.ac
             /\ e.flags = c.flags /\ e.pc = c.pc
  <2>1. LOK(e)
    BY <1>1, Setters DEF FlagNames
  <2>2. e = [c EXCEPT !.flags = c.flags \ {"LINC_II"}] /\ c.flags \ {"LINC_II"} = c.flags
    BY <1>2 DEF ClearFlag
  <2> HIDE DEF e
  <2>3. e.core = c.core /\ e.ac = c.ac /\ e.flags = c.flags /\ e.pc = c.pc /\ e.ifr = c.ifr
    BY <1>1, <2>2, FlagsFrame
  <2> QED
    BY <2>1, <2>3, Setters DEF InLincField
<1> QED
  BY <1>1, <1>2

\* The counter set to a place in the field, and what comes after every jump.
LEMMA LincJumped ==
  ASSUME NEW c, InLincField(c), Plain(c), NEW p \in Offset
  PROVE  LET d == ClearFlag(SetPc(c, p), "DJR")
         IN /\ InLincField(d) /\ d.pc = p /\ d.ac = c.ac /\ d.flags = c.flags /\ d.core = c.core
<1> DEFINE e == SetPc(c, p)
           d == ClearFlag(e, "DJR")
<1>1. p \in Int /\ 0 <= p /\ p < \o2000 /\ p % \o10000 = p
  BY Offsets
<1>2. LOK(e) /\ LOK(c) /\ IsCpu(c)
  BY <1>1, JumpTo, Setters DEF InLincField
<1>3. e.core = c.core /\ e.pc = p /\ e.ac = c.ac /\ e.flags = c.flags /\ e.ifr = c.ifr
  BY <1>1, <1>2, PcFrame
<1> HIDE DEF e
<1>4. LOK(d)
  BY <1>2, Setters DEF FlagNames
<1>5. d = [e EXCEPT !.flags = e.flags \ {"DJR"}] /\ e.flags \ {"DJR"} = e.flags
  BY <1>3 DEF ClearFlag, Plain
<1>6. IsCpu(e)
  BY <1>2, Setters
<1> HIDE DEF d
<1>7. d.core = e.core /\ d.pc = e.pc /\ d.ac = e.ac /\ d.flags = e.flags /\ d.ifr = e.ifr
  BY <1>5, <1>6, FlagsFrame
<1> QED
  BY <1>3, <1>4, <1>7 DEF InLincField, d, e

\* JMP Y: the place behind the word is left in word 0.
LEMMA LincCallStep ==
  ASSUME LincHere, Plain(cpu), LincStep, cpu.pc < \o1777, NEW y \in Offset \ {0},
         Cell(cpu.core, L(cpu.pc)) = \o6000 + y
  PROVE  /\ LincKept(cpu', {0}) /\ cpu'.pc = y /\ cpu'.ac = cpu.ac
         /\ Cell(cpu'.core, L(0)) = cpu.pc + 1
<1>1. /\ InLincField(F) /\ IsCpu(F) /\ F.core = cpu.core /\ F.ac = cpu.ac
      /\ F.flags = cpu.flags /\ F.ir = \o6000 + y /\ F.pc = cpu.pc + 1
  BY LincFetchedHere
<1>2. D = y /\ JMP
  <2>1. F.ir = 3 * \o2000 + y
    BY <1>1, Offsets
  <2> QED
    BY <2>1, StepOfDirect
<1>3. Plain(F)
  BY <1>1 DEF Plain
<1> DEFINE c0 == IF "LINC_II" \notin F.flags THEN ClearFlag(F, "LINC_II") ELSE F
           w == LincWrite(c0, 0, c0.pc)
<1>4. /\ InLincField(c0) /\ IsCpu(c0) /\ c0.core = F.core /\ c0.ac = F.ac /\ c0.flags = F.flags
      /\ c0.pc = F.pc
  BY <1>1, IdleClear
<1>5. cpu' = ClearFlag(SetPc(SaveReturn(EnterField(c0)), y), "DJR")
  BY <1>2 DEF JMP, Jump
<1> HIDE DEF c0
<1>6. SaveReturn(EnterField(c0)) = w
  BY <1>3, <1>4 DEF SaveReturn, EnterField, Plain
<1>7. 0 \in Offset /\ c0.pc \in Word
  BY <1>4, Types DEF Offset
<1>8. /\ InLincField(w) /\ IsCpu(w) /\ w.ac = c0.ac /\ w.flags = c0.flags
      /\ Cell(w.core, L(0)) = c0.pc
      /\ \A a \in Offset \ {0} : Cell(w.core, L(a)) = Cell(c0.core, L(a))
  BY <1>4, <1>7, LincStored
<1> HIDE DEF w
<1>9. Plain(w)
  BY <1>3, <1>4, <1>8 DEF Plain
<1>10. /\ InLincField(cpu') /\ cpu'.pc = y /\ cpu'.ac = w.ac /\ cpu'.flags = w.flags
       /\ cpu'.core = w.core
  BY <1>5, <1>6, <1>8, <1>9, LincJumped
<1> QED
  BY <1>1, <1>4, <1>8, <1>10 DEF LincKept

\* JMP 0: back to where word 0 says.
LEMMA LincBackStep ==
  ASSUME LincHere, Plain(cpu), LincStep, cpu.pc < \o1777, Cell(cpu.core, L(cpu.pc)) = \o6000,
         NEW p \in Offset, Cell(cpu.core, L(0)) = p
  PROVE  LincKept(cpu', {}) /\ cpu'.pc = p /\ cpu'.ac = cpu.ac
<1>1. /\ InLincField(F) /\ IsCpu(F) /\ F.core = cpu.core /\ F.ac = cpu.ac
      /\ F.flags = cpu.flags /\ F.ir = \o6000
  BY LincFetchedHere
<1>2. D = 0 /\ JMP
  <2>1. F.ir = 3 * \o2000 + 0 /\ 0 \in Offset
    BY <1>1 DEF Offset
  <2> QED
    BY <2>1, StepOfDirect
<1>3. Plain(F)
  BY <1>1 DEF Plain
<1> DEFINE c0 == IF "LINC_II" \notin F.flags THEN ClearFlag(F, "LINC_II") ELSE F
<1>4. /\ InLincField(c0) /\ IsCpu(c0) /\ c0.core = F.core /\ c0.ac = F.ac /\ c0.flags = F.flags
  BY <1>1, IdleClear
<1>5. cpu' = ClearFlag(SetPc(c0, LincRead(c0, 0) % \o2000), "DJR")
  BY <1>2 DEF JMP, Jump
<1> HIDE DEF c0
<1>6. LincRead(c0, 0) = p
  <2>1. 0 \in Offset
    BY DEF Offset
  <2> QED
    BY <1>1, <1>4, <2>1, LincCells
<1>7. p % \o2000 = p
  BY Offsets
<1>8. Plain(c0)
  BY <1>3, <1>4 DEF Plain
<1>9. /\ InLincField(cpu') /\ cpu'.pc = p /\ cpu'.ac = c0.ac /\ cpu'.flags = c0.flags
      /\ cpu'.core = c0.core
  BY <1>4, <1>5, <1>6, <1>7, <1>8, LincJumped
<1> QED
  BY <1>1, <1>4, <1>9 DEF LincKept

\* A word added to the accumulator.
LEMMA LincAdded ==
  ASSUME NEW c, InLincField(c), NEW m, NEW n \in Word, OnesSum(c.ac, m) = n
  PROVE  LET d == Added(c, m)
         IN /\ InLincField(d) /\ d.core = c.core /\ d.ac = n /\ d.pc = c.pc
            /\ d.flags \ {"FLO"} = c.flags \ {"FLO"}
<1> DEFINE fs == IF Overflows(c.ac, m, n) THEN c.flags \union {"FLO"} ELSE c.flags \ {"FLO"}
           e == [c EXCEPT !.flags = fs]
           d == Added(c, m)
<1>1. d = SetAc(e, n)
  <2>1. SetOverflow(c, c.ac, m, n) = e
    BY DEF SetOverflow, SetFlag, ClearFlag
  <2> HIDE DEF e
  <2> QED
    BY <2>1 DEF Added
<1> HIDE DEF d
<1>2. LOK(e) /\ IsCpu(c)
  <2>1. LOK(SetFlag(c, "FLO")) /\ LOK(ClearFlag(c, "FLO"))
    BY Setters DEF InLincField, FlagNames
  <2> QED
    BY <2>1, Setters DEF SetFlag, ClearFlag, InLincField
<1>3. fs \ {"FLO"} = c.flags \ {"FLO"}
  OBVIOUS
<1> HIDE DEF fs
<1>4. e.core = c.core /\ e.pc = c.pc /\ e.flags = fs /\ e.ifr = c.ifr /\ IsCpu(e)
  BY <1>2, FlagsFrame, Setters
<1> HIDE DEF e
<1>5. n \in Int /\ n % \o10000 = n
  BY WordBounds
<1>6. LOK(d)
  BY <1>1, <1>2, <1>5, Setters
<1>7. d.core = e.core /\ d.ac = n /\ d.pc = e.pc /\ d.flags = e.flags /\ d.ifr = e.ifr
  BY <1>1, <1>4, <1>5, AcFrame
<1> QED
  BY <1>3, <1>4, <1>6, <1>7 DEF InLincField, d

\* ADD Y, with its end-around carry.
LEMMA LincAddStep ==
  ASSUME LincHere, LincStep, cpu.pc < \o1777, NEW y \in Offset,
         Cell(cpu.core, L(cpu.pc)) = \o2000 + y, NEW n \in Word,
         OnesSum(cpu.ac, Cell(cpu.core, L(y))) = n
  PROVE  LincKept(cpu', {}) /\ cpu'.pc = cpu.pc + 1 /\ cpu'.ac = n
<1>1. /\ InLincField(F) /\ IsCpu(F) /\ F.core = cpu.core /\ F.ac = cpu.ac
      /\ F.flags = cpu.flags /\ F.ir = \o2000 + y /\ F.pc = cpu.pc + 1
  BY LincFetchedHere
<1>2. D = y /\ ADD
  <2>1. F.ir = 1 * \o2000 + y
    BY <1>1, Offsets
  <2> QED
    BY <2>1, StepOfDirect
<1>3. PICK m : m = LincRead(F, y) /\ m = Cell(cpu.core, L(y))
  BY <1>1, LincCells
<1>4. cpu' = Added(F, m)
  BY <1>2, <1>3 DEF ADD
<1>5. /\ InLincField(cpu') /\ cpu'.core = F.core /\ cpu'.ac = n /\ cpu'.pc = F.pc
      /\ cpu'.flags \ {"FLO"} = F.flags \ {"FLO"}
  BY <1>1, <1>3, <1>4, LincAdded
<1> QED
  BY <1>1, <1>5 DEF LincKept

\* STC Y stores the accumulator and clears it.
LEMMA LincStcStep ==
  ASSUME LincHere, LincStep, cpu.pc < \o1777, NEW y \in Offset,
         Cell(cpu.core, L(cpu.pc)) = \o4000 + y, cpu.ac \in Word
  PROVE  /\ LincKept(cpu', {y}) /\ cpu'.pc = cpu.pc + 1 /\ cpu'.ac = 0
         /\ Cell(cpu'.core, L(y)) = cpu.ac
<1>1. /\ InLincField(F) /\ IsCpu(F) /\ F.core = cpu.core /\ F.ac = cpu.ac
      /\ F.flags = cpu.flags /\ F.ir = \o4000 + y /\ F.pc = cpu.pc + 1
  BY LincFetchedHere
<1>2. D = y /\ STC
  <2>1. F.ir = 2 * \o2000 + y
    BY <1>1, Offsets
  <2> QED
    BY <2>1, StepOfDirect
<1> DEFINE w == LincWrite(F, y, F.ac)
<1>3. cpu' = SetAc(w, 0)
  BY <1>2 DEF STC
<1>4. /\ InLincField(w) /\ IsCpu(w) /\ w.pc = F.pc /\ w.flags = F.flags
      /\ Cell(w.core, L(y)) = F.ac
      /\ \A a \in Offset \ {y} : Cell(w.core, L(a)) = Cell(F.core, L(a))
  BY <1>1, LincStored
<1> HIDE DEF w
<1>5. 0 % \o10000 = 0
  OBVIOUS
<1>6. LOK(cpu')
  BY <1>3, <1>4, Setters DEF InLincField
<1>7. /\ cpu'.core = w.core /\ cpu'.ac = 0 /\ cpu'.pc = w.pc /\ cpu'.flags = w.flags
      /\ cpu'.ifr = w.ifr
  BY <1>3, <1>4, <1>5, AcFrame
<1> QED
  BY <1>1, <1>4, <1>6, <1>7 DEF LincKept, InLincField

\* LDA i: the word behind is loaded.
LEMMA LdaImmediateStep ==
  ASSUME LincHere, LincStep, cpu.pc < \o1776, Cell(cpu.core, L(cpu.pc)) = \o1020
  PROVE  /\ LincKept(cpu', {}) /\ cpu'.pc = cpu.pc + 2
         /\ cpu'.ac = Cell(cpu.core, L(cpu.pc + 1))
<1> DEFINE p == cpu.pc
<1>1. p \in Int /\ 0 <= p /\ p < \o1776
  BY Setters, Types, WordBounds DEF LincHere, InLincField
<1>2. /\ InLincField(F) /\ IsCpu(F) /\ F.core = cpu.core
      /\ F.flags = cpu.flags /\ F.ir = \o1020 /\ F.pc = p + 1
  BY <1>1, LincFetchedHere
<1>3. LDA
  BY <1>2, StepOfWord
<1>4. A = 0 /\ I
  BY <1>2 DEF A, I, Has
<1>5. B = LincIncPc(F) /\ Y = F.pc
  BY <1>4 DEF B, Y, BetaState, BetaAddr
<1>6. /\ B.core = F.core /\ B.flags = F.flags /\ B.ifr = F.ifr /\ B.pc = p + 2
  <2>1. F.pc < \o1777 /\ F.pc + 1 = p + 2 /\ LOK(F)
    BY <1>1, <1>2 DEF InLincField
  <2> QED
    BY <1>5, <2>1, LincStepped
<1>7. InLincField(B) /\ IsCpu(B)
  BY <1>2, <1>6, OperandFetched DEF InLincField, LincHere
<1>8. Operand = Cell(cpu.core, L(p + 1))
  <2>1. PICK q \in Offset : q = p + 1
    <3>1. p + 1 \in Offset
      <4> HIDE DEF p
      <4> QED
        BY <1>1, Offsets
    <3> QED
      BY <3>1
  <2>2. LincRead(B, q) = Cell(B.core, L(q))
    BY <1>7, LincCells
  <2> QED
    BY <1>2, <1>5, <1>6, <2>1, <2>2 DEF Operand
<1>9. Operand \in Int /\ Operand % \o10000 = Operand
  <2>1. PICK w \in Int : w = Operand /\ 0 <= w /\ w <= \o7777
    BY OperandFetched, WordBounds DEF LincHere, InLincField
  <2>2. w % \o10000 = w
    BY <2>1
  <2> QED
    BY <2>1, <2>2
<1>10. cpu' = SetAc(B, Operand)
  BY <1>3 DEF LDA
<1>11. LOK(cpu')
  BY <1>7, <1>9, <1>10, Setters DEF InLincField
<1>12. /\ cpu'.core = B.core /\ cpu'.ac = Operand /\ cpu'.pc = B.pc /\ cpu'.flags = B.flags
       /\ cpu'.ifr = B.ifr
  BY <1>7, <1>9, <1>10, AcFrame
<1> QED
  BY <1>2, <1>6, <1>7, <1>8, <1>11, <1>12 DEF LincKept, InLincField

(***************************************************************************)
(* Where the calls can be.  "back" is where the subroutine was called      *)
(* from, "n" the count before the leaf runs.  Its own return is kept in    *)
(* word 0501 while it calls the leaf, which returns to 0304.               *)
(***************************************************************************)
CallPlaces == {0, \o500, \o501}
CallsLoaded(c) == \A t \in CallText : Cell(c.core, L(t[1])) = t[2]
ReturnIs(c, p) == Cell(c.core, L(0)) = p
CountIs(c, n) == Cell(c.core, L(\o500)) = n
KeptIs(c, p) == Cell(c.core, L(\o501)) = p

CallEntered(c, back, n) ==
  /\ CountIs(c, n)
  /\ \/ c.pc = \o300 /\ ReturnIs(c, back)
     \/ c.pc = \o301 /\ ReturnIs(c, back) /\ c.ac = 0
     \/ c.pc = \o302 /\ c.ac = back
     \/ c.pc = \o303 /\ KeptIs(c, back)
CallInLeaf(c, back, n) ==
  /\ KeptIs(c, back) /\ ReturnIs(c, \o304)
  /\ \/ c.pc = \o400 /\ CountIs(c, n)
     \/ c.pc = \o402 /\ CountIs(c, n) /\ c.ac = 1
     \/ c.pc = \o403 /\ c.ac = LeafRan(n)
     \/ c.pc = \o404 /\ CountIs(c, LeafRan(n)) /\ c.ac = 0
CallLeaving(c, back, n) ==
  /\ CountIs(c, LeafRan(n))
  /\ \/ c.pc = \o304 /\ KeptIs(c, back) /\ c.ac = 0
     \/ c.pc = \o305 /\ c.ac = back
     \/ c.pc = \o306 /\ ReturnIs(c, back)
CallDone(c, back, n) == c.pc = back /\ ReturnIs(c, back) /\ CountIs(c, LeafRan(n))
CallGoesOn(c, back, n) ==
  CallEntered(c, back, n) \/ CallInLeaf(c, back, n) \/ CallLeaving(c, back, n)

CallsOver(c, n) ==
  /\ ReturnIs(c, \o202) /\ CountIs(c, LeafRan(LeafRan(n)))
  /\ c.pc = IF "RUN" \in c.flags THEN \o202 ELSE \o203
CallsBegin(c, n) == c.pc = \o200 /\ CountIs(c, n)
CallsGoOn(c, n) ==
  \/ CallsBegin(c, n) \/ CallGoesOn(c, \o201, n)
  \/ CallDone(c, \o201, n) \/ CallGoesOn(c, \o202, LeafRan(n))

\* The text, word by word.
LEMMA CallWords ==
  ASSUME NEW c, CallsLoaded(c)
  PROVE  /\ Cell(c.core, L(\o200)) = \o6300 /\ Cell(c.core, L(\o201)) = \o6300
         /\ Cell(c.core, L(\o202)) = 0
         /\ Cell(c.core, L(\o300)) = \o11 /\ Cell(c.core, L(\o301)) = \o2000
         /\ Cell(c.core, L(\o302)) = \o4501 /\ Cell(c.core, L(\o303)) = \o6400
         /\ Cell(c.core, L(\o304)) = \o2501 /\ Cell(c.core, L(\o305)) = \o4000
         /\ Cell(c.core, L(\o306)) = \o6000
         /\ Cell(c.core, L(\o400)) = \o1020 /\ Cell(c.core, L(\o401)) = 1
         /\ Cell(c.core, L(\o402)) = \o2500 /\ Cell(c.core, L(\o403)) = \o4500
         /\ Cell(c.core, L(\o404)) = \o6000
BY DEF CallsLoaded, CallText

\* No store of the program changes its text, its mode of calling or the machine's state.
LEMMA CallsStay ==
  ASSUME LincHere, Plain(cpu), CallsLoaded(cpu), NEW d, NEW S \in SUBSET CallPlaces, LincKept(d, S)
  PROVE  /\ InLincField(d) /\ Plain(d) /\ CallsLoaded(d)
         /\ "RUN" \in cpu.flags => "RUN" \in d.flags
         /\ 0 \notin S => \A p : ReturnIs(cpu, p) => ReturnIs(d, p)
         /\ \o500 \notin S => \A n : CountIs(cpu, n) => CountIs(d, n)
         /\ \o501 \notin S => \A p : KeptIs(cpu, p) => KeptIs(d, p)
<1>1. \A t \in CallText : t[1] \in Offset \ CallPlaces
  BY DEF CallText, CallPlaces, Offset
<1>2. CallPlaces \subseteq Offset
  BY DEF CallPlaces, Offset
<1>3. CallsLoaded(d)
  BY <1>1 DEF LincKept, CallsLoaded
<1>4. /\ 0 \notin S => Cell(d.core, L(0)) = Cell(cpu.core, L(0))
      /\ \o500 \notin S => Cell(d.core, L(\o500)) = Cell(cpu.core, L(\o500))
      /\ \o501 \notin S => Cell(d.core, L(\o501)) = Cell(cpu.core, L(\o501))
  <2>1. 0 \in Offset /\ \o500 \in Offset /\ \o501 \in Offset
    BY <1>2 DEF CallPlaces
  <2> QED
    BY <2>1 DEF LincKept
<1>5. Plain(d) /\ ("RUN" \in cpu.flags => "RUN" \in d.flags)
  <2>1. \A f \in {"LIF", "DJR", "RUN"} : f \in d.flags <=> f \in cpu.flags
    BY DEF LincKept
  <2> QED
    BY <2>1 DEF Plain
<1> QED
  BY <1>3, <1>4, <1>5 DEF LincKept, ReturnIs, CountIs, KeptIs

\* Sums with end-around carry: with 0 and with 1.
LEMMA SmallSums ==
  /\ \A w \in Word : OnesSum(0, w) = w
  /\ \A w \in Word : LeafRan(w) \in Word
<1>1. ASSUME NEW w \in Word PROVE OnesSum(0, w) = w /\ LeafRan(w) \in Word
  <2>1. w \in Int /\ 0 <= w /\ w <= \o7777
    BY WordBounds
  <2>2. OnesSum(0, w) = w
    BY <2>1 DEF OnesSum, Has
  <2>3. LeafRan(w) = IF w = \o7777 THEN 1 ELSE w + 1
    BY <2>1 DEF LeafRan, OnesSum, Has
  <2>4. LeafRan(w) \in Word
    BY <2>1, <2>3 DEF Word
  <2> QED
    BY <2>2, <2>4
<1> QED
  BY <1>1

\* The program at work, with its counter begun at n.
CallsAtWork(n) ==
  /\ LincHere /\ CallsLoaded(cpu)
  /\ \/ "RUN" \in cpu.flags /\ Plain(cpu) /\ CallsGoOn(cpu, n)
     \/ CallsOver(cpu, n)

\* What the steps of a call start from.
CallTurn(back, n) ==
  /\ LincHere /\ Plain(cpu) /\ CallsLoaded(cpu) /\ LincStep /\ "RUN" \in cpu.flags
  /\ back \in {\o201, \o202} /\ n \in Word

\* The subroutine clears the accumulator, fetches its return and puts it away.
LEMMA CallEnteredMoves ==
  ASSUME NEW back, NEW n, CallTurn(back, n), CallEntered(cpu, back, n)
  PROVE  /\ LincKept(cpu', {}) \/ LincKept(cpu', {\o501}) \/ LincKept(cpu', {0})
         /\ CallEntered(cpu', back, n) \/ CallInLeaf(cpu', back, n)
<1>1. /\ LincHere /\ Plain(cpu) /\ CallsLoaded(cpu) /\ LincStep
      /\ back \in Word
  BY DEF CallTurn, Word
<1>2. {} \in SUBSET CallPlaces /\ {0} \in SUBSET CallPlaces /\ {\o501} \in SUBSET CallPlaces
  BY DEF CallPlaces
<1>3. 0 \in Offset /\ \o501 \in Offset /\ \o400 \in Offset
  BY DEF Offset
<1>4. CASE cpu.pc = \o300 /\ ReturnIs(cpu, back)
  <2>1. LincKept(cpu', {}) /\ cpu'.pc = \o301 /\ cpu'.ac = 0
    BY <1>1, <1>4, CallWords, LincClearStep, LeftIsKept
  <2>2. ReturnIs(cpu', back) /\ CountIs(cpu', n)
    BY <1>1, <1>2, <1>4, <2>1, CallsStay DEF CallEntered
  <2> QED
    BY <2>1, <2>2 DEF CallEntered
<1>5. CASE cpu.pc = \o301 /\ ReturnIs(cpu, back) /\ cpu.ac = 0
  <2>1. cpu.pc < \o1777 /\ Cell(cpu.core, L(cpu.pc)) = \o2000 + 0
    BY <1>1, <1>5, CallWords
  <2>2. OnesSum(cpu.ac, Cell(cpu.core, L(0))) = back
    BY <1>1, <1>5, SmallSums DEF ReturnIs
  <2>3. LincKept(cpu', {}) /\ cpu'.pc = \o302 /\ cpu'.ac = back
    BY <1>1, <1>3, <1>5, <2>1, <2>2, LincAddStep
  <2>4. CountIs(cpu', n)
    BY <1>1, <1>2, <2>3, CallsStay DEF CallEntered
  <2> QED
    BY <2>3, <2>4 DEF CallEntered
<1>6. CASE cpu.pc = \o302 /\ cpu.ac = back
  <2>1. PICK y \in Offset : y = \o501
    BY <1>3
  <2>2. cpu.pc < \o1777 /\ Cell(cpu.core, L(cpu.pc)) = \o4000 + y /\ cpu.ac \in Word
    BY <1>1, <1>6, <2>1, CallWords
  <2>3. /\ LincKept(cpu', {y}) /\ cpu'.pc = cpu.pc + 1
        /\ Cell(cpu'.core, L(y)) = back
    BY <1>1, <1>6, <2>2, LincStcStep
  <2>4. CountIs(cpu', n)
    BY <1>1, <1>2, <2>1, <2>3, CallsStay DEF CallEntered
  <2> QED
    BY <1>6, <2>1, <2>3, <2>4 DEF CallEntered, KeptIs
<1>7. CASE cpu.pc = \o303 /\ KeptIs(cpu, back)
  <2>1. /\ cpu.pc < \o1777 /\ Cell(cpu.core, L(cpu.pc)) = \o6000 + \o400
        /\ \o400 \in Offset \ {0}
    BY <1>1, <1>3, <1>7, CallWords
  <2>2. /\ LincKept(cpu', {0}) /\ cpu'.pc = \o400
        /\ Cell(cpu'.core, L(0)) = \o304
    BY <1>1, <1>7, <2>1, LincCallStep
  <2>3. CountIs(cpu', n) /\ KeptIs(cpu', back)
    BY <1>1, <1>2, <1>7, <2>2, CallsStay DEF CallEntered
  <2> QED
    BY <2>2, <2>3 DEF CallInLeaf, ReturnIs
<1> QED
  BY <1>4, <1>5, <1>6, <1>7 DEF CallEntered

\* The leaf counts and returns.
LEMMA CallInLeafMoves ==
  ASSUME NEW back, NEW n, CallTurn(back, n), CallInLeaf(cpu, back, n)
  PROVE  /\ LincKept(cpu', {}) \/ LincKept(cpu', {\o500})
         /\ CallInLeaf(cpu', back, n) \/ CallLeaving(cpu', back, n)
<1>1. /\ LincHere /\ Plain(cpu) /\ CallsLoaded(cpu) /\ LincStep /\ n \in Word
      /\ KeptIs(cpu, back) /\ ReturnIs(cpu, \o304)
  BY DEF CallTurn, CallInLeaf
<1>2. {} \in SUBSET CallPlaces /\ {\o500} \in SUBSET CallPlaces
  BY DEF CallPlaces
<1>3. \o500 \in Offset /\ \o304 \in Offset
  BY DEF Offset
<1>4. ASSUME LincKept(cpu', {}) \/ LincKept(cpu', {\o500})
      PROVE  KeptIs(cpu', back) /\ ReturnIs(cpu', \o304)
  BY <1>1, <1>2, <1>4, CallsStay
<1>5. CASE cpu.pc = \o400 /\ CountIs(cpu, n)
  <2>1. /\ cpu.pc < \o1776 /\ Cell(cpu.core, L(cpu.pc)) = \o1020
        /\ Cell(cpu.core, L(cpu.pc + 1)) = 1 /\ cpu.pc + 2 = \o402
    <3>1. \o400 + 1 = \o401 /\ \o400 + 2 = \o402
      OBVIOUS
    <3> QED
      BY <1>1, <1>5, <3>1, CallWords
  <2>2. LincKept(cpu', {}) /\ cpu'.pc = \o402 /\ cpu'.ac = 1
    BY <1>1, <2>1, LdaImmediateStep
  <2>3. CountIs(cpu', n)
    BY <1>1, <1>2, <1>5, <2>2, CallsStay
  <2> QED
    BY <1>4, <2>2, <2>3 DEF CallInLeaf
<1>6. CASE cpu.pc = \o402 /\ CountIs(cpu, n) /\ cpu.ac = 1
  <2>1. cpu.pc < \o1777 /\ Cell(cpu.core, L(cpu.pc)) = \o2000 + \o500
    BY <1>1, <1>6, CallWords
  <2>2. OnesSum(cpu.ac, Cell(cpu.core, L(\o500))) = LeafRan(n) /\ LeafRan(n) \in Word
    BY <1>1, <1>6, SmallSums DEF CountIs, LeafRan
  <2>3. LincKept(cpu', {}) /\ cpu'.pc = \o403 /\ cpu'.ac = LeafRan(n)
    BY <1>1, <1>3, <1>6, <2>1, <2>2, LincAddStep
  <2> QED
    BY <1>4, <2>3 DEF CallInLeaf
<1>7. CASE cpu.pc = \o403 /\ cpu.ac = LeafRan(n)
  <2>1. PICK y \in Offset : y = \o500
    BY <1>3
  <2>2. cpu.pc < \o1777 /\ Cell(cpu.core, L(cpu.pc)) = \o4000 + y /\ cpu.ac \in Word
    BY <1>1, <1>7, <2>1, CallWords, SmallSums
  <2>3. /\ LincKept(cpu', {y}) /\ cpu'.pc = cpu.pc + 1 /\ cpu'.ac = 0
        /\ Cell(cpu'.core, L(y)) = LeafRan(n)
    BY <1>1, <1>7, <2>2, LincStcStep
  <2> QED
    BY <1>4, <1>7, <2>1, <2>3 DEF CallInLeaf, CountIs
<1>8. CASE cpu.pc = \o404 /\ CountIs(cpu, LeafRan(n)) /\ cpu.ac = 0
  <2>1. cpu.pc < \o1777 /\ Cell(cpu.core, L(cpu.pc)) = \o6000 /\ Cell(cpu.core, L(0)) = \o304
    BY <1>1, <1>8, CallWords DEF ReturnIs
  <2>2. LincKept(cpu', {}) /\ cpu'.pc = \o304 /\ cpu'.ac = 0
    BY <1>1, <1>3, <1>8, <2>1, LincBackStep
  <2>3. CountIs(cpu', LeafRan(n))
    BY <1>1, <1>2, <1>8, <2>2, CallsStay
  <2> QED
    BY <1>4, <2>2, <2>3 DEF CallLeaving
<1> QED
  BY <1>5, <1>6, <1>7, <1>8 DEF CallInLeaf

\* The subroutine puts its return back and goes there.
LEMMA CallLeavingMoves ==
  ASSUME NEW back, NEW n, CallTurn(back, n), CallLeaving(cpu, back, n)
  PROVE  /\ LincKept(cpu', {}) \/ LincKept(cpu', {0})
         /\ CallLeaving(cpu', back, n) \/ CallDone(cpu', back, n)
<1>1. /\ LincHere /\ Plain(cpu) /\ CallsLoaded(cpu) /\ LincStep
      /\ back \in Word /\ CountIs(cpu, LeafRan(n))
  BY DEF CallTurn, CallLeaving, Word
<1>2. {} \in SUBSET CallPlaces /\ {0} \in SUBSET CallPlaces
  BY DEF CallPlaces
<1>3. 0 \in Offset /\ \o501 \in Offset /\ back \in Offset
  BY DEF Offset, CallTurn
<1>4. ASSUME LincKept(cpu', {}) \/ LincKept(cpu', {0})
      PROVE  CountIs(cpu', LeafRan(n))
  BY <1>1, <1>2, <1>4, CallsStay
<1>5. CASE cpu.pc = \o304 /\ KeptIs(cpu, back) /\ cpu.ac = 0
  <2>1. cpu.pc < \o1777 /\ Cell(cpu.core, L(cpu.pc)) = \o2000 + \o501
    BY <1>1, <1>5, CallWords
  <2>2. OnesSum(cpu.ac, Cell(cpu.core, L(\o501))) = back
    BY <1>1, <1>5, SmallSums DEF KeptIs
  <2>3. LincKept(cpu', {}) /\ cpu'.pc = \o305 /\ cpu'.ac = back
    BY <1>1, <1>3, <1>5, <2>1, <2>2, LincAddStep
  <2> QED
    BY <1>4, <2>3 DEF CallLeaving
<1>6. CASE cpu.pc = \o305 /\ cpu.ac = back
  <2>1. cpu.pc < \o1777 /\ Cell(cpu.core, L(cpu.pc)) = \o4000 + 0
    BY <1>1, <1>6, CallWords
  <2>2. LincKept(cpu', {0}) /\ cpu'.pc = \o306 /\ Cell(cpu'.core, L(0)) = back
    BY <1>1, <1>3, <1>6, <2>1, LincStcStep
  <2> QED
    BY <1>4, <2>2 DEF CallLeaving, ReturnIs
<1>7. CASE cpu.pc = \o306 /\ ReturnIs(cpu, back)
  <2>1. cpu.pc < \o1777 /\ Cell(cpu.core, L(cpu.pc)) = \o6000 /\ Cell(cpu.core, L(0)) = back
    BY <1>1, <1>7, CallWords DEF ReturnIs
  <2>2. LincKept(cpu', {}) /\ cpu'.pc = back
    BY <1>1, <1>3, <1>7, <2>1, LincBackStep
  <2>3. ReturnIs(cpu', back)
    BY <1>1, <1>2, <1>7, <2>2, CallsStay
  <2> QED
    BY <1>4, <2>2, <2>3 DEF CallDone
<1> QED
  BY <1>5, <1>6, <1>7 DEF CallLeaving

\* A call: the place behind it is the return, and the subroutine begins.
LEMMA CallMoves ==
  ASSUME NEW back, NEW n, CallTurn(back, n), cpu.pc + 1 = back, CountIs(cpu, n)
  PROVE  LincKept(cpu', {0}) /\ CallEntered(cpu', back, n)
<1>1. /\ LincHere /\ Plain(cpu) /\ CallsLoaded(cpu) /\ LincStep /\ cpu.pc \in {\o200, \o201}
  <2>1. cpu.pc \in Int
    BY Integral, Setters DEF CallTurn, LincHere, InLincField
  <2> QED
    BY <2>1 DEF CallTurn
<1>2. /\ cpu.pc < \o1777 /\ Cell(cpu.core, L(cpu.pc)) = \o6000 + \o300
      /\ \o300 \in Offset \ {0}
  BY <1>1, CallWords DEF Offset
<1>3. LincKept(cpu', {0}) /\ cpu'.pc = \o300 /\ Cell(cpu'.core, L(0)) = back
  BY <1>1, <1>2, LincCallStep
<1>4. {0} \in SUBSET CallPlaces /\ \o500 \notin {0}
  BY DEF CallPlaces
<1>5. CountIs(cpu', n)
  BY <1>1, <1>3, <1>4, CallsStay
<1> QED
  BY <1>3, <1>5 DEF CallEntered, ReturnIs

\* A step of the machine is a step of the program.
LEMMA CallsMove ==
  ASSUME NEW n \in Word, CallsAtWork(n), LincStep, "RUN" \in cpu.flags
  PROVE  CallsAtWork(n)'
<1>1. LincHere /\ CallsLoaded(cpu) /\ LeafRan(n) \in Word
  BY SmallSums DEF CallsAtWork
<1>2. CASE CallsOver(cpu, n)
  <2>1. cpu.pc = \o202 /\ cpu.pc < \o1777 /\ Cell(cpu.core, L(cpu.pc)) = 0
    BY <1>1, <1>2, CallWords DEF CallsOver
  <2>2. /\ InLincField(cpu') /\ cpu'.core = cpu.core /\ cpu'.pc = \o203
        /\ "RUN" \notin cpu'.flags
    BY <1>1, <2>1, LincStopStep
  <2> QED
    BY <1>1, <1>2, <2>2 DEF CallsAtWork, CallsOver, LincHere, CallsLoaded, ReturnIs, CountIs
<1>3. CASE Plain(cpu) /\ CallsGoOn(cpu, n)
  <2>1. CallTurn(\o201, n) /\ CallTurn(\o202, LeafRan(n))
    BY <1>1, <1>3 DEF CallTurn
  <2>2. ASSUME NEW S \in {{}, {0}, {\o500}, {\o501}}, LincKept(cpu', S)
        PROVE  LincHere' /\ Plain(cpu') /\ CallsLoaded(cpu') /\ "RUN" \in cpu'.flags
    <3>1. S \in SUBSET CallPlaces
      BY DEF CallPlaces
    <3> QED
      BY <1>1, <1>3, <2>2, <3>1, CallsStay DEF LincHere
  <2>3. ASSUME NEW back, NEW k, CallTurn(back, k), CallGoesOn(cpu, back, k)
        PROVE  /\ LincHere' /\ Plain(cpu') /\ CallsLoaded(cpu') /\ "RUN" \in cpu'.flags
               /\ CallGoesOn(cpu', back, k) \/ CallDone(cpu', back, k)
    BY <2>2, <2>3, CallEnteredMoves, CallInLeafMoves, CallLeavingMoves DEF CallGoesOn
  <2>4. CASE CallsBegin(cpu, n)
    <3>1. cpu.pc + 1 = \o201 /\ CountIs(cpu, n)
      BY <2>4 DEF CallsBegin
    <3>2. LincKept(cpu', {0}) /\ CallEntered(cpu', \o201, n)
      BY <2>1, <3>1, CallMoves
    <3> QED
      BY <2>2, <3>2 DEF CallsAtWork, CallsGoOn, CallGoesOn
  <2>5. CASE CallGoesOn(cpu, \o201, n)
    BY <2>1, <2>3, <2>5 DEF CallsAtWork, CallsGoOn
  <2>6. CASE CallDone(cpu, \o201, n)
    <3>1. cpu.pc + 1 = \o202 /\ CountIs(cpu, LeafRan(n))
      BY <2>6 DEF CallDone
    <3>2. LincKept(cpu', {0}) /\ CallEntered(cpu', \o202, LeafRan(n))
      BY <2>1, <3>1, CallMoves
    <3> QED
      BY <2>2, <3>2 DEF CallsAtWork, CallsGoOn, CallGoesOn
  <2>7. CASE CallGoesOn(cpu, \o202, LeafRan(n))
    <3>1. /\ LincHere' /\ Plain(cpu') /\ CallsLoaded(cpu') /\ "RUN" \in cpu'.flags
          /\ CallGoesOn(cpu', \o202, LeafRan(n)) \/ CallDone(cpu', \o202, LeafRan(n))
      BY <2>1, <2>3, <2>7
    <3> QED
      BY <3>1 DEF CallsAtWork, CallsGoOn, CallsOver, CallDone
  <2> QED
    BY <1>3, <2>4, <2>5, <2>6, <2>7 DEF CallsGoOn
<1> QED
  BY <1>2, <1>3 DEF CallsAtWork

\* A key struck is not noticed.
LEMMA KeyUnnoticedByCalls ==
  ASSUME NEW n, CallsAtWork(n), KeyStruck
  PROVE  CallsAtWork(n)'
<1>1. StartOK(cpu)
  BY StartIsOK DEF CallsAtWork, LincHere, InLincField, LOK
<1>2. LOK(cpu')
  BY KeyStruckOK DEF CallsAtWork, LincHere, InLincField, LOK, ModeNames
<1>3. /\ cpu'.core = cpu.core /\ cpu'.ifr = cpu.ifr /\ cpu'.flags = cpu.flags
      /\ cpu'.pc = cpu.pc /\ cpu'.ac = cpu.ac
  BY <1>1, KeyStruckFrame
<1>4. LincHere' /\ CallsLoaded(cpu') /\ (Plain(cpu) => Plain(cpu'))
  BY <1>2, <1>3 DEF CallsAtWork, LincHere, InLincField, CallsLoaded, Plain
<1>5. /\ \A p : ReturnIs(cpu', p) <=> ReturnIs(cpu, p)
      /\ \A p : CountIs(cpu', p) <=> CountIs(cpu, p)
      /\ \A p : KeptIs(cpu', p) <=> KeptIs(cpu, p)
  BY <1>3 DEF ReturnIs, CountIs, KeptIs
<1>6. CallsOver(cpu, n) => CallsOver(cpu', n)
  BY <1>3, <1>5 DEF CallsOver
<1>7. \A back, k : CallGoesOn(cpu, back, k) => CallGoesOn(cpu', back, k)
  BY <1>3, <1>5 DEF CallGoesOn, CallEntered, CallInLeaf, CallLeaving
<1>8. CallsGoOn(cpu, n) => CallsGoOn(cpu', n)
  BY <1>3, <1>5, <1>7 DEF CallsGoOn, CallsBegin, CallDone
<1> QED
  BY <1>3, <1>4, <1>6, <1>8 DEF CallsAtWork

\* When it has halted, both calls have come back and the leaf has run twice.
LEMMA CallsHaveReturned ==
  ASSUME NEW n, CallsAtWork(n), "RUN" \notin cpu.flags
  PROVE  LincDone(CallHalt) /\ CallsReturnFrom(n)
<1>1. CallsOver(cpu, n) /\ cpu.pc = \o203
  BY DEF CallsAtWork, CallsOver
<1>2. "8MODE" \notin cpu.flags
  BY DEF CallsAtWork, LincHere, InLincField, LOK, OK
<1>3. \o203 % \o2000 = \o203
  OBVIOUS
<1> QED
  BY <1>1, <1>2, <1>3 DEF LincDone, CallHalt, Running, CallsReturnFrom, CallsOver, ReturnIs, CountIs

(***************************************************************************)
(* Nested LINC calls return on any machine: whatever the accumulator, the  *)
(* count and the rest of core hold, and whichever keys are struck          *)
(* meanwhile, the program halts nowhere but at its HLT, the second call    *)
(* has come back behind it and the leaf has run twice.                     *)
(***************************************************************************)
THEOREM NestedCallsReturn ==
  ASSUME NEW n \in Word, \A c \in Starts : CallStart(c) /\ Cell(c.core, L(\o500)) = n
  PROVE  Spec => []( /\ ~Running => LincDone(CallHalt)
                     /\ CallsReturnFrom(n)
                     /\ n \in {0, 7} => CallsReturn )
<1>1. Init => CallsAtWork(n)
  <2> SUFFICES ASSUME NEW c \in Starts, cpu = c PROVE CallsAtWork(n)
    BY DEF Init
  <2>1. StartOK(c) /\ CallStart(c) /\ Cell(c.core, L(\o500)) = n
    BY StartsAssumption
  <2>2. LOK(c) /\ Plain(c)
    BY <2>1 DEF CallStart, StartOK, LOK, OK, Plain
  <2> QED
    BY <2>1, <2>2 DEF CallStart, CallsAtWork, LincHere, InLincField, CallsLoaded, CallsGoOn,
                      CallsBegin, CountIs
<1>2. CallsAtWork(n) /\ [Next]_cpu => CallsAtWork(n)'
  <2>1. ASSUME CallsAtWork(n), Step PROVE CallsAtWork(n)'
    <3>1. LincMode /\ Running
      BY <2>1, StepModes DEF CallsAtWork, LincHere, InLincField, LOK, OK, LincMode
    <3>2. LincStep
      BY <2>1, <3>1, StepModes DEF Step
    <3> QED
      BY <2>1, <3>1, <3>2, CallsMove DEF Running
  <2>2. ASSUME CallsAtWork(n), KeyStruck PROVE CallsAtWork(n)'
    BY <2>2, KeyUnnoticedByCalls
  <2>3. ASSUME CallsAtWork(n), Halted \/ UNCHANGED cpu PROVE CallsAtWork(n)'
    BY <2>3 DEF Halted, CallsAtWork, LincHere
  <2> QED
    BY <2>1, <2>2, <2>3 DEF Next
<1>3. CallsAtWork(n) => /\ ~Running => LincDone(CallHalt)
                        /\ CallsReturnFrom(n)
                        /\ n \in {0, 7} => CallsReturn
  <2>1. n \in {0, 7} => (CallsReturnFrom(n) => CallsReturn)
    <3>1. LeafRan(LeafRan(0)) = 2 /\ LeafRan(LeafRan(7)) = 9
      BY DEF LeafRan, OnesSum, Has
    <3> QED
      BY <3>1 DEF CallsReturnFrom, CallsReturn
  <2>2. CASE Running
    BY <2>1, <2>2 DEF CallsReturnFrom, LincDone
  <2>3. CASE ~Running
    BY <2>1, <2>3, CallsHaveReturned DEF Running
  <2> QED
    BY <2>2, <2>3
<1> QED
  BY <1>1, <1>2, <1>3, PTL DEF Spec

(***************************************************************************)
(* A table summed through an index register.                               *)
(***************************************************************************)
\* An index register steps within its field.
LEMMA IndexStepped ==
  ASSUME NEW x \in Int, 0 <= x, x < \o1777
  PROVE  IncIndex(x) = x + 1
<1>1. (x \div \o2000) % 4 = 0 /\ (x + 1) % \o2000 = x + 1
  OBVIOUS
<1> QED
  BY <1>1 DEF IncIndex

\* SET i: the word behind goes into a register.
LEMMA SetImmediateStep ==
  ASSUME LincHere, LincStep, cpu.pc < \o1776, NEW a \in {2, 3},
         Cell(cpu.core, L(cpu.pc)) = \o60 + a
  PROVE  /\ LincKept(cpu', {a}) /\ cpu'.pc = cpu.pc + 2
         /\ Cell(cpu'.core, L(a)) = Cell(cpu.core, L(cpu.pc + 1))
<1> DEFINE p == cpu.pc
<1>1. p \in Int /\ 0 <= p /\ p < \o1776
  BY Setters, Types, WordBounds DEF LincHere, InLincField
<1>2. /\ InLincField(F) /\ IsCpu(F) /\ F.core = cpu.core
      /\ F.flags = cpu.flags /\ F.ir = \o60 + a /\ F.pc = p + 1
  BY <1>1, LincFetchedHere
<1>3. SET /\ A = a /\ I
  <2>1. F.ir \in {\o62, \o63}
    BY <1>2
  <2> QED
    BY <1>2, <2>1, StepOfWord DEF A, I, Has
<1>4. PICK v \in Word : v = LincRead(F, F.pc) /\ v = Cell(cpu.core, L(p + 1))
  <2>1. PICK q \in Offset : q = p + 1
    <3>1. p + 1 \in Offset
      <4> HIDE DEF p
      <4> QED
        BY <1>1, Offsets
    <3> QED
      BY <3>1
  <2>2. LincRead(F, q) = Cell(F.core, L(q))
    BY <1>2, LincCells
  <2> QED
    BY <1>2, <2>1, <2>2, CellIsWord
<1> DEFINE w == LincWrite(F, a, v)
<1>5. cpu' = LincIncPc(w)
  BY <1>3, <1>4 DEF SET
<1>6. a \in Offset
  BY DEF Offset
<1>7. /\ InLincField(w) /\ IsCpu(w) /\ w.pc = F.pc /\ w.flags = F.flags
      /\ Cell(w.core, L(a)) = v
      /\ \A b \in Offset \ {a} : Cell(w.core, L(b)) = Cell(F.core, L(b))
  BY <1>2, <1>6, LincStored
<1> HIDE DEF w
<1>8. cpu'.pc = p + 2 /\ cpu'.core = w.core /\ cpu'.ifr = w.ifr /\ cpu'.flags = w.flags
  <2>1. w.pc < \o1777 /\ w.pc + 1 = p + 2 /\ LOK(w)
    BY <1>1, <1>2, <1>7 DEF InLincField
  <2> QED
    BY <1>5, <2>1, LincStepped
<1>9. LOK(cpu')
  BY <1>5, <1>7, Setters DEF InLincField
<1> QED
  BY <1>2, <1>4, <1>7, <1>8, <1>9 DEF LincKept, InLincField

\* ADA i 3: register 3 is stepped and the word it then names is added.
LEMMA AdaIndexedStep ==
  ASSUME LincHere, LincStep, cpu.pc < \o1777, Cell(cpu.core, L(cpu.pc)) = \o1123,
         NEW x \in Offset, Cell(cpu.core, L(3)) = x, NEW y \in Offset \ {3}, y = x + 1,
         NEW n \in Word, OnesSum(cpu.ac, Cell(cpu.core, L(y))) = n
  PROVE  /\ LincKept(cpu', {3}) /\ cpu'.pc = cpu.pc + 1 /\ cpu'.ac = n
         /\ Cell(cpu'.core, L(3)) = y
<1>1. /\ InLincField(F) /\ IsCpu(F) /\ F.core = cpu.core /\ F.ac = cpu.ac
      /\ F.flags = cpu.flags /\ F.ir = \o1123 /\ F.pc = cpu.pc + 1
  BY LincFetchedHere
<1>2. ADA
  BY <1>1, StepOfWord
<1>3. 3 \in Offset /\ y \in Word
  BY DEF Offset, Word
<1>4. Op = 2 /\ I /\ A = 3
  BY <1>1 DEF Op, I, A, Has
<1>5. LincRead(F, 3) = x
  BY <1>1, <1>3, LincCells
<1>6. NextOperand(2, x) = y
  <2>1. x \in Int /\ 0 <= x /\ x < \o1777
    BY Offsets
  <2>2. NextOperand(2, x) = IncIndex(x)
    BY DEF NextOperand, HalfWordOps
  <2> QED
    BY <2>1, <2>2, IndexStepped
<1> DEFINE w == LincWrite(F, 3, y)
<1>7. B = w /\ Y = y
  BY <1>4, <1>5, <1>6 DEF B, Y, BetaState, BetaAddr
<1>8. /\ InLincField(w) /\ IsCpu(w) /\ w.pc = F.pc /\ w.ac = F.ac /\ w.flags = F.flags
      /\ Cell(w.core, L(3)) = y
      /\ \A b \in Offset \ {3} : Cell(w.core, L(b)) = Cell(F.core, L(b))
  BY <1>1, <1>3, LincStored
<1> HIDE DEF w
<1>9. PICK m : m = Operand /\ m = Cell(cpu.core, L(y))
  <2>1. LincRead(w, y) = Cell(w.core, L(y))
    BY <1>8, LincCells
  <2> QED
    BY <1>1, <1>7, <1>8, <2>1 DEF Operand
<1>10. cpu' = Added(w, m)
  BY <1>2, <1>7, <1>9 DEF ADA
<1>11. /\ InLincField(cpu') /\ cpu'.core = w.core /\ cpu'.ac = n /\ cpu'.pc = w.pc
       /\ cpu'.flags \ {"FLO"} = w.flags \ {"FLO"}
  BY <1>1, <1>8, <1>9, <1>10, LincAdded
<1> QED
  BY <1>1, <1>8, <1>11 DEF LincKept

\* XSK i 2: register 2 is stepped, and at 01777 the next word is skipped.
LEMMA XskIndexedStep ==
  ASSUME LincHere, LincStep, cpu.pc < \o1776, Cell(cpu.core, L(cpu.pc)) = \o222,
         NEW x \in Offset, Cell(cpu.core, L(2)) = x, NEW y \in Offset, y = x + 1
  PROVE  /\ LincKept(cpu', {2}) /\ cpu'.ac = cpu.ac /\ Cell(cpu'.core, L(2)) = y
         /\ cpu'.pc = cpu.pc + (IF y = \o1777 THEN 2 ELSE 1)
<1> DEFINE p == cpu.pc
<1>1. p \in Int /\ 0 <= p /\ p < \o1776
  BY Setters, Types, WordBounds DEF LincHere, InLincField
<1>2. /\ InLincField(F) /\ IsCpu(F) /\ F.core = cpu.core /\ F.ac = cpu.ac
      /\ F.flags = cpu.flags /\ F.ir = \o222 /\ F.pc = p + 1
  BY <1>1, LincFetchedHere
<1>3. XSK /\ I /\ A = 2
  BY <1>2, StepOfWord DEF I, A, Has
<1>4. 2 \in Offset /\ y \in Word /\ y % \o2000 = y
  BY Offsets DEF Offset, Word
<1>5. LincRead(F, 2) = x
  BY <1>2, <1>4, LincCells
<1>6. IncIndex(x) = y
  <2>1. x \in Int /\ 0 <= x /\ x < \o1777
    BY Offsets
  <2> QED
    BY <2>1, IndexStepped
<1> DEFINE w == LincWrite(F, 2, y)
<1>7. Indexed(F, I, A) = w
  BY <1>3, <1>5, <1>6 DEF Indexed
<1>8. /\ InLincField(w) /\ IsCpu(w) /\ w.pc = p + 1 /\ w.ac = F.ac /\ w.flags = F.flags
      /\ Cell(w.core, L(2)) = y
      /\ \A b \in Offset \ {2} : Cell(w.core, L(b)) = Cell(F.core, L(b))
  BY <1>2, <1>4, LincStored
<1> HIDE DEF w
<1>9. cpu' = SkipIf(y = \o1777, w)
  <2>1. LincRead(w, 2) = y
    BY <1>4, <1>8, LincCells
  <2> DEFINE c == Indexed(F, I, A)
  <2>2. cpu' = SkipIf(LincRead(c, A) % \o2000 = \o1777, c)
    BY <1>3 DEF XSK
  <2>3. c = w /\ A = 2
    BY <1>3, <1>7
  <2> HIDE DEF c
  <2> QED
    BY <1>4, <2>1, <2>2, <2>3
<1>10. CASE y # \o1777
  <2>1. cpu' = w
    BY <1>9, <1>10 DEF SkipIf
  <2> QED
    BY <1>2, <1>8, <1>10, <2>1 DEF LincKept
<1>11. CASE y = \o1777
  <2>1. cpu' = LincIncPc(w)
    BY <1>9, <1>11 DEF SkipIf
  <2>2. w.pc < \o1777 /\ w.pc + 1 = p + 2 /\ LOK(w)
    BY <1>1, <1>8 DEF InLincField
  <2>3. cpu'.pc = p + 2 /\ cpu'.core = w.core /\ cpu'.ac = w.ac /\ cpu'.ifr = w.ifr /\ cpu'.flags = w.flags
    BY <2>1, <2>2, LincStepped
  <2>4. LOK(cpu')
    BY <2>1, <2>2, Setters
  <2> QED
    BY <1>2, <1>8, <1>11, <2>3, <2>4 DEF LincKept, InLincField
<1> QED
  BY <1>10, <1>11

(***************************************************************************)
(* Where the sum of a table can be, in turn j of its loop: register 2      *)
(* counts the turns, register 3 names the last word that was added.        *)
(***************************************************************************)
TablePlaces == {0, 2, 3}
TableLoaded(c) == \A t \in TableText : Cell(c.core, L(t[1])) = t[2]
TableWord(c, k) == Cell(c.core, L(\o777 + k))
TableIs(c, x, y, z) == TableWord(c, 1) = x /\ TableWord(c, 2) = y /\ TableWord(c, 3) = z
TurnsIs(c, k) == Cell(c.core, L(2)) = k
NamedIs(c, k) == Cell(c.core, L(3)) = k
PartialSum(x, y, z, j) ==
  IF j = 0 THEN 0 ELSE IF j = 1 THEN x
  ELSE IF j = 2 THEN OnesSum(x, y) ELSE OnesSum(OnesSum(x, y), z)

TableBegins(c) ==
  \/ c.pc = \o600
  \/ c.pc = \o602 /\ TurnsIs(c, \o1774)
  \/ c.pc = \o604 /\ TurnsIs(c, \o1774) /\ NamedIs(c, \o777)
TableTurn(c, x, y, z, j) ==
  \/ c.pc = \o605 /\ TurnsIs(c, \o1774 + j) /\ NamedIs(c, \o777 + j)
     /\ c.ac = PartialSum(x, y, z, j)
  \/ c.pc = \o606 /\ TurnsIs(c, \o1774 + j) /\ NamedIs(c, \o1000 + j)
     /\ c.ac = PartialSum(x, y, z, j + 1)
  \/ c.pc = \o607 /\ j < 2 /\ TurnsIs(c, \o1775 + j) /\ NamedIs(c, \o1000 + j)
     /\ c.ac = PartialSum(x, y, z, j + 1)
TableOver(c, x, y, z) ==
  /\ c.ac = PartialSum(x, y, z, 3)
  /\ c.pc = IF "RUN" \in c.flags THEN \o610 ELSE \o611

\* The text, word by word.
LEMMA TableCode ==
  ASSUME NEW c, TableLoaded(c)
  PROVE  /\ Cell(c.core, L(\o600)) = \o62 /\ Cell(c.core, L(\o601)) = \o1774
         /\ Cell(c.core, L(\o602)) = \o63 /\ Cell(c.core, L(\o603)) = \o777
         /\ Cell(c.core, L(\o604)) = \o11 /\ Cell(c.core, L(\o605)) = \o1123
         /\ Cell(c.core, L(\o606)) = \o222 /\ Cell(c.core, L(\o607)) = \o6605
         /\ Cell(c.core, L(\o610)) = 0
BY DEF TableLoaded, TableText

\* No store of the program changes its text or the table.
LEMMA TableStays ==
  ASSUME LincHere, Plain(cpu), TableLoaded(cpu), NEW d, NEW S \in SUBSET TablePlaces, LincKept(d, S)
  PROVE  /\ InLincField(d) /\ Plain(d) /\ TableLoaded(d)
         /\ "RUN" \in cpu.flags => "RUN" \in d.flags
         /\ \A x, y, z : TableIs(cpu, x, y, z) => TableIs(d, x, y, z)
         /\ 2 \notin S => \A k : TurnsIs(cpu, k) => TurnsIs(d, k)
         /\ 3 \notin S => \A k : NamedIs(cpu, k) => NamedIs(d, k)
<1>1. \A t \in TableText : t[1] \in Offset \ TablePlaces
  BY DEF TableText, TablePlaces, Offset
<1>2. {\o1000, \o1001, \o1002} \subseteq Offset \ TablePlaces /\ {2, 3} \subseteq Offset
  BY DEF TablePlaces, Offset
<1>3. TableLoaded(d)
  BY <1>1 DEF LincKept, TableLoaded
<1>4. \A x, y, z : TableIs(cpu, x, y, z) => TableIs(d, x, y, z)
  <2>1. \o777 + 1 = \o1000 /\ \o777 + 2 = \o1001 /\ \o777 + 3 = \o1002
    OBVIOUS
  <2>2. \A a \in {\o1000, \o1001, \o1002} : Cell(d.core, L(a)) = Cell(cpu.core, L(a))
    BY <1>2 DEF LincKept
  <2> QED
    BY <2>1, <2>2 DEF TableIs, TableWord
<1>5. /\ 2 \notin S => Cell(d.core, L(2)) = Cell(cpu.core, L(2))
      /\ 3 \notin S => Cell(d.core, L(3)) = Cell(cpu.core, L(3))
  BY <1>2 DEF LincKept
<1>6. Plain(d) /\ ("RUN" \in cpu.flags => "RUN" \in d.flags)
  <2>1. \A f \in {"LIF", "DJR", "RUN"} : f \in d.flags <=> f \in cpu.flags
    BY DEF LincKept
  <2> QED
    BY <2>1 DEF Plain
<1> QED
  BY <1>3, <1>4, <1>5, <1>6 DEF LincKept, TurnsIs, NamedIs

\* A sum with end-around carry is a word that differs from the sum by no or one 07777.
LEMMA CarriedRound ==
  ASSUME NEW x \in Word, NEW y \in Word, NEW t, t = OnesSum(x, y)
  PROVE  t \in Word /\ (t = x + y \/ t = (x + y) - \o7777)
<1> DEFINE s == x + y
<1>1. x \in Int /\ 0 <= x /\ x <= \o7777 /\ y \in Int /\ 0 <= y /\ y <= \o7777
  BY WordBounds
<1>2. s \in Int /\ 0 <= s /\ s < 2 * \o10000 - 1
  BY <1>1
<1>3. t = IF Has(s, \o10000) THEN (s % \o10000) + 1 ELSE s
  BY DEF OnesSum
<1> HIDE DEF s
<1>4. t = IF s >= \o10000 THEN s - \o7777 ELSE s
  <2>1. Has(s, \o10000) <=> s >= \o10000
    BY <1>2 DEF Has
  <2>2. s >= \o10000 => s % \o10000 = s - \o10000
    BY <1>2
  <2> QED
    BY <1>2, <1>3, <2>1, <2>2
<1>5. t \in Word
  BY <1>2, <1>4 DEF Word
<1>6. t = s \/ t = s - \o7777
  BY <1>4
<1> QED
  BY <1>5, <1>6 DEF s

\* Partial sums are words, and each turn adds the next word of the table.
LEMMA PartialSums ==
  ASSUME NEW x \in Word, NEW y \in Word, NEW z \in Word
  PROVE  /\ \A j \in 0 .. 3 : PartialSum(x, y, z, j) \in Word
         /\ OnesSum(PartialSum(x, y, z, 0), x) = PartialSum(x, y, z, 1)
         /\ OnesSum(PartialSum(x, y, z, 1), y) = PartialSum(x, y, z, 2)
         /\ OnesSum(PartialSum(x, y, z, 2), z) = PartialSum(x, y, z, 3)
<1>1. OnesSum(x, y) \in Word
  BY CarriedRound
<1>2. OnesSum(OnesSum(x, y), z) \in Word
  BY <1>1, CarriedRound
<1>3. 0 \in Word
  BY DEF Word
<1> QED
  BY <1>1, <1>2, <1>3, SmallSums DEF PartialSum

\* However often the sum has run over on the way, it is right if it fits.
LEMMA TotalFits ==
  ASSUME NEW x \in Word, NEW y \in Word, NEW z \in Word,
         Abs(Signed(x) + Signed(y) + Signed(z)) <= MaxSigned
  PROVE  Signed(PartialSum(x, y, z, 3)) = Signed(x) + Signed(y) + Signed(z)
<1> DEFINE s == OnesSum(x, y)
           t == OnesSum(s, z)
<1>1. s \in Word /\ (s = x + y \/ s = (x + y) - \o7777)
  BY CarriedRound
<1> HIDE DEF s
<1>2. t \in Word /\ (t = s + z \/ t = (s + z) - \o7777)
  BY <1>1, CarriedRound
<1> HIDE DEF t
<1>3. PartialSum(x, y, z, 3) = t
  BY DEF PartialSum, s, t
<1>4. /\ x \in Int /\ 0 <= x /\ x <= \o7777 /\ y \in Int /\ 0 <= y /\ y <= \o7777
      /\ z \in Int /\ 0 <= z /\ z <= \o7777 /\ t \in Int /\ 0 <= t /\ t <= \o7777
  BY <1>1, <1>2, WordBounds
<1> DEFINE sx == Signed(x)
           sy == Signed(y)
           sz == Signed(z)
           st == Signed(t)
           total == sx + sy + sz
<1>5. ASSUME NEW w \in Int, 0 <= w, w <= \o7777
      PROVE  Signed(w) = w \/ Signed(w) = w - \o7777
  BY DEF Signed
<1>6. ASSUME NEW w \in Int, 0 <= w, w <= \o7777
      PROVE  Signed(w) \in Int /\ -MaxSigned <= Signed(w) /\ Signed(w) <= MaxSigned
  BY <1>6 DEF Signed, MaxSigned
<1>7. /\ sx = x \/ sx = x - \o7777
      /\ sy = y \/ sy = y - \o7777
      /\ sz = z \/ sz = z - \o7777
      /\ st = t \/ st = t - \o7777
  BY <1>4, <1>5
<1>8. /\ sx \in Int /\ sy \in Int /\ sz \in Int /\ st \in Int
      /\ -MaxSigned <= st /\ st <= MaxSigned
  BY <1>4, <1>6
<1>9. Abs(total) <= MaxSigned
  OBVIOUS
<1> HIDE DEF sx, sy, sz, st
<1>10. st = total
  <2>1. s = x + y \/ s = (x + y) - \o7777
    BY <1>1
  <2>2. t = s + z \/ t = (s + z) - \o7777
    BY <1>2
  <2>3. s \in Int
    BY <1>1, WordBounds
  <2>4. -\o3777 <= total /\ total <= \o3777 /\ -\o3777 <= st /\ st <= \o3777
    BY <1>8, <1>9 DEF Abs, MaxSigned
  <2> QED
    BY <1>4, <1>7, <1>8, <2>1, <2>2, <2>3, <2>4
<1> QED
  BY <1>3, <1>10 DEF sx, sy, sz, st

\* The program at work on the table x, y, z.
TableGoesOn(c, x, y, z) == TableBegins(c) \/ \E j \in 0 .. 2 : TableTurn(c, x, y, z, j)
TableAtWork(x, y, z) ==
  /\ LincHere /\ TableLoaded(cpu) /\ TableIs(cpu, x, y, z)
  /\ \/ "RUN" \in cpu.flags /\ Plain(cpu) /\ TableGoesOn(cpu, x, y, z)
     \/ TableOver(cpu, x, y, z)

\* What the steps of the loop start from, and what each of them leaves as it was.
TableHere(x, y, z) ==
  /\ LincHere /\ Plain(cpu) /\ TableLoaded(cpu) /\ TableIs(cpu, x, y, z) /\ LincStep
  /\ "RUN" \in cpu.flags /\ x \in Word /\ y \in Word /\ z \in Word

\* The registers are set and the accumulator cleared: the first turn begins.
LEMMA TableBeginsMoves ==
  ASSUME NEW x, NEW y, NEW z, TableHere(x, y, z), TableBegins(cpu)
  PROVE  \E S \in SUBSET TablePlaces : LincKept(cpu', S) /\ TableGoesOn(cpu', x, y, z)
<1>1. /\ LincHere /\ Plain(cpu) /\ TableLoaded(cpu) /\ LincStep
  BY DEF TableHere
<1>2. {} \in SUBSET TablePlaces /\ {2} \in SUBSET TablePlaces /\ {3} \in SUBSET TablePlaces
  BY DEF TablePlaces
<1>3. CASE cpu.pc = \o600
  <2>1. /\ cpu.pc < \o1776 /\ Cell(cpu.core, L(cpu.pc)) = \o60 + 2
        /\ Cell(cpu.core, L(cpu.pc + 1)) = \o1774 /\ cpu.pc + 2 = \o602
    <3>1. \o600 + 1 = \o601 /\ \o600 + 2 = \o602 /\ \o60 + 2 = \o62
      OBVIOUS
    <3> QED
      BY <1>1, <1>3, <3>1, TableCode
  <2>2. LincKept(cpu', {2}) /\ cpu'.pc = \o602 /\ TurnsIs(cpu', \o1774)
    BY <1>1, <2>1, SetImmediateStep DEF TurnsIs
  <2> QED
    BY <1>2, <2>2 DEF TableGoesOn, TableBegins
<1>4. CASE cpu.pc = \o602 /\ TurnsIs(cpu, \o1774)
  <2>1. /\ cpu.pc < \o1776 /\ Cell(cpu.core, L(cpu.pc)) = \o60 + 3
        /\ Cell(cpu.core, L(cpu.pc + 1)) = \o777 /\ cpu.pc + 2 = \o604
    <3>1. \o602 + 1 = \o603 /\ \o602 + 2 = \o604 /\ \o60 + 3 = \o63
      OBVIOUS
    <3> QED
      BY <1>1, <1>4, <3>1, TableCode
  <2>2. LincKept(cpu', {3}) /\ cpu'.pc = \o604 /\ NamedIs(cpu', \o777)
    BY <1>1, <2>1, SetImmediateStep DEF NamedIs
  <2>3. TurnsIs(cpu', \o1774)
    BY <1>1, <1>2, <1>4, <2>2, TableStays
  <2> QED
    BY <1>2, <2>2, <2>3 DEF TableGoesOn, TableBegins
<1>5. CASE cpu.pc = \o604 /\ TurnsIs(cpu, \o1774) /\ NamedIs(cpu, \o777)
  <2>1. cpu.pc < \o1777 /\ Cell(cpu.core, L(cpu.pc)) = \o11 /\ cpu.pc + 1 = \o605
    <3>1. \o604 + 1 = \o605
      OBVIOUS
    <3> QED
      BY <1>1, <1>5, <3>1, TableCode
  <2>2. LincKept(cpu', {}) /\ cpu'.pc = \o605 /\ cpu'.ac = 0
    BY <1>1, <2>1, LincClearStep, LeftIsKept
  <2>3. TurnsIs(cpu', \o1774) /\ NamedIs(cpu', \o777)
    BY <1>1, <1>2, <1>5, <2>2, TableStays
  <2>4. TableTurn(cpu', x, y, z, 0)
    <3>1. \o1774 + 0 = \o1774 /\ \o777 + 0 = \o777
      OBVIOUS
    <3>2. PartialSum(x, y, z, 0) = 0
      BY DEF PartialSum
    <3> QED
      BY <2>2, <2>3, <3>1, <3>2 DEF TableTurn
  <2>5. 0 \in 0 .. 2
    OBVIOUS
  <2> QED
    BY <1>2, <2>2, <2>4, <2>5 DEF TableGoesOn
<1> QED
  BY <1>3, <1>4, <1>5 DEF TableBegins

\* The word a turn adds is the one behind the word named.
LEMMA TurnAdds ==
  ASSUME NEW x, NEW y, NEW z, TableHere(x, y, z), NEW j \in 0 .. 2
  PROVE  /\ OnesSum(PartialSum(x, y, z, j), Cell(cpu.core, L(\o1000 + j))) = PartialSum(x, y, z, j + 1)
         /\ PartialSum(x, y, z, j + 1) \in Word
<1>1. /\ Cell(cpu.core, L(\o1000)) = x /\ Cell(cpu.core, L(\o1001)) = y
      /\ Cell(cpu.core, L(\o1002)) = z
  <2>1. \o777 + 1 = \o1000 /\ \o777 + 2 = \o1001 /\ \o777 + 3 = \o1002
    OBVIOUS
  <2> QED
    BY <2>1 DEF TableHere, TableIs, TableWord
<1>2. x \in Word /\ y \in Word /\ z \in Word
  BY DEF TableHere
<1>3. /\ \A i \in 0 .. 3 : PartialSum(x, y, z, i) \in Word
      /\ OnesSum(PartialSum(x, y, z, 0), x) = PartialSum(x, y, z, 1)
      /\ OnesSum(PartialSum(x, y, z, 1), y) = PartialSum(x, y, z, 2)
      /\ OnesSum(PartialSum(x, y, z, 2), z) = PartialSum(x, y, z, 3)
  BY <1>2, PartialSums
<1>4. /\ j = 0 => \o1000 + j = \o1000 /\ j + 1 = 1
      /\ j = 1 => \o1000 + j = \o1001 /\ j + 1 = 2
      /\ j = 2 => \o1000 + j = \o1002 /\ j + 1 = 3
      /\ j \in {0, 1, 2} /\ j + 1 \in 0 .. 3
  OBVIOUS
<1>5. PartialSum(x, y, z, j + 1) \in Word
  BY <1>3, <1>4
<1>6. CASE j = 0
  <2>1. j + 1 = 1 /\ \o1000 + j = \o1000
    BY <1>4, <1>6
  <2>2. PartialSum(x, y, z, j) = PartialSum(x, y, z, 0)
    BY <1>6
  <2>3. PartialSum(x, y, z, j + 1) = PartialSum(x, y, z, 1)
    BY <2>1
  <2>4. Cell(cpu.core, L(\o1000 + j)) = x
    BY <1>1, <2>1
  <2> QED
    BY <1>3, <1>5, <2>2, <2>3, <2>4
<1>7. CASE j = 1
  <2>1. j + 1 = 2 /\ \o1000 + j = \o1001
    BY <1>4, <1>7
  <2>2. PartialSum(x, y, z, j) = PartialSum(x, y, z, 1)
    BY <1>7
  <2>3. PartialSum(x, y, z, j + 1) = PartialSum(x, y, z, 2)
    BY <2>1
  <2>4. Cell(cpu.core, L(\o1000 + j)) = y
    BY <1>1, <2>1
  <2> QED
    BY <1>3, <1>5, <2>2, <2>3, <2>4
<1>8. CASE j = 2
  <2>1. j + 1 = 3 /\ \o1000 + j = \o1002
    BY <1>4, <1>8
  <2>2. PartialSum(x, y, z, j) = PartialSum(x, y, z, 2)
    BY <1>8
  <2>3. PartialSum(x, y, z, j + 1) = PartialSum(x, y, z, 3)
    BY <2>1
  <2>4. Cell(cpu.core, L(\o1000 + j)) = z
    BY <1>1, <2>1
  <2> QED
    BY <1>3, <1>5, <2>2, <2>3, <2>4
<1> QED
  BY <1>4, <1>6, <1>7, <1>8

\* A turn: the index is stepped and the word added, the turns are counted, and after the
\* third the jump back is skipped.
LEMMA TableTurnMoves ==
  ASSUME NEW x, NEW y, NEW z, TableHere(x, y, z), NEW j \in 0 .. 2, TableTurn(cpu, x, y, z, j)
  PROVE  \E S \in SUBSET TablePlaces :
           LincKept(cpu', S) /\ (TableGoesOn(cpu', x, y, z) \/ TableOver(cpu', x, y, z))
<1>1. /\ LincHere /\ Plain(cpu) /\ TableLoaded(cpu) /\ LincStep /\ "RUN" \in cpu.flags
  BY DEF TableHere
<1>2. {0} \in SUBSET TablePlaces /\ {2} \in SUBSET TablePlaces /\ {3} \in SUBSET TablePlaces
  BY DEF TablePlaces
<1>3. j \in Int /\ 0 <= j /\ j <= 2
  OBVIOUS
<1>4. /\ \o777 + j \in Offset /\ \o1000 + j \in Offset \ {3} /\ \o1000 + j = (\o777 + j) + 1
      /\ \o1774 + j \in Offset /\ \o1775 + j \in Offset /\ \o1775 + j = (\o1774 + j) + 1
  BY <1>3 DEF Offset
<1>5. CASE /\ cpu.pc = \o605 /\ TurnsIs(cpu, \o1774 + j) /\ NamedIs(cpu, \o777 + j)
           /\ cpu.ac = PartialSum(x, y, z, j)
  <2>1. cpu.pc < \o1777 /\ Cell(cpu.core, L(cpu.pc)) = \o1123 /\ cpu.pc + 1 = \o606
    <3>1. \o605 + 1 = \o606
      OBVIOUS
    <3> QED
      BY <1>1, <1>5, <3>1, TableCode
  <2>2. PICK n \in Word : n = PartialSum(x, y, z, j + 1)
    BY TurnAdds
  <2>3. OnesSum(cpu.ac, Cell(cpu.core, L(\o1000 + j))) = n
    BY <1>5, <2>2, TurnAdds
  <2>4. Cell(cpu.core, L(3)) = \o777 + j
    BY <1>5 DEF NamedIs
  <2>5. /\ LincKept(cpu', {3}) /\ cpu'.pc = \o606 /\ cpu'.ac = n
        /\ Cell(cpu'.core, L(3)) = \o1000 + j
    BY <1>1, <1>4, <2>1, <2>3, <2>4, AdaIndexedStep
  <2>6. TurnsIs(cpu', \o1774 + j)
    BY <1>1, <1>2, <1>5, <2>5, TableStays
  <2>7. TableTurn(cpu', x, y, z, j)
    BY <2>2, <2>5, <2>6 DEF TableTurn, NamedIs
  <2> QED
    BY <1>2, <2>5, <2>7 DEF TableGoesOn
<1>6. CASE /\ cpu.pc = \o606 /\ TurnsIs(cpu, \o1774 + j) /\ NamedIs(cpu, \o1000 + j)
           /\ cpu.ac = PartialSum(x, y, z, j + 1)
  <2>1. /\ cpu.pc < \o1776 /\ Cell(cpu.core, L(cpu.pc)) = \o222
        /\ cpu.pc + 1 = \o607 /\ cpu.pc + 2 = \o610
    <3>1. \o606 + 1 = \o607 /\ \o606 + 2 = \o610
      OBVIOUS
    <3> QED
      BY <1>1, <1>6, <3>1, TableCode
  <2>2. Cell(cpu.core, L(2)) = \o1774 + j
    BY <1>6 DEF TurnsIs
  <2>3. /\ LincKept(cpu', {2}) /\ cpu'.ac = cpu.ac
        /\ Cell(cpu'.core, L(2)) = \o1775 + j
        /\ cpu'.pc = cpu.pc + (IF \o1775 + j = \o1777 THEN 2 ELSE 1)
    BY <1>1, <1>4, <2>1, <2>2, XskIndexedStep
  <2>4. NamedIs(cpu', \o1000 + j) /\ "RUN" \in cpu'.flags
    BY <1>1, <1>2, <1>6, <2>3, TableStays
  <2>5. CASE j < 2
    <3>1. cpu'.pc = \o607
      BY <1>3, <2>1, <2>3, <2>5
    <3>2. TableTurn(cpu', x, y, z, j)
      BY <1>6, <2>3, <2>4, <2>5, <3>1 DEF TableTurn, TurnsIs
    <3> QED
      BY <1>2, <2>3, <3>2 DEF TableGoesOn
  <2>6. CASE j = 2
    <3>1. cpu'.pc = \o610
      BY <2>1, <2>3, <2>6
    <3>2. j + 1 = 3
      BY <2>6
    <3>3. PartialSum(x, y, z, j + 1) = PartialSum(x, y, z, 3)
      BY <3>2
    <3> QED
      BY <1>2, <1>6, <2>3, <2>4, <3>1, <3>3 DEF TableOver
  <2> QED
    BY <1>3, <2>5, <2>6
<1>7. CASE /\ cpu.pc = \o607 /\ j < 2 /\ TurnsIs(cpu, \o1775 + j) /\ NamedIs(cpu, \o1000 + j)
           /\ cpu.ac = PartialSum(x, y, z, j + 1)
  <2>1. /\ cpu.pc < \o1777 /\ Cell(cpu.core, L(cpu.pc)) = \o6000 + \o605
        /\ \o605 \in Offset \ {0}
    BY <1>1, <1>7, TableCode DEF Offset
  <2>2. LincKept(cpu', {0}) /\ cpu'.pc = \o605 /\ cpu'.ac = cpu.ac
    BY <1>1, <2>1, LincCallStep
  <2>3. TurnsIs(cpu', \o1775 + j) /\ NamedIs(cpu', \o1000 + j)
    BY <1>1, <1>2, <1>7, <2>2, TableStays
  <2>4. PICK i \in 0 .. 2 : i = j + 1
    BY <1>3, <1>7
  <2>5. \o1774 + i = \o1775 + j /\ \o777 + i = \o1000 + j
    BY <1>3, <2>4
  <2>6. TableTurn(cpu', x, y, z, i)
    BY <1>7, <2>2, <2>3, <2>4, <2>5 DEF TableTurn
  <2> QED
    BY <1>2, <2>2, <2>6 DEF TableGoesOn
<1> QED
  BY <1>5, <1>6, <1>7 DEF TableTurn

\* A step of the machine is a step of the program.
LEMMA TableMoves ==
  ASSUME NEW x \in Word, NEW y \in Word, NEW z \in Word, TableAtWork(x, y, z),
         LincStep, "RUN" \in cpu.flags
  PROVE  TableAtWork(x, y, z)'
<1>1. LincHere /\ TableLoaded(cpu) /\ TableIs(cpu, x, y, z)
  BY DEF TableAtWork
<1>2. CASE TableOver(cpu, x, y, z)
  <2>1. /\ cpu.pc < \o1777 /\ Cell(cpu.core, L(cpu.pc)) = 0 /\ cpu.pc + 1 = \o611
    <3>1. \o610 + 1 = \o611
      OBVIOUS
    <3> QED
      BY <1>1, <1>2, <3>1, TableCode DEF TableOver
  <2>2. /\ InLincField(cpu') /\ cpu'.core = cpu.core /\ cpu'.pc = \o611
        /\ "RUN" \notin cpu'.flags /\ cpu'.ac = cpu.ac
    BY <1>1, <2>1, LincStopStep
  <2>3. TableOver(cpu', x, y, z)
    BY <1>2, <2>2 DEF TableOver
  <2>4. TableLoaded(cpu') /\ TableIs(cpu', x, y, z)
    BY <1>1, <2>2 DEF TableLoaded, TableIs, TableWord
  <2> QED
    BY <2>2, <2>3, <2>4 DEF TableAtWork, LincHere
<1>3. CASE Plain(cpu) /\ TableGoesOn(cpu, x, y, z)
  <2>1. TableHere(x, y, z)
    BY <1>1, <1>3 DEF TableHere
  <2>2. \E S \in SUBSET TablePlaces :
          LincKept(cpu', S) /\ (TableGoesOn(cpu', x, y, z) \/ TableOver(cpu', x, y, z))
    BY <1>3, <2>1, TableBeginsMoves, TableTurnMoves DEF TableGoesOn
  <2>3. PICK S \in SUBSET TablePlaces :
          LincKept(cpu', S) /\ (TableGoesOn(cpu', x, y, z) \/ TableOver(cpu', x, y, z))
    BY <2>2
  <2>4. /\ InLincField(cpu') /\ Plain(cpu') /\ TableLoaded(cpu') /\ "RUN" \in cpu'.flags
        /\ TableIs(cpu', x, y, z)
    BY <1>1, <1>3, <2>3, TableStays
  <2> QED
    BY <2>3, <2>4 DEF TableAtWork, LincHere
<1> QED
  BY <1>2, <1>3 DEF TableAtWork

\* A key struck is not noticed.
LEMMA KeyUnnoticedByTable ==
  ASSUME NEW x, NEW y, NEW z, TableAtWork(x, y, z), KeyStruck
  PROVE  TableAtWork(x, y, z)'
<1>1. StartOK(cpu)
  BY StartIsOK DEF TableAtWork, LincHere, InLincField, LOK
<1>2. LOK(cpu')
  BY KeyStruckOK DEF TableAtWork, LincHere, InLincField, LOK, ModeNames
<1>3. /\ cpu'.core = cpu.core /\ cpu'.ifr = cpu.ifr /\ cpu'.flags = cpu.flags
      /\ cpu'.pc = cpu.pc /\ cpu'.ac = cpu.ac
  BY <1>1, KeyStruckFrame
<1>4. LincHere' /\ TableLoaded(cpu') /\ (Plain(cpu) => Plain(cpu'))
  BY <1>2, <1>3 DEF TableAtWork, LincHere, InLincField, TableLoaded, Plain
<1>5. TableIs(cpu', x, y, z)
  BY <1>3 DEF TableAtWork, TableIs, TableWord
<1>6. TableBegins(cpu) => TableBegins(cpu')
  BY <1>3 DEF TableBegins, TurnsIs, NamedIs
<1>7. \A j \in 0 .. 2 : TableTurn(cpu, x, y, z, j) => TableTurn(cpu', x, y, z, j)
  BY <1>3 DEF TableTurn, TurnsIs, NamedIs
<1>8. TableOver(cpu, x, y, z) => TableOver(cpu', x, y, z)
  BY <1>3 DEF TableOver
<1> QED
  BY <1>3, <1>4, <1>5, <1>6, <1>7, <1>8 DEF TableAtWork, TableGoesOn

\* When it has halted, a total that fits is what the accumulator holds.
LEMMA TableHasBeenSummed ==
  ASSUME NEW x \in Word, NEW y \in Word, NEW z \in Word, TableAtWork(x, y, z),
         "RUN" \notin cpu.flags
  PROVE  LincDone(SumHalt) /\ TableIsSummed
<1>1. TableOver(cpu, x, y, z) /\ cpu.pc = \o611
  BY DEF TableAtWork, TableOver
<1>2. "8MODE" \notin cpu.flags
  BY DEF TableAtWork, LincHere, InLincField, LOK, OK
<1>3. \o611 % \o2000 = \o611
  OBVIOUS
<1>4. LincDone(SumHalt)
  BY <1>1, <1>2, <1>3 DEF LincDone, SumHalt, Running
<1>5. /\ TableValue(1) = Signed(x) /\ TableValue(2) = Signed(y) /\ TableValue(3) = Signed(z)
  BY DEF TableAtWork, TableIs, TableWord, TableValue
<1>6. cpu.ac = PartialSum(x, y, z, 3)
  BY <1>1 DEF TableOver
<1>7. TableIsSummed
  BY <1>5, <1>6, TotalFits DEF TableIsSummed
<1> QED
  BY <1>4, <1>7

(***************************************************************************)
(* The sum of a table is right on any machine: whatever three words it     *)
(* holds and whatever the registers and the rest of core hold, the program *)
(* halts nowhere but at its HLT, having added each word once, and if the   *)
(* total fits a word the accumulator is that total, although a sum on the  *)
(* way may have run over.                                                  *)
(***************************************************************************)
THEOREM TablesAreSummed ==
  ASSUME \A c \in Starts : TableStart(c)
  PROVE  Spec => [](TableIsSummed /\ (~Running => LincDone(SumHalt)))
<1> DEFINE BeingSummed == \E x, y, z \in Word : TableAtWork(x, y, z)
<1>1. Init => BeingSummed
  <2> SUFFICES ASSUME NEW c \in Starts, cpu = c PROVE BeingSummed
    BY DEF Init
  <2>1. StartOK(c) /\ TableStart(c)
    BY StartsAssumption
  <2>2. LOK(c) /\ Plain(c)
    BY <2>1 DEF TableStart, StartOK, LOK, OK, Plain
  <2>3. TableWord(c, 1) \in Word /\ TableWord(c, 2) \in Word /\ TableWord(c, 3) \in Word
    BY <2>1, CellIsWord DEF TableWord, StartOK, OK
  <2>4. TableAtWork(TableWord(c, 1), TableWord(c, 2), TableWord(c, 3))
    BY <2>1, <2>2 DEF TableStart, TableAtWork, LincHere, InLincField, TableLoaded, TableGoesOn,
                      TableBegins, TableIs
  <2> QED
    BY <2>3, <2>4
<1>2. BeingSummed /\ [Next]_cpu => BeingSummed'
  <2> SUFFICES ASSUME NEW x \in Word, NEW y \in Word, NEW z \in Word, TableAtWork(x, y, z),
                      [Next]_cpu
               PROVE  TableAtWork(x, y, z)'
    OBVIOUS
  <2>1. CASE Step
    <3>1. LincMode /\ Running
      BY <2>1, StepModes DEF TableAtWork, LincHere, InLincField, LOK, OK, LincMode
    <3>2. LincStep
      BY <2>1, <3>1, StepModes DEF Step
    <3> QED
      BY <3>1, <3>2, TableMoves DEF Running
  <2>2. CASE KeyStruck
    BY <2>2, KeyUnnoticedByTable
  <2>3. CASE Halted \/ UNCHANGED cpu
    BY <2>3 DEF Halted, TableAtWork, LincHere
  <2> QED
    BY <2>1, <2>2, <2>3 DEF Next
<1>3. BeingSummed => TableIsSummed /\ (~Running => LincDone(SumHalt))
  <2> SUFFICES ASSUME NEW x \in Word, NEW y \in Word, NEW z \in Word, TableAtWork(x, y, z)
               PROVE  TableIsSummed /\ (~Running => LincDone(SumHalt))
    OBVIOUS
  <2>1. CASE Running
    BY <2>1 DEF TableIsSummed, LincDone
  <2>2. CASE ~Running
    BY <2>2, TableHasBeenSummed DEF Running
  <2> QED
    BY <2>1, <2>2
<1> HIDE DEF BeingSummed
<1> QED
  BY <1>1, <1>2, <1>3, PTL DEF Spec

(***************************************************************************)
(* A block copied.  The program is in field 0, its pointers and the words  *)
(* in the data field, which starts at f.                                   *)
(***************************************************************************)
CopyHere(f) == EOK(cpu) /\ cpu.ifr \div 4 = 0 /\ (cpu.dfr \div 4) * \o10000 = f
CopyLeft(d, S) ==
  /\ EOK(d) /\ d.ifr = cpu.ifr /\ d.dfr = cpu.dfr /\ d.flags = cpu.flags
  /\ \A a : a \notin S => Cell(d.core, a) = Cell(cpu.core, a)

\* Reading and writing in the data field.
LEMMA DataAt ==
  ASSUME NEW c, IsCpu(c), NEW f, (c.dfr \div 4) * \o10000 = f, NEW a \in Word
  PROVE  /\ f \in Int /\ f + a \in Address
         /\ ReadD(c, a) = Cell(c.core, f + a)
         /\ \A n : WriteD(c, a, n) = CpuWrite(c, f + a, n)
<1> DEFINE k == c.dfr \div 4
<1>1. k \in Int /\ 0 <= k /\ k <= 7
  <2>1. c.dfr \in Int /\ 0 <= c.dfr /\ c.dfr <= \o37
    BY Types DEF Field
  <2> QED
    BY <2>1
<1>2. a \in Int /\ 0 <= a /\ a <= \o7777
  BY WordBounds
<1>3. Pdp8Address(c.dfr, a) = a + k * \o10000 /\ f = k * \o10000
  <2>1. a % \o10000 = a
    BY <1>2
  <2> QED
    BY <2>1 DEF Pdp8Address
<1> HIDE DEF k
<1>4. f \in Int /\ 0 <= f + a /\ f + a <= \o77777 /\ f + a = a + k * \o10000
  BY <1>1, <1>2, <1>3
<1>5. f + a \in Address
  BY <1>2, <1>4, AddressBounds
<1>6. ~(f + a > CPU_CORE_SIZE)
  BY <1>5, AddressInCore
<1> QED
  BY <1>3, <1>4, <1>5, <1>6 DEF ReadD, WriteD, CpuRead

\* A word with an auto-index pointer: the pointer steps, and what it then names is taken.
LEMMA PointerSteps ==
  ASSUME NEW f, CopyHere(f), cpu.pc < \o7777, NEW op \in {1, 3}, NEW a \in {\o10, \o11},
         Cell(cpu.core, cpu.pc) = op * \o1000 + \o400 + a,
         NEW p \in Word, Cell(cpu.core, f + a) = p
  PROVE  LET e == (p + 1) % \o10000
         IN /\ E8 = e /\ e \in Word /\ Indirect /\ EOK(N) /\ IsCpu(N)
            /\ N.ifr = cpu.ifr /\ N.dfr = cpu.dfr /\ N.flags = cpu.flags
            /\ N.pc = cpu.pc + 1 /\ N.ac = cpu.ac
            /\ Cell(N.core, f + a) = e
            /\ \A b : b # f + a => Cell(N.core, b) = Cell(cpu.core, b)
<1> DEFINE e == (p + 1) % \o10000
           d == CpuWrite(G, f + a, p + 1)
<1>1. /\ EOK(G) /\ IsCpu(G) /\ G.ifr = cpu.ifr /\ G.dfr = cpu.dfr /\ G.core = cpu.core
      /\ G.ac = cpu.ac /\ G.flags = cpu.flags /\ G.pc = cpu.pc + 1
      /\ G.ir = op * \o1000 + \o400 + a
  BY FetchedZero DEF CopyHere
<1>2. Has(G.ir, \o400) /\ ~IsJump(G) /\ PageAddress(G) = a /\ AutoIndexed(G)
  <2>1. G.ir \in {\o1410, \o1411, \o3410, \o3411}
    BY <1>1
  <2>2. /\ Has(G.ir, \o400) /\ ~Has(G.ir, \o200)
        /\ G.ir \div \o1000 \notin {4, 5}
    BY <2>1 DEF Has
  <2>3. G.ir % \o200 = a
    BY <1>1
  <2>4. PageAddress(G) = a
    BY <2>2, <2>3 DEF PageAddress
  <2>5. a \in \o10 .. \o17
    OBVIOUS
  <2> QED
    BY <2>2, <2>4, <2>5 DEF IsJump, AutoIndexed
<1>3. /\ f + a \in Address /\ a \in Word
      /\ ReadD(G, a) = p /\ WriteD(G, a, p + 1) = d
  <2>1. a \in Word
    BY DEF Word
  <2>2. (G.dfr \div 4) * \o10000 = f
    BY <1>1 DEF CopyHere
  <2> QED
    BY <1>1, <2>1, <2>2, DataAt
<1>4. p \in Int /\ e \in Word
  BY WordBounds DEF Word
<1>5. E8 = e /\ N = d
  BY <1>2, <1>3 DEF E8, N, EffectiveAddress, Addressed, Pointer
<1>6. /\ \A g \in Registers \union {"out"} : d[g] = G[g]
      /\ Cell(d.core, f + a) = e
      /\ \A b : b # f + a => Cell(d.core, b) = Cell(G.core, b)
  BY <1>1, <1>3, WriteFrame
<1>7. EOK(d) /\ IsCpu(d)
  <2>1. p + 1 \in Int
    BY <1>4
  <2> QED
    BY <1>1, <1>3, <2>1, CpuWriteOK, Setters8 DEF EOK, ModeNames
<1> HIDE DEF d, e
<1>8. /\ d.pc = G.pc /\ d.flags = G.flags /\ d.ifr = G.ifr /\ d.dfr = G.dfr /\ d.ac = G.ac
  BY <1>6, RegisterNames
<1>9. Indirect
  BY <1>2 DEF Indirect, Bit
<1> QED
  BY <1>1, <1>4, <1>5, <1>6, <1>7, <1>8, <1>9 DEF e

\* A word is what is left of it, alone or with nothing added.
LEMMA WordStays == \A w \in Word : w \in Int /\ w + 0 \in Int /\ (w + 0) % \o10000 = w /\ w % \o10000 = w
<1>1. ASSUME NEW w \in Word
      PROVE  w \in Int /\ w + 0 \in Int /\ (w + 0) % \o10000 = w /\ w % \o10000 = w
  <2>1. w \in Int /\ 0 <= w /\ w <= \o7777
    BY WordBounds
  <2> QED
    BY <2>1
<1> QED
  BY <1>1

\* TAD I 10: the next word is loaded.
LEMMA LoadNextStep ==
  ASSUME NEW f, CopyHere(f), Pdp8Step, cpu.pc < \o7777, cpu.ac = 0,
         Cell(cpu.core, cpu.pc) = \o1410, NEW p \in Word, Cell(cpu.core, f + \o10) = p,
         NEW e \in Word, e = (p + 1) % \o10000, e # \o10
  PROVE  /\ CopyLeft(cpu', {f + \o10}) /\ cpu'.pc = cpu.pc + 1
         /\ cpu'.ac = Cell(cpu.core, f + e) /\ Cell(cpu'.core, f + \o10) = e
<1>1. /\ E8 = e /\ Indirect /\ EOK(N) /\ IsCpu(N)
      /\ N.ifr = cpu.ifr /\ N.dfr = cpu.dfr /\ N.flags = cpu.flags
      /\ N.pc = cpu.pc + 1 /\ N.ac = cpu.ac
      /\ Cell(N.core, f + \o10) = e
      /\ \A b : b # f + \o10 => Cell(N.core, b) = Cell(cpu.core, b)
  <2>1. Cell(cpu.core, cpu.pc) = 1 * \o1000 + \o400 + \o10
    OBVIOUS
  <2> QED
    BY <2>1, PointerSteps
<1>2. TAD8
  <2>1. G.ir = \o1410
    BY FetchedZero DEF CopyHere
  <2> QED
    BY <2>1, StepOfClass
<1>3. f \in Int /\ ReadD(N, e) = Cell(N.core, f + e)
  <2>1. (N.dfr \div 4) * \o10000 = f
    BY <1>1 DEF CopyHere
  <2> QED
    BY <1>1, <2>1, DataAt
<1>4. Cell(N.core, f + e) = Cell(cpu.core, f + e)
  <2>1. f + e # f + \o10
    BY <1>3, WordBounds
  <2> QED
    BY <1>1, <2>1
<1>5. Operand8 = Cell(cpu.core, f + e)
  BY <1>1, <1>3, <1>4 DEF Operand8
<1> DEFINE x == Operand8 + N.ac
           d == SetAc(N, x)
<1>6. x \in Int /\ x % \o10000 = Cell(cpu.core, f + e)
  <2> DEFINE y == Cell(cpu.core, f + e)
  <2>1. y \in Word
    BY Setters8, CellIsWord DEF CopyHere
  <2>2. x = y + 0
    BY <1>1, <1>5
  <2> HIDE DEF x, y
  <2>3. y + 0 \in Int /\ (y + 0) % \o10000 = y
    BY <2>1, WordStays
  <2>4. x \in Int /\ x % \o10000 = y
    BY <2>2, <2>3
  <2> QED
    BY <2>4 DEF x, y
<1>7. cpu' = CarryIfSet(x, d)
  BY <1>2 DEF TAD8
<1>8. EOK(cpu')
  BY <1>2, MemoryInstrOK, Steps8 DEF MemoryInstr, CopyHere
<1> HIDE DEF x
<1>9. /\ d.ac = Cell(cpu.core, f + e) /\ d.core = N.core /\ d.pc = N.pc /\ d.flags = N.flags
      /\ d.ifr = N.ifr /\ d.dfr = N.dfr /\ IsCpu(d)
  BY <1>1, <1>6, AcFrame, Setters8
<1> HIDE DEF d
<1>10. /\ cpu'.ac = d.ac /\ cpu'.core = d.core /\ cpu'.pc = d.pc /\ cpu'.flags = d.flags
       /\ cpu'.ifr = d.ifr /\ cpu'.dfr = d.dfr
  BY <1>7, <1>9, LinkFrame DEF CarryIfSet, ComplementLink
<1> QED
  BY <1>1, <1>8, <1>9, <1>10 DEF CopyLeft

\* A word in the accumulator is stored as it is.
LEMMA AcStays == cpu.ac \in Word => cpu.ac \in Int /\ cpu.ac % \o10000 = cpu.ac
BY WordStays

\* DCA I 11: the accumulator goes to the next place.
LEMMA StoreNextStep ==
  ASSUME NEW f, CopyHere(f), Pdp8Step, cpu.pc < \o7777, cpu.ac \in Word,
         Cell(cpu.core, cpu.pc) = \o3411, NEW p \in Word, Cell(cpu.core, f + \o11) = p,
         NEW e \in Word, e = (p + 1) % \o10000, e # \o11
  PROVE  /\ CopyLeft(cpu', {f + \o11, f + e}) /\ cpu'.pc = cpu.pc + 1 /\ cpu'.ac = 0
         /\ Cell(cpu'.core, f + \o11) = e /\ Cell(cpu'.core, f + e) = cpu.ac
<1>1. /\ E8 = e /\ Indirect /\ EOK(N) /\ IsCpu(N)
      /\ N.ifr = cpu.ifr /\ N.dfr = cpu.dfr /\ N.flags = cpu.flags
      /\ N.pc = cpu.pc + 1 /\ N.ac = cpu.ac
      /\ Cell(N.core, f + \o11) = e
      /\ \A b : b # f + \o11 => Cell(N.core, b) = Cell(cpu.core, b)
  <2>1. Cell(cpu.core, cpu.pc) = 3 * \o1000 + \o400 + \o11
    OBVIOUS
  <2> QED
    BY <2>1, PointerSteps
<1>2. DCA8
  <2>1. G.ir = \o3411
    BY FetchedZero DEF CopyHere
  <2> QED
    BY <2>1, StepOfClass
<1> DEFINE d == CpuWrite(N, f + e, N.ac)
<1>3. f \in Int /\ f + e \in Address /\ WriteD(N, e, N.ac) = d
  <2>1. (N.dfr \div 4) * \o10000 = f
    BY <1>1 DEF CopyHere
  <2> QED
    BY <1>1, <2>1, DataAt
<1>4. f + e # f + \o11
  BY <1>3, WordBounds
<1>5. cpu' = SetAc(d, 0)
  BY <1>1, <1>2, <1>3 DEF DCA8, Store8
<1>6. EOK(cpu')
  BY <1>2, MemoryInstrOK, Steps8 DEF MemoryInstr, CopyHere
<1>7. N.ac \in Int /\ N.ac % \o10000 = cpu.ac
  <2>1. cpu.ac \in Int /\ cpu.ac % \o10000 = cpu.ac
    BY AcStays
  <2>2. N.ac = cpu.ac
    BY <1>1
  <2> HIDE DEF N
  <2> QED
    BY <2>1, <2>2
<1>8. /\ \A g \in Registers \union {"out"} : d[g] = N[g]
      /\ Cell(d.core, f + e) = cpu.ac
      /\ \A b : b # f + e => Cell(d.core, b) = Cell(N.core, b)
  BY <1>1, <1>3, <1>7, WriteFrame
<1>9. IsCpu(d)
  BY <1>1, <1>3, <1>7, CpuWriteOK, Setters8 DEF EOK, ModeNames
<1> HIDE DEF d
<1>10. /\ d.pc = N.pc /\ d.flags = N.flags /\ d.ifr = N.ifr /\ d.dfr = N.dfr
  BY <1>8, RegisterNames
<1>11. /\ cpu'.ac = 0 /\ cpu'.core = d.core /\ cpu'.pc = d.pc /\ cpu'.flags = d.flags
       /\ cpu'.ifr = d.ifr /\ cpu'.dfr = d.dfr
  BY <1>5, <1>9, AcFrame
<1>12. /\ Cell(d.core, f + \o11) = e
       /\ \A b : b \notin {f + \o11, f + e} => Cell(d.core, b) = Cell(cpu.core, b)
  BY <1>1, <1>4, <1>8
<1> QED
  BY <1>1, <1>6, <1>8, <1>10, <1>11, <1>12 DEF CopyLeft

\* ISZ 350: the count steps, and at zero the word behind is skipped.
LEMMA CountStep ==
  ASSUME NEW f, CopyHere(f), Pdp8Step, cpu.pc = \o302, Cell(cpu.core, \o302) = \o2350,
         NEW p \in Word, Cell(cpu.core, \o350) = p, NEW e \in Word, e = (p + 1) % \o10000
  PROVE  /\ CopyLeft(cpu', {\o350}) /\ cpu'.ac = cpu.ac /\ Cell(cpu'.core, \o350) = e
         /\ cpu'.pc = IF e = 0 THEN \o304 ELSE \o303
<1>1. /\ EOK(G) /\ IsCpu(G) /\ G.ifr = cpu.ifr /\ G.dfr = cpu.dfr /\ G.core = cpu.core
      /\ G.ac = cpu.ac /\ G.flags = cpu.flags /\ G.pc = \o303 /\ G.ir = \o2350
  BY FetchedZero DEF CopyHere
<1>2. ISZ8
  BY <1>1, StepOfClass
<1>3. ~Has(G.ir, \o400) /\ PageAddress(G) = \o350
  BY <1>1 DEF Has, PageAddress
<1>4. E8 = \o350 /\ N = G /\ ~Indirect
  BY <1>3 DEF E8, N, EffectiveAddress, Addressed, Indirect, Bit
<1>5. \o350 \in Word /\ \o350 \in Address
  BY AddressBounds DEF Word
<1>6. Operand8 = p
  BY <1>1, <1>4, <1>5, InstructionsZero DEF Operand8, CopyHere
<1> DEFINE c == IF e = 0 THEN Pdp8IncPc(G) ELSE G
           d == CpuWrite(c, \o350, e)
<1>7. /\ EOK(c) /\ IsCpu(c) /\ c.ifr = cpu.ifr /\ c.dfr = cpu.dfr /\ c.core = cpu.core
      /\ c.ac = cpu.ac /\ c.flags = cpu.flags /\ c.pc = IF e = 0 THEN \o304 ELSE \o303
  <2>1. EOK(Pdp8IncPc(G)) /\ IsCpu(Pdp8IncPc(G))
    BY <1>1, Setters8
  <2>2. Pdp8IncPc(G) = SetPc(G, \o304)
    BY <1>1 DEF Pdp8IncPc
  <2>3. \o304 % \o10000 = \o304
    OBVIOUS
  <2> QED
    BY <1>1, <2>1, <2>2, <2>3, PcFrame
<1> HIDE DEF c
<1>8. cpu' = d
  <2>1. WriteI(c, \o350, e) = d
    BY <1>5, <1>7, InstructionsZero DEF CopyHere
  <2> QED
    BY <1>2, <1>4, <1>6, <2>1 DEF ISZ8, Store8, c
<1>9. e \in Int /\ e % \o10000 = e
  <2>1. e \in Int /\ 0 <= e /\ e <= \o7777
    BY WordBounds
  <2> QED
    BY <2>1
<1>10. /\ \A g \in Registers \union {"out"} : d[g] = c[g]
       /\ Cell(d.core, \o350) = e
       /\ \A b : b # \o350 => Cell(d.core, b) = Cell(c.core, b)
  BY <1>5, <1>7, <1>9, WriteFrame
<1>11. EOK(d)
  BY <1>5, <1>7, <1>9, CpuWriteOK DEF EOK, ModeNames
<1> HIDE DEF d
<1>12. /\ d.pc = c.pc /\ d.flags = c.flags /\ d.ifr = c.ifr /\ d.dfr = c.dfr /\ d.ac = c.ac
  BY <1>10, RegisterNames
<1> QED
  BY <1>7, <1>8, <1>10, <1>11, <1>12 DEF CopyLeft

(***************************************************************************)
(* Where the copy can be, when r words have been read, t stored and k      *)
(* counted: what is stored is at its target, the rest still at its source. *)
(***************************************************************************)
CopyLoaded(c) == \A t \in CopyText : Cell(c.core, t[1]) = t[2]
Copied(c, b, r, t, k) ==
  /\ Cell(c.core, b.field + \o10) = (b.from + r) % \o10000
  /\ Cell(c.core, b.field + \o11) = (b.to + t) % \o10000
  /\ Cell(c.core, \o350) = (\o7775 + k) % \o10000
  /\ \A i \in 1 .. 3 :
       Cell(c.core, IF i <= t THEN TargetPlace(b, i) ELSE SourcePlace(b, i)) = b.word[i]
\* The turn that copies word i.
CopyTurn(c, b, i) ==
  \/ c.pc = \o300 /\ c.ac = 0 /\ Copied(c, b, i - 1, i - 1, i - 1)
  \/ c.pc = \o301 /\ c.ac = b.word[i] /\ Copied(c, b, i, i - 1, i - 1)
  \/ c.pc = \o302 /\ c.ac = 0 /\ Copied(c, b, i, i, i - 1)
  \/ c.pc = \o303 /\ c.ac = 0 /\ i < 3 /\ Copied(c, b, i, i, i)
CopyOver(c, b) ==
  /\ Copied(c, b, 3, 3, 3)
  /\ c.pc = IF "RUN" \in c.flags THEN \o304 ELSE \o305
CopyAtWork(b) ==
  /\ CopyHere(b.field) /\ CopyLoaded(cpu)
  /\ \/ "RUN" \in cpu.flags /\ \E i \in 1 .. 3 : CopyTurn(cpu, b, i)
     \/ CopyOver(cpu, b)
CopyStepping(b) ==
  /\ b \in Blocks /\ Separate(b) /\ CopyHere(b.field) /\ CopyLoaded(cpu) /\ Pdp8Step
  /\ "RUN" \in cpu.flags

\* Pointers that step around the end of a field name three different places.
LEMMA PointersStep ==
  ASSUME NEW p \in Word, NEW i \in 1 .. 3
  PROVE  /\ (p + i) % \o10000 \in Word
         /\ \A j \in 1 .. 3 : j # i => (p + j) % \o10000 # (p + i) % \o10000
<1>1. p \in Int /\ 0 <= p /\ p <= \o7777
  BY WordBounds
<1>2. ASSUME NEW n \in Int, 0 <= n, n < 2 * \o10000
      PROVE  n % \o10000 = IF n >= \o10000 THEN n - \o10000 ELSE n
  BY <1>2
<1>3. ASSUME NEW j \in 0 .. 3
      PROVE  (p + j) % \o10000 = IF p + j >= \o10000 THEN p + j - \o10000 ELSE p + j
  <2> DEFINE n == p + j
  <2>1. n \in Int /\ 0 <= n /\ n < 2 * \o10000
    BY <1>1
  <2> HIDE DEF n
  <2>2. n % \o10000 = IF n >= \o10000 THEN n - \o10000 ELSE n
    BY <2>1, <1>2
  <2>3. n - \o10000 = p + j - \o10000
    BY <1>1 DEF n
  <2> QED
    BY <2>2, <2>3 DEF n
<1>4. (p + i) % \o10000 \in Word
  BY <1>1 DEF Word
<1>5. \A j \in 1 .. 3 : j # i => (p + j) % \o10000 # (p + i) % \o10000
  BY <1>1, <1>3
<1> QED
  BY <1>4, <1>5

\* The program's own cells are apart from each other, from its text and from the words.
LEMMA CopyPlaces ==
  ASSUME NEW b \in Blocks, Separate(b)
  PROVE  /\ b.field \in Int /\ b.from \in Word /\ b.to \in Word
         /\ \A i \in 1 .. 3 : b.word[i] \in Word
         /\ b.field + \o10 \notin (\o300 .. \o304) \union {\o350, b.field + \o11}
         /\ b.field + \o11 \notin (\o300 .. \o304) \union {\o350}
         /\ \A i \in 1 .. 3 :
              /\ (b.from + i) % \o10000 # \o10 /\ (b.to + i) % \o10000 # \o11
              /\ SourcePlace(b, i) \notin {\o350, b.field + \o10, b.field + \o11}
              /\ TargetPlace(b, i) \notin (\o300 .. \o304) \union {\o350, b.field + \o10, b.field + \o11}
              /\ \A j \in 1 .. 3 : /\ i < j => TargetPlace(b, i) # SourcePlace(b, j)
                                   /\ j # i => TargetPlace(b, j) # TargetPlace(b, i)
<1>1. /\ b.from \in Word /\ b.to \in Word /\ \A i \in 1 .. 3 : b.word[i] \in Word
      /\ b.field \in {f * \o10000 : f \in 0 .. 7}
  BY DEF Blocks
<1>2. PICK f \in 0 .. 7 : b.field = f * \o10000
  BY <1>1
<1>3. b.field \in Int /\ (b.field = 0 \/ b.field >= \o10000)
  BY <1>2
<1>4. /\ b.field + \o10 \notin (\o300 .. \o304) \union {\o350, b.field + \o11}
      /\ b.field + \o11 \notin (\o300 .. \o304) \union {\o350}
  BY <1>3
<1>5. ASSUME NEW i \in 1 .. 3
      PROVE  /\ SourcePlace(b, i) \notin {\o350, b.field + \o10, b.field + \o11}
             /\ TargetPlace(b, i) \notin (\o300 .. \o304) \union {\o350, b.field + \o10, b.field + \o11}
             /\ \A j \in 1 .. 3 : i < j => TargetPlace(b, i) # SourcePlace(b, j)
  BY DEF Separate, CopyOwn
<1>6. ASSUME NEW i \in 1 .. 3
      PROVE  (b.from + i) % \o10000 # \o10 /\ (b.to + i) % \o10000 # \o11
  BY <1>5 DEF SourcePlace, TargetPlace
<1>7. ASSUME NEW i \in 1 .. 3, NEW j \in 1 .. 3, j # i
      PROVE  TargetPlace(b, j) # TargetPlace(b, i)
  <2> DEFINE x == (b.to + i) % \o10000
             y == (b.to + j) % \o10000
  <2>1. x \in Word /\ y \in Word /\ y # x
    BY <1>1, <1>7, PointersStep
  <2>2. TargetPlace(b, i) = b.field + x /\ TargetPlace(b, j) = b.field + y
    BY DEF TargetPlace
  <2> HIDE DEF x, y
  <2>3. x \in Int /\ y \in Int
    BY <2>1, WordBounds
  <2> QED
    BY <1>3, <2>1, <2>2, <2>3
<1> QED
  BY <1>1, <1>3, <1>4, <1>5, <1>6, <1>7

\* The text, word by word, and that no store changes it.
LEMMA CopyWords ==
  ASSUME NEW c, CopyLoaded(c)
  PROVE  /\ Cell(c.core, \o300) = \o1410 /\ Cell(c.core, \o301) = \o3411
         /\ Cell(c.core, \o302) = \o2350 /\ Cell(c.core, \o303) = \o5300
         /\ Cell(c.core, \o304) = \o7402
BY DEF CopyLoaded, CopyText, PDP8_HLT
LEMMA CopyStays ==
  ASSUME NEW f, CopyHere(f), CopyLoaded(cpu), NEW d, NEW S, CopyLeft(d, S),
         \A a \in \o300 .. \o304 : a \notin S
  PROVE  /\ EOK(d) /\ d.ifr \div 4 = 0 /\ (d.dfr \div 4) * \o10000 = f
         /\ CopyLoaded(d) /\ d.flags = cpu.flags
<1>1. \A t \in CopyText : t[1] \in \o300 .. \o304
  BY DEF CopyText
<1> QED
  BY <1>1 DEF CopyLeft, CopyHere, CopyLoaded

\* The pointer of a turn is the next one of the turn before.
LEMMA PointerGoesOn ==
  ASSUME NEW m \in Int, 0 <= m, m < \o10000 + 3
  PROVE  /\ m % \o10000 \in Word /\ (m + 1) % \o10000 \in Word
         /\ (m + 1) % \o10000 = ((m % \o10000) + 1) % \o10000
<1>1. ASSUME NEW n \in Int, 0 <= n, n < 2 * \o10000
      PROVE  n % \o10000 = IF n >= \o10000 THEN n - \o10000 ELSE n
  BY <1>1
<1> DEFINE p == m % \o10000
<1>2. p = IF m >= \o10000 THEN m - \o10000 ELSE m
  BY <1>1
<1>3. (m + 1) % \o10000 = IF m + 1 >= \o10000 THEN (m + 1) - \o10000 ELSE m + 1
  <2>1. m + 1 \in Int /\ 0 <= m + 1 /\ m + 1 < 2 * \o10000
    OBVIOUS
  <2> QED
    BY <1>1, <2>1
<1> HIDE DEF p
<1>4. p \in Int /\ 0 <= p /\ p <= \o7777
  BY <1>2
<1>5. (p + 1) % \o10000 = IF p + 1 >= \o10000 THEN (p + 1) - \o10000 ELSE p + 1
  <2>1. p + 1 \in Int /\ 0 <= p + 1 /\ p + 1 < 2 * \o10000
    BY <1>4
  <2> QED
    BY <1>1, <2>1
<1>6. (m + 1) % \o10000 = (p + 1) % \o10000
  BY <1>2, <1>3, <1>5
<1>7. p \in Word
  BY <1>4 DEF Word
<1>8. (m + 1) % \o10000 \in Word
  <2> DEFINE e == (m + 1) % \o10000
  <2>1. e \in Int /\ 0 <= e /\ e <= \o7777
    BY <1>3
  <2> HIDE DEF e
  <2>2. e \in Word
    BY <2>1 DEF Word
  <2> QED
    BY <2>2 DEF e
<1> QED
  BY <1>6, <1>7, <1>8 DEF p

\* TAD I 10 reads the word of the turn.
LEMMA CopyReads ==
  ASSUME NEW b, CopyStepping(b), NEW i \in 1 .. 3, cpu.pc = \o300, cpu.ac = 0,
         Copied(cpu, b, i - 1, i - 1, i - 1)
  PROVE  CopyLeft(cpu', {b.field + \o10}) /\ CopyTurn(cpu', b, i)
<1> DEFINE f == b.field
           p == (b.from + (i - 1)) % \o10000
           e == (b.from + i) % \o10000
<1>1. CopyHere(f) /\ Pdp8Step /\ cpu.pc < \o7777 /\ Cell(cpu.core, cpu.pc) = \o1410
  BY CopyWords DEF CopyStepping
<1>2. /\ f \in Int /\ f + \o10 \notin (\o300 .. \o304) \union {\o350, f + \o11}
      /\ e # \o10 /\ p \in Word /\ e \in Word /\ e = (p + 1) % \o10000
      /\ \A j \in 1 .. 3 : SourcePlace(b, j) # f + \o10 /\ TargetPlace(b, j) # f + \o10
  <2>1. b \in Blocks /\ Separate(b)
    BY DEF CopyStepping
  <2>2. b.from \in Word /\ b.field \in Int
    BY <2>1, CopyPlaces
  <2>3. p \in Word /\ e \in Word /\ e = (p + 1) % \o10000
    <3> DEFINE m == b.from + (i - 1)
    <3>1. m \in Int /\ 0 <= m /\ m < \o10000 + 3 /\ b.from + i = m + 1
      BY <2>2, WordBounds
    <3>2. p = m % \o10000 /\ e = (m + 1) % \o10000
      BY <3>1
    <3> HIDE DEF m, p, e
    <3> QED
      BY <3>1, <3>2, PointerGoesOn
  <2>4. e # \o10
    BY <2>1, CopyPlaces
  <2>5. f + \o10 \notin (\o300 .. \o304) \union {\o350, f + \o11}
    BY <2>1, CopyPlaces
  <2>6. \A j \in 1 .. 3 : SourcePlace(b, j) # f + \o10 /\ TargetPlace(b, j) # f + \o10
    BY <2>1, CopyPlaces
  <2> HIDE DEF p, e, f
  <2> QED
    BY <2>2, <2>3, <2>4, <2>5, <2>6 DEF f
<1>3. Cell(cpu.core, f + \o10) = p
  BY DEF Copied
<1>4. SourcePlace(b, i) = f + e /\ Cell(cpu.core, SourcePlace(b, i)) = b.word[i]
  <2>1. ~(i <= i - 1)
    OBVIOUS
  <2>2. Cell(cpu.core, IF i <= i - 1 THEN TargetPlace(b, i) ELSE SourcePlace(b, i)) = b.word[i]
    BY DEF Copied
  <2>3. SourcePlace(b, i) = f + e
    BY DEF SourcePlace
  <2> QED
    BY <2>1, <2>2, <2>3
<1> HIDE DEF p, e
<1>5. /\ CopyLeft(cpu', {f + \o10}) /\ cpu'.pc = cpu.pc + 1
      /\ cpu'.ac = Cell(cpu.core, f + e) /\ Cell(cpu'.core, f + \o10) = e
  BY <1>1, <1>2, <1>3, LoadNextStep
<1>6. \A a : a # f + \o10 => Cell(cpu'.core, a) = Cell(cpu.core, a)
  BY <1>5 DEF CopyLeft
<1>7. Copied(cpu', b, i, i - 1, i - 1)
  <2>1. Cell(cpu'.core, f + \o10) = (b.from + i) % \o10000
    BY <1>5 DEF e
  <2>2. /\ Cell(cpu'.core, f + \o11) = Cell(cpu.core, f + \o11)
        /\ Cell(cpu'.core, \o350) = Cell(cpu.core, \o350)
    BY <1>2, <1>6
  <2>3. \A j \in 1 .. 3 : /\ Cell(cpu'.core, SourcePlace(b, j)) = Cell(cpu.core, SourcePlace(b, j))
                          /\ Cell(cpu'.core, TargetPlace(b, j)) = Cell(cpu.core, TargetPlace(b, j))
    BY <1>2, <1>6
  <2> QED
    BY <2>1, <2>2, <2>3 DEF Copied
<1>8. cpu'.pc = \o301 /\ cpu'.ac = b.word[i]
  BY <1>4, <1>5
<1> QED
  BY <1>5, <1>7, <1>8 DEF CopyTurn

\* DCA I 11 stores it.
LEMMA CopyStores ==
  ASSUME NEW b, CopyStepping(b), NEW i \in 1 .. 3, cpu.pc = \o301, cpu.ac = b.word[i],
         Copied(cpu, b, i, i - 1, i - 1)
  PROVE  CopyLeft(cpu', {b.field + \o11, TargetPlace(b, i)}) /\ CopyTurn(cpu', b, i)
<1> DEFINE f == b.field
           p == (b.to + (i - 1)) % \o10000
           e == (b.to + i) % \o10000
           w == TargetPlace(b, i)
<1>1. CopyHere(f) /\ Pdp8Step /\ cpu.pc < \o7777 /\ Cell(cpu.core, cpu.pc) = \o3411
  BY CopyWords DEF CopyStepping
<1>2. /\ f \in Int /\ f + \o11 \notin (\o300 .. \o304) \union {\o350, f + \o10}
      /\ e # \o11 /\ p \in Word /\ e \in Word /\ e = (p + 1) % \o10000 /\ b.word[i] \in Word
      /\ w \notin {\o350, f + \o10, f + \o11}
      /\ \A j \in 1 .. 3 : /\ SourcePlace(b, j) # f + \o11 /\ TargetPlace(b, j) # f + \o11
                           /\ i < j => w # SourcePlace(b, j)
                           /\ j # i => TargetPlace(b, j) # w
  <2>1. b \in Blocks /\ Separate(b)
    BY DEF CopyStepping
  <2>2. b.to \in Word /\ b.field \in Int /\ b.word[i] \in Word
    BY <2>1, CopyPlaces
  <2>3. p \in Word /\ e \in Word /\ e = (p + 1) % \o10000
    <3> DEFINE m == b.to + (i - 1)
    <3>1. m \in Int /\ 0 <= m /\ m < \o10000 + 3 /\ b.to + i = m + 1
      BY <2>2, WordBounds
    <3>2. p = m % \o10000 /\ e = (m + 1) % \o10000
      BY <3>1
    <3> HIDE DEF m, p, e
    <3> QED
      BY <3>1, <3>2, PointerGoesOn
  <2>4. e # \o11
    BY <2>1, CopyPlaces
  <2>5. f + \o11 \notin (\o300 .. \o304) \union {\o350, f + \o10}
    BY <2>1, CopyPlaces
  <2>6. w \notin {\o350, f + \o10, f + \o11}
    BY <2>1, CopyPlaces
  <2>7. \A j \in 1 .. 3 : /\ SourcePlace(b, j) # f + \o11 /\ TargetPlace(b, j) # f + \o11
                          /\ i < j => w # SourcePlace(b, j)
                          /\ j # i => TargetPlace(b, j) # w
    BY <2>1, CopyPlaces
  <2> HIDE DEF p, e, f, w
  <2> QED
    BY <2>2, <2>3, <2>4, <2>5, <2>6, <2>7 DEF f
<1>3. Cell(cpu.core, f + \o11) = p
  BY DEF Copied
<1>4. w = f + e
  BY DEF TargetPlace
<1> HIDE DEF f, p, e, w
<1> cpu.ac \in Word
  BY <1>2
<1>5. /\ CopyLeft(cpu', {f + \o11, f + e}) /\ cpu'.pc = cpu.pc + 1 /\ cpu'.ac = 0
      /\ Cell(cpu'.core, f + \o11) = e /\ Cell(cpu'.core, f + e) = cpu.ac
  BY <1>1, <1>2, <1>3, StoreNextStep
<1>6. \A a : a # f + \o11 /\ a # w => Cell(cpu'.core, a) = Cell(cpu.core, a)
  BY <1>4, <1>5 DEF CopyLeft
<1>7. Copied(cpu', b, i, i, i - 1)
  <2>1. Cell(cpu'.core, f + \o11) = (b.to + i) % \o10000
    BY <1>5 DEF e
  <2>2. /\ Cell(cpu'.core, f + \o10) = Cell(cpu.core, f + \o10)
        /\ Cell(cpu'.core, \o350) = Cell(cpu.core, \o350)
    BY <1>2, <1>6
  <2>3. ASSUME NEW j \in 1 .. 3
        PROVE  Cell(cpu'.core, IF j <= i THEN TargetPlace(b, j) ELSE SourcePlace(b, j)) = b.word[j]
    <3>1. Cell(cpu.core, IF j <= i - 1 THEN TargetPlace(b, j) ELSE SourcePlace(b, j)) = b.word[j]
      BY DEF Copied
    <3>2. CASE j < i
      <4>1. j <= i - 1 /\ j <= i /\ j # i
        BY <3>2
      <4> QED
        BY <1>2, <1>6, <3>1, <4>1
    <3>3. CASE j = i
      <4>1. j <= i
        BY <3>3
      <4>2. Cell(cpu'.core, w) = b.word[i]
        BY <1>4, <1>5
      <4> QED
        BY <3>3, <4>1, <4>2 DEF w
    <3>4. CASE i < j
      <4>1. ~(j <= i - 1) /\ ~(j <= i)
        BY <3>4
      <4> QED
        BY <1>2, <1>6, <3>1, <3>4, <4>1
    <3> QED
      BY <3>2, <3>3, <3>4
  <2> QED
    BY <2>1, <2>2, <2>3 DEF Copied, f
<1>8. cpu'.pc = \o302
  BY <1>5
<1>9. CopyLeft(cpu', {f + \o11, w})
  BY <1>4, <1>5
<1> QED
  BY <1>5, <1>7, <1>8, <1>9 DEF CopyTurn, w, f

\* ISZ counts it, and leaves the loop after the third.
LEMMA CopyCounts ==
  ASSUME NEW b, CopyStepping(b), NEW i \in 1 .. 3, cpu.pc = \o302, cpu.ac = 0,
         Copied(cpu, b, i, i, i - 1)
  PROVE  CopyLeft(cpu', {\o350}) /\ (CopyTurn(cpu', b, i) \/ CopyOver(cpu', b))
<1> DEFINE f == b.field
           p == (\o7775 + (i - 1)) % \o10000
           e == (\o7775 + i) % \o10000
<1>1. CopyHere(f) /\ Pdp8Step /\ Cell(cpu.core, \o302) = \o2350
  BY CopyWords DEF CopyStepping
<1>2. p \in Word /\ e \in Word /\ e = (p + 1) % \o10000 /\ (e = 0 <=> i = 3)
  <2>1. /\ i = 1 => p = \o7775 /\ e = \o7776
        /\ i = 2 => p = \o7776 /\ e = \o7777
        /\ i = 3 => p = \o7777 /\ e = 0
    OBVIOUS
  <2>2. i \in {1, 2, 3}
    OBVIOUS
  <2> HIDE DEF p, e
  <2> QED
    BY <2>1, <2>2 DEF Word
<1>3. Cell(cpu.core, \o350) = p
  BY DEF Copied
<1> HIDE DEF p, e
<1>4. /\ CopyLeft(cpu', {\o350}) /\ cpu'.ac = cpu.ac /\ Cell(cpu'.core, \o350) = e
      /\ cpu'.pc = IF e = 0 THEN \o304 ELSE \o303
  BY <1>1, <1>2, <1>3, CountStep
<1>5. Copied(cpu', b, i, i, i)
  <2>1. \A a : a # \o350 => Cell(cpu'.core, a) = Cell(cpu.core, a)
    BY <1>4 DEF CopyLeft
  <2>2. /\ f + \o10 # \o350 /\ f + \o11 # \o350
        /\ \A j \in 1 .. 3 : SourcePlace(b, j) # \o350 /\ TargetPlace(b, j) # \o350
    BY CopyPlaces DEF CopyStepping
  <2>3. Cell(cpu'.core, \o350) = (\o7775 + i) % \o10000
    BY <1>4 DEF e
  <2>4. \A j \in 1 .. 3 : /\ Cell(cpu'.core, SourcePlace(b, j)) = Cell(cpu.core, SourcePlace(b, j))
                          /\ Cell(cpu'.core, TargetPlace(b, j)) = Cell(cpu.core, TargetPlace(b, j))
    BY <2>1, <2>2
  <2> QED
    BY <2>1, <2>2, <2>3, <2>4 DEF Copied
<1>6. CASE i < 3
  BY <1>2, <1>4, <1>5, <1>6 DEF CopyTurn
<1>7. CASE i = 3
  <2>1. cpu'.pc = \o304 /\ "RUN" \in cpu'.flags
    BY <1>2, <1>4, <1>7 DEF CopyLeft, CopyStepping
  <2> QED
    BY <1>4, <1>5, <1>7, <2>1 DEF CopyOver
<1> QED
  BY <1>6, <1>7

\* JMP begins the next turn.
LEMMA CopyRepeats ==
  ASSUME NEW b, CopyStepping(b), NEW i \in 1 .. 3, i < 3, cpu.pc = \o303, cpu.ac = 0,
         Copied(cpu, b, i, i, i)
  PROVE  CopyLeft(cpu', {}) /\ \E j \in 1 .. 3 : CopyTurn(cpu', b, j)
<1>1. /\ EOK(cpu) /\ cpu.ifr \div 4 = 0 /\ Pdp8Step /\ Cell(cpu.core, \o303) = \o5000 + \o300
  BY CopyWords DEF CopyStepping, CopyHere
<1>2. /\ EOK(cpu') /\ cpu'.ifr = cpu.ifr /\ cpu'.dfr = cpu.dfr /\ cpu'.core = cpu.core
      /\ cpu'.flags = cpu.flags /\ cpu'.pc = \o300 /\ cpu'.ac = cpu.ac
  BY <1>1, JumpZero
<1>3. PICK j \in 1 .. 3 : j = i + 1 /\ j - 1 = i
  OBVIOUS
<1>4. Copied(cpu', b, j - 1, j - 1, j - 1)
  BY <1>2, <1>3 DEF Copied
<1> QED
  BY <1>2, <1>4 DEF CopyLeft, CopyTurn

\* A step of the machine is a step of the program.
LEMMA CopyMoves ==
  ASSUME NEW b \in Blocks, Separate(b), CopyAtWork(b), Pdp8Step, "RUN" \in cpu.flags
  PROVE  CopyAtWork(b)'
<1>1. CopyHere(b.field) /\ CopyLoaded(cpu) /\ CopyStepping(b)
  BY DEF CopyAtWork, CopyStepping
<1>2. CASE CopyOver(cpu, b)
  <2>1. /\ EOK(cpu) /\ cpu.ifr \div 4 = 0 /\ cpu.pc = \o304 /\ cpu.pc < \o7777
        /\ Cell(cpu.core, cpu.pc) = \o7402
    BY <1>1, <1>2, CopyWords DEF CopyOver, CopyHere
  <2>2. /\ EOK(cpu') /\ cpu'.ifr = cpu.ifr /\ cpu'.dfr = cpu.dfr /\ cpu'.core = cpu.core
        /\ cpu'.pc = \o305 /\ "RUN" \notin cpu'.flags
    BY <2>1, StopZero
  <2>3. CopyOver(cpu', b)
    BY <1>2, <2>2 DEF CopyOver, Copied
  <2> QED
    BY <1>1, <2>2, <2>3 DEF CopyAtWork, CopyHere, CopyLoaded
<1>3. ASSUME NEW S, CopyLeft(cpu', S), \A a \in \o300 .. \o304 : a \notin S,
             (\E j \in 1 .. 3 : CopyTurn(cpu', b, j)) \/ CopyOver(cpu', b)
      PROVE  CopyAtWork(b)'
  <2>1. /\ EOK(cpu') /\ cpu'.ifr \div 4 = 0 /\ (cpu'.dfr \div 4) * \o10000 = b.field
        /\ CopyLoaded(cpu') /\ "RUN" \in cpu'.flags
    BY <1>1, <1>3, CopyStays
  <2> QED
    BY <1>3, <2>1 DEF CopyAtWork, CopyHere
<1>4. /\ \A a \in \o300 .. \o304 : a \notin {} /\ a \notin {\o350}
      /\ \A a \in \o300 .. \o304 : a \notin {b.field + \o10}
      /\ \A i \in 1 .. 3 : \A a \in \o300 .. \o304 : a \notin {b.field + \o11, TargetPlace(b, i)}
  BY CopyPlaces
<1>5. CASE \E i \in 1 .. 3 : CopyTurn(cpu, b, i)
  <2> PICK i \in 1 .. 3 : CopyTurn(cpu, b, i)
    BY <1>5
  <2>1. CASE cpu.pc = \o300 /\ cpu.ac = 0 /\ Copied(cpu, b, i - 1, i - 1, i - 1)
    <3> DEFINE S == {b.field + \o10}
    <3>1. CopyLeft(cpu', S) /\ CopyTurn(cpu', b, i)
      BY <1>1, <2>1, CopyReads
    <3>2. \A a \in \o300 .. \o304 : a \notin S
      BY <1>4
    <3> HIDE DEF S
    <3> QED
      BY <1>3, <3>1, <3>2
  <2>2. CASE cpu.pc = \o301 /\ cpu.ac = b.word[i] /\ Copied(cpu, b, i, i - 1, i - 1)
    <3> DEFINE S == {b.field + \o11, TargetPlace(b, i)}
    <3>1. CopyLeft(cpu', S) /\ CopyTurn(cpu', b, i)
      BY <1>1, <2>2, CopyStores
    <3>2. \A a \in \o300 .. \o304 : a \notin S
      BY <1>4
    <3> HIDE DEF S
    <3> QED
      BY <1>3, <3>1, <3>2
  <2>3. CASE cpu.pc = \o302 /\ cpu.ac = 0 /\ Copied(cpu, b, i, i, i - 1)
    BY <1>1, <1>3, <1>4, <2>3, CopyCounts
  <2>4. CASE cpu.pc = \o303 /\ cpu.ac = 0 /\ i < 3 /\ Copied(cpu, b, i, i, i)
    BY <1>1, <1>3, <1>4, <2>4, CopyRepeats
  <2> QED
    BY <2>1, <2>2, <2>3, <2>4 DEF CopyTurn
<1> QED
  BY <1>2, <1>5 DEF CopyAtWork

\* A key struck is not noticed.
LEMMA KeyUnnoticedByCopy ==
  ASSUME NEW b, CopyAtWork(b), KeyStruck
  PROVE  CopyAtWork(b)'
<1>1. StartOK(cpu)
  BY StartIsOK DEF CopyAtWork, CopyHere, EOK
<1>2. EOK(cpu')
  BY KeyStruckOK DEF CopyAtWork, CopyHere, EOK, ModeNames
<1>3. /\ cpu'.core = cpu.core /\ cpu'.ifr = cpu.ifr /\ cpu'.dfr = cpu.dfr
      /\ cpu'.flags = cpu.flags /\ cpu'.pc = cpu.pc /\ cpu'.ac = cpu.ac
  BY <1>1, KeyStruckFrame
<1>4. \A r, t, k : Copied(cpu, b, r, t, k) => Copied(cpu', b, r, t, k)
  BY <1>3 DEF Copied
<1>5. /\ \A i \in 1 .. 3 : CopyTurn(cpu, b, i) => CopyTurn(cpu', b, i)
      /\ CopyOver(cpu, b) => CopyOver(cpu', b)
  BY <1>3, <1>4 DEF CopyTurn, CopyOver
<1> QED
  BY <1>2, <1>3, <1>5 DEF CopyAtWork, CopyHere, CopyLoaded

(***************************************************************************)
(* A block is copied on any machine: whatever its three words, whatever    *)
(* data field and places in it the pointers name, also around the end of   *)
(* the field, and whatever else the machine holds, as long as no copy      *)
(* falls on the program or on a word still to be read.  The machine halts  *)
(* nowhere but at the HLT, with each word at its target.                   *)
(***************************************************************************)
THEOREM BlocksAreCopied ==
  ASSUME NEW b \in Blocks, Separate(b), \A c \in Starts : CopyStart(c, b)
  PROVE  Spec => []( /\ ~Running => Pdp8Done(CopyHalt)
                     /\ BlockIsAt(b)
                     /\ b.from \in {\o777, \o1177} /\ (\A i \in 1 .. 3 : b.word[i] = i * \o111)
                          => BlockIsCopied )
<1>1. Init => CopyAtWork(b)
  <2> SUFFICES ASSUME NEW c \in Starts, cpu = c PROVE CopyAtWork(b)
    BY DEF Init
  <2>1. StartOK(c) /\ CopyStart(c, b)
    BY StartsAssumption
  <2>2. EOK(c)
    BY <2>1 DEF CopyStart, StartOK, EOK, OK
  <2>3. Copied(c, b, 0, 0, 0)
    <3>1. b.from + 0 = b.from /\ b.to + 0 = b.to /\ b.from % \o10000 = b.from /\ b.to % \o10000 = b.to
      BY CopyPlaces, WordStays
    <3>2. \o7775 = (\o7775 + 0) % \o10000
      OBVIOUS
    <3>3. \A i \in 1 .. 3 : ~(i <= 0)
      OBVIOUS
    <3> QED
      BY <2>1, <3>1, <3>2, <3>3 DEF Copied, CopyStart
  <2>4. CopyTurn(c, b, 1)
    <3>1. 1 - 1 = 0
      OBVIOUS
    <3> QED
      BY <2>1, <2>3, <3>1 DEF CopyTurn, CopyStart
  <2>5. 1 \in 1 .. 3
    OBVIOUS
  <2> QED
    BY <2>1, <2>2, <2>4, <2>5 DEF CopyStart, CopyAtWork, CopyHere, CopyLoaded
<1>2. CopyAtWork(b) /\ [Next]_cpu => CopyAtWork(b)'
  <2> SUFFICES ASSUME CopyAtWork(b), [Next]_cpu PROVE CopyAtWork(b)'
    OBVIOUS
  <2>1. CASE Step
    <3>1. ~LincMode /\ Running
      BY <2>1, StepModes DEF CopyAtWork, CopyHere, EOK, OK, LincMode
    <3>2. Pdp8Step
      BY <2>1, <3>1, StepModes DEF Step
    <3> QED
      BY <3>1, <3>2, CopyMoves DEF Running
  <2>2. CASE KeyStruck
    BY <2>2, KeyUnnoticedByCopy
  <2>3. CASE Halted \/ UNCHANGED cpu
    BY <2>3 DEF Halted, CopyAtWork, CopyHere
  <2> QED
    BY <2>1, <2>2, <2>3 DEF Next
<1>3. ASSUME CopyAtWork(b), "RUN" \notin cpu.flags
      PROVE  /\ Pdp8Done(CopyHalt) /\ BlockIsAt(b)
             /\ b.from \in {\o777, \o1177} /\ (\A i \in 1 .. 3 : b.word[i] = i * \o111)
                  => BlockIsCopied
  <2>1. CopyHere(b.field) /\ Copied(cpu, b, 3, 3, 3) /\ cpu.pc = \o305
    BY <1>3 DEF CopyAtWork, CopyOver
  <2>2. Pdp8Done(CopyHalt)
    BY <1>3, <2>1 DEF Pdp8Done, Running, CopyHalt, CopyHere, EOK, OK
  <2>3. /\ Cell(cpu.core, b.field + \o10) = (b.from + 3) % \o10000
        /\ Cell(cpu.core, b.field + \o11) = (b.to + 3) % \o10000
        /\ \A i \in 1 .. 3 : Cell(cpu.core, TargetPlace(b, i)) = b.word[i]
    <3>1. \A i \in 1 .. 3 : i <= 3
      OBVIOUS
    <3> QED
      BY <2>1, <3>1 DEF Copied
  <2>4. BlockIsAt(b)
    BY <2>3 DEF BlockIsAt, Word8
  <2>5. ASSUME b.from \in {\o777, \o1177}, \A i \in 1 .. 3 : b.word[i] = i * \o111
        PROVE  BlockIsCopied
    <3>1. (cpu.dfr \div 4) * \o10000 = b.field
      BY <2>1 DEF CopyHere
    <3>2. (b.from + 3) % \o10000 \in {\o1002, \o1202}
      BY <2>5
    <3>3. ASSUME NEW k \in 0 .. 2
          PROVE  Cell(cpu.core, b.field + ((((b.to + 3) % \o10000) - k) % \o10000)) = (3 - k) * \o111
      <4>1. PICK i \in 1 .. 3 : i = 3 - k
        OBVIOUS
      <4>2. b.to \in Int /\ 0 <= b.to /\ b.to <= \o7777
        BY CopyPlaces, WordBounds
      <4>3. (((b.to + 3) % \o10000) - k) % \o10000 = (b.to + i) % \o10000
        BY <4>1, <4>2
      <4> QED
        BY <2>3, <2>5, <4>1, <4>3 DEF TargetPlace
    <3> QED
      BY <2>3, <3>1, <3>2, <3>3 DEF BlockIsCopied, Word8
  <2> QED
    BY <2>2, <2>4, <2>5
<1>4. CopyAtWork(b) => /\ ~Running => Pdp8Done(CopyHalt)
                       /\ BlockIsAt(b)
                       /\ b.from \in {\o777, \o1177} /\ (\A i \in 1 .. 3 : b.word[i] = i * \o111)
                            => BlockIsCopied
  <2>1. CASE Running
    BY <2>1 DEF BlockIsAt, BlockIsCopied, Pdp8Done
  <2>2. CASE ~Running
    BY <1>3, <2>2 DEF Running
  <2> QED
    BY <2>1, <2>2
<1> QED
  BY <1>1, <1>2, <1>4, PTL DEF Spec
=============================================================================
