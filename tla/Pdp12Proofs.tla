------------------------------ MODULE Pdp12Proofs ---------------------------
(***************************************************************************)
(* The PDP-8 instructions keep the invariant of CpuProofs, as LincProofs   *)
(* shows of the others.  So the machine keeps it whatever the operator     *)
(* starts it with, whatever core holds and whatever is typed; and from     *)
(* that invariant no step breaks what Pdp12 and Terminal promise of steps. *)
(***************************************************************************)
EXTENDS Terminal, LincProofs

EOK(c) == OK(c, "pdp8")

\* The lemmas of CpuProofs, for a machine in PDP-8 mode.
LEMMA Setters8 ==
  ASSUME NEW c, EOK(c)
  PROVE  /\ IsCpu(c)
         /\ \A n \in Int : EOK(SetAc(c, n)) /\ EOK(SetPc(c, n))
         /\ \A n : EOK(SetL(c, n))
         /\ EOK(Pdp8IncPc(c))
         /\ EOK(ClearFlag(c, "RUN"))
<1>1. "pdp8" \in ModeNames
  BY DEF ModeNames
<1>2. IsCpu(c)
  BY DEF EOK, OK
<1>3. \A n \in Int : EOK(SetAc(c, n)) /\ EOK(SetPc(c, n))
  BY <1>1, SetAcOK, SetPcOK DEF EOK
<1>4. \A n : EOK(SetL(c, n))
  BY <1>1, SetLOK DEF EOK
<1>5. EOK(Pdp8IncPc(c)) /\ EOK(ClearFlag(c, "RUN"))
  BY <1>1, Pdp8IncPcOK, ClearFlagOK DEF EOK
<1> QED
  BY <1>2, <1>3, <1>4, <1>5

(***************************************************************************)
(* How an instruction moves on from cpu: the invariant still holds, and    *)
(* the fields, the key flag and the core outside the two fields are kept.  *)
(***************************************************************************)
Reach8 == {a \in Address : a \div \o10000 \in {cpu.ifr \div 4, cpu.dfr \div 4}}
Follows8(c) == EOK(c) /\ Calm(cpu, c, Reach8)

\* The accessors an instruction uses.
LEMMA Steps8 ==
  ASSUME NEW c, Follows8(c)
  PROVE  /\ IsCpu(c) /\ EOK(c)
         /\ \A n \in Int : Follows8(SetAc(c, n)) /\ Follows8(SetPc(c, n))
         /\ \A n : Follows8(SetL(c, n))
         /\ Follows8(Pdp8IncPc(c))
         /\ Follows8(ClearFlag(c, "RUN"))
<1> DEFINE R == Reach8
<1>1. EOK(c) /\ Calm(cpu, c, R) /\ IsCpu(c)
  BY Setters8 DEF Follows8
<1> HIDE DEF R
<1>2. \A n \in Int : EOK(SetAc(c, n)) /\ EOK(SetPc(c, n))
  BY <1>1, Setters8
<1>3. \A n : Calm(cpu, SetAc(c, n), R) /\ Calm(cpu, SetPc(c, n), R)
  BY <1>1, CalmSetters
<1>4. \A n : EOK(SetL(c, n)) /\ Calm(cpu, SetL(c, n), R)
  BY <1>1, Setters8, CalmSetters
<1>5. EOK(Pdp8IncPc(c)) /\ Calm(cpu, Pdp8IncPc(c), R)
  BY <1>1, Setters8, CalmSetters
<1>6. EOK(ClearFlag(c, "RUN")) /\ Calm(cpu, ClearFlag(c, "RUN"), R)
  BY <1>1, Setters8, CalmSetters
<1> QED
  BY <1>1, <1>2, <1>3, <1>4, <1>5, <1>6 DEF Follows8, R

\* A PDP-8 address always names a word of the core, in the 4096-word field of f.
LEMMA Pdp8AddressInCore ==
  ASSUME NEW f \in Field, NEW a \in Int
  PROVE  Pdp8Address(f, a) \in Address /\ Pdp8Address(f, a) \div \o10000 = f \div 4
<1> DEFINE g == f \div 4
           b == a % \o10000
<1>1. g \in Int /\ 0 <= g /\ g <= 7
  BY DEF Field
<1>2. b \in Int /\ 0 <= b /\ b <= \o7777
  OBVIOUS
<1>3. Pdp8Address(f, a) = b + g * \o10000
  BY DEF Pdp8Address
<1> HIDE DEF g, b
<1>4. b + g * \o10000 \in Address
  <2>1. b + g * \o10000 \in Int /\ 0 <= b + g * \o10000 /\ b + g * \o10000 <= \o77777
    BY <1>1, <1>2
  <2> QED
    BY <2>1, AddressBounds
<1>5. (b + g * \o10000) \div \o10000 = g
  <2> DEFINE m == \o10000
  <2>1. m \in Int /\ m > 0 /\ b < m
    BY <1>2
  <2> HIDE DEF m
  <2>2. (m * g + b) \div m = g
    BY <1>1, <1>2, <2>1, Quotient
  <2>3. b + g * m = m * g + b
    BY <1>1, <1>2, <2>1
  <2>4. (b + g * m) \div m = g
    BY <2>2, <2>3
  <2> QED
    BY <2>4 DEF m
<1> QED
  BY <1>3, <1>4, <1>5 DEF g

\* Every read is a word.
LEMMA Pdp8ReadWord ==
  ASSUME NEW c, IsCpu(c), NEW a
  PROVE  /\ ReadI(c, a) \in Word /\ ReadI(c, a) \in Int
         /\ ReadD(c, a) \in Word /\ ReadD(c, a) \in Int
<1>1. ReadI(c, a) \in Word /\ ReadD(c, a) \in Word
  BY CpuReadWord DEF ReadI, ReadD
<1> QED
  BY <1>1, WordBounds

\* Every write is a write into core, in one of the two fields.
LEMMA Pdp8WriteOK ==
  ASSUME NEW c, Follows8(c), NEW a \in Int, NEW n \in Int
  PROVE  Follows8(WriteI(c, a, n)) /\ Follows8(WriteD(c, a, n))
<1>1. EOK(c) /\ IsCpu(c) /\ c.ifr \in Field /\ c.dfr \in Field
  BY Steps8, Types
<1>2. ASSUME NEW f \in {c.ifr, c.dfr}
      PROVE  Follows8(CpuWrite(c, Pdp8Address(f, a), n))
  <2> DEFINE ma == Pdp8Address(f, a)
  <2>1. ma \in Address /\ ma \div \o10000 = f \div 4
    BY <1>1, <1>2, Pdp8AddressInCore
  <2> HIDE DEF ma
  <2>2. ma \in Reach8
    BY <1>2, <2>1 DEF Reach8, Follows8, Calm
  <2>3. EOK(CpuWrite(c, ma, n))
    BY <1>1, <2>1, CpuWriteOK DEF EOK, ModeNames
  <2>4. Calm(cpu, CpuWrite(c, ma, n), Reach8)
    BY <1>1, <2>1, <2>2, CalmWrite DEF Follows8
  <2> QED
    BY <2>3, <2>4 DEF Follows8, ma
<1> QED
  BY <1>2 DEF WriteI, WriteD

\* The fetch.
LEMMA Pdp8FetchOK ==
  ASSUME EOK(cpu)
  PROVE  /\ Follows8(G)
         /\ G.core = cpu.core /\ G.key = cpu.key
<1> DEFINE w == ReadI(cpu, cpu.pc)
           p == (cpu.pc + 1) % \o10000
           d == [cpu EXCEPT !["ir"] = w]
           e == [d EXCEPT !.out = {}]
<1>1. w \in Word /\ IsCpu(cpu)
  BY Pdp8ReadWord, Setters8
<1>2. G = Pdp8IncPc(e)
  BY DEF G, Pdp8Fetch
<1> HIDE DEF w
<1>3. EOK(d) /\ IsCpu(d)
  BY <1>1, SetIrOK, Setters8 DEF EOK, ModeNames
<1>4. "ir" \in Registers \ Quiet
  BY RegisterNames DEF Quiet
<1>5. Calm(cpu, cpu, Reach8)
  BY DEF Calm
<1>6. Calm(cpu, d, Reach8) /\ d.core = cpu.core /\ d.key = cpu.key
  BY <1>1, <1>4, <1>5, CalmRegister, OtherRegisters, RegisterNames
<1> HIDE DEF d
<1>7. EOK(e) /\ Calm(cpu, e, Reach8) /\ e.core = d.core /\ e["key"] = d["key"]
  BY <1>3, <1>6, SetOut, CalmOut, OutFrame, RegisterNames DEF EOK, ModeNames
<1> HIDE DEF e
<1>8. Follows8(e) /\ IsCpu(e)
  BY <1>7, Setters8 DEF Follows8
<1>9. Pdp8IncPc(e).core = e.core /\ Pdp8IncPc(e).key = e.key
  BY <1>8, PcFrame DEF Pdp8IncPc
<1> QED
  BY <1>2, <1>6, <1>7, <1>8, <1>9, Steps8

\* The fetch, register by register.
LEMMA Fetch8Registers ==
  ASSUME EOK(cpu)
  PROVE  /\ G.ac = cpu.ac /\ G.l = cpu.l /\ G.flags = cpu.flags
         /\ G.ifr = cpu.ifr /\ G.dfr = cpu.dfr /\ G.core = cpu.core
         /\ G.ir = ReadI(cpu, cpu.pc) /\ G.pc = (cpu.pc + 1) % \o10000
<1> DEFINE w == ReadI(cpu, cpu.pc)
           e == [cpu EXCEPT !.ir = w, !.out = {}]
           p == (cpu.pc + 1) % \o10000
           d == [g \in Registers \union {"core", "out"} |->
                   IF g = "pc" THEN p ELSE IF g = "out" THEN {} ELSE IF g = "ir" THEN w ELSE cpu[g]]
<1>1. IsCpu(cpu)
  BY Setters8
<1>2. G = [e EXCEPT !.pc = (e.pc + 1) % \o10000]
  BY DEF G, Pdp8Fetch, Pdp8IncPc, SetPc
<1> HIDE DEF w
<1>3. e.pc = cpu.pc
  BY <1>1, RegisterNames DEF IsCpu
<1>4. G = [[[cpu EXCEPT !.ir = w] EXCEPT !.out = {}] EXCEPT !.pc = p]
  BY <1>2, <1>3
<1> HIDE DEF p
<1>5. G = d
  BY <1>1, <1>4 DEF IsCpu
<1>6. /\ d.ac = cpu.ac /\ d.l = cpu.l /\ d.flags = cpu.flags
      /\ d.ifr = cpu.ifr /\ d.dfr = cpu.dfr /\ d.core = cpu.core
      /\ d.ir = w /\ d.pc = p
  BY RegisterNames
<1> HIDE DEF d
<1> QED
  BY <1>5, <1>6 DEF w, p
----------------------------------------------------------------------------
\* The effective address is an integer, and stepping an auto-index pointer is a write.
LEMMA PageInteger ==
  ASSUME NEW c, Follows8(c)
  PROVE  PageAddress(c) \in Int /\ Pointer(c) \in Int
<1>1. c.pc \in Int /\ c.ir \in Int
  BY Integral, Steps8
<1>2. PageAddress(c) \in Int
  BY <1>1 DEF PageAddress
<1>3. Pointer(c) \in Int
  BY Pdp8ReadWord, Steps8 DEF Pointer
<1> QED
  BY <1>2, <1>3

\* The auto-index pointer is stepped in the field it lives in.
LEMMA AddressedOK ==
  ASSUME NEW c, Follows8(c)
  PROVE  EffectiveAddress(c) \in Int /\ Follows8(Addressed(c))
<1> DEFINE p == PageAddress(c)
           q == Pointer(c)
<1>1. p \in Int /\ q \in Int
  BY PageInteger
<1> HIDE DEF p, q
<1>2. q + 1 \in Int /\ (q + 1) % \o10000 \in Int
  BY <1>1
<1>3. Follows8(WriteI(c, p, q + 1)) /\ Follows8(WriteD(c, p, q + 1))
  BY <1>1, <1>2, Pdp8WriteOK
<1> QED
  BY <1>1, <1>2, <1>3 DEF EffectiveAddress, Addressed, p, q

\* The carry into the link.
LEMMA CarryIfSetOK ==
  ASSUME NEW c, Follows8(c), NEW t
  PROVE  Follows8(CarryIfSet(t, c))
BY Steps8 DEF CarryIfSet, ComplementLink

\* The state after the fetch, the effective address and the operand.
LEMMA Fetched8 ==
  ASSUME EOK(cpu)
  PROVE  /\ Follows8(G) /\ Follows8(N) /\ E8 \in Int /\ Operand8 \in Int
         /\ \A n \in Int : \A d : Follows8(d) => Follows8(Store8(d, n))
<1>1. Follows8(G)
  BY Pdp8FetchOK
<1>2. Follows8(N) /\ E8 \in Int
  BY <1>1, AddressedOK DEF N, E8
<1>3. Operand8 \in Int
  BY <1>2, Pdp8ReadWord, Steps8 DEF Operand8
<1>4. \A n \in Int : \A d : Follows8(d) => Follows8(Store8(d, n))
  BY <1>2, Pdp8WriteOK DEF Store8
<1> QED
  BY <1>1, <1>2, <1>3, <1>4
----------------------------------------------------------------------------
\* Every memory reference instruction.
LEMMA MemoryInstrOK ==
  ASSUME EOK(cpu), MemoryInstr
  PROVE  Follows8(cpu')
<1>1. Follows8(N) /\ E8 \in Int /\ Operand8 \in Int
  BY Fetched8
<1>2. N.ac \in Int /\ N.pc \in Int
  BY <1>1, Integral, Steps8
<1>3. CASE AND8
  <2>1. FromBits(Bits(N.ac) \intersect Bits(Operand8)) \in Int
    BY FromBitsBound
  <2> QED
    BY <1>1, <1>3, <2>1, Steps8 DEF AND8
<1>4. CASE TAD8
  <2>1. Operand8 + N.ac \in Int
    BY <1>1, <1>2
  <2>2. Follows8(SetAc(N, Operand8 + N.ac))
    BY <1>1, <2>1, Steps8
  <2> QED
    BY <1>4, <2>2, CarryIfSetOK DEF TAD8
<1>5. CASE ISZ8
  <2>1. (Operand8 + 1) % \o10000 \in Int
    BY <1>1
  <2>2. Follows8(N) /\ Follows8(Pdp8IncPc(N))
    BY <1>1, Steps8
  <2> QED
    BY <1>5, <2>1, <2>2, Fetched8 DEF ISZ8
<1>6. CASE DCA8
  <2>1. Follows8(Store8(N, N.ac))
    BY <1>1, <1>2, Fetched8
  <2> QED
    BY <1>6, <2>1, Steps8 DEF DCA8
<1>7. CASE JMS8
  <2>1. Follows8(WriteI(N, E8, N.pc)) /\ E8 + 1 \in Int
    BY <1>1, <1>2, Pdp8WriteOK
  <2> QED
    BY <1>7, <2>1, Steps8 DEF JMS8
<1>8. CASE JMP8
  BY <1>1, <1>8, Steps8 DEF JMP8
<1> QED
  BY <1>3, <1>4, <1>5, <1>6, <1>7, <1>8 DEF MemoryInstr
----------------------------------------------------------------------------
\* The parts of a Group 1 word, each on whatever the part before it left.
LEMMA G1ClearOK ==
  ASSUME NEW c, Follows8(c)
  PROVE  Follows8(G1Clear(c))
<1> DEFINE d == Micro(\o200, c, SetAc(c, 0))
<1>1. Follows8(d)
  BY Steps8 DEF Micro
<1>2. G1Clear(c) = Micro(\o100, d, SetL(d, 0))
  BY DEF G1Clear
<1> HIDE DEF d
<1> QED
  BY <1>1, <1>2, Steps8 DEF Micro

\* CMA and CML.
LEMMA G1ComplementOK ==
  ASSUME NEW c, Follows8(c)
  PROVE  Follows8(G1Complement(c))
<1> DEFINE d == Micro(\o40, c, SetAc(c, Comp(c.ac)))
<1>1. Comp(c.ac) \in Int
  <2>1. c.ac \in Int
    BY Integral, Steps8
  <2> QED
    BY <2>1 DEF Comp
<1>2. Follows8(d)
  BY <1>1, Steps8 DEF Micro
<1>3. G1Complement(c) = Micro(\o20, d, ComplementLink(d))
  BY DEF G1Complement
<1> HIDE DEF d
<1> QED
  BY <1>2, <1>3, Steps8 DEF Micro, ComplementLink

\* IAC with its carry.
LEMMA G1IncrementOK ==
  ASSUME NEW c, Follows8(c)
  PROVE  Follows8(G1Increment(c))
<1>1. c.ac \in Int
  BY Integral, Steps8
<1>2. c.ac + 1 \in Int
  BY <1>1
<1>3. Follows8(SetAc(c, c.ac + 1))
  BY <1>2, Steps8
<1> QED
  BY <1>3, CarryIfSetOK DEF G1Increment, Micro

\* A rotation of L and AC by one place or two.
LEMMA TurnInteger ==
  ASSUME NEW c, Follows8(c)
  PROVE  /\ RotateLeft(WithLink(c.ac, c.l), Places(c), 13) \in Int
         /\ RotateRight(WithLink(c.ac, c.l), Places(c), 13) \in Int
<1>1. c.ac \in Int /\ c.l \in Int
  BY Integral, Steps8
<1>2. WithLink(c.ac, c.l) \in Int
  BY <1>1 DEF WithLink
<1> DEFINE t == WithLink(c.ac, c.l)
<1> HIDE DEF t
<1>3. \A r \in {1, 2} : RotateLeft(t, r, 13) \in Int /\ RotateRight(t, r, 13) \in Int
  <2>1. Pow2(1) = 2 /\ Pow2(2) = 4 /\ Pow2(11) = 2048 /\ Pow2(12) = 4096
    BY DEF Pow2, Powers
  <2>2. t \in Int
    BY <1>2 DEF t
  <2> QED
    BY <2>1, <2>2 DEF RotateLeft, RotateRight, Join
<1>4. Places(c) \in {1, 2}
  BY DEF Places
<1> QED
  BY <1>3, <1>4 DEF t

\* Storing a rotation in AC and L.
LEMMA RotatedTOK ==
  ASSUME NEW c, Follows8(c), NEW t \in Int
  PROVE  Follows8(Rotated(c, t))
<1>1. Follows8(SetAc(c, t))
  BY Steps8
<1> QED
  BY <1>1, Steps8 DEF Rotated

\* The right rotation, then the left one.
LEMMA G1RotateOK ==
  ASSUME NEW c, Follows8(c)
  PROVE  Follows8(G1Rotate(c))
<1> DEFINE d == Micro(\o10, c, Rotated(c, RotateRight(WithLink(c.ac, c.l), Places(c), 13)))
<1>1. Follows8(d)
  BY TurnInteger, RotatedTOK DEF Micro
<1>2. G1Rotate(c) = Micro(\o4, d, Rotated(d, RotateLeft(WithLink(d.ac, d.l), Places(d), 13)))
  BY DEF G1Rotate
<1> HIDE DEF d
<1>3. Follows8(Rotated(d, RotateLeft(WithLink(d.ac, d.l), Places(d), 13)))
  BY <1>1, TurnInteger, RotatedTOK
<1> QED
  BY <1>1, <1>2, <1>3 DEF Micro
----------------------------------------------------------------------------
\* The parts of a Group 2 word.
LEMMA Group2PartsOK ==
  ASSUME NEW c, Follows8(c)
  PROVE  Follows8(G2Skip(c)) /\ Follows8(G2Clear(c)) /\ Follows8(G2Switches(c)) /\ Follows8(G2Halt(c))
<1>1. c.rs \in Int
  BY Integral, Steps8
<1>2. Follows8(G2Skip(c))
  BY Steps8 DEF G2Skip
<1>3. Follows8(G2Clear(c)) /\ Follows8(G2Halt(c))
  <2>1. Follows8(SetAc(c, 0)) /\ Follows8(ClearFlag(c, "RUN"))
    BY Steps8
  <2> QED
    BY <2>1 DEF G2Clear, G2Halt, Micro
<1>4. Follows8(G2Switches(c))
  <2>1. Follows8(SetAc(c, c.rs))
    BY <1>1, Steps8
  <2> QED
    BY <2>1 DEF G2Switches, Micro
<1> QED
  BY <1>2, <1>3, <1>4

\* Every operate instruction.
LEMMA OperateInstrOK ==
  ASSUME EOK(cpu), OperateInstr
  PROVE  Follows8(cpu')
<1>1. Follows8(G)
  BY Fetched8
<1>2. CASE Group1
  <2>1. Follows8(G1Complement(G1Clear(G)))
    BY <1>1, G1ClearOK, G1ComplementOK
  <2>2. Follows8(G1Rotate(G1Increment(G1Complement(G1Clear(G)))))
    BY <2>1, G1IncrementOK, G1RotateOK
  <2> QED
    BY <1>2, <2>2 DEF Group1
<1>3. CASE Group2
  <2>1. Follows8(G2Clear(G2Skip(G)))
    BY <1>1, Group2PartsOK
  <2>2. Follows8(G2Halt(G2Switches(G2Clear(G2Skip(G)))))
    BY <2>1, Group2PartsOK
  <2> QED
    BY <1>3, <2>2 DEF Group2
<1>4. CASE Eae
  BY <1>1, <1>4, Steps8 DEF Eae
<1> QED
  BY <1>2, <1>3, <1>4 DEF OperateInstr

\* The I/O class: the bus, on the state after the fetch.
LEMMA IotFrame ==
  ASSUME EOK(cpu), IOT8
  PROVE  /\ cpu'.ir # IOB_LINC => EOK(cpu')
         /\ cpu'.ir = IOB_LINC => OK(cpu', "linc") /\ cpu' = EnterLinc(G)
         /\ cpu'.core = cpu.core /\ cpu'.dfr = cpu.dfr
         /\ cpu'.ir # IOB_LINC => cpu'.ifr = cpu.ifr
         /\ cpu'.kf # cpu.kf => /\ Contains(cpu'.ir, KCC)
                                /\ Contains(cpu'.ir, KRS) /\ Keys # {} => cpu'.ac % \o400 = cpu.key
         /\ \/ cpu'.pc \in {G.pc, (G.pc + 1) % \o10000}
            \/ Contains(cpu'.ir, KSF) /\ Contains(cpu'.ir, TSF)
            \/ cpu'.ir = IOB_LINC
<1> DEFINE d == IobIo(G)
<1>1. EOK(G) /\ IsCpu(G) /\ Calm(cpu, G, Reach8) /\ G.core = cpu.core /\ G.key = cpu.key
  BY Pdp8FetchOK, Steps8 DEF Follows8
<1>2. G.ifr = cpu.ifr /\ G.dfr = cpu.dfr /\ G.kf = cpu.kf
  BY <1>1 DEF Calm
<1>3. /\ d.core = G.core /\ d.dfr = G.dfr /\ d.ir = G.ir
      /\ d.kf # G.kf => /\ HasInstr(G, KCC)
                        /\ HasInstr(G, KRS) /\ Keys # {} => d.ac % \o400 = G.key
      /\ G.ir # IOB_LINC =>
           /\ d.ifr = G.ifr
           /\ "8MODE" \in d.flags <=> "8MODE" \in G.flags
           /\ d.pc \in {G.pc, NextPc(G)} \/ (HasInstr(G, KSF) /\ HasInstr(G, TSF))
      /\ G.ir = IOB_LINC => d = EnterLinc(G)
  BY <1>1, IobIoFrame
<1>4. EOK(d) \/ OK(d, "linc")
  BY <1>1, IobIoOK DEF EOK, ModeNames
<1>5. OK(EnterLinc(G), "linc")
  BY <1>1, EnterLincOK DEF EOK, ModeNames
<1>6. cpu' = d
  BY DEF IOT8
<1>7. "8MODE" \in G.flags
  BY <1>1 DEF EOK, OK
<1>8. NextPc(G) = (G.pc + 1) % \o10000
  <2>1. NextPc(G) = SetPc(G, G.pc + 1).pc
    BY <1>7 DEF NextPc, IncPc, Pdp8IncPc
  <2> QED
    BY <1>1, <2>1, PcFrame
<1> HIDE DEF d
<1>9. G.ir # IOB_LINC => EOK(d)
  BY <1>3, <1>4, <1>7 DEF OK
<1> QED
  BY <1>1, <1>2, <1>3, <1>5, <1>6, <1>8, <1>9 DEF HasInstr

(***************************************************************************)
(* A PDP-8 step leaves a sound state, in PDP-8 mode or, after IOB_LINC, in *)
(* LINC mode; every class but the I/O class keeps the fields, the keyboard *)
(* and the core outside the fields.                                        *)
(***************************************************************************)
THEOREM Pdp8StepOK ==
  ASSUME EOK(cpu), Pdp8Step
  PROVE  /\ OK(cpu', "linc") \/ OK(cpu', "pdp8")
         /\ Follows8(cpu') \/ IOT8
<1>1. CASE MemoryInstr \/ OperateInstr
  <2>1. Follows8(cpu')
    BY <1>1, MemoryInstrOK, OperateInstrOK
  <2> QED
    BY <2>1, Steps8 DEF EOK
<1>2. CASE IOT8
  BY <1>2, IotFrame DEF EOK
<1> QED
  BY <1>1, <1>2 DEF Pdp8Step
----------------------------------------------------------------------------
\* The operator's states and the invariant are the same thing.
LEMMA StartIsOK ==
  ASSUME NEW c
  PROVE  StartOK(c) <=> OK(c, "linc") \/ OK(c, "pdp8")
<1>1. CASE "8MODE" \in c.flags
  BY <1>1 DEF StartOK, OK
<1>2. CASE "8MODE" \notin c.flags
  BY <1>2 DEF StartOK, OK
<1> QED
  BY <1>1, <1>2

\* A key struck changes the flag and the buffer of the keyboard.
LEMMA KeyStruckOK ==
  ASSUME NEW m \in ModeNames, OK(cpu, m), KeyStruck
  PROVE  OK(cpu', m)
<1>1. PICK k \in Keys : cpu' = [cpu EXCEPT !.kf = 1, !.key = k]
  BY DEF KeyStruck
<1>2. 1 \in RegisterType["kf"] /\ k \in RegisterType["key"]
  BY KeysAssumption DEF RegisterType
<1>3. OK([cpu EXCEPT !.kf = 1], m)
  BY <1>2, SetPlain, RegisterNames
<1>4. OK([[cpu EXCEPT !.kf = 1] EXCEPT !.key = k], m)
  BY <1>2, <1>3, SetPlain, RegisterNames
<1>5. [cpu EXCEPT !.kf = 1, !.key = k] = [[cpu EXCEPT !.kf = 1] EXCEPT !.key = k]
  OBVIOUS
<1> QED
  BY <1>1, <1>4, <1>5

\* Every instruction is taken in its own mode only, by a machine that runs.
LEMMA StepModes ==
  /\ LincStep => LincMode
  /\ Pdp8Step => ~LincMode
  /\ Step => Running
<1>1. DirectInstr => LincTurn
  BY DEF DirectInstr, ADD, STC, JMP, Direct
<1>2. BetaInstr => LincTurn
  BY DEF BetaInstr, LDA, STA, ADA, ADM, LAM, MUL, LDH, STH, SHD, SAE, SRO, BCL, BSE, BCO,
         DSC, TRAP1, Beta, BetaClass
<1>3. SkipInstr => LincTurn
  <2>1. SNS \/ AZE \/ APO \/ LZE => LincTurn
    BY DEF SNS, AZE, APO, LZE, Skip, Alpha, AlphaClass
  <2>2. IBZ \/ FLO \/ QLZ \/ SKP => LincTurn
    BY DEF IBZ, FLO, QLZ, SKP, Skip, Alpha, AlphaClass
  <2> QED
    BY <2>1, <2>2 DEF SkipInstr
<1>4. MiscInstr => LincTurn
  BY DEF MiscInstr, HLT, PDP, ESF, QAC, DJR, CLR, ATR, RTA, NOP, COM, IOB, RSW, LSW,
         Extended1, Extended2, Alpha, AlphaClass
<1>5. AlphaInstr => LincTurn
  BY <1>3, <1>4 DEF AlphaInstr, SET, SAM, DIS, XSK, ROL, ROR, SCR, SXL, LIF, LDF, TAPE,
         TRAP23, Alpha, AlphaClass
<1>6. Pdp8Step => Pdp8Turn
  BY DEF Pdp8Step, MemoryInstr, AND8, TAD8, ISZ8, DCA8, JMS8, JMP8, IOT8, OperateInstr,
         Group1, Group2, Eae, Class
<1> QED
  BY <1>1, <1>2, <1>5, <1>6 DEF LincStep, LincTurn, Pdp8Turn, Step

\* An instruction keeps the invariant and may change the mode.
LEMMA StepOK ==
  ASSUME StartOK(cpu), Step
  PROVE  StartOK(cpu')
<1>1. Samples \subseteq Int
  BY SamplesAssumption
<1>2. CASE LincStep
  <2>1. LOK(cpu)
    BY <1>2, StepModes, StartIsOK DEF LincMode, LOK, OK
  <2> QED
    BY <1>1, <1>2, <2>1, LincStepOK, StartIsOK DEF LOK
<1>3. CASE Pdp8Step
  <2>1. EOK(cpu)
    BY <1>3, StepModes, StartIsOK DEF LincMode, EOK, OK
  <2> QED
    BY <1>3, <2>1, Pdp8StepOK, StartIsOK
<1> QED
  BY <1>2, <1>3 DEF Step

\* The invariant holds throughout.
LEMMA Invariant == Spec => []StartOK(cpu)
<1>1. Init => StartOK(cpu)
  BY StartsAssumption DEF Init
<1>2. StartOK(cpu) /\ [Next]_cpu => StartOK(cpu)'
  <2> SUFFICES ASSUME StartOK(cpu), [Next]_cpu PROVE StartOK(cpu')
    OBVIOUS
  <2>1. CASE Step
    BY <2>1, StepOK
  <2>2. CASE KeyStruck
    BY <2>2, KeyStruckOK, StartIsOK DEF ModeNames
  <2>3. CASE Halted \/ UNCHANGED cpu
    BY <2>3 DEF Halted
  <2> QED
    BY <2>1, <2>2, <2>3 DEF Next
<1> QED
  BY <1>1, <1>2, PTL DEF Spec
----------------------------------------------------------------------------
\* No program, key or sample makes a register overflow its width or a store leave core:
\* the masks of cpu.c and the address computations of linc.c and pdp8.c are enough.
THEOREM RegistersKeepTheirWidth == Spec => []TypeOK
<1>1. StartOK(cpu) => TypeOK
  BY DEF StartOK, TypeOK
<1> QED
  BY <1>1, Invariant, PTL

\* In LINC mode the counter never leaves the instruction field: not by stepping, skipping,
\* jumping or trapping, and not when PDP-8 code hands over at any address.
THEOREM LincCounterIsOffset == Spec => []LincPcInSegment
<1>1. StartOK(cpu) => LincPcInSegment
  BY DEF StartOK, LincPcInSegment, LincMode
<1> QED
  BY <1>1, Invariant, PTL

\* The field buffer that cpu_create leaves unset is not used before LIF has loaded it.
THEOREM PendingFieldIsLoaded == Spec => []PendingFieldLoaded
<1>1. StartOK(cpu) => PendingFieldLoaded
  BY DEF StartOK, PendingFieldLoaded
<1> QED
  BY <1>1, Invariant, PTL
----------------------------------------------------------------------------
\* The mode of a sound state.
LEMMA SoundModes ==
  ASSUME StartOK(cpu)
  PROVE  (LincMode => LOK(cpu)) /\ (~LincMode => EOK(cpu))
BY StartIsOK DEF LincMode, LOK, EOK, OK

\* A field is an integer between 0 and 037.
LEMMA FieldBounds == ASSUME NEW f \in Field PROVE f \in Int /\ 0 <= f /\ f < \o40
BY DEF Field

\* A key struck touches nothing but the keyboard.
LEMMA KeyStruckFrame ==
  ASSUME StartOK(cpu), KeyStruck
  PROVE  /\ cpu'.core = cpu.core /\ cpu'.ifr = cpu.ifr /\ cpu'.flags = cpu.flags
         /\ cpu'.pc = cpu.pc /\ cpu'.ac = cpu.ac /\ cpu'.dfr = cpu.dfr /\ cpu'.kf = 1
         /\ cpu'.l = cpu.l
<1>1. PICK k \in Keys : cpu' = [cpu EXCEPT !.kf = 1, !.key = k]
  BY DEF KeyStruck
<1> DEFINE d == [cpu EXCEPT !["kf"] = 1]
           e == [d EXCEPT !["key"] = k]
<1>2. cpu' = e /\ IsCpu(cpu)
  BY <1>1 DEF StartOK
<1>3. IsCpu(d)
  <2>1. 1 \in RegisterType["kf"]
    BY DEF RegisterType
  <2>2. "kf" \in Registers
    BY RegisterNames
  <2>3. ASSUME NEW v \in RegisterType["kf"] PROVE IsCpu([cpu EXCEPT !["kf"] = v])
    BY <1>2, <2>2, SetRegister
  <2> QED
    BY <2>1, <2>3
<1>4. d.l = cpu.l
  BY <1>2, RegisterFrame, RegisterNames
<1>5. e.l = d.l
  BY <1>3, RegisterFrame, RegisterNames
<1>6. /\ d["kf"] = 1 /\ d.core = cpu.core /\ d.ifr = cpu.ifr /\ d.flags = cpu.flags
      /\ d.pc = cpu.pc /\ d.ac = cpu.ac /\ d.dfr = cpu.dfr
  BY <1>2, OtherRegisters, RegisterNames
<1> HIDE DEF d
<1>7. /\ e.core = d.core /\ e.ifr = d.ifr /\ e.flags = d.flags /\ e.kf = d.kf
      /\ e.pc = d.pc /\ e.ac = d.ac /\ e.dfr = d.dfr
  BY <1>3, OtherRegisters, RegisterNames
<1> HIDE DEF e
<1> QED
  BY <1>2, <1>4, <1>5, <1>6, <1>7

\* In either mode the place of a sound state is its field's first word plus the counter.
LEMMA PlaceOf ==
  ASSUME NEW c
  PROVE  /\ LOK(c) => Place(c) = c.pc + c.ifr * \o2000
         /\ EOK(c) => Place(c) = c.pc + (c.ifr \div 4) * \o10000
<1>1. ASSUME LOK(c) PROVE Place(c) = c.pc + c.ifr * \o2000
  <2>1. IsCpu(c) /\ c.pc \in Word /\ c.pc < \o2000 /\ "8MODE" \notin c.flags
    BY <1>1, Types DEF LOK, OK
  <2>2. c.pc \in Int /\ 0 <= c.pc
    BY <2>1, WordBounds
  <2> QED
    BY <2>1, <2>2, LincAddressField DEF Place
<1>2. ASSUME EOK(c) PROVE Place(c) = c.pc + (c.ifr \div 4) * \o10000
  <2>1. c.pc \in Word /\ "8MODE" \in c.flags
    BY <1>2, Types DEF EOK, OK
  <2>2. c.pc % \o10000 = c.pc
    <3>1. c.pc \in Int /\ 0 <= c.pc /\ c.pc <= \o7777
      BY <2>1, WordBounds
    <3> QED
      BY <3>1
  <2> QED
    BY <2>1, <2>2 DEF Place, Pdp8Address
<1> QED
  BY <1>1, <1>2
----------------------------------------------------------------------------
\* What an instruction may do to the instruction field.
LEMMA StepAnnounced ==
  ASSUME StartOK(cpu), Step
  PROVE  Announced(cpu')
<1>1. CASE LincStep
  BY <1>1, StepModes, SoundModes, LincStepOK, SamplesAssumption DEF Lawful
<1>2. CASE Pdp8Step
  <2>1. EOK(cpu)
    BY <1>2, StepModes, SoundModes
  <2> QED
    BY <1>2, <2>1, Pdp8StepOK, IotFrame DEF Announced, Follows8, Calm
<1> QED
  BY <1>1, <1>2 DEF Step

\* No program loses its place: the instruction field changes by an announced jump, by a
\* trap that has recorded the fields, or by IOB_LINC, whatever the program is.
THEOREM FieldChangesAnnounced == Spec => FieldChangesAreAnnounced
<1> DEFINE Known ==
             cpu'.ifr # cpu.ifr =>
               \/ "LIF" \in cpu.flags \ cpu'.flags /\ cpu'.ifr = cpu.ifb % \o40
               \/ cpu'.ifr = 0 /\ cpu'.sfr = cpu.ifr * \o40 + cpu.dfr /\ cpu'.pc = LINC_TRAP_PC
               \/ cpu'.ir = IOB_LINC
<1>1. StartOK(cpu) /\ [Next]_cpu => [Known]_cpu
  <2> SUFFICES ASSUME StartOK(cpu), Next PROVE Known \/ UNCHANGED cpu
    OBVIOUS
  <2>1. CASE Step
    BY <2>1, StepAnnounced DEF Announced
  <2>2. CASE KeyStruck
    BY <2>2, KeyStruckFrame
  <2>3. CASE Halted
    BY <2>3 DEF Halted
  <2> QED
    BY <2>1, <2>2, <2>3 DEF Next
<1> QED
  BY <1>1, Invariant, PTL DEF Spec, FieldChangesAreAnnounced
----------------------------------------------------------------------------
\* What an instruction may store.
LEMMA StepContained ==
  ASSUME StartOK(cpu), Step, NEW a, Cell(cpu'.core, a) # Cell(cpu.core, a)
  PROVE  InFields(a)
<1>1. CASE LincStep
  <2>1. LOK(cpu) /\ LincMode
    BY <1>1, StepModes, SoundModes
  <2>2. Contained(cpu')
    BY <1>1, <2>1, LincStepOK, SamplesAssumption DEF Lawful
  <2>3. JMP => a \div \o2000 = cpu'.ifr
    BY <2>1, JmpStores
  <2> QED
    BY <2>1, <2>2, <2>3 DEF Contained, InFields, ReachableLinc
<1>2. CASE Pdp8Step
  <2>1. EOK(cpu) /\ ~LincMode
    BY <1>2, StepModes, SoundModes
  <2>2. Follows8(cpu') \/ cpu'.core = cpu.core
    BY <1>2, <2>1, Pdp8StepOK, IotFrame
  <2>3. a \in Reach8
    BY <2>2 DEF Follows8, Calm
  <2> QED
    BY <2>1, <2>3 DEF Reach8, InFields, ReachablePdp8
<1> QED
  BY <1>1, <1>2 DEF Step

\* Memory protection by addressing alone: no instruction of either mode, with whatever
\* pointer or index register, stores a word outside the fields it may address.
THEOREM WritesStay == Spec => WritesStayInFields
<1> DEFINE Inside ==
             \A a \in DOMAIN cpu'.core :
               Cell(cpu'.core, a) # Cell(cpu.core, a) => InFields(a)
<1>1. StartOK(cpu) /\ [Next]_cpu => [Inside]_cpu
  <2> SUFFICES ASSUME StartOK(cpu), Next PROVE Inside \/ UNCHANGED cpu
    OBVIOUS
  <2>1. CASE Step
    BY <2>1, StepContained
  <2>2. CASE KeyStruck
    BY <2>2, KeyStruckFrame
  <2>3. CASE Halted
    BY <2>3 DEF Halted
  <2> QED
    BY <2>1, <2>2, <2>3 DEF Next
<1> QED
  BY <1>1, Invariant, PTL DEF Spec, WritesStayInFields
----------------------------------------------------------------------------
\* PDP puts the two low field bits on top of the counter: the word it names is the same.
LEMMA PdpKeepsPlace ==
  ASSUME LOK(cpu), PDP
  PROVE  Place(cpu') = Place(F)
<1> DEFINE p == F.pc
           i == F.ifr
<1>1. LOK(F) /\ IsCpu(F)
  BY Fetched
<1>2. p \in Int /\ 0 <= p /\ p < \o2000 /\ i \in Int /\ 0 <= i
  <2>1. F.pc \in Word /\ F.ifr \in Field /\ F.pc < \o2000
    BY <1>1, Types DEF LOK, OK
  <2> QED
    BY <2>1, WordBounds, FieldBounds
<1>3. EOK(cpu') /\ cpu'.pc = ((p % \o2000) + (i % 4) * \o2000) % \o10000 /\ cpu'.ifr = i
  BY <1>1, EnterPdp8OK, EnterPdp8Frame DEF PDP, EOK
<1>4. Place(F) = p + i * \o2000 /\ Place(cpu') = cpu'.pc + (cpu'.ifr \div 4) * \o10000
  BY <1>1, <1>3, PlaceOf
<1> HIDE DEF p, i
<1>5. (p % \o2000) + (i % 4) * \o2000 \in 0 .. \o7777 /\ p % \o2000 = p
  BY <1>2
<1>6. ((p % \o2000) + (i % 4) * \o2000) % \o10000 = p + (i % 4) * \o2000
  BY <1>2, <1>5
<1> QED
  BY <1>2, <1>3, <1>4, <1>6

\* IOB_LINC takes them off again.
LEMMA IobLincKeepsPlace ==
  ASSUME EOK(cpu), IOT8, cpu'.ir = IOB_LINC
  PROVE  Place(cpu') = Place(G)
<1> DEFINE p == G.pc
           i == G.ifr
           j == ((i \div 4) * 4) + (p \div \o2000)
<1>1. EOK(G) /\ IsCpu(G)
  BY Pdp8FetchOK, Steps8
<1>2. p \in Int /\ 0 <= p /\ p < \o10000 /\ i \in Int /\ 0 <= i /\ i < \o40
  <2>1. G.pc \in Word /\ G.ifr \in Field
    BY <1>1, Types
  <2>2. p \in Int /\ 0 <= p /\ p <= \o7777
    BY <2>1, WordBounds
  <2> QED
    BY <2>1, <2>2, FieldBounds
<1>3. LOK(cpu') /\ cpu' = EnterLinc(G)
  BY IotFrame DEF LOK
<1>4. cpu'.ifr = j % \o40 /\ cpu'.pc = (p % \o2000) % \o10000
  BY <1>1, <1>3, EnterLincFrame
<1>5. Place(G) = p + (i \div 4) * \o10000 /\ Place(cpu') = cpu'.pc + cpu'.ifr * \o2000
  BY <1>1, <1>3, PlaceOf
<1> HIDE DEF p, i
<1>6. j \in 0 .. \o37 /\ j % \o40 = j /\ (p % \o2000) % \o10000 = p % \o2000
  BY <1>2
<1>7. p = (p \div \o2000) * \o2000 + (p % \o2000)
  BY <1>2
<1> QED
  BY <1>2, <1>4, <1>5, <1>6, <1>7

\* No other instruction changes the mode.
LEMMA ModeSwitches ==
  ASSUME StartOK(cpu), Step, ("8MODE" \in cpu.flags) # ("8MODE" \in cpu'.flags)
  PROVE  Place(cpu') = Place(IF LincMode THEN F ELSE G)
<1>1. CASE LincStep
  <2>1. LOK(cpu) /\ LincMode
    BY <1>1, StepModes, SoundModes
  <2>2. ~LOK(cpu')
    BY <2>1 DEF LOK, OK
  <2>3. PDP
    BY <1>1, <2>1, <2>2, LincStepOK, SamplesAssumption
  <2> QED
    BY <2>1, <2>3, PdpKeepsPlace
<1>2. CASE Pdp8Step
  <2>1. EOK(cpu) /\ ~LincMode
    BY <1>2, StepModes, SoundModes
  <2>2. ~EOK(cpu')
    BY <2>1 DEF EOK, OK
  <2>3. IOT8 /\ cpu'.ir = IOB_LINC
    BY <1>2, <2>1, <2>2, Pdp8StepOK, IotFrame DEF Follows8
  <2> QED
    BY <2>1, <2>3, IobLincKeepsPlace
<1> QED
  BY <1>1, <1>2 DEF Step

\* From every place in core and every field, a program that switches the mode goes on with
\* the next word.
THEOREM ModeSwitchKeeps == Spec => ModeSwitchKeepsPlace
<1> DEFINE Kept ==
             ("8MODE" \in cpu.flags) # ("8MODE" \in cpu'.flags)
               => Place(cpu') = Place(IF LincMode THEN F ELSE G)
<1>1. StartOK(cpu) /\ [Next]_cpu => [Kept]_cpu
  <2> SUFFICES ASSUME StartOK(cpu), Next PROVE Kept \/ UNCHANGED cpu
    OBVIOUS
  <2>1. CASE Step
    BY <2>1, ModeSwitches
  <2>2. CASE KeyStruck
    BY <2>2, KeyStruckFrame
  <2>3. CASE Halted
    BY <2>3 DEF Halted
  <2> QED
    BY <2>1, <2>2, <2>3 DEF Next
<1> QED
  BY <1>1, Invariant, PTL DEF Spec, ModeSwitchKeepsPlace
----------------------------------------------------------------------------
\* Stepping an index register does not touch the special functions.
LEMMA SpecialFunctionsKept ==
  ASSUME LOK(cpu)
  PROVE  F.esf = cpu.esf /\ B.esf = cpu.esf
<1>1. F.esf = cpu.esf /\ LOK(F) /\ IsCpu(F) /\ A \in Int
  BY FetchFrame, Fetched
<1>2. LincIncPc(F).esf = F.esf
  <2> DEFINE v == IncIndex(F.pc) % \o10000
             d == [F EXCEPT !["pc"] = v]
  <2>1. LincIncPc(F) = d
    BY DEF LincIncPc, SetPc
  <2> HIDE DEF v
  <2>2. d["esf"] = F["esf"]
    BY <1>1, RegisterFrame, RegisterNames
  <2> HIDE DEF d
  <2> QED
    BY <2>1, <2>2
<1>3. \A n : LincWrite(F, A, n).esf = F.esf
  <2>1. LincAddress(F, A) \in Address
    BY <1>1, LincAddressInCore
  <2>2. \A n : CpuWrite(F, LincAddress(F, A), n)["esf"] = F["esf"]
    BY <1>1, <2>1, WriteFrame, RegisterNames
  <2> QED
    BY <2>2 DEF LincWrite
<1> QED
  BY <1>1, <1>2, <1>3 DEF B, BetaState

\* Both fields and the counter can be had back from what linc_trap saves.
LEMMA TrapResumable ==
  ASSUME NEW c, LOK(c), cpu' = LincTrap(c)
  PROVE  (cpu'.sfr \div \o40) * \o2000 + Cell(cpu'.core, LINC_TRAP_SAVE_PC) = Place(c)
<1> DEFINE i == c.ifr
           j == c.dfr
<1>1. i \in Int /\ 0 <= i /\ j \in Int /\ 0 <= j /\ j < \o40 /\ c.pc \in Int
  <2>1. c.ifr \in Field /\ c.dfr \in Field /\ c.pc \in Int
    BY Types, Integral DEF LOK, OK
  <2> QED
    BY <2>1 DEF Field
<1>2. cpu'.sfr = i * \o40 + j /\ Cell(cpu'.core, LINC_TRAP_SAVE_PC) = c.pc
  BY LincTrapFrame
<1>3. Place(c) = c.pc + i * \o2000
  BY PlaceOf
<1> HIDE DEF i, j
<1>4. (i * \o40 + j) \div \o40 = i
  BY <1>1
<1> QED
  BY <1>1, <1>2, <1>3, <1>4

\* An instruction trap can be returned from, wherever it was taken and whether or not it
\* had stepped an index register or skipped an address word.
THEOREM TrapsAreResumable == Spec => TrapIsResumable
<1> DEFINE Resumable ==
             Trapped => (cpu'.sfr \div \o40) * \o2000 + Cell(cpu'.core, LINC_TRAP_SAVE_PC)
                          = Place(IF Beta(14) THEN B ELSE F)
<1>1. StartOK(cpu) /\ [Next]_cpu => [Resumable]_cpu
  <2> SUFFICES ASSUME StartOK(cpu), Trapped
               PROVE  (cpu'.sfr \div \o40) * \o2000 + Cell(cpu'.core, LINC_TRAP_SAVE_PC)
                        = Place(IF Beta(14) THEN B ELSE F)
    OBVIOUS
  <2>1. LOK(cpu)
    <3>1. LincMode
      BY DEF Trapped, TapeTrapped, TRAP1, TRAP23, TAPE, Beta, BetaClass, Alpha, AlphaClass, LincTurn
    <3> QED
      BY <3>1, SoundModes
  <2>2. Has(B.esf, CPU_ESF_INSTRUCTION_TRAP) /\ Has(F.esf, CPU_ESF_INSTRUCTION_TRAP)
    BY <2>1, SpecialFunctionsKept DEF Trapped
  <2>3. LOK(B) /\ LOK(F)
    BY <2>1, Fetched, OperandFetched
  <2>4. CASE TRAP1
    <3>1. Beta(14) /\ cpu' = LincTrap(B)
      BY <2>2, <2>4 DEF TRAP1, TrapOrHalt
    <3> QED
      BY <2>3, <3>1, TrapResumable
  <2>5. CASE TRAP23 \/ TapeTrapped
    <3>1. cpu' = LincTrap(F)
      BY <2>1, <2>2, <2>5, SpecialFunctionsKept DEF TRAP23, TapeTrapped, TAPE, TrapOrHalt
    <3>2. ~Beta(14)
      BY <2>5 DEF TRAP23, TapeTrapped, TAPE, Beta, BetaClass, Alpha, AlphaClass
    <3> QED
      BY <2>3, <3>1, <3>2, TrapResumable
  <2> QED
    BY <2>4, <2>5 DEF Trapped
<1> QED
  BY <1>1, Invariant, PTL DEF Spec, TrapIsResumable
----------------------------------------------------------------------------
\* Where there is a keyboard: no program loses a key, and none takes a key's flag down
\* without the instruction that asks for it.
THEOREM KeysAreTakenOnce == ASSUME Keys # {} PROVE Spec => KeyIsTakenOnce
<1> DEFINE Taken ==
             cpu.kf = 1 /\ cpu'.kf = 0
               => /\ Contains(cpu'.ir, KCC)
                  /\ Contains(cpu'.ir, KRS) => cpu'.ac % \o400 = cpu.key
<1>1. StartOK(cpu) /\ [Next]_cpu => [Taken]_cpu
  <2> SUFFICES ASSUME StartOK(cpu), Next PROVE Taken \/ UNCHANGED cpu
    OBVIOUS
  <2>1. CASE LincStep
    <3>1. KeyTaken(cpu')
      BY <2>1, StepModes, SoundModes, LincStepOK, SamplesAssumption DEF Lawful
    <3> QED
      BY <3>1 DEF KeyTaken
  <2>2. CASE Pdp8Step
    <3>1. EOK(cpu)
      BY <2>2, StepModes, SoundModes
    <3>2. ASSUME Follows8(cpu') PROVE Taken
      <4>1. cpu'.kf = cpu.kf
        BY <3>2 DEF Follows8, Calm
      <4> QED
        BY <4>1
    <3>3. ASSUME IOT8 PROVE Taken
      <4>1. cpu'.kf # cpu.kf => /\ Contains(cpu'.ir, KCC)
                                /\ Contains(cpu'.ir, KRS) => cpu'.ac % \o400 = cpu.key
        BY <3>1, <3>3, IotFrame
      <4> QED
        BY <4>1
    <3> QED
      BY <2>2, <3>1, <3>2, <3>3, Pdp8StepOK
  <2>3. CASE KeyStruck
    BY <2>3, KeyStruckFrame
  <2>4. CASE Halted
    BY <2>4 DEF Halted
  <2> QED
    BY <2>1, <2>2, <2>3, <2>4 DEF Next, Step
<1> QED
  BY <1>1, Invariant, PTL DEF Spec, KeyIsTakenOnce

\* Whatever an I/O word asks of the teletype, it passes over one instruction at most,
\* unless it asks for two skips or leaves the mode.
THEOREM IoSkipsOne == Spec => IoSkipsAtMostOne
<1> DEFINE Skipped ==
             IOB \/ IOT8
               => \/ cpu'.pc \in {AfterIo, SkipsOne(AfterIo)}
                  \/ Contains(cpu'.ir, KSF) /\ Contains(cpu'.ir, TSF)
                  \/ cpu'.ir = IOB_LINC
<1>1. StartOK(cpu) /\ [Next]_cpu => [Skipped]_cpu
  <2> SUFFICES ASSUME StartOK(cpu), IOB \/ IOT8 PROVE Skipped
    OBVIOUS
  <2>1. CASE IOB
    <3>1. LincMode
      BY <2>1 DEF IOB, Extended2, Alpha, AlphaClass, LincTurn
    <3> QED
      BY <2>1, <3>1, SoundModes, IobFrame DEF AfterIo, SkipsOne
  <2>2. CASE IOT8
    <3>1. ~LincMode
      BY <2>2 DEF IOT8, Class, Pdp8Turn
    <3> QED
      BY <2>2, <3>1, SoundModes, IotFrame DEF AfterIo, SkipsOne
  <2> QED
    BY <2>1, <2>2
<1> QED
  BY <1>1, Invariant, PTL DEF Spec, IoSkipsAtMostOne
=============================================================================
