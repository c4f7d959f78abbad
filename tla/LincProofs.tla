------------------------------ MODULE LincProofs ----------------------------
(***************************************************************************)
(* Every LINC instruction keeps the invariant of CpuProofs: one lemma for  *)
(* each function of linc.c, then one step for each instruction.            *)
(***************************************************************************)
EXTENDS Linc, CpuProofs

LOK(c) == OK(c, "linc")

\* The lemmas of CpuProofs, for a machine in LINC mode.
LEMMA Setters ==
  ASSUME NEW c, LOK(c)
  PROVE  /\ IsCpu(c)
         /\ \A n \in Int : LOK(SetAc(c, n)) /\ LOK(SetMq(c, n)) /\ LOK(SetRelays(c, n))
         /\ \A n \in Int : LOK(SetIfr(c, n)) /\ LOK(SetDfr(c, n)) /\ LOK(SetEsf(c, n))
         /\ \A n : LOK(SetL(c, n))
         /\ LOK(LincIncPc(c)) /\ LOK(IoPreset(c))
         /\ \A f \in FlagNames \ {"8MODE", "LIF"} : LOK(SetFlag(c, f))
         /\ \A f \in FlagNames \ {"8MODE"} : LOK(ClearFlag(c, f))
         /\ \A v : LOK([c EXCEPT !.out = v])
<1>1. "linc" \in ModeNames
  BY DEF ModeNames
<1>2. IsCpu(c)
  BY DEF LOK, OK
<1>3. \A n \in Int : LOK(SetAc(c, n)) /\ LOK(SetMq(c, n)) /\ LOK(SetRelays(c, n))
  BY <1>1, SetAcOK, SetMqOK, SetRelaysOK DEF LOK
<1>4. \A n \in Int : LOK(SetIfr(c, n)) /\ LOK(SetDfr(c, n)) /\ LOK(SetEsf(c, n))
  BY <1>1, SetIfrOK, SetDfrOK, SetEsfOK DEF LOK
<1>5. \A n : LOK(SetL(c, n))
  BY <1>1, SetLOK DEF LOK
<1>6. LOK(LincIncPc(c)) /\ LOK(IoPreset(c))
  BY <1>1, LincIncPcOK, IoPresetOK DEF LOK
<1>7. \A f \in FlagNames \ {"8MODE", "LIF"} : LOK(SetFlag(c, f))
  BY <1>1, SetFlagOK DEF LOK
<1>8. \A f \in FlagNames \ {"8MODE"} : LOK(ClearFlag(c, f))
  BY <1>1, ClearFlagOK DEF LOK
<1>9. \A v : LOK([c EXCEPT !.out = v])
  BY <1>1, SetOut DEF LOK
<1> QED
  BY <1>2, <1>3, <1>4, <1>5, <1>6, <1>7, <1>8, <1>9

(***************************************************************************)
(* How an instruction moves on from cpu: the invariant still holds, and the  *)
(* fields, the key flag and the core outside the two fields are kept.      *)
(***************************************************************************)
LincReach == {a \in Address : a \div \o2000 \in {cpu.ifr, cpu.dfr}}
Follows(c) == LOK(c) /\ Calm(cpu, c, LincReach)

\* The state before the step.
LEMMA FollowsItself ==
  ASSUME LOK(cpu)
  PROVE  Follows(cpu)
BY DEF Follows, Calm

\* The accessors that every instruction may use.
LEMMA Steps ==
  ASSUME NEW c, Follows(c)
  PROVE  /\ IsCpu(c) /\ LOK(c)
         /\ \A n \in Int : Follows(SetAc(c, n)) /\ Follows(SetMq(c, n)) /\ Follows(SetRelays(c, n))
         /\ \A n \in Int : Follows(SetEsf(c, n))
         /\ \A n : Follows(SetL(c, n))
         /\ Follows(LincIncPc(c)) /\ Follows(IoPreset(c))
         /\ \A f \in FlagNames \ {"8MODE", "LIF"} : Follows(SetFlag(c, f))
         /\ \A f \in FlagNames \ {"8MODE"} : Follows(ClearFlag(c, f))
         /\ \A v : Follows([c EXCEPT !.out = v])
<1> DEFINE R == LincReach
<1>1. LOK(c) /\ Calm(cpu, c, R) /\ IsCpu(c)
  BY Setters DEF Follows
<1> HIDE DEF R
<1>2. \A n \in Int : LOK(SetAc(c, n)) /\ LOK(SetMq(c, n)) /\ LOK(SetRelays(c, n)) /\ LOK(SetEsf(c, n))
  BY <1>1, Setters
<1>3. \A n : Calm(cpu, SetAc(c, n), R) /\ Calm(cpu, SetMq(c, n), R) /\ Calm(cpu, SetRelays(c, n), R)
             /\ Calm(cpu, SetEsf(c, n), R)
  BY <1>1, CalmSetters
<1>4. \A n : LOK(SetL(c, n)) /\ Calm(cpu, SetL(c, n), R)
  BY <1>1, Setters, CalmSetters
<1>5. LOK(LincIncPc(c)) /\ LOK(IoPreset(c)) /\ Calm(cpu, LincIncPc(c), R) /\ Calm(cpu, IoPreset(c), R)
  BY <1>1, Setters, CalmSetters
<1>6. \A f \in FlagNames \ {"8MODE", "LIF"} : LOK(SetFlag(c, f)) /\ Calm(cpu, SetFlag(c, f), R)
  BY <1>1, Setters, CalmSetters
<1>7. \A f \in FlagNames \ {"8MODE"} : LOK(ClearFlag(c, f)) /\ Calm(cpu, ClearFlag(c, f), R)
  BY <1>1, Setters, CalmSetters
<1>8. \A v : LOK([c EXCEPT !.out = v]) /\ Calm(cpu, [c EXCEPT !.out = v], R)
  BY <1>1, Setters, CalmSetters
<1> QED
  BY <1>1, <1>2, <1>3, <1>4, <1>5, <1>6, <1>7, <1>8 DEF Follows, R

\* The two registers of the arithmetic instructions, on their own.
LEMMA ResultStored ==
  ASSUME NEW c, Follows(c), NEW n \in Int
  PROVE  Follows(SetAc(c, n)) /\ Follows(SetMq(c, n))
BY Steps

\* Setting the counter to an offset.
LEMMA JumpTo ==
  ASSUME NEW c, LOK(c), NEW n \in Int, 0 <= n, n < \o2000
  PROVE  LOK(SetPc(c, n))
BY SetPcOK DEF LOK, ModeNames

\* A LINC address always names a word of the core.
LEMMA LincAddressInCore ==
  ASSUME NEW c, IsCpu(c), NEW a \in Int
  PROVE  LincAddress(c, a) \in Address
<1>1. ASSUME NEW f \in Field PROVE (a % \o2000) + f * \o2000 \in Address
  <2> DEFINE b == a % \o2000
  <2>1. b \in Int /\ 0 <= b /\ b <= \o1777
    OBVIOUS
  <2>2. f \in Int /\ 0 <= f /\ f <= \o37
    BY DEF Field
  <2> HIDE DEF b
  <2>3. b + f * \o2000 \in Int /\ 0 <= b + f * \o2000 /\ b + f * \o2000 <= \o77777
    BY <2>1, <2>2
  <2>4. b + f * \o2000 \in Address
    BY <2>3, AddressBounds
  <2> QED
    BY <2>4 DEF b
<1>2. c.ifr \in Field /\ c.dfr \in Field
  BY Types
<1> QED
  BY <1>1, <1>2 DEF LincAddress

\* It lies in the instruction or in the data field.
LEMMA LincAddressField ==
  ASSUME NEW c, IsCpu(c), NEW a \in Int
  PROVE  /\ LincAddress(c, a) \div \o2000 \in {c.ifr, c.dfr}
         /\ 0 <= a /\ a < \o2000 => LincAddress(c, a) = a + c.ifr * \o2000
<1>1. ASSUME NEW f \in Field PROVE ((a % \o2000) + f * \o2000) \div \o2000 = f
  BY <1>1 DEF Field
<1>2. c.ifr \in Field /\ c.dfr \in Field
  BY Types
<1>3. LincAddress(c, a) \div \o2000 \in {c.ifr, c.dfr}
  BY <1>1, <1>2 DEF LincAddress
<1>4. 0 <= a /\ a < \o2000 => a % \o2000 = a /\ ~Has(a, \o2000)
  BY DEF Has
<1> QED
  BY <1>3, <1>4 DEF LincAddress

\* linc_read yields a word.
LEMMA LincReadWord ==
  ASSUME NEW c, IsCpu(c), NEW a
  PROVE  LincRead(c, a) \in Word /\ LincRead(c, a) \in Int
<1>1. LincRead(c, a) \in Word
  BY CpuReadWord DEF LincRead
<1> QED
  BY <1>1, WordBounds

\* linc_write.
LEMMA WriteKept ==
  ASSUME NEW c, LOK(c), NEW a \in Int, NEW n \in Int
  PROVE  LOK(LincWrite(c, a, n))
<1>1. LincAddress(c, a) \in Address
  BY LincAddressInCore DEF LOK, OK
<1> QED
  BY <1>1, CpuWriteOK DEF LincWrite, LOK, ModeNames

\* Its word lies in a field that the step started with.
LEMMA LincWriteOK ==
  ASSUME NEW c, Follows(c), NEW a \in Int, NEW n \in Int
  PROVE  Follows(LincWrite(c, a, n))
<1>1. LOK(c) /\ Calm(cpu, c, LincReach) /\ IsCpu(c)
  BY Setters DEF Follows
<1>2. LincAddress(c, a) \in Address /\ LincAddress(c, a) \div \o2000 \in {c.ifr, c.dfr}
  BY <1>1, LincAddressInCore, LincAddressField
<1>3. LincAddress(c, a) \in LincReach
  BY <1>1, <1>2 DEF LincReach, Calm
<1> QED
  BY <1>1, <1>2, <1>3, WriteKept, CalmWrite DEF Follows, LincWrite
----------------------------------------------------------------------------
\* Saving both fields in the save field register.
LEMMA SetSfrOK ==
  ASSUME NEW c, LOK(c)
  PROVE  LOK(SetSfr(c))
<1>1. ASSUME NEW i \in Field, NEW d \in Field PROVE i * \o40 + d \in RegisterType["sfr"]
  BY <1>1 DEF Field, RegisterType
<1>2. c.ifr \in Field /\ c.dfr \in Field
  BY Types DEF LOK, OK
<1> QED
  BY <1>1, <1>2, SetPlain, RegisterNames DEF SetSfr, LOK, ModeNames

\* linc_trap.
LEMMA LincTrapOK ==
  ASSUME NEW c, LOK(c)
  PROVE  LOK(LincTrap(c))
<1>0. LOK(SetSfr(c))
  BY SetSfrOK
<1>1. LOK(SetIfr(SetSfr(c), 0))
  BY <1>0, SetIfrOK DEF LOK, ModeNames
<1>2. c.pc \in Int
  BY Integral DEF LOK, OK
<1>3. LOK(LincWrite(SetIfr(SetSfr(c), 0), LINC_TRAP_SAVE_PC, c.pc))
  BY <1>1, <1>2, WriteKept DEF LINC_TRAP_SAVE_PC
<1> QED
  BY <1>3, JumpTo DEF LincTrap, LINC_TRAP_PC

\* What it saves: both fields, then the counter, then it goes to field 0.
LEMMA LincTrapFrame ==
  ASSUME NEW c, LOK(c)
  PROVE  LET d == LincTrap(c)
         IN /\ d.sfr = c.ifr * \o40 + c.dfr /\ Cell(d.core, LINC_TRAP_SAVE_PC) = c.pc
            /\ d.ifr = 0 /\ d.dfr = c.dfr /\ d.pc = LINC_TRAP_PC /\ d.kf = c.kf
            /\ \A a : a # LINC_TRAP_SAVE_PC => Cell(d.core, a) = Cell(c.core, a)
<1> DEFINE v == c.ifr * \o40 + c.dfr
           e == [c EXCEPT !["sfr"] = v]
           f == [e EXCEPT !["ifr"] = 0]
           g == CpuWrite(f, LINC_TRAP_SAVE_PC, c.pc)
           d == SetPc(g, LINC_TRAP_PC)
<1>1. e = SetSfr(c) /\ f = SetIfr(SetSfr(c), 0)
  <2>1. 0 % \o40 = 0
    OBVIOUS
  <2> QED
    BY <2>1 DEF SetSfr, SetIfr
<1>2. LOK(e) /\ LOK(f) /\ IsCpu(c) /\ IsCpu(e) /\ IsCpu(f)
  <2>1. LOK(SetSfr(c))
    BY SetSfrOK
  <2>2. LOK(SetIfr(SetSfr(c), 0))
    BY <2>1, SetIfrOK DEF LOK, ModeNames
  <2> HIDE DEF e, f
  <2> QED
    BY <1>1, <2>1, <2>2 DEF LOK, OK
<1>3. LincAddress(f, LINC_TRAP_SAVE_PC) = LINC_TRAP_SAVE_PC /\ LINC_TRAP_SAVE_PC \in Address
  <2>1. f.ifr = 0
    BY <1>2, OtherRegisters, RegisterNames
  <2> HIDE DEF f
  <2> QED
    BY <2>1 DEF LincAddress, Has, LINC_TRAP_SAVE_PC, Address, CPU_CORE_SIZE
<1>4. e["sfr"] = v /\ e.core = c.core /\ e.dfr = c.dfr /\ e.kf = c.kf
  BY <1>2, OtherRegisters, RegisterNames
<1> HIDE DEF v, e
<1>5. f["ifr"] = 0 /\ f.core = e.core /\ f.dfr = e.dfr /\ f.kf = e.kf /\ f.sfr = e.sfr
  BY <1>2, OtherRegisters, RegisterNames
<1>6. c.pc % \o10000 = c.pc
  <2>1. c.pc \in Int /\ 0 <= c.pc /\ c.pc <= \o7777
    BY <1>2, Types, WordBounds
  <2> QED
    BY <2>1
<1>7. LincTrap(c) = d
  BY <1>1, <1>3 DEF LincTrap, LincWrite
<1> HIDE DEF f
<1>8. /\ g.ifr = 0 /\ g.dfr = c.dfr /\ g.kf = c.kf /\ g.sfr = v
      /\ Cell(g.core, LINC_TRAP_SAVE_PC) = c.pc
      /\ \A a : a # LINC_TRAP_SAVE_PC => Cell(g.core, a) = Cell(c.core, a)
  <2>1. \A r \in {"ifr", "dfr", "kf", "sfr"} : g[r] = f[r]
    BY <1>2, <1>3, WriteFrame, RegisterNames
  <2>2. /\ Cell(g.core, LINC_TRAP_SAVE_PC) = c.pc
        /\ \A a : a # LINC_TRAP_SAVE_PC => Cell(g.core, a) = Cell(f.core, a)
    BY <1>2, <1>3, <1>6, WriteFrame
  <2> HIDE DEF g
  <2> QED
    BY <1>4, <1>5, <2>1, <2>2
<1>9. IsCpu(g)
  <2>1. c.pc \in Int
    BY <1>2, Integral
  <2> QED
    BY <1>2, <1>3, <2>1, CpuWriteOK DEF LOK, OK, ModeNames
<1> HIDE DEF g
<1>10. LINC_TRAP_PC % \o10000 = LINC_TRAP_PC
  BY DEF LINC_TRAP_PC
<1>11. /\ d.core = g.core /\ d.pc = LINC_TRAP_PC /\ d.ifr = g.ifr /\ d.dfr = g.dfr
       /\ d.sfr = g.sfr /\ d.kf = g.kf
  BY <1>9, <1>10, PcFrame
<1> HIDE DEF d
<1> QED
  BY <1>7, <1>8, <1>11 DEF v

\* linc_unimpl: trap or halt.
LEMMA TrapOrHaltOK ==
  ASSUME NEW c, LOK(c)
  PROVE  LOK(TrapOrHalt(c))
BY LincTrapOK, Setters DEF TrapOrHalt, FlagNames

\* A skip.
LEMMA SkipIfOK ==
  ASSUME NEW c, Follows(c), NEW b
  PROVE  Follows(SkipIf(b, c))
BY Steps DEF SkipIf

\* check_overflow.
LEMMA SetOverflowOK ==
  ASSUME NEW c, Follows(c), NEW x, NEW y, NEW t
  PROVE  Follows(SetOverflow(c, x, y, t))
BY Steps DEF SetOverflow, FlagNames

\* The fetch changes the instruction register, the counter and the trace.
LEMMA LincFetchOK ==
  ASSUME LOK(cpu)
  PROVE  Follows(F)
<1> DEFINE w == LincRead(cpu, cpu.pc % \o2000)
           d == [cpu EXCEPT !.ir = w]
<1>1. w \in Word /\ IsCpu(cpu)
  BY LincReadWord, Setters
<1> HIDE DEF w
<1>2. LOK(d)
  BY <1>1, SetIrOK DEF LOK, ModeNames
<1>3. "ir" \in Registers \ Quiet
  BY RegisterNames DEF Quiet
<1>4. Calm(cpu, d, LincReach)
  BY <1>1, <1>3, FollowsItself, CalmRegister DEF Follows
<1>5. F = LincIncPc([d EXCEPT !.out = {}])
  BY DEF F, LincFetch, w
<1> HIDE DEF d
<1>6. Follows(d)
  BY <1>2, <1>4 DEF Follows
<1>7. Follows([d EXCEPT !.out = {}])
  BY <1>6, Steps
<1> QED
  BY <1>5, <1>7, Steps

\* What the fetch leaves as it was.
LEMMA FetchFrame ==
  ASSUME LOK(cpu)
  PROVE  /\ F.core = cpu.core /\ F.ac = cpu.ac /\ F.l = cpu.l /\ F.mq = cpu.mq
         /\ F.ifr = cpu.ifr /\ F.dfr = cpu.dfr /\ F.ifb = cpu.ifb
         /\ F.flags = cpu.flags /\ F.esf = cpu.esf /\ F.kf = cpu.kf /\ F.key = cpu.key
<1> DEFINE w == LincRead(cpu, cpu.pc % \o2000)
           p == IncIndex(cpu.pc) % \o10000
           d == [g \in Registers \union {"core", "out"} |->
                   IF g = "pc" THEN p ELSE IF g = "out" THEN {} ELSE IF g = "ir" THEN w ELSE cpu[g]]
<1>1. IsCpu(cpu)
  BY Setters
<1>2. F = [[[cpu EXCEPT !.ir = w] EXCEPT !.out = {}] EXCEPT !.pc = p]
  <2>1. [cpu EXCEPT !.ir = w, !.out = {}].pc = cpu.pc
    BY <1>1, RegisterNames DEF IsCpu
  <2> QED
    BY <2>1 DEF F, LincFetch, LincIncPc, SetPc
<1> HIDE DEF w, p
<1>3. F = d
  BY <1>1, <1>2 DEF IsCpu
<1>4. /\ d.core = cpu.core /\ d.ac = cpu.ac /\ d.l = cpu.l /\ d.mq = cpu.mq
      /\ d.ifr = cpu.ifr /\ d.dfr = cpu.dfr /\ d.ifb = cpu.ifb
      /\ d.flags = cpu.flags /\ d.esf = cpu.esf /\ d.kf = cpu.kf /\ d.key = cpu.key
  BY RegisterNames
<1> HIDE DEF d
<1> QED
  BY <1>3, <1>4
----------------------------------------------------------------------------
\* Addressing: the operand of a beta instruction is a word at an integer address.
LEMMA NextOperandInteger ==
  ASSUME NEW op, NEW x \in Word
  PROVE  NextOperand(op, x) \in Int
<1>1. x \in Int
  BY WordBounds
<1>2. NextHalf(x) \in Int /\ IncIndex(x) \in Int
  BY <1>1, IncIndexBound DEF NextHalf
<1> QED
  BY <1>2 DEF NextOperand

\* beta_addr, with and without an index register, with and without stepping it.
LEMMA BetaOK ==
  ASSUME NEW c, Follows(c), NEW op, NEW i \in BOOLEAN, NEW b \in Int
  PROVE  BetaAddr(c, op, i, b) \in Int /\ Follows(BetaState(c, op, i, b))
<1>1. \A a : LincRead(c, a) \in Word /\ LincRead(c, a) \in Int
  BY LincReadWord, Steps
<1>2. NextOperand(op, LincRead(c, b)) \in Int
  BY <1>1, NextOperandInteger
<1>3. c.pc \in Int
  BY Integral, Steps
<1>4. BetaAddr(c, op, i, b) \in Int
  BY <1>1, <1>2, <1>3 DEF BetaAddr
<1>5. Follows(BetaState(c, op, i, b))
  BY <1>2, Steps, LincWriteOK DEF BetaState
<1> QED
  BY <1>4, <1>5

\* The stepped register of DIS and XSK.
LEMMA IndexedOK ==
  ASSUME NEW c, Follows(c), NEW i \in BOOLEAN, NEW a \in Int
  PROVE  Follows(Indexed(c, i, a))
<1>1. LincRead(c, a) \in Int
  BY LincReadWord, Steps
<1>2. IncIndex(LincRead(c, a)) \in Int
  BY <1>1, IncIndexBound
<1> QED
  BY <1>2, LincWriteOK DEF Indexed
----------------------------------------------------------------------------
\* The arithmetic of the instructions yields integers, which the setters mask.
LEMMA SumInteger ==
  ASSUME NEW x \in Int, NEW y \in Int
  PROVE  OnesSum(x, y) \in Int
BY DEF OnesSum

\* The magnitude of an operand of MUL.
LEMMA MagnitudeInteger ==
  ASSUME NEW x \in Int
  PROVE  Magnitude(x) \in Int
BY DEF Magnitude, Comp

\* Both halves of a product.
LEMMA ProductInteger ==
  ASSUME NEW hf \in BOOLEAN, NEW x \in Int, NEW y \in Int
  PROVE  MulAc(hf, x, y) \in Int /\ MulMq(x, y) \in Int
<1> DEFINE t == Magnitude(x) * Magnitude(y)
           s == ProductSign(x, y)
<1>1. t \in Int
  BY MagnitudeInteger
<1>2. s \in Int
  BY DEF ProductSign
<1>3. MulMq(x, y) = (t % \o4000) * 2
  BY DEF MulMq
<1>4. MulAc(hf, x, y) =
        LET v == IF s = 0 THEN t ELSE Comp(t)
        IN (IF hf THEN (v \div \o4000) % \o4000 ELSE v % \o4000) + s
  BY DEF MulAc
<1> HIDE DEF t, s
<1> QED
  BY <1>1, <1>2, <1>3, <1>4 DEF Comp

\* Shifts by at most 24 places.
LEMMA QuotientInteger ==
  ASSUME NEW x \in Int, NEW k \in Int, 0 <= k, k <= 24
  PROVE  x \div Pow2(k) \in Int /\ x * Pow2(k) \in Int
<1> DEFINE p == Pow2(k)
<1>1. p \in Nat \ {0}
  <2>1. k \in 0 .. 24
    OBVIOUS
  <2> QED
    BY <2>1, PowerPositive
<1> HIDE DEF p
<1>2. x \div p \in Int /\ x * p \in Int
  BY <1>1
<1> QED
  BY <1>2 DEF p

\* The two parts of a rotation put together.
LEMMA JoinInteger == ASSUME NEW x \in Int, NEW y \in Int PROVE Join(x, y) \in Int
BY DEF Join

\* Rotations of 12 and 13 bits.
LEMMA RotateInteger ==
  ASSUME NEW t \in Int, NEW n \in {12, 13}, NEW r \in 0 .. n
  PROVE  RotateLeft(t, r, n) \in Int /\ RotateRight(t, r, n) \in Int
<1>1. /\ r \in Int /\ 0 <= r /\ r <= 24
      /\ n - r \in Int /\ 0 <= n - r /\ n - r <= 24
  OBVIOUS
<1>2. t \div Pow2(r) \in Int /\ t * Pow2(r) \in Int
  BY <1>1, QuotientInteger
<1>3. t \div Pow2(n - r) \in Int /\ t * Pow2(n - r) \in Int
  BY <1>1, QuotientInteger
<1> QED
  BY <1>2, <1>3, JoinInteger DEF RotateLeft, RotateRight

\* The accumulator with the link above it.
LEMMA LinkedInteger ==
  ASSUME NEW ac \in Int, NEW l \in Int
  PROVE  WithLink(ac, l) \in Int
BY DEF WithLink

\* What ROR and SCR shift into MQ and AC.
LEMMA ShiftInteger ==
  ASSUME NEW ac \in Int, NEW mq \in Int, NEW a \in 0 .. 15
  PROVE  RorMq(ac, mq, a) \in Int /\ Scaled(ac, mq, a) \in Int
<1>1. a \in Int /\ 0 <= a /\ a <= 24 /\ 0 <= 24 - a /\ 24 - a <= 24
  OBVIOUS
<1>2. ASSUME a < 12 PROVE mq \div Pow2(a) \in Int /\ ac * Pow2(12 - a) \in Int
  BY <1>1, <1>2, QuotientInteger
<1>3. ASSUME ~(a < 12) PROVE ac \div Pow2(a - 12) \in Int
  BY <1>1, <1>3, QuotientInteger
<1>4. RorMq(ac, mq, a) \in Int
  BY <1>2, <1>3 DEF RorMq
<1>5. ac * \o10000 + mq \in Int
  OBVIOUS
<1>6. (ac * \o10000 + mq) \div Pow2(a) \in Int
  BY <1>1, <1>5, QuotientInteger
<1>7. (Pow2(a) - 1) * Pow2(24 - a) \in Int
  <2>1. Pow2(a) - 1 \in Int
    <3>1. 1 * Pow2(a) \in Int /\ Pow2(a) \in Int
      BY <1>1, PowerPositive
    <3> QED
      BY <3>1
  <2> QED
    BY <1>1, <2>1, QuotientInteger
<1>8. Scaled(ac, mq, a) \in Int
  BY <1>6, <1>7 DEF Scaled
<1> QED
  BY <1>4, <1>8
----------------------------------------------------------------------------
\* The functions of the instructions.
LEMMA AddedOK ==
  ASSUME NEW c, Follows(c), NEW y \in Int
  PROVE  Follows(Added(c, y))
<1>1. c.ac \in Int
  BY Integral, Steps
<1>2. OnesSum(c.ac, y) \in Int
  BY <1>1, SumInteger
<1>3. Follows(SetOverflow(c, c.ac, y, OnesSum(c.ac, y)))
  BY SetOverflowOK
<1> QED
  BY <1>2, <1>3, Steps DEF Added

\* A pending field is entered from a buffer that has been loaded.
LEMMA EnterFieldOK ==
  ASSUME NEW c, LOK(c)
  PROVE  LOK(EnterField(c))
<1>1. c.ifb \in Int
  BY Integral, Setters
<1>2. LOK(SetIfr(c, c.ifb))
  BY <1>1, Setters
<1> QED
  BY <1>2, Setters DEF EnterField, FlagNames

\* The return word of a jump.
LEMMA SaveReturnOK ==
  ASSUME NEW c, LOK(c)
  PROVE  LOK(SaveReturn(c))
<1>1. c.pc \in Int
  BY Integral, Setters
<1> QED
  BY <1>1, WriteKept DEF SaveReturn

\* JMP, with its pending field, its return word and JMP 0.
LEMMA JumpOK ==
  ASSUME NEW c, LOK(c), NEW y \in Int, 0 <= y, y < \o2000
  PROVE  LOK(Jump(c, y))
<1> DEFINE c0 == IF "LINC_II" \notin c.flags THEN ClearFlag(c, "LINC_II") ELSE c
           r == LincRead(c0, 0)
           c1 == IF y # 0 THEN SetPc(SaveReturn(EnterField(c0)), y) ELSE SetPc(c0, r % \o2000)
<1>1. LOK(c0)
  BY Setters DEF FlagNames
<1>2. r \in Int
  BY <1>1, LincReadWord, Setters
<1>3. Jump(c, y) = ClearFlag(c1, "DJR")
  BY DEF Jump
<1> HIDE DEF c0, r
<1>4. LOK(SaveReturn(EnterField(c0)))
  BY <1>1, EnterFieldOK, SaveReturnOK
<1>5. LOK(SetPc(SaveReturn(EnterField(c0)), y))
  BY <1>4, JumpTo
<1>6. r % \o2000 \in Int /\ 0 <= r % \o2000 /\ r % \o2000 < \o2000
  BY <1>2
<1>7. LOK(SetPc(c0, r % \o2000))
  BY <1>1, <1>6, JumpTo
<1>8. LOK(c1)
  BY <1>5, <1>7
<1> HIDE DEF c1
<1> QED
  BY <1>3, <1>8, Setters DEF FlagNames

\* Entering the pending field clears the request.
LEMMA EnterFieldFrame ==
  ASSUME NEW c, LOK(c)
  PROVE  LET e == EnterField(c)
         IN /\ e.core = c.core /\ e.dfr = c.dfr /\ e.kf = c.kf
            /\ \/ e.ifr = c.ifr
               \/ "LIF" \in c.flags /\ "LIF" \notin e.flags /\ e.ifr = c.ifb % \o40
<1> DEFINE v == c.ifb % \o40
           d == [c EXCEPT !["ifr"] = v]
           fs == d.flags \ {"LIF"}
           e == [d EXCEPT !.flags = fs]
<1>1. IsCpu(c)
  BY Setters
<1>2. EnterField(c) = IF "LIF" \in c.flags THEN e ELSE c
  BY DEF EnterField, ClearFlag, SetIfr
<1>3. v \in RegisterType["ifr"]
  <2>1. c.ifb \in Int
    BY <1>1, Integral
  <2> QED
    BY <2>1 DEF RegisterType, Field
<1> HIDE DEF v
<1>4. IsCpu(d) /\ d["ifr"] = v /\ d.core = c.core /\ d.dfr = c.dfr /\ d.kf = c.kf
  BY <1>1, <1>3, SetRegister, OtherRegisters, RegisterNames
<1> HIDE DEF d
<1>5. "LIF" \notin fs
  OBVIOUS
<1> HIDE DEF fs
<1>6. e.core = d.core /\ e.dfr = d.dfr /\ e.kf = d.kf /\ e.ifr = d.ifr /\ e.flags = fs
  BY <1>4, FlagsFrame
<1> HIDE DEF e
<1> QED
  BY <1>2, <1>4, <1>5, <1>6 DEF v

\* JMP may enter the field that LIF asked for, and stores the return in the field it is in then.
LEMMA JumpFrame ==
  ASSUME NEW c, LOK(c), NEW y \in Int
  PROVE  LET d == Jump(c, y)
         IN /\ d.dfr = c.dfr /\ d.kf = c.kf
            /\ \/ d.ifr = c.ifr
               \/ "LIF" \in c.flags /\ "LIF" \notin d.flags /\ d.ifr = c.ifb % \o40
            /\ \A a : Cell(d.core, a) # Cell(c.core, a) => a \div \o2000 = d.ifr
<1> DEFINE c0 == IF "LINC_II" \notin c.flags THEN ClearFlag(c, "LINC_II") ELSE c
           e == EnterField(c0)
           w == SaveReturn(e)
           r == LincRead(c0, 0) % \o2000
           c1 == IF y # 0 THEN SetPc(w, y) ELSE SetPc(c0, r)
<1>1. Jump(c, y) = ClearFlag(c1, "DJR")
  BY DEF Jump
<1>2. LOK(c0)
  BY Setters DEF FlagNames
<1>3. /\ c0.core = c.core /\ c0.dfr = c.dfr /\ c0.kf = c.kf /\ c0.ifr = c.ifr /\ c0.ifb = c.ifb
      /\ c0.flags \subseteq c.flags
  BY Setters, FlagsFrame DEF ClearFlag
<1> HIDE DEF c0
<1>4. LOK(e) /\ IsCpu(c0) /\ IsCpu(e)
  BY <1>2, EnterFieldOK, Setters
<1>5. /\ e.core = c0.core /\ e.dfr = c0.dfr /\ e.kf = c0.kf
      /\ \/ e.ifr = c0.ifr
         \/ "LIF" \in c0.flags /\ "LIF" \notin e.flags /\ e.ifr = c0.ifb % \o40
  BY <1>2, EnterFieldFrame
<1> HIDE DEF e
<1>6. /\ IsCpu(w) /\ w.ifr = e.ifr /\ w.dfr = e.dfr /\ w.kf = e.kf /\ w.flags = e.flags
      /\ \A a : Cell(w.core, a) # Cell(e.core, a) => a \div \o2000 = e.ifr
  <2>1. CASE "DJR" \in e.flags
    BY <1>4, <2>1 DEF SaveReturn
  <2>2. CASE "DJR" \notin e.flags
    <3> DEFINE ma == LincAddress(e, 0)
    <3>1. w = CpuWrite(e, ma, e.pc)
      BY <2>2 DEF SaveReturn, LincWrite
    <3>2. ma \in Address /\ ma \div \o2000 = e.ifr
      <4>1. ma \in Address /\ ma = 0 + e.ifr * \o2000 /\ e.ifr \in Int
        BY <1>4, LincAddressInCore, LincAddressField, Integral
      <4> HIDE DEF ma
      <4> QED
        BY <4>1
    <3> HIDE DEF ma
    <3>3. /\ \A g \in {"ifr", "dfr", "kf", "flags"} : w[g] = e[g]
          /\ \A a : a # ma => Cell(w.core, a) = Cell(e.core, a)
      BY <1>4, <3>1, <3>2, WriteFrame, RegisterNames
    <3>4. IsCpu(w)
      BY <1>4, SaveReturnOK, Setters
    <3> HIDE DEF w
    <3> QED
      BY <3>2, <3>3, <3>4
  <2> QED
    BY <2>1, <2>2
<1> HIDE DEF w
<1>7. ASSUME NEW d, IsCpu(d), NEW n \in Int
      PROVE  LET f == ClearFlag(SetPc(d, n), "DJR")
             IN /\ f.core = d.core /\ f.dfr = d.dfr /\ f.kf = d.kf /\ f.ifr = d.ifr
                /\ f.flags \subseteq d.flags
  <2> DEFINE g == SetPc(d, n)
             fs == g.flags \ {"DJR"}
             f == [g EXCEPT !.flags = fs]
  <2>1. IsCpu(g)
    <3>1. n % \o10000 \in RegisterType["pc"]
      BY DEF RegisterType, Word
    <3> QED
      BY <1>7, <3>1, SetRegister, RegisterNames DEF SetPc
  <2>2. /\ g.core = d.core /\ g.dfr = d.dfr /\ g.kf = d.kf /\ g.ifr = d.ifr
        /\ g.flags = d.flags
    BY <1>7, PcFrame
  <2>3. ClearFlag(g, "DJR") = f
    BY DEF ClearFlag
  <2> HIDE DEF g
  <2>4. fs \subseteq g.flags
    OBVIOUS
  <2> HIDE DEF fs
  <2>5. f.core = g.core /\ f.dfr = g.dfr /\ f.kf = g.kf /\ f.ifr = g.ifr /\ f.flags = fs
    BY <2>1, FlagsFrame
  <2> HIDE DEF f
  <2>6. LET h == ClearFlag(g, "DJR")
        IN /\ h.core = d.core /\ h.dfr = d.dfr /\ h.kf = d.kf /\ h.ifr = d.ifr
           /\ h.flags \subseteq d.flags
    BY <2>2, <2>3, <2>4, <2>5
  <2> QED
    BY <2>6 DEF g
<1>8. r \in Int
  <2>1. LincRead(c0, 0) \in Int
    BY <1>4, LincReadWord
  <2> QED
    BY <2>1
<1> HIDE DEF r
<1>9. CASE y # 0
  <2>1. Jump(c, y) = ClearFlag(SetPc(w, y), "DJR")
    BY <1>1, <1>9
  <2>2. LET d == Jump(c, y)
        IN /\ d.core = w.core /\ d.dfr = w.dfr /\ d.kf = w.kf /\ d.ifr = w.ifr
           /\ d.flags \subseteq w.flags
    BY <1>6, <1>7, <2>1
  <2> HIDE DEF c1
  <2> QED
    BY <1>3, <1>5, <1>6, <2>2
<1>10. CASE y = 0
  <2>1. Jump(c, y) = ClearFlag(SetPc(c0, r), "DJR")
    BY <1>1, <1>10
  <2>2. LET d == Jump(c, y)
        IN /\ d.core = c0.core /\ d.dfr = c0.dfr /\ d.kf = c0.kf /\ d.ifr = c0.ifr
    BY <1>4, <1>7, <1>8, <2>1
  <2> HIDE DEF c1
  <2> QED
    BY <1>3, <2>2
<1> QED
  BY <1>9, <1>10

\* LAM.
LEMMA LinkAddedOK ==
  ASSUME NEW c, Follows(c), NEW y \in Int, NEW k \in Int
  PROVE  Follows(LinkAdded(c, y, k))
<1> DEFINE t == c.ac + c.l + k
<1>1. c.ac \in Int /\ c.l \in Int
  BY Integral, Steps
<1>2. t \in Int
  BY <1>1
<1>3. LinkAdded(c, y, k) = LincWrite(SetAc(SetL(c, LamCarry(t)), t), y, t % \o10000)
  BY DEF LinkAdded
<1> HIDE DEF t
<1>4. Follows(SetL(c, LamCarry(t)))
  BY Steps
<1>5. Follows(SetAc(SetL(c, LamCarry(t)), t)) /\ t % \o10000 \in Int
  BY <1>2, <1>4, Steps
<1> QED
  BY <1>3, <1>5, LincWriteOK

\* MUL.
LEMMA MultipliedOK ==
  ASSUME NEW c, Follows(c), NEW hf \in BOOLEAN, NEW k \in Int
  PROVE  Follows(Multiplied(c, hf, k))
<1>1. c.ac \in Int
  BY Integral, Steps
<1>2. MulAc(hf, c.ac, k) \in Int /\ MulMq(c.ac, k) \in Int
  BY <1>1, ProductInteger
<1>3. Follows(SetAc(c, MulAc(hf, c.ac, k)))
  BY <1>2, Steps
<1>4. Follows(SetMq(SetAc(c, MulAc(hf, c.ac, k)), MulMq(c.ac, k)))
  BY <1>2, <1>3, Steps
<1> QED
  BY <1>4, Steps DEF Multiplied

\* The halves of a word.
LEMMA HalvesInteger ==
  ASSUME NEW hf \in BOOLEAN, NEW x \in Int, NEW y \in Int
  PROVE  /\ HalfStored(hf, x, y) \in Int
         /\ LeftHalf(x) \in Int /\ RightHalf(x) \in Int /\ RotatedWord(x) \in Int
BY DEF HalfStored, LeftHalf, RightHalf, RotatedWord

\* DIS draws a point.
LEMMA DrawnOK ==
  ASSUME NEW c, Follows(c), NEW x, NEW y, NEW z
  PROVE  Follows(Vr12Dis(c, x, y, z))
BY Steps DEF Vr12Dis, Emit

\* DSC steps AC and register 1 and draws a character.
LEMMA CharacterOK ==
  ASSUME NEW c, Follows(c), NEW full \in BOOLEAN, NEW y \in Int
  PROVE  Follows(Character(c, full, y))
<1> DEFINE x == LincRead(c, LINC_DSC_ADDR_X)
           width == IF full THEN 8 ELSE 4
           stepped == ((x \div \o2000) % 4) * \o2000 + ((x + width) % \o2000)
           ac == IF full THEN ((c.ac % \o10000) \div \o40) * \o40 + \o30
                 ELSE ((c.ac % \o10000) \div \o20) * \o20 + \o14
           moved == LincWrite(SetAc(c, ac), LINC_DSC_ADDR_X, stepped)
<1>1. x \in Int /\ c.ac \in Int /\ LINC_DSC_ADDR_X \in Int
  BY LincReadWord, Integral, Steps DEF LINC_DSC_ADDR_X
<1>2. Character(c, full, y)
        = Vr12Dsc(moved, full, x % \o1000, Vertical(moved.ac), LincRead(moved, y))
  BY DEF Character
<1> HIDE DEF x
<1>3. stepped \in Int
  BY <1>1
<1>4. ac \in Int
  BY <1>1
<1> HIDE DEF stepped, ac, width
<1>5. Follows(SetAc(c, ac))
  BY <1>4, Steps
<1>6. Follows(moved)
  BY <1>1, <1>3, <1>5, LincWriteOK
<1> HIDE DEF moved
<1> QED
  BY <1>2, <1>6, Steps DEF Vr12Dsc

\* SAM stores a sample, or the -512 it mistakes a negative one for.
LEMMA SampledOK ==
  ASSUME NEW c, Follows(c), NEW v \in Int
  PROVE  Follows(Sampled(c, v))
<1> DEFINE a == IF v > \o777 THEN \o777 ELSE IF v > 0 THEN v ELSE SamNonPositive
<1>1. a \in AcValue
  BY DEF AcValue, Word
<1>2. a \in RegisterType["ac"]
  BY <1>1 DEF RegisterType
<1>3. Sampled(c, v) = [c EXCEPT !.ac = a]
  BY DEF Sampled
<1> HIDE DEF a
<1>4. LOK([c EXCEPT !.ac = a])
  BY <1>2, SetPlain, RegisterNames DEF Follows, LOK, ModeNames
<1>5. "ac" \in Registers \ Quiet
  BY RegisterNames DEF Quiet
<1>6. Calm(cpu, [c EXCEPT !.ac = a], LincReach)
  BY <1>5, Steps, CalmRegister DEF Follows
<1> QED
  BY <1>3, <1>4, <1>6 DEF Follows

\* ROL and ROR.
LEMMA RotatedOK ==
  ASSUME NEW c, Follows(c), NEW i \in BOOLEAN, NEW a \in 0 .. 15
  PROVE  Follows(RotatedLeft(c, i, a)) /\ Follows(RotatedRight(c, i, a))
<1>1. c.ac \in Int /\ c.mq \in Int /\ c.l \in Int
  BY Integral, Steps
<1>2. WithLink(c.ac, c.l) \in Int
  BY <1>1, LinkedInteger
<1>3. 13 \in {12, 13} /\ a % 13 \in 0 .. 13 /\ 12 \in {12, 13} /\ a % 12 \in 0 .. 12
  OBVIOUS
<1> DEFINE lt == RotateLeft(WithLink(c.ac, c.l), a % 13, 13)
           l == RotateLeft(c.ac, a % 12, 12)
           rt == RotateRight(WithLink(c.ac, c.l), a % 13, 13)
           r == RotateRight(c.ac, a % 12, 12)
           k == RorMq(c.ac, c.mq, a)
           t == IF i THEN rt ELSE r
           link == IF Has(t, \o10000) THEN 1 ELSE 0
           lc == SetL(c, IF Has(lt, \o10000) THEN 1 ELSE 0)
           rc == IF i THEN SetL(c, link) ELSE c
<1>4. lt \in Int /\ l \in Int /\ rt \in Int /\ r \in Int
  BY <1>1, <1>2, <1>3, RotateInteger
<1>5. k \in Int
  BY <1>1, ShiftInteger
<1>6. RotatedLeft(c, i, a) = IF i THEN SetAc(lc, lt) ELSE SetAc(c, l)
  BY DEF RotatedLeft
<1>7. RotatedRight(c, i, a) = SetAc(SetMq(rc, k), t)
  BY DEF RotatedRight
<1>8. Follows(lc) /\ Follows(rc)
  BY Steps
<1> HIDE DEF lt, l, rt, r, k, link, lc, rc
<1>9. Follows(RotatedLeft(c, i, a))
  BY <1>4, <1>6, <1>8, Steps
<1>10. t \in Int
  BY <1>4
<1>11. Follows(SetMq(rc, k))
  BY <1>5, <1>8, Steps
<1>12. Follows(SetAc(SetMq(rc, k), t))
  BY <1>10, <1>11, Steps
<1> QED
  BY <1>7, <1>9, <1>12

\* SCR.
LEMMA ScaledRightOK ==
  ASSUME NEW c, Follows(c), NEW i \in BOOLEAN, NEW a \in 0 .. 15
  PROVE  Follows(ScaledRight(c, i, a))
<1> DEFINE t == Scaled(c.ac, c.mq, a)
           link == IF Has(t, \o4000) THEN 1 ELSE 0
           d == IF i /\ a >= 1 THEN SetL(c, link) ELSE c
<1>1. c.ac \in Int /\ c.mq \in Int
  BY Integral, Steps
<1>2. t \in Int
  BY <1>1, ShiftInteger
<1>3. ScaledRight(c, i, a) = SetMq(SetAc(d, t \div \o10000), t)
  BY DEF ScaledRight
<1>4. Follows(d)
  BY Steps
<1> HIDE DEF t, d
<1>5. t \div \o10000 \in Int
  BY <1>2
<1>6. Follows(SetAc(d, t \div \o10000))
  BY <1>4, <1>5, ResultStored
<1> QED
  BY <1>2, <1>3, <1>6, ResultStored

\* LIF loads the buffer before it makes the request.
LEMMA FieldRequestedOK ==
  ASSUME NEW c, Follows(c), NEW n \in 0 .. \o417
  PROVE  Follows(FieldRequested(c, n))
<1> DEFINE b == SetSfr(c)
           d == [b EXCEPT !.ifb = n]
           fs == d.flags \union {"LIF"}
           e == [d EXCEPT !.flags = fs]
<1>1. {"sfr", "ifb", "flags"} \subseteq Registers \ Quiet
  BY RegisterNames DEF Quiet
<1>2. LOK(b) /\ IsCpu(b) /\ Calm(cpu, b, LincReach)
  <2>1. LOK(c) /\ IsCpu(c) /\ Calm(cpu, c, LincReach)
    BY Steps DEF Follows
  <2>2. LOK(b)
    BY <2>1, SetSfrOK
  <2> QED
    BY <1>1, <2>1, <2>2, CalmRegister, Setters DEF SetSfr
<1>3. FieldRequested(c, n) = SetFlag(e, "LINC_II")
  BY DEF FieldRequested, SetFlag
<1> HIDE DEF b
<1>4. n \in RegisterType["ifb"] /\ n # NoField
  BY DEF RegisterType, NoField
<1>5. /\ IsCpu(d) /\ d["ifb"] = n
      /\ \A g \in {"pc", "flags"} : d[g] = b[g]
  BY <1>2, <1>4, SetRegister, RegisterNames
<1>6. d.ifb = n /\ d.pc = b.pc /\ d.flags = b.flags
  BY <1>5
<1>7. Calm(cpu, d, LincReach)
  BY <1>1, <1>2, CalmRegister
<1> HIDE DEF d
<1>8. LOK(d)
  BY <1>2, <1>4, <1>5, <1>6 DEF LOK, OK
<1>9. fs \in SUBSET FlagNames /\ ("8MODE" \in fs <=> "8MODE" \in d.flags)
  BY <1>5, Types DEF FlagNames
<1> HIDE DEF fs
<1>10. LOK(e)
  BY <1>4, <1>6, <1>8, <1>9, SetFlagsOK DEF LOK, ModeNames
<1>11. Calm(cpu, e, LincReach)
  BY <1>1, <1>5, <1>7, CalmRegister
<1> HIDE DEF e
<1>12. Follows(e)
  BY <1>10, <1>11 DEF Follows
<1> QED
  BY <1>3, <1>12, Steps DEF FlagNames

\* PDP enters PDP-8 mode.
LEMMA EnterPdp8OK ==
  ASSUME NEW c, LOK(c)
  PROVE  OK(EnterPdp8(c), "pdp8")
<1> DEFINE n == (c.pc % \o2000) + (c.ifr % 4) * \o2000
           fs == c.flags \union {"8MODE"}
           d == [c EXCEPT !.flags = fs]
<1>1. IsCpu(c)
  BY Setters
<1>2. n \in Int
  <2>1. c.pc \in Int /\ c.ifr \in Int
    BY <1>1, Integral
  <2> QED
    BY <2>1
<1>3. fs \in SUBSET FlagNames
  BY <1>1, Types DEF FlagNames
<1>4. EnterPdp8(c) = SetPc(d, n)
  BY DEF EnterPdp8, SetFlag
<1>5. "8MODE" \in fs /\ ("LIF" \in fs => c.ifb # NoField)
  BY DEF LOK, OK
<1> HIDE DEF fs
<1>6. IsCpu(d) /\ d.flags = fs /\ d.ifb = c.ifb
  BY <1>1, <1>3, SetFlags
<1> HIDE DEF d
<1>7. OK(d, "pdp8")
  BY <1>5, <1>6 DEF OK
<1> HIDE DEF n
<1> QED
  BY <1>2, <1>4, <1>7, SetPcOK DEF ModeNames

\* What it leaves: the counter of the 4096-word field, and everything else.
LEMMA EnterPdp8Frame ==
  ASSUME NEW c, LOK(c)
  PROVE  LET d == EnterPdp8(c)
         IN /\ d.pc = ((c.pc % \o2000) + (c.ifr % 4) * \o2000) % \o10000
            /\ d.core = c.core /\ d.ifr = c.ifr /\ d.dfr = c.dfr /\ d.kf = c.kf
            /\ d.flags = c.flags \union {"8MODE"}
<1> DEFINE n == (c.pc % \o2000) + (c.ifr % 4) * \o2000
           fs == c.flags \union {"8MODE"}
           e == [c EXCEPT !.flags = fs]
<1>1. EnterPdp8(c) = SetPc(e, n)
  BY DEF EnterPdp8, SetFlag
<1>2. IsCpu(c) /\ fs \in SUBSET FlagNames
  BY Setters, Types DEF FlagNames
<1> HIDE DEF n, fs
<1>3. IsCpu(e)
  BY <1>2, SetFlags
<1>4. e.core = c.core /\ e.flags = fs /\ e.ifr = c.ifr /\ e.dfr = c.dfr /\ e.kf = c.kf
  BY <1>2, FlagsFrame
<1> HIDE DEF e
<1>5. LET d == SetPc(e, n)
      IN /\ d.pc = n % \o10000 /\ d.core = e.core /\ d.ifr = e.ifr /\ d.dfr = e.dfr
         /\ d.kf = e.kf /\ d.flags = e.flags
  BY <1>3, PcFrame
<1> QED
  BY <1>1, <1>4, <1>5 DEF n, fs

\* ESF.
LEMMA SpecialFunctionOK ==
  ASSUME NEW c, Follows(c)
  PROVE  Follows(SpecialFunction(c))
<1>1. c.ac \in Int
  BY Integral, Steps
<1>2. c.ac \div 16 \in Int
  BY <1>1
<1> QED
  BY <1>2, Steps DEF SpecialFunction
----------------------------------------------------------------------------
\* The state after the fetch, the fields of the word, and the operand.
LEMMA Fetched ==
  ASSUME LOK(cpu)
  PROVE  /\ Follows(F) /\ LOK(F) /\ IsCpu(F)
         /\ I \in BOOLEAN /\ A \in Int /\ A \in 0 .. 15 /\ IA \in 0 .. \o417 /\ IA \in Int
         /\ D \in Int /\ 0 <= D /\ D < \o2000
<1>1. Follows(F) /\ LOK(F)
  BY LincFetchOK, Steps
<1> DEFINE w == F.ir
<1>2. w \in Int
  BY <1>1, Integral, Setters
<1>3. IsCpu(F)
  BY <1>1, Setters
<1>4. I \in BOOLEAN
  BY DEF I, Has
<1>5. A = w % \o20 /\ D = w % \o2000
  BY DEF A, D
<1> HIDE DEF w
<1>6. w % \o20 \in Int /\ 0 <= w % \o20 /\ w % \o20 <= 15
  BY <1>2
<1>7. w % \o2000 \in Int /\ 0 <= w % \o2000 /\ w % \o2000 < \o2000
  BY <1>2
<1>8. ASSUME NEW a \in Int, 0 <= a, a <= 15
      PROVE  \A x \in {0, \o400} : x + a \in Int /\ x + a \in 0 .. \o417
  BY <1>8
<1>9. IA \in Int /\ IA \in 0 .. \o417
  BY <1>5, <1>6, <1>8 DEF IA
<1>10. A \in 0 .. 15
  BY <1>5, <1>6
<1> QED
  BY <1>1, <1>3, <1>4, <1>5, <1>6, <1>7, <1>9, <1>10

\* The operand of a beta instruction and the state after its index register is stepped.
LEMMA OperandFetched ==
  ASSUME LOK(cpu)
  PROVE  Follows(B) /\ LOK(B) /\ IsCpu(B) /\ B.ac \in Int /\ Y \in Int /\ Operand \in Word /\ Operand \in Int
<1>1. Y \in Int /\ Follows(B)
  BY Fetched, BetaOK DEF Y, B
<1>2. IsCpu(B) /\ LOK(B)
  BY <1>1, Steps
<1>3. Operand \in Word /\ Operand \in Int /\ B.ac \in Int
  BY <1>2, LincReadWord, Integral DEF Operand
<1> QED
  BY <1>1, <1>2, <1>3
----------------------------------------------------------------------------
\* The direct instructions but JMP.
LEMMA DirectOK ==
  ASSUME LOK(cpu), ADD \/ STC
  PROVE  Follows(cpu')
<1>1. CASE ADD
  BY <1>1, Fetched, LincReadWord, AddedOK DEF ADD
<1>2. CASE STC
  <2>1. F.ac \in Int
    BY Fetched, Integral
  <2>2. Follows(LincWrite(F, D, F.ac))
    BY <2>1, Fetched, LincWriteOK
  <2> QED
    BY <1>2, <2>2, ResultStored DEF STC
<1> QED
  BY <1>1, <1>2

\* Every beta instruction but the trap.
LEMMA BetaInstrOK ==
  ASSUME LOK(cpu), BetaInstr, ~TRAP1
  PROVE  Follows(cpu')
<1> USE OperandFetched
<1>1. CASE LDA
  BY <1>1, ResultStored DEF LDA
<1>2. CASE STA
  BY <1>2, LincWriteOK DEF STA
<1>3. CASE ADA
  BY <1>3, AddedOK DEF ADA
<1>4. CASE ADM
  BY <1>4, AddedOK, SumInteger, LincWriteOK DEF ADM
<1>5. CASE LAM
  BY <1>5, LinkAddedOK DEF LAM
<1>6. CASE MUL
  <2>1. RightHand \in BOOLEAN
    BY DEF RightHand
  <2> QED
    BY <1>6, <2>1, MultipliedOK DEF MUL
<1>7. CASE LDH
  <2>1. RightHalf(Operand) \in Int /\ LeftHalf(Operand) \in Int
    BY HalvesInteger
  <2> QED
    BY <1>7, <2>1, ResultStored DEF LDH
<1>8. CASE STH
  <2>1. RightHand \in BOOLEAN
    BY DEF RightHand
  <2>2. HalfStored(RightHand, Operand, B.ac) \in Int
    BY <2>1, HalvesInteger
  <2> QED
    BY <1>8, <2>2, LincWriteOK DEF STH
<1>9. CASE SHD \/ SAE
  BY <1>9, SkipIfOK DEF SHD, SAE
<1>10. CASE SRO
  <2>1. RotatedWord(Operand) \in Int
    BY HalvesInteger
  <2> QED
    BY <1>10, <2>1, SkipIfOK, LincWriteOK DEF SRO
<1>11. CASE BCL \/ BSE \/ BCO
  <2>1. ASSUME NEW S PROVE Follows(SetAc(B, FromBits(S)))
    <3>1. FromBits(S) \in Int
      BY FromBitsBound
    <3> QED
      BY <3>1, ResultStored
  <2> QED
    BY <1>11, <2>1 DEF BCL, BSE, BCO
<1>12. CASE DSC
  <2>1. Has(B.esf, CPU_ESF_CHAR_SIZE) \in BOOLEAN
    BY DEF Has
  <2> QED
    BY <1>12, <2>1, CharacterOK DEF DSC
<1> QED
  BY <1>1, <1>2, <1>3, <1>4, <1>5, <1>6, <1>7, <1>8, <1>9, <1>10, <1>11, <1>12
  DEF BetaInstr

\* Every instruction of the skip class.
LEMMA SkipInstrOK ==
  ASSUME LOK(cpu), SkipInstr
  PROVE  Follows(cpu')
<1>1. Follows(F)
  BY Fetched
<1>2. \A b : Follows(Sensed(b, F))
  BY <1>1, SkipIfOK DEF Sensed
<1>3. CASE SNS \/ AZE \/ APO \/ LZE
  BY <1>2, <1>3 DEF SNS, AZE, APO, LZE
<1>4. CASE FLO \/ QLZ \/ SKP
  BY <1>2, <1>4 DEF FLO, QLZ, SKP
<1>5. CASE IBZ
  <2>1. Follows(ClearFlag(F, "RUN"))
    BY <1>1, Steps DEF FlagNames
  <2> QED
    BY <1>5, <2>1, SkipIfOK DEF IBZ, Sensed
<1> QED
  BY <1>3, <1>4, <1>5 DEF SkipInstr

\* Every class-zero instruction but PDP and IOB.
LEMMA MiscInstrOK ==
  ASSUME LOK(cpu), MiscInstr, ~PDP, ~IOB
  PROVE  Follows(cpu')
<1>1. Follows(F) /\ IsCpu(F)
  BY Fetched
<1>2. F.ac \in Int /\ F.mq \in Int /\ F.rs \in Int /\ F.ls \in Int /\ F.relays \in Int
  BY <1>1, Integral
<1>3. CASE HLT \/ DJR
  BY <1>1, <1>3, Steps DEF HLT, DJR, FlagNames
<1>5. CASE ESF
  BY <1>1, <1>5, SpecialFunctionOK DEF ESF
<1>6. CASE QAC
  <2>1. F.mq \div 2 \in Int
    BY <1>2
  <2> QED
    BY <1>1, <1>6, <2>1, Steps DEF QAC
<1>7. CASE CLR
  <2>1. Follows(SetAc(F, 0))
    BY <1>1, Steps
  <2>2. Follows(SetMq(SetAc(F, 0), 0))
    BY <2>1, ResultStored
  <2> QED
    BY <1>7, <2>2, Steps DEF CLR
<1>8. CASE ATR
  BY <1>1, <1>2, <1>8, Steps DEF ATR
<1>9. CASE RTA
  <2>1. (F.ac \div \o100) * \o100 + F.relays \in Int
    BY <1>2
  <2> QED
    BY <1>1, <1>9, <2>1, Steps DEF RTA
<1>10. CASE NOP
  BY <1>1, <1>10 DEF NOP
<1>11. CASE COM
  <2>1. Comp(F.ac) \in Int
    BY <1>2 DEF Comp
  <2> QED
    BY <1>1, <1>11, <2>1, Steps DEF COM
<1>13. CASE RSW \/ LSW
  BY <1>1, <1>2, <1>13, Steps DEF RSW, LSW
<1> QED
  BY <1>3, <1>5, <1>6, <1>7, <1>8, <1>9, <1>10, <1>11, <1>13 DEF MiscInstr

\* Every alpha instruction but those that change a field or the mode, trap or do I/O.
LEMMA AlphaInstrOK ==
  ASSUME LOK(cpu), AlphaInstr, Samples \subseteq Int, ~(LDF \/ TAPE \/ TRAP23 \/ PDP \/ IOB)
  PROVE  Follows(cpu')
<1> USE Fetched
<1>1. CASE SET
  <2>1. \A x : LincRead(F, x) \in Int
    BY LincReadWord
  <2>2. \A t \in Int : Follows(LincWrite(F, A, t))
    BY LincWriteOK
  <2>3. \A t \in Int : Follows(LincIncPc(LincWrite(F, A, t)))
    BY <2>2, Steps
  <2> QED
    BY <1>1, <2>1, <2>3 DEF SET
<1>2. CASE SAM
  BY <1>2, SampledOK DEF SAM
<1>3. CASE DIS
  BY <1>3, IndexedOK, DrawnOK DEF DIS
<1>4. CASE XSK
  BY <1>4, IndexedOK, SkipIfOK DEF XSK
<1>5. CASE ROL \/ ROR
  BY <1>5, RotatedOK DEF ROL, ROR
<1>6. CASE SCR
  BY <1>6, ScaledRightOK DEF SCR
<1>7. CASE SXL
  BY <1>7, SkipIfOK DEF SXL
<1>8. CASE LIF
  BY <1>8, FieldRequestedOK DEF LIF
<1>11. CASE SkipInstr \/ MiscInstr
  BY <1>11, SkipInstrOK, MiscInstrOK
<1> QED
  BY <1>1, <1>2, <1>3, <1>4, <1>5, <1>6, <1>7, <1>8, <1>11 DEF AlphaInstr

(***************************************************************************)
(* What any step does to the fields, to core and to the keyboard.  Most    *)
(* instructions do less, they Follow; the rest is shown one by one.        *)
(***************************************************************************)
Announced(d) ==
  d.ifr # cpu.ifr =>
    \/ "LIF" \in cpu.flags \ d.flags /\ d.ifr = cpu.ifb % \o40
    \/ d.ifr = 0 /\ d.sfr = cpu.ifr * \o40 + cpu.dfr /\ d.pc = LINC_TRAP_PC
    \/ d.ir = IOB_LINC
Contained(d) ==
  \A a : Cell(d.core, a) # Cell(cpu.core, a) => a \div \o2000 \in {cpu.ifr, cpu.dfr, d.ifr}
KeyTaken(d) ==
  d.kf # cpu.kf =>
    /\ Contains(d.ir, KCC)
    /\ Contains(d.ir, KRS) /\ Keys # {} => d.ac % \o400 = cpu.key
Lawful(d) == Announced(d) /\ Contained(d) /\ KeyTaken(d)

\* What follows is lawful.
LEMMA FollowsLawful ==
  ASSUME NEW d, Follows(d)
  PROVE  LOK(d) /\ Lawful(d)
BY DEF Follows, Calm, LincReach, Lawful, Announced, Contained, KeyTaken

\* A trap, or the halt that stands in for it.
LEMMA TrapOrHaltLawful ==
  ASSUME NEW c, Follows(c)
  PROVE  LOK(TrapOrHalt(c)) /\ Lawful(TrapOrHalt(c))
<1> DEFINE d == LincTrap(c)
<1>1. LOK(c) /\ Calm(cpu, c, LincReach)
  BY DEF Follows
<1>2. CASE Has(c.esf, CPU_ESF_INSTRUCTION_TRAP)
  <2>1. /\ d.sfr = c.ifr * \o40 + c.dfr /\ d.ifr = 0 /\ d.pc = LINC_TRAP_PC /\ d.kf = c.kf
        /\ \A a : a # LINC_TRAP_SAVE_PC => Cell(d.core, a) = Cell(c.core, a)
    BY <1>1, LincTrapFrame
  <2>2. LOK(d) /\ TrapOrHalt(c) = d
    BY <1>1, <1>2, LincTrapOK DEF TrapOrHalt
  <2> HIDE DEF d
  <2>3. LINC_TRAP_SAVE_PC \div \o2000 = 0
    BY DEF LINC_TRAP_SAVE_PC
  <2>4. Announced(d) /\ KeyTaken(d)
    BY <1>1, <2>1 DEF Calm, Announced, KeyTaken
  <2>5. Contained(d)
    BY <1>1, <2>1, <2>3 DEF Calm, Contained, LincReach
  <2> QED
    BY <2>2, <2>4, <2>5 DEF Lawful
<1>3. CASE ~Has(c.esf, CPU_ESF_INSTRUCTION_TRAP)
  <2>1. Follows(ClearFlag(c, "RUN"))
    BY Steps DEF FlagNames
  <2> QED
    BY <1>3, <2>1, FollowsLawful DEF TrapOrHalt
<1> QED
  BY <1>2, <1>3

\* The three instructions that trap.
LEMMA TrapsLawful ==
  ASSUME LOK(cpu), TRAP1 \/ TRAP23 \/ TAPE
  PROVE  LOK(cpu') /\ Lawful(cpu')
<1>1. Follows(F) /\ Follows(B)
  BY Fetched, OperandFetched
<1>2. Follows(ClearFlag(F, "RUN"))
  BY <1>1, Steps DEF FlagNames
<1> QED
  BY <1>1, <1>2, TrapOrHaltLawful, FollowsLawful DEF TRAP1, TRAP23, TAPE

\* JMP.
LEMMA JmpLawful ==
  ASSUME LOK(cpu), JMP
  PROVE  LOK(cpu') /\ Lawful(cpu')
<1> DEFINE d == Jump(F, D)
<1>1. LOK(F) /\ D \in Int /\ 0 <= D /\ D < \o2000
  BY Fetched
<1>2. /\ F.core = cpu.core /\ F.ifr = cpu.ifr /\ F.dfr = cpu.dfr /\ F.kf = cpu.kf
      /\ F.flags = cpu.flags /\ F.ifb = cpu.ifb
  BY FetchFrame
<1>3. /\ d.dfr = F.dfr /\ d.kf = F.kf
      /\ \/ d.ifr = F.ifr
         \/ "LIF" \in F.flags /\ "LIF" \notin d.flags /\ d.ifr = F.ifb % \o40
      /\ \A a : Cell(d.core, a) # Cell(F.core, a) => a \div \o2000 = d.ifr
  BY <1>1, JumpFrame
<1>4. LOK(d) /\ cpu' = d
  BY <1>1, JumpOK DEF JMP
<1> HIDE DEF d
<1>5. Announced(d) /\ KeyTaken(d) /\ Contained(d)
  BY <1>2, <1>3 DEF Announced, KeyTaken, Contained
<1> QED
  BY <1>4, <1>5 DEF Lawful

\* The return of a jump is stored in the field that the jump arrives in.
LEMMA JmpStores ==
  ASSUME LOK(cpu), JMP, NEW a, Cell(cpu'.core, a) # Cell(cpu.core, a)
  PROVE  a \div \o2000 = cpu'.ifr
<1> DEFINE d == Jump(F, D)
<1>1. LOK(F) /\ D \in Int /\ F.core = cpu.core
  BY Fetched, FetchFrame
<1>2. \A b : Cell(d.core, b) # Cell(F.core, b) => b \div \o2000 = d.ifr
  BY <1>1, JumpFrame
<1>3. cpu' = d
  BY DEF JMP
<1> QED
  BY <1>1, <1>2, <1>3

\* LDF changes the data field only.
LEMMA LdfLawful ==
  ASSUME LOK(cpu), LDF
  PROVE  LOK(cpu') /\ Lawful(cpu')
<1> DEFINE v == IA % \o40
           d == [F EXCEPT !["dfr"] = v]
<1>1. LOK(F) /\ IsCpu(F) /\ IA \in Int
  BY Fetched
<1>2. cpu' = SetDfr(F, IA) /\ SetDfr(F, IA) = d
  BY DEF LDF, SetDfr
<1>3. LOK(SetDfr(F, IA))
  BY <1>1, Setters
<1>4. F.core = cpu.core /\ F.ifr = cpu.ifr /\ F.kf = cpu.kf
  BY FetchFrame
<1> HIDE DEF v
<1>5. d.core = F.core /\ d.ifr = F.ifr /\ d.kf = F.kf
  BY <1>1, OtherRegisters, RegisterNames
<1> HIDE DEF d
<1> QED
  BY <1>2, <1>3, <1>4, <1>5 DEF Lawful, Announced, KeyTaken, Contained

\* PDP.
LEMMA PdpLawful ==
  ASSUME LOK(cpu), PDP
  PROVE  OK(cpu', "pdp8") /\ Lawful(cpu')
<1> DEFINE d == EnterPdp8(F)
<1>1. F.core = cpu.core /\ F.ifr = cpu.ifr /\ F.kf = cpu.kf
  BY FetchFrame
<1>2. d.core = F.core /\ d.ifr = F.ifr /\ d.kf = F.kf
  BY Fetched, EnterPdp8Frame
<1>3. OK(d, "pdp8") /\ cpu' = d
  BY Fetched, EnterPdp8OK DEF PDP
<1> HIDE DEF d
<1> QED
  BY <1>1, <1>2, <1>3 DEF Lawful, Announced, KeyTaken, Contained

\* IOB: the instruction in the next word, in its own words.
LEMMA IobFrame ==
  ASSUME LOK(cpu), IOB
  PROVE  /\ LOK(cpu') /\ Lawful(cpu')
         /\ \/ cpu'.pc \in {IncIndex(F.pc), IncIndex(IncIndex(F.pc))}
            \/ Contains(cpu'.ir, KSF) /\ Contains(cpu'.ir, TSF)
            \/ cpu'.ir = IOB_LINC
<1> DEFINE w == LincRead(F, F.pc)
           c == [F EXCEPT !["ir"] = w]
           e == IobIo(c)
           d == LincIncPc(e)
<1>1. LOK(F) /\ IsCpu(F)
  BY Fetched
<1>2. w \in Word
  BY <1>1, LincReadWord
<1>3. cpu' = d
  BY DEF IOB
<1> HIDE DEF w
<1>4. LOK(c) /\ IsCpu(c)
  BY <1>1, <1>2, SetIrOK, Setters DEF LOK, ModeNames
<1>5. /\ c.core = F.core /\ c.pc = F.pc /\ c.ifr = F.ifr /\ c.dfr = F.dfr /\ c.kf = F.kf
      /\ c.key = F.key /\ c.flags = F.flags
  BY <1>1, OtherRegisters, RegisterNames
<1>6. F.core = cpu.core /\ F.ifr = cpu.ifr /\ F.dfr = cpu.dfr /\ F.kf = cpu.kf /\ F.key = cpu.key
  BY FetchFrame
<1> HIDE DEF c
<1>7. LOK(e) /\ IsCpu(e)
  <2>1. OK(e, "linc")
    BY <1>4, IobIoOK DEF LOK, ModeNames
  <2> QED
    BY <2>1 DEF LOK, OK
<1>8. /\ e.core = c.core /\ e.dfr = c.dfr /\ e.ir = c.ir
      /\ e.kf # c.kf => /\ HasInstr(c, KCC)
                        /\ HasInstr(c, KRS) /\ Keys # {} => e.ac % \o400 = c.key
      /\ c.ir # IOB_LINC =>
           /\ e.ifr = c.ifr
           /\ e.pc \in {c.pc, NextPc(c)} \/ (HasInstr(c, KSF) /\ HasInstr(c, TSF))
  BY <1>4, IobIoFrame
<1>9. "8MODE" \notin c.flags /\ c.pc \in Word
  BY <1>4, Types DEF LOK, OK
<1> HIDE DEF e
<1>10. /\ d.core = e.core /\ d.pc = IncIndex(e.pc) % \o10000 /\ d.ac = e.ac /\ d.ir = e.ir
       /\ d.ifr = e.ifr /\ d.dfr = e.dfr /\ d.kf = e.kf
  BY <1>7, PcFrame DEF LincIncPc
<1>11. LOK(d)
  BY <1>7, Setters
<1> HIDE DEF d
<1>12. Announced(d) /\ Contained(d) /\ KeyTaken(d)
  BY <1>5, <1>6, <1>8, <1>10 DEF Announced, Contained, KeyTaken, HasInstr
<1>13. \/ d.pc \in {IncIndex(F.pc), IncIndex(IncIndex(F.pc))}
       \/ Contains(d.ir, KSF) /\ Contains(d.ir, TSF)
       \/ d.ir = IOB_LINC
  <2>1. ASSUME NEW x \in Int, 0 <= x, x < \o2000
        PROVE  /\ IncIndex(x) \in Int /\ 0 <= IncIndex(x) /\ IncIndex(x) < \o2000
               /\ IncIndex(x) % \o10000 = IncIndex(x)
    <3>1. IncIndex(x) \in Int /\ 0 <= IncIndex(x) /\ IncIndex(x) < \o2000
      BY <2>1, IncIndexBound
    <3> QED
      BY <3>1
  <2>2. c.pc \in Int /\ 0 <= c.pc /\ c.pc < \o2000
    BY <1>4, <1>9, WordBounds DEF LOK, OK
  <2>3. NextPc(c) = IncIndex(c.pc)
    <3>1. NextPc(c) = SetPc(c, IncIndex(c.pc)).pc
      BY <1>9 DEF NextPc, IncPc, LincIncPc
    <3>2. SetPc(c, IncIndex(c.pc)).pc = IncIndex(c.pc) % \o10000
      BY <1>4, PcFrame
    <3> QED
      BY <2>1, <2>2, <3>1, <3>2
  <2>4. IncIndex(IncIndex(c.pc)) % \o10000 = IncIndex(IncIndex(c.pc))
    BY <2>1, <2>2
  <2>5. e.pc \in {c.pc, IncIndex(c.pc)} => d.pc \in {IncIndex(c.pc), IncIndex(IncIndex(c.pc))}
    BY <1>10, <2>1, <2>2, <2>4
  <2> QED
    BY <1>5, <1>8, <1>10, <2>3, <2>5 DEF HasInstr
<1> QED
  BY <1>3, <1>11, <1>12, <1>13 DEF Lawful

(***************************************************************************)
(* A LINC step leaves a sound state, in LINC mode or, after PDP, in PDP-8  *)
(* mode, and changes the fields, core and the keyboard lawfully.           *)
(***************************************************************************)
THEOREM LincStepOK ==
  ASSUME LOK(cpu), LincStep, Samples \subseteq Int
  PROVE  /\ LOK(cpu') \/ (PDP /\ OK(cpu', "pdp8"))
         /\ Lawful(cpu')
<1>1. CASE DirectInstr
  BY <1>1, DirectOK, JmpLawful, FollowsLawful DEF DirectInstr
<1>2. CASE BetaInstr
  BY <1>2, BetaInstrOK, TrapsLawful, FollowsLawful
<1>3. CASE AlphaInstr
  <2>1. CASE LDF \/ TAPE \/ TRAP23 \/ PDP \/ IOB
    BY <2>1, LdfLawful, TrapsLawful, PdpLawful, IobFrame
  <2>2. CASE ~(LDF \/ TAPE \/ TRAP23 \/ PDP \/ IOB)
    BY <1>3, <2>2, AlphaInstrOK, FollowsLawful
  <2> QED
    BY <2>1, <2>2
<1> QED
  BY <1>1, <1>2, <1>3 DEF LincStep
=============================================================================
