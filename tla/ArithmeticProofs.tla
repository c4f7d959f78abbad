--------------------------- MODULE ArithmeticProofs -------------------------
(***************************************************************************)
(* The arithmetic of the LINC instructions is what Arithmetic says it is,  *)
(* for every pair of operands: sums, products and shifts.                  *)
(***************************************************************************)
EXTENDS Arithmetic, Pdp12Proofs

\* What the index register, or the address word, leaves of the processor.
LEMMA OperandFrame ==
  ASSUME LOK(cpu)
  PROVE  B.ac = cpu.ac /\ B.l = cpu.l /\ B.mq = cpu.mq
<1> DEFINE Kept(c) == c["ac"] = F["ac"] /\ c["l"] = F["l"] /\ c["mq"] = F["mq"]
<1>1. LOK(F) /\ IsCpu(F) /\ A \in Int /\ F.ac = cpu.ac /\ F.l = cpu.l /\ F.mq = cpu.mq
  BY FetchFrame, Fetched
<1>2. Kept(LincIncPc(F))
  <2> DEFINE v == IncIndex(F.pc) % \o10000
             d == [F EXCEPT !["pc"] = v]
  <2>1. LincIncPc(F) = d
    BY DEF LincIncPc, SetPc
  <2> HIDE DEF v
  <2>2. Kept(d)
    BY <1>1, RegisterFrame, RegisterNames
  <2> HIDE DEF d
  <2> QED
    BY <2>1, <2>2
<1>3. \A n : Kept(LincWrite(F, A, n))
  <2>1. LincAddress(F, A) \in Address
    BY <1>1, LincAddressInCore
  <2>2. \A n : Kept(CpuWrite(F, LincAddress(F, A), n))
    BY <1>1, <2>1, WriteFrame, RegisterNames
  <2> QED
    BY <2>2 DEF LincWrite
<1>4. Kept(B)
  BY <1>2, <1>3 DEF B, BetaState
<1> QED
  BY <1>1, <1>4

\* The end-around carry adds ones' complement numbers, and overflows when it must.
LEMMA OnesSumExact ==
  ASSUME NEW x \in Word, NEW y \in Word
  PROVE  LET t == OnesSum(x, y)
         IN /\ t \in Word
            /\ Overflows(x, y, t) => Abs(Signed(x) + Signed(y)) > MaxSigned
            /\ ~Overflows(x, y, t) => Signed(t) = Signed(x) + Signed(y)
<1> DEFINE s == x + y
           t == OnesSum(x, y)
<1>1. x \in Int /\ 0 <= x /\ x <= \o7777 /\ y \in Int /\ 0 <= y /\ y <= \o7777
  BY WordBounds
<1>2. ASSUME NEW w \in Int, 0 <= w, w <= \o7777
      PROVE  Has(w, \o4000) <=> w >= \o4000
  BY <1>2 DEF Has
<1>3. Has(s, \o10000) <=> s >= \o10000
  <2>1. s \in Int /\ 0 <= s /\ s < 2 * \o10000
    BY <1>1
  <2> HIDE DEF s
  <2> QED
    BY <2>1 DEF Has
<1>4. t = IF s >= \o10000 THEN (s % \o10000) + 1 ELSE s
  BY <1>3 DEF OnesSum
<1>5. s >= \o10000 => s % \o10000 = s - \o10000
  BY <1>1
<1>6. t = IF s >= \o10000 THEN s - \o7777 ELSE s
  BY <1>1, <1>4, <1>5
<1> HIDE DEF t
<1>7. t \in Int /\ 0 <= t /\ t <= \o7777
  BY <1>1, <1>6
<1>8. Overflows(x, y, t) <=> /\ (x >= \o4000) <=> (y >= \o4000)
                             /\ ~((t >= \o4000) <=> (x >= \o4000))
  <2>1. /\ Has(x, \o4000) <=> x >= \o4000
        /\ Has(y, \o4000) <=> y >= \o4000
        /\ Has(t, \o4000) <=> t >= \o4000
    BY <1>1, <1>2, <1>7
  <2>2. /\ Has(x, \o4000) \in BOOLEAN /\ Has(y, \o4000) \in BOOLEAN
        /\ Has(t, \o4000) \in BOOLEAN
    BY DEF Has
  <2>3. Overflows(x, y, t) <=> /\ Has(x, \o4000) <=> Has(y, \o4000)
                               /\ ~(Has(t, \o4000) <=> Has(x, \o4000))
    BY <2>2 DEF Overflows
  <2> QED
    BY <2>1, <2>3
<1>9. Overflows(x, y, t) => Abs(Signed(x) + Signed(y)) > MaxSigned
  BY <1>1, <1>6, <1>7, <1>8 DEF Abs, Signed, MaxSigned
<1>10. ~Overflows(x, y, t) => Signed(t) = Signed(x) + Signed(y)
  BY <1>1, <1>6, <1>7, <1>8 DEF Signed
<1>11. t \in Word
  BY <1>7 DEF Word
<1> QED
  BY <1>9, <1>10, <1>11 DEF t

\* An addition leaves the sum in AC and says in FLO whether it fits.
LEMMA AddedFrame ==
  ASSUME NEW c, IsCpu(c), c.ac \in Word, NEW y \in Word
  PROVE  LET d == Added(c, y)
         IN /\ d.ac = OnesSum(c.ac, y) /\ d.ifr = c.ifr /\ d.dfr = c.dfr
            /\ "FLO" \in d.flags <=> Overflows(c.ac, y, OnesSum(c.ac, y))
<1> DEFINE t == OnesSum(c.ac, y)
           fs == IF Overflows(c.ac, y, t) THEN c.flags \union {"FLO"} ELSE c.flags \ {"FLO"}
           e == [c EXCEPT !.flags = fs]
           v == t % \o10000
           d == [e EXCEPT !["ac"] = v]
<1>1. Added(c, y) = d
  <2>1. SetOverflow(c, c.ac, y, t) = e
    BY DEF SetOverflow, SetFlag, ClearFlag
  <2> HIDE DEF t, e
  <2>2. SetAc(SetOverflow(c, c.ac, y, t), t) = d
    BY <2>1 DEF SetAc
  <2> QED
    BY <2>2 DEF Added, t
<1>2. v = t
  <2>1. t \in Word
    BY OnesSumExact
  <2> HIDE DEF t
  <2>2. t \in Int /\ 0 <= t /\ t <= \o7777
    BY <2>1, WordBounds
  <2> QED
    BY <2>2
<1>3. "FLO" \in fs <=> Overflows(c.ac, y, t)
  OBVIOUS
<1>4. fs \in SUBSET FlagNames
  BY Types DEF FlagNames
<1> HIDE DEF fs, v, t
<1>5. IsCpu(e)
  BY <1>4, SetFlags
<1>6. e.ifr = c.ifr /\ e.dfr = c.dfr /\ e.flags = fs
  BY FlagsFrame
<1> HIDE DEF e
<1>7. d["ac"] = v /\ d.ifr = e.ifr /\ d.dfr = e.dfr /\ d.flags = e.flags
  BY <1>5, OtherRegisters, RegisterNames
<1> HIDE DEF d
<1> QED
  BY <1>1, <1>2, <1>3, <1>6, <1>7 DEF t

\* What ADM stores is what it has put in AC.
LEMMA AdmFrame ==
  ASSUME LOK(cpu), ADM, cpu.ac \in Word
  PROVE  /\ cpu'.ac = OnesSum(cpu.ac, Operand)
         /\ "FLO" \in cpu'.flags <=> Overflows(cpu.ac, Operand, OnesSum(cpu.ac, Operand))
         /\ CpuRead(cpu', LincAddress(B, Y)) = cpu'.ac
<1> DEFINE t == OnesSum(cpu.ac, Operand)
           c == Added(B, Operand)
           ma == LincAddress(B, Y)
           d == CpuWrite(c, ma, t)
<1>1. Follows(B) /\ IsCpu(B) /\ Operand \in Word /\ Operand \in Int /\ Y \in Int /\ B.ac = cpu.ac
  BY OperandFetched, OperandFrame
<1>2. t \in Word /\ t % \o10000 = t
  <2>1. t \in Word
    BY <1>1, OnesSumExact
  <2> HIDE DEF t
  <2>2. t \in Int /\ 0 <= t /\ t <= \o7777
    BY <2>1, WordBounds
  <2> QED
    BY <2>1, <2>2
<1>3. /\ c.ac = t /\ c.ifr = B.ifr /\ c.dfr = B.dfr
      /\ "FLO" \in c.flags <=> Overflows(cpu.ac, Operand, t)
  BY <1>1, AddedFrame
<1>4. Follows(c)
  BY <1>1, AddedOK
<1>5. IsCpu(c)
  BY <1>4, Steps
<1>6. LincAddress(c, Y) = ma
  BY <1>3 DEF LincAddress
<1>7. ma \in Address
  BY <1>1, LincAddressInCore
<1>8. cpu' = d
  BY <1>1, <1>6 DEF ADM, LincWrite
<1> HIDE DEF c, ma, t
<1>9. d["ac"] = c["ac"] /\ d["flags"] = c["flags"] /\ CpuRead(d, ma) = t % \o10000
  BY <1>5, <1>7, WriteFrame, RegisterNames
<1> HIDE DEF d
<1> QED
  BY <1>2, <1>3, <1>8, <1>9 DEF t, ma

\* For every pair of words: ones' complement addition is exact or says that it is not.
THEOREM SumsAreExact == Spec => SumIsExact
<1> DEFINE Exact ==
             AddStep /\ cpu.ac \in Word
               => /\ IF "FLO" \in cpu'.flags THEN Abs(TrueSum) > MaxSigned
                     ELSE Signed(cpu'.ac) = TrueSum
                  /\ ADM => CpuRead(cpu', LincAddress(B, Y)) = cpu'.ac
<1>1. StartOK(cpu) /\ [Next]_cpu => [Exact]_cpu
  <2> SUFFICES ASSUME StartOK(cpu), AddStep, cpu.ac \in Word
               PROVE  /\ IF "FLO" \in cpu'.flags THEN Abs(TrueSum) > MaxSigned
                         ELSE Signed(cpu'.ac) = TrueSum
                      /\ ADM => CpuRead(cpu', LincAddress(B, Y)) = cpu'.ac
    OBVIOUS
  <2>1. LOK(cpu)
    BY SoundModes DEF AddStep, ADD, ADA, ADM, Direct, Beta, BetaClass, LincTurn
  <2>2. ASSUME NEW y \in Word, y = Addend, cpu'.ac = OnesSum(cpu.ac, y),
               "FLO" \in cpu'.flags <=> Overflows(cpu.ac, y, OnesSum(cpu.ac, y))
        PROVE  IF "FLO" \in cpu'.flags THEN Abs(TrueSum) > MaxSigned
               ELSE Signed(cpu'.ac) = TrueSum
    BY <2>2, OnesSumExact DEF TrueSum
  <2>3. /\ IsCpu(F) /\ F.ac = cpu.ac /\ LincRead(F, D) \in Word
        /\ IsCpu(B) /\ B.ac = cpu.ac /\ Operand \in Word
    BY <2>1, Fetched, FetchFrame, LincReadWord, OperandFetched, OperandFrame
  <2>4. F.ir \in Int
    BY <2>3, Integral
  <2>5. CASE ADD
    <3>1. Direct(1) /\ ~ADM
      BY <2>4, <2>5 DEF ADD, ADM, Direct, Beta, BetaClass
    <3>2. Addend = LincRead(F, D) /\ cpu' = Added(F, LincRead(F, D))
      BY <2>5, <3>1 DEF ADD, Addend
    <3> QED
      BY <2>2, <2>3, <3>1, <3>2, AddedFrame
  <2>6. ADA \/ ADM => Addend = Operand
    <3>1. ADA \/ ADM => ~Direct(1)
      BY <2>4 DEF ADA, ADM, Direct, Beta, BetaClass
    <3> QED
      BY <3>1 DEF Addend
  <2>7. CASE ADA
    <3>1. cpu' = Added(B, Operand) /\ ~ADM
      BY <2>7 DEF ADA, ADM, Beta
    <3> QED
      BY <2>2, <2>3, <2>6, <2>7, <3>1, AddedFrame
  <2>8. CASE ADM
    BY <2>1, <2>2, <2>3, <2>6, <2>8, AdmFrame
  <2> QED
    BY <2>5, <2>7, <2>8 DEF AddStep
<1> QED
  BY <1>1, Invariant, PTL DEF Spec, SumIsExact
----------------------------------------------------------------------------
\* The magnitude that MUL computes with.
LEMMA MagnitudeExact ==
  ASSUME NEW x \in Word
  PROVE  /\ Magnitude(x) = Abs(Signed(x))
         /\ Magnitude(x) \in Int /\ 0 <= Magnitude(x) /\ Magnitude(x) <= MaxSigned
         /\ Has(x, \o4000) <=> x >= \o4000
<1>1. x \in Int /\ 0 <= x /\ x <= \o7777
  BY WordBounds
<1>2. Has(x, \o4000) <=> x >= \o4000
  BY <1>1 DEF Has
<1>3. CASE x >= \o4000
  <2>1. (-x - 1) % \o4000 = \o7777 - x
    BY <1>1, <1>3
  <2>2. Magnitude(x) = \o7777 - x
    BY <1>2, <1>3, <2>1 DEF Magnitude, Comp
  <2> QED
    BY <1>1, <1>2, <1>3, <2>2 DEF Abs, Signed, MaxSigned
<1>4. CASE x < \o4000
  <2>1. Magnitude(x) = x
    BY <1>1, <1>2, <1>4 DEF Magnitude
  <2> QED
    BY <1>1, <1>2, <1>4, <2>1 DEF Abs, Signed, MaxSigned
<1> QED
  BY <1>1, <1>3, <1>4

\* The product of two magnitudes.
LEMMA ProductBound ==
  ASSUME NEW m \in Int, NEW n \in Int, 0 <= m, m <= MaxSigned, 0 <= n, n <= MaxSigned
  PROVE  m * n \in Int /\ 0 <= m * n /\ m * n <= MaxSigned * MaxSigned
<1>1. m * n \in Int /\ 0 <= m * n
  OBVIOUS
<1>2. m * n <= MaxSigned * n
  BY DEF MaxSigned
<1> QED
  BY <1>1, <1>2 DEF MaxSigned

\* The halves that MUL leaves of a product p, under either sign.
LEMMA ProductHalves ==
  ASSUME NEW p \in Int, 0 <= p, p <= MaxSigned * MaxSigned
  PROVE  /\ (p \div \o4000) % \o4000 = p \div \o4000
         /\ p \div \o4000 \in Int /\ 0 <= p \div \o4000 /\ p \div \o4000 < \o4000
         /\ p % \o4000 \in Int /\ 0 <= p % \o4000 /\ p % \o4000 < \o4000
         /\ (p \div \o4000) * \o4000 + (p % \o4000) = p
         /\ ((-p - 1) \div \o4000) % \o4000 = \o3777 - (p \div \o4000)
         /\ (-p - 1) % \o4000 = \o3777 - (p % \o4000)
<1> DEFINE h == p \div \o4000
           l == p % \o4000
<1>1. h \in Int /\ 0 <= h /\ h < \o4000 /\ l \in Int /\ 0 <= l /\ l < \o4000 /\ h * \o4000 + l = p
  BY DEF MaxSigned
<1> HIDE DEF h, l
<1>2. h % \o4000 = h
  BY <1>1
<1> DEFINE k == -p - 1
           g == -h - 1
           r == \o3777 - l
<1>3. k \in Int /\ g \in Int /\ r \in Int /\ k = g * \o4000 + r /\ 0 <= r /\ r < \o4000
  BY <1>1
<1>4. k \div \o4000 = g /\ k % \o4000 = r
  <2> HIDE DEF k, g, r
  <2> QED
    BY <1>3
<1>5. (-h - 1) % \o4000 = \o3777 - h
  BY <1>1
<1> QED
  BY <1>1, <1>2, <1>4, <1>5 DEF h, l

\* What MUL leaves in AC, MQ and the link.
LEMMA ProductExact ==
  ASSUME NEW hf \in BOOLEAN, NEW x \in Word, NEW y \in Word
  PROVE  LET product == Abs(Signed(x)) * Abs(Signed(y))
             negative == (x >= \o4000) # (y >= \o4000)
             ac == MulAc(hf, x, y) % \o10000
             mq == MulMq(x, y) % \o10000
         IN /\ IF hf THEN Uncomplemented(ac) * \o4000 + mq \div 2 = product
               ELSE Uncomplemented(ac) = product % \o4000
            /\ mq \div 2 = product % \o4000
            /\ negative = (ac >= \o4000)
            /\ negative = (ProductSign(x, y) # 0)
<1> DEFINE p == Magnitude(x) * Magnitude(y)
           h == p \div \o4000
           l == p % \o4000
           negative == (x >= \o4000) # (y >= \o4000)
           half == IF hf THEN h ELSE l
           a == MulAc(hf, x, y)
           q == MulMq(x, y)
<1>1. p = Abs(Signed(x)) * Abs(Signed(y)) /\ p \in Int /\ 0 <= p /\ p <= MaxSigned * MaxSigned
  BY MagnitudeExact, ProductBound
<1>2. /\ h % \o4000 = h /\ h \in Int /\ 0 <= h /\ h < \o4000
      /\ l \in Int /\ 0 <= l /\ l < \o4000 /\ h * \o4000 + l = p
      /\ ((-p - 1) \div \o4000) % \o4000 = \o3777 - h /\ (-p - 1) % \o4000 = \o3777 - l
  <2> HIDE DEF p
  <2> QED
    BY <1>1, ProductHalves
<1>3. ProductSign(x, y) = IF negative THEN \o4000 ELSE 0
  <2>1. Has(x, \o4000) <=> x >= \o4000
    BY MagnitudeExact
  <2>2. Has(y, \o4000) <=> y >= \o4000
    BY MagnitudeExact
  <2>3. Has(x, \o4000) \in BOOLEAN /\ Has(y, \o4000) \in BOOLEAN
    BY DEF Has
  <2>4. negative <=> ~(Has(x, \o4000) <=> Has(y, \o4000))
    BY <2>1, <2>2
  <2> HIDE DEF negative
  <2> QED
    BY <2>3, <2>4 DEF ProductSign
<1>4. q = l * 2
  BY DEF MulMq
<1> DEFINE signed == IF ProductSign(x, y) = 0 THEN p ELSE -p - 1
<1>5. a = (IF hf THEN (signed \div \o4000) % \o4000 ELSE signed % \o4000) + ProductSign(x, y)
  BY DEF MulAc, Comp
<1>6. negative \in BOOLEAN
  OBVIOUS
<1> HIDE DEF p, h, l, negative, a, q
<1>7. a = IF negative THEN \o7777 - half ELSE half
  <2>1. CASE negative
    <3>1. signed = -p - 1
      BY <1>3, <2>1
    <3> HIDE DEF signed
    <3> QED
      BY <1>2, <1>3, <1>5, <2>1, <3>1
  <2>2. CASE ~negative
    <3>1. signed = p
      BY <1>3, <2>2
    <3> HIDE DEF signed
    <3> QED
      BY <1>2, <1>3, <1>5, <2>2, <3>1 DEF h, l
  <2> QED
    BY <2>1, <2>2
<1>8. half \in Int /\ 0 <= half /\ half < \o4000
  BY <1>2
<1> HIDE DEF half
<1>9. a \in Int /\ 0 <= a /\ a <= \o7777 /\ (negative <=> a >= \o4000) /\ Uncomplemented(a) = half
  BY <1>6, <1>7, <1>8 DEF Uncomplemented
<1>10. a % \o10000 = a
  BY <1>9
<1>11. q % \o10000 = q /\ q \div 2 = l
  BY <1>2, <1>4
<1>12. negative <=> (ProductSign(x, y) # 0)
  BY <1>3
<1>13. IF hf THEN half * \o4000 + l = p ELSE half = l
  BY <1>2 DEF half
<1>14. /\ IF hf THEN Uncomplemented(a % \o10000) * \o4000 + ((q % \o10000) \div 2) = p
          ELSE Uncomplemented(a % \o10000) = l
       /\ ((q % \o10000) \div 2) = l
       /\ negative = (a % \o10000 >= \o4000)
       /\ negative = (ProductSign(x, y) # 0)
  <2>1. (a >= \o4000) \in BOOLEAN /\ (ProductSign(x, y) # 0) \in BOOLEAN
    OBVIOUS
  <2>2. negative = (a >= \o4000) /\ negative = (ProductSign(x, y) # 0)
    BY <1>6, <1>9, <1>12, <2>1
  <2> QED
    BY <1>9, <1>10, <1>11, <1>13, <2>2
<1> QED
  BY <1>1, <1>14 DEF p, l, negative, a, q

\* MUL stores the three parts of the product.
LEMMA MultipliedFrame ==
  ASSUME NEW c, IsCpu(c), NEW hf, NEW k
  PROVE  LET d == Multiplied(c, hf, k)
         IN /\ d.ac = MulAc(hf, c.ac, k) % \o10000 /\ d.mq = MulMq(c.ac, k) % \o10000
            /\ d.l = IF ProductSign(c.ac, k) # 0 THEN 1 ELSE 0
<1> DEFINE a == MulAc(hf, c.ac, k) % \o10000
           q == MulMq(c.ac, k) % \o10000
           n == IF ProductSign(c.ac, k) # 0 THEN 1 ELSE 0
           d == [g \in Registers \union {"core", "out"} |->
                   IF g = "ac" THEN a ELSE IF g = "mq" THEN q ELSE IF g = "l" THEN n ELSE c[g]]
<1>1. Multiplied(c, hf, k) = [[[c EXCEPT !.ac = a] EXCEPT !.mq = q] EXCEPT !.l = n]
  BY DEF Multiplied, SetL, SetMq, SetAc
<1> HIDE DEF a, q, n
<1>2. Multiplied(c, hf, k) = d
  BY <1>1 DEF IsCpu
<1>3. d.ac = a /\ d.mq = q /\ d.l = n
  BY RegisterNames
<1> HIDE DEF d
<1> QED
  BY <1>2, <1>3 DEF a, q, n

\* For every pair of operands, integers and fractions: MUL leaves the exact product.
THEOREM ProductsAreExact == Spec => ProductIsExact
<1> DEFINE Exact ==
             MUL /\ cpu.ac \in Word
               => LET product == Abs(Signed(cpu.ac)) * Abs(Signed(Operand))
                      negative == (cpu.ac >= \o4000) # (Operand >= \o4000)
                  IN /\ IF RightHand
                        THEN Uncomplemented(cpu'.ac) * \o4000 + cpu'.mq \div 2 = product
                        ELSE Uncomplemented(cpu'.ac) = product % \o4000
                     /\ cpu'.mq \div 2 = product % \o4000
                     /\ negative = (cpu'.ac >= \o4000)
                     /\ negative = (cpu'.l = 1)
<1>1. StartOK(cpu) /\ [Next]_cpu => [Exact]_cpu
  <2> SUFFICES ASSUME StartOK(cpu), MUL, cpu.ac \in Word
               PROVE  Exact
    OBVIOUS
  <2>1. LOK(cpu)
    BY SoundModes DEF MUL, Beta, BetaClass, LincTurn
  <2>2. IsCpu(B) /\ B.ac = cpu.ac /\ Operand \in Word /\ RightHand \in BOOLEAN
    BY <2>1, OperandFetched, OperandFrame DEF RightHand, Has
  <2>3. cpu' = Multiplied(B, RightHand, Operand)
    BY DEF MUL
  <2>4. /\ cpu'.ac = MulAc(RightHand, cpu.ac, Operand) % \o10000
        /\ cpu'.mq = MulMq(cpu.ac, Operand) % \o10000
        /\ cpu'.l = IF ProductSign(cpu.ac, Operand) # 0 THEN 1 ELSE 0
    BY <2>2, <2>3, MultipliedFrame
  <2>5. (ProductSign(cpu.ac, Operand) # 0) = (cpu'.l = 1)
    BY <2>4
  <2> QED
    BY <2>2, <2>4, <2>5, ProductExact
<1> QED
  BY <1>1, Invariant, PTL DEF Spec, ProductIsExact
----------------------------------------------------------------------------
\* Any number is its quotient times the divisor and its remainder.
LEMMA Division ==
  ASSUME NEW a \in Int, NEW b \in Int, b > 0
  PROVE  /\ a \div b \in Int /\ a % b \in Int /\ 0 <= a % b /\ a % b < b
         /\ a = b * (a \div b) + (a % b)
         /\ 0 <= a => 0 <= a \div b
OBVIOUS

\* A number of p * q places' worth, turned left by p = 2^k and right by it.
TurnedLeft(v, p, q) == (v % q) * p + (v \div q)
TurnedRight(v, w, p, q) == (w \div p) + (v % p) * q

\* A value turned left over p places and then one place more is turned left over 2p.
LEMMA LeftOnce ==
  ASSUME NEW p \in Int, NEW q \in Int, NEW t \in Int, p > 0, q > 0, t = p * q,
         NEW v \in Int, 0 <= v, v < 2 * t
  PROVE  LET u == TurnedLeft(v, p, 2 * q)
         IN /\ u \in Int /\ 0 <= u /\ u < 2 * t
            /\ ((u * 2) % (2 * t)) + (u \div t) = TurnedLeft(v, 2 * p, q)
<1> DEFINE h == v \div (2 * q)
           r == v % (2 * q)
           b == r \div q
           l == r % q
           u == r * p + h
<1>1. h \in Int /\ r \in Int /\ 0 <= r /\ r < 2 * q /\ v = (2 * q) * h + r /\ 0 <= h
  BY Division
<1> HIDE DEF h, r
<1>2. l \in Int /\ b \in Int /\ 0 <= l /\ l < q /\ r = q * b + l /\ 0 <= b
  BY <1>1, Division
<1> HIDE DEF l, b
<1>3. b < 2
  <2>1. CASE b >= 2
    <3>1. q * b >= q * 2
      BY <1>2, <2>1
    <3> QED
      BY <1>1, <1>2, <3>1
  <2> QED
    BY <1>2, <2>1
<1>4. h < p
  <2>1. CASE h >= p
    <3>1. q * h >= q * p
      BY <1>1, <2>1
    <3> QED
      BY <1>1, <3>1
  <2> QED
    BY <1>1, <2>1
<1>5. v \div q = 2 * h + b /\ v % q = l
  <2>1. v = q * (2 * h + b) + l
    BY <1>1, <1>2
  <2> QED
    BY <1>1, <1>2, <2>1, Quotient
<1> DEFINE m == l * p + h
<1>6. m \in Int /\ 0 <= m /\ m < t
  <2>1. l * p >= 0 /\ l * p <= (q - 1) * p
    BY <1>2
  <2>2. (q - 1) * p = t - p
    OBVIOUS
  <2> QED
    BY <1>1, <1>2, <1>4, <2>1, <2>2
<1>7. u = t * b + m
  BY <1>1, <1>2
<1> HIDE DEF m, u
<1>8. t > 0
  BY <1>6
<1>9. u \div t = b
  BY <1>2, <1>6, <1>7, <1>8, Quotient
<1>10. (u * 2) % (2 * t) = 2 * m
  <2>1. u * 2 = (2 * t) * b + 2 * m
    BY <1>2, <1>6, <1>7
  <2> DEFINE s == 2 * t
             e == 2 * m
  <2>2. s \in Int /\ s > 0 /\ e \in Int /\ 0 <= e /\ e < s /\ b \in Int
    BY <1>2, <1>6, <1>8
  <2>3. u * 2 = s * b + e
    BY <2>1
  <2> HIDE DEF s, e
  <2>4. (s * b + e) % s = e
    BY <2>2, Quotient
  <2>5. (u * 2) % s = e
    BY <2>3, <2>4
  <2> QED
    BY <2>5 DEF s, e
<1>11. 2 * m + b = l * (2 * p) + (2 * h + b)
  BY <1>1, <1>2 DEF m
<1>12. u \in Int /\ 0 <= u /\ u < 2 * t
  <2>1. b = 0 \/ b = 1
    BY <1>2, <1>3
  <2> QED
    BY <1>6, <1>7, <2>1
<1>13. u = TurnedLeft(v, p, 2 * q)
  BY DEF TurnedLeft, u, r, h
<1>14. TurnedLeft(v, 2 * p, q) = l * (2 * p) + (2 * h + b)
  BY <1>5 DEF TurnedLeft
<1> QED
  BY <1>9, <1>10, <1>11, <1>12, <1>13, <1>14

\* A value turned right over p places and then one place more is turned right over 2p.
LEMMA RightOnce ==
  ASSUME NEW p \in Int, NEW q \in Int, p > 0, q > 0,
         NEW v \in Int, NEW w \in Int, 0 <= v, 0 <= w
  PROVE  LET u == TurnedRight(v, w, p, 2 * q)
         IN /\ u \in Int
            /\ u % 2 = (w \div p) % 2
            /\ (u \div 2) + ((v \div p) % 2) * (p * q) = TurnedRight(v, w, 2 * p, q)
<1> DEFINE r == v % p
           g == v \div p
           h == g \div 2
           b == g % 2
           g2 == w \div p
           r2 == w % p
           h2 == g2 \div 2
           b2 == g2 % 2
           u == g2 + r * (2 * q)
<1>1. g \in Int /\ r \in Int /\ 0 <= r /\ r < p /\ v = p * g + r
  BY Division
<1>2. g2 \in Int /\ r2 \in Int /\ 0 <= r2 /\ r2 < p /\ w = p * g2 + r2
  BY Division
<1> HIDE DEF g, r, g2, r2
<1>3. h \in Int /\ b \in Int /\ g = 2 * h + b /\ b \in {0, 1}
  BY <1>1
<1>4. h2 \in Int /\ b2 \in Int /\ g2 = 2 * h2 + b2 /\ b2 \in {0, 1}
  BY <1>2
<1> HIDE DEF h, b, h2, b2
<1> DEFINE m == p * b + r
           m2 == p * b2 + r2
<1>5. m \in Int /\ 0 <= m /\ m < 2 * p /\ v = (2 * p) * h + m
  <2>1. v = (2 * p) * h + m
    BY <1>1, <1>3
  <2> QED
    BY <1>1, <1>3, <2>1
<1>6. m2 \in Int /\ 0 <= m2 /\ m2 < 2 * p /\ w = (2 * p) * h2 + m2
  <2>1. w = (2 * p) * h2 + m2
    BY <1>2, <1>4
  <2> QED
    BY <1>2, <1>4, <2>1
<1> HIDE DEF m2
<1>7. v % (2 * p) = m
  <2> HIDE DEF m
  <2> QED
    BY <1>3, <1>5, Quotient
<1>8. w \div (2 * p) = h2
  BY <1>4, <1>6, Quotient
<1>9. r * q \in Int
  BY <1>1
<1>10. u = 2 * (h2 + r * q) + b2
  BY <1>1, <1>4
<1>11. u \in Int /\ u \div 2 = h2 + r * q /\ u % 2 = b2
  <2> DEFINE x == h2 + r * q
  <2>1. x \in Int
    BY <1>4, <1>9
  <2> HIDE DEF x, u
  <2>2. u = 2 * x + b2
    BY <1>10 DEF x
  <2>3. u \in Int /\ u \div 2 = x /\ u % 2 = b2
    BY <1>4, <2>1, <2>2
  <2> QED
    BY <2>3 DEF x
<1>12. h2 + r * q + b * (p * q) = h2 + m * q
  BY <1>1, <1>3, <1>4
<1>13. TurnedRight(v, w, p, 2 * q) = u
  BY DEF TurnedRight, r, g2
<1>14. TurnedRight(v, w, 2 * p, q) = h2 + m * q
  BY <1>7, <1>8 DEF TurnedRight
<1> QED
  BY <1>11, <1>12, <1>13, <1>14 DEF b, g, b2, g2

\* Turning right stays in the ring.
LEMMA RightBound ==
  ASSUME NEW p \in Int, NEW q \in Int, p > 0, q > 0,
         NEW v \in Int, NEW w \in Int, 0 <= v, 0 <= w, w < p * q
  PROVE  LET u == TurnedRight(v, w, p, q)
         IN u \in Int /\ 0 <= u /\ u < p * q
<1> DEFINE r == v % p
           g == w \div p
           s == w % p
<1>1. r \in Int /\ 0 <= r /\ r < p
  BY Division
<1>2. g \in Int /\ s \in Int /\ 0 <= s /\ s < p /\ w = p * g + s /\ 0 <= g
  BY Division
<1> HIDE DEF r, g, s
<1>3. g < q
  <2>1. CASE g >= q
    <3>1. p * g >= p * q
      BY <1>2, <2>1
    <3> QED
      BY <1>2, <3>1
  <2> QED
    BY <1>2, <2>1
<1>4. r * q >= 0 /\ r * q <= (p - 1) * q /\ r * q \in Int
  BY <1>1
<1>5. (p - 1) * q = p * q - q
  OBVIOUS
<1>6. p * q \in Int
  OBVIOUS
<1> DEFINE t == p * q
           x == r * q
<1> HIDE DEF t, x
<1>7. g + x \in Int /\ 0 <= g + x /\ g + x < t
  BY <1>2, <1>3, <1>4, <1>5, <1>6 DEF t, x
<1> QED
  BY <1>7 DEF TurnedRight, t, x, g, r

\* The powers of two on the two sides of a place of an n-bit register.
LEMMA PowerPlaces ==
  ASSUME NEW n \in {12, 13}, NEW k \in 0 .. (n - 1)
  PROVE  /\ Pow2(k) \in Int /\ Pow2(k) > 0 /\ Pow2(k + 1) = 2 * Pow2(k)
         /\ Pow2(n - 1 - k) \in Int /\ Pow2(n - 1 - k) > 0
         /\ Pow2(n - k) = 2 * Pow2(n - 1 - k) /\ Pow2(n - (k + 1)) = Pow2(n - 1 - k)
         /\ Pow2(n - 1) = Pow2(k) * Pow2(n - 1 - k)
         /\ Pow2(n) = 2 * Pow2(n - 1) /\ Pow2(n) \in Int /\ Pow2(n - 1) \in Int
         /\ Pow2(0) = 1 /\ Pow2(11) = \o4000 /\ Pow2(12) = \o10000 /\ Pow2(13) = 2 * \o10000
<1> DEFINE w == << 1, 2, 4, 8, 16, 32, 64, 128, 256, 512, 1024, 2048, 4096, 8192 >>
<1>1. \A j \in 0 .. 13 : Pow2(j) = w[j + 1]
  BY DEF Pow2, Powers
<1>2. n - 1 - k \in 0 .. 12 /\ n - k \in 0 .. 13 /\ k + 1 \in 0 .. 13 /\ n - (k + 1) = n - 1 - k
  OBVIOUS
<1>3. k \in {0, 1, 2, 3, 4, 5, 6, 7, 8, 9, 10, 11, 12}
  OBVIOUS
<1> QED
  BY <1>1, <1>2, <1>3

\* An n-bit v, k places to the left or to the right.
LeftBy(v, k, n) == TurnedLeft(v, Pow2(k % n), Pow2(n - (k % n)))
RightBy(v, k, n) == TurnedRight(v, v, Pow2(k % n), Pow2(n - (k % n)))

\* The value ROL computes for k places and the value for k + 1 differ by one turn.
LEMMA LeftRing ==
  ASSUME NEW n \in {12, 13}, NEW v \in Int, 0 <= v, v < Pow2(n), NEW k \in 0 .. 15
  PROVE  LET u == LeftBy(v, k, n)
         IN /\ LeftBy(v, 0, n) = v
            /\ u \in Int /\ 0 <= u /\ u < Pow2(n)
            /\ LeftBy(v, k + 1, n) = ((u * 2) % Pow2(n)) + (u \div Pow2(n - 1))
<1> DEFINE j == k % n
<1>1. /\ j \in 0 .. (n - 1) /\ 0 \in 0 .. (n - 1) /\ n - 1 \in 0 .. (n - 1)
      /\ 0 % n = 0 /\ n - 0 = n /\ n - n = 0 /\ (n - 1) + 1 = n
      /\ (k + 1) % n = IF j = n - 1 THEN 0 ELSE j + 1
  OBVIOUS
<1>2. TurnedLeft(v, Pow2(0), Pow2(n)) = v /\ TurnedLeft(v, Pow2(n), Pow2(0)) = v
  <2>1. Pow2(n) \in {4096, 8192} /\ Pow2(0) = 1
    BY <1>1, PowerPlaces
  <2> QED
    BY <2>1 DEF TurnedLeft
<1> HIDE DEF j
<1> DEFINE u == TurnedLeft(v, Pow2(j), Pow2(n - j))
<1>3. /\ u \in Int /\ 0 <= u /\ u < Pow2(n)
      /\ ((u * 2) % Pow2(n)) + (u \div Pow2(n - 1)) = TurnedLeft(v, Pow2(j + 1), Pow2(n - (j + 1)))
  <2> DEFINE p == Pow2(j)
             q == Pow2(n - 1 - j)
             t == Pow2(n - 1)
  <2>1. /\ p \in Int /\ p > 0 /\ Pow2(j + 1) = 2 * p /\ q \in Int /\ q > 0
        /\ Pow2(n - j) = 2 * q /\ Pow2(n - (j + 1)) = q /\ t = p * q /\ t \in Int
        /\ Pow2(n) = 2 * t
    BY <1>1, PowerPlaces
  <2> HIDE DEF p, q, t, u
  <2>2. u = TurnedLeft(v, p, 2 * q)
    BY <2>1 DEF p, u
  <2>3. /\ u \in Int /\ 0 <= u /\ u < 2 * t
        /\ ((u * 2) % (2 * t)) + (u \div t) = TurnedLeft(v, 2 * p, q)
    BY <2>1, <2>2, LeftOnce
  <2> QED
    BY <2>1, <2>3 DEF t
<1>4. LeftBy(v, k + 1, n) = TurnedLeft(v, Pow2(j + 1), Pow2(n - (j + 1)))
  <2>1. CASE j = n - 1
    BY <1>1, <1>2, <2>1 DEF LeftBy
  <2>2. CASE j # n - 1
    BY <1>1, <2>2 DEF LeftBy
  <2> QED
    BY <2>1, <2>2
<1>5. LeftBy(v, k, n) = u /\ LeftBy(v, 0, n) = v
  BY <1>1, <1>2 DEF LeftBy, j
<1> QED
  BY <1>3, <1>4, <1>5

\* The same for the value ROR computes, whose lowest bit is bit k of the value it began with.
LEMMA RightRing ==
  ASSUME NEW n \in {12, 13}, NEW v \in Int, 0 <= v, v < Pow2(n), NEW k \in 0 .. 15
  PROVE  LET u == RightBy(v, k, n)
         IN /\ RightBy(v, 0, n) = v
            /\ u \in Int /\ 0 <= u /\ u < Pow2(n)
            /\ RightBy(v, k + 1, n) = (u \div 2) + (u % 2) * Pow2(n - 1)
            /\ k < 12 => u % 2 = (v \div Pow2(k)) % 2
<1> DEFINE j == k % n
<1>1. /\ j \in 0 .. (n - 1) /\ 0 \in 0 .. (n - 1) /\ n - 1 \in 0 .. (n - 1)
      /\ 0 % n = 0 /\ n - 0 = n /\ n - n = 0 /\ (n - 1) + 1 = n
      /\ k < 12 => j = k
      /\ (k + 1) % n = IF j = n - 1 THEN 0 ELSE j + 1
  OBVIOUS
<1>2. TurnedRight(v, v, Pow2(0), Pow2(n)) = v /\ TurnedRight(v, v, Pow2(n), Pow2(0)) = v
  <2>1. Pow2(n) \in {4096, 8192} /\ Pow2(0) = 1
    BY <1>1, PowerPlaces
  <2> QED
    BY <2>1 DEF TurnedRight
<1> HIDE DEF j
<1> DEFINE u == TurnedRight(v, v, Pow2(j), Pow2(n - j))
<1>3. /\ u \in Int /\ 0 <= u /\ u < Pow2(n)
      /\ u % 2 = (v \div Pow2(j)) % 2
      /\ (u \div 2) + (u % 2) * Pow2(n - 1) = TurnedRight(v, v, Pow2(j + 1), Pow2(n - (j + 1)))
  <2> DEFINE p == Pow2(j)
             q == Pow2(n - 1 - j)
             t == Pow2(n - 1)
  <2>1. /\ p \in Int /\ p > 0 /\ Pow2(j + 1) = 2 * p /\ q \in Int /\ q > 0
        /\ Pow2(n - j) = 2 * q /\ Pow2(n - (j + 1)) = q /\ t = p * q /\ t \in Int
        /\ Pow2(n) = 2 * t
    BY <1>1, PowerPlaces
  <2> HIDE DEF p, q, t, u
  <2>2. u = TurnedRight(v, v, p, 2 * q)
    BY <2>1 DEF p, u
  <2> DEFINE x == TurnedRight(v, v, p, 2 * q)
  <2>3. /\ x \in Int /\ x % 2 = (v \div p) % 2
        /\ (x \div 2) + ((v \div p) % 2) * (p * q) = TurnedRight(v, v, 2 * p, q)
    <3>1. p \in Int /\ q \in Int /\ p > 0 /\ q > 0
      BY <2>1
    <3> QED
      BY ONLY <3>1, RightOnce, v \in Int, 0 <= v, ZenonT(60)
  <2> DEFINE d == 2 * q
  <2>4. d \in Int /\ d > 0 /\ p * d = 2 * t /\ v < p * d
    BY <2>1
  <2> HIDE DEF d
  <2>5. LET y == TurnedRight(v, v, p, d) IN 0 <= y /\ y < p * d
    BY <2>1, <2>4, RightBound
  <2>6. 0 <= x /\ x < 2 * t
    BY <2>4, <2>5 DEF d
  <2> HIDE DEF x
  <2> QED
    BY <2>1, <2>2, <2>3, <2>6 DEF t, p, x
<1>4. RightBy(v, k + 1, n) = TurnedRight(v, v, Pow2(j + 1), Pow2(n - (j + 1)))
  <2>1. CASE j = n - 1
    BY <1>1, <1>2, <2>1 DEF RightBy
  <2>2. CASE j # n - 1
    BY <1>1, <2>2 DEF RightBy
  <2> QED
    BY <2>1, <2>2
<1>5. RightBy(v, k, n) = u /\ RightBy(v, 0, n) = v
  BY <1>1, <1>2 DEF RightBy, j
<1> QED
  BY <1>1, <1>3, <1>4, <1>5

\* What a function does that turns its registers one place at a time is what Shifted is.
LEMMA Serial ==
  ASSUME NEW c, NEW op, NEW linked, NEW n \in 0 .. 15, NEW file,
         file[0] = ShiftRegisters(c),
         \A k \in 0 .. 14 : file[k + 1] = One(op, file[k], linked)
  PROVE  Shifted(c, op, linked, n) = file[n]
<1> DEFINE Eq(f) == f = [k \in 0 .. n |-> IF k = 0 THEN ShiftRegisters(c)
                                          ELSE One(op, f[k - 1], linked)]
           f == CHOOSE g : Eq(g)
           h == [k \in 0 .. n |-> file[k]]
<1>1. Eq(h)
  <2>1. \A k \in 0 .. n : k # 0 => k - 1 \in 0 .. 14 /\ (k - 1) + 1 = k /\ k - 1 \in 0 .. n
    OBVIOUS
  <2>2. \A k \in 0 .. n : k # 0 => h[k] = One(op, h[k - 1], linked)
    BY <2>1 DEF h
  <2> QED
    BY <2>2
<1>2. Eq(f)
  BY <1>1
<1>3. Shifted(c, op, linked, n) = f[n]
  BY DEF Shifted
<1> HIDE DEF f
<1>4. f[0] = file[0]
  BY <1>2
<1>5. \A k \in 0 .. 14 : k < n /\ f[k] = file[k] => f[k + 1] = file[k + 1]
  <2> TAKE k \in 0 .. 14
  <2> HAVE k < n /\ f[k] = file[k]
  <2>1. k + 1 \in 0 .. n /\ k + 1 # 0 /\ (k + 1) - 1 = k
    OBVIOUS
  <2>2. f[k + 1] = One(op, f[(k + 1) - 1], linked)
    BY <1>2, <2>1
  <2> QED
    BY <2>1, <2>2
<1>6. n \in {0, 1, 2, 3, 4, 5, 6, 7, 8, 9, 10, 11, 12, 13, 14, 15}
  OBVIOUS
<1>7. f[n] = file[n]
  BY <1>4, <1>5, <1>6
<1> QED
  BY <1>3, <1>7

\* The register file with the link as the thirteenth bit of the accumulator, or beside it.
Linked(u, m) == [ac |-> u % \o10000, l |-> u \div \o10000, mq |-> m]
Unlinked(u, l, m) == [ac |-> u, l |-> l, mq |-> m]
Ring(c) == c.l * \o10000 + c.ac

\* The accumulator, with the link or without, lies in the ring it is turned in.
LEMMA RingBounds ==
  ASSUME NEW c, c.ac \in Word, c.l \in {0, 1}
  PROVE  /\ Ring(c) \in Int /\ 0 <= Ring(c) /\ Ring(c) < Pow2(13)
         /\ c.ac \in Int /\ 0 <= c.ac /\ c.ac < Pow2(12)
         /\ ShiftRegisters(c) = Linked(Ring(c), c.mq)
         /\ ShiftRegisters(c) = Unlinked(c.ac, c.l, c.mq)
         /\ WithLink(c.ac, c.l) = Ring(c)
<1>1. c.ac \in Int /\ 0 <= c.ac /\ c.ac <= \o7777 /\ c.l \in Int /\ 0 <= c.l /\ c.l <= 1
  BY WordBounds
<1>2. Pow2(12) = \o10000 /\ Pow2(13) = 2 * \o10000
  BY DEF Pow2, Powers
<1>4. /\ Ring(c) \in Int /\ 0 <= Ring(c) /\ Ring(c) < 2 * \o10000
      /\ Ring(c) \div \o10000 = c.l /\ Ring(c) % \o10000 = c.ac
  <2> DEFINE x == c.ac
             y == c.l
             r == y * \o10000 + x
  <2>1. x \in Int /\ 0 <= x /\ x <= \o7777 /\ y \in Int /\ 0 <= y /\ y <= 1
    BY <1>1
  <2> HIDE DEF x, y
  <2>2. r \in Int /\ 0 <= r /\ r < 2 * \o10000 /\ r \div \o10000 = y /\ r % \o10000 = x
    BY <2>1
  <2>3. Ring(c) = r
    BY DEF Ring, x, y
  <2> HIDE DEF r
  <2> QED
    BY <2>2, <2>3 DEF x, y
<1>5. ShiftRegisters(c) = Linked(Ring(c), c.mq) /\ ShiftRegisters(c) = Unlinked(c.ac, c.l, c.mq)
  BY <1>4 DEF Linked, Unlinked, ShiftRegisters
<1>6. WithLink(c.ac, c.l) = Ring(c)
  BY <1>1 DEF WithLink, Ring
<1> QED
  BY <1>1, <1>2, <1>4, <1>5, <1>6

\* ROL, as many one-place shifts.
LEMMA LeftSerial ==
  ASSUME NEW c, c.ac \in Word, c.l \in {0, 1}, NEW i \in BOOLEAN, NEW a \in 0 .. 15
  PROVE  Shifted(c, 5, i, a) = IF i THEN Linked(LeftBy(Ring(c), a, 13), c.mq)
                               ELSE Unlinked(LeftBy(c.ac, a, 12), c.l, c.mq)
<1> DEFINE U(k) == LeftBy(Ring(c), k, 13)
           V(k) == LeftBy(c.ac, k, 12)
           state == [k \in 0 .. 15 |-> IF i THEN Linked(U(k), c.mq) ELSE Unlinked(V(k), c.l, c.mq)]
<1>1. \A k \in 0 .. 14 : /\ U(0) = Ring(c) /\ U(k) \in Int /\ 0 <= U(k) /\ U(k) < 2 * \o10000
                         /\ U(k + 1) = ((U(k) * 2) % (2 * \o10000)) + (U(k) \div \o10000)
  <2>1. \A k \in 0 .. 14 : /\ U(0) = Ring(c) /\ U(k) \in Int /\ 0 <= U(k) /\ U(k) < Pow2(13)
                           /\ U(k + 1) = ((U(k) * 2) % Pow2(13)) + (U(k) \div Pow2(13 - 1))
    BY RingBounds, LeftRing
  <2>2. Pow2(13) = 2 * \o10000 /\ Pow2(13 - 1) = \o10000
    BY DEF Pow2, Powers
  <2> HIDE DEF U
  <2> QED
    BY <2>1, <2>2
<1>2. \A k \in 0 .. 14 : /\ V(0) = c.ac /\ V(k) \in Int /\ 0 <= V(k) /\ V(k) < \o10000
                         /\ V(k + 1) = ((V(k) * 2) % \o10000) + (V(k) \div \o4000)
  <2>1. \A k \in 0 .. 14 : /\ V(0) = c.ac /\ V(k) \in Int /\ 0 <= V(k) /\ V(k) < Pow2(12)
                           /\ V(k + 1) = ((V(k) * 2) % Pow2(12)) + (V(k) \div Pow2(12 - 1))
    BY RingBounds, LeftRing
  <2>2. Pow2(12) = \o10000 /\ Pow2(12 - 1) = \o4000
    BY DEF Pow2, Powers
  <2> HIDE DEF V
  <2> QED
    BY <2>1, <2>2
<1> HIDE DEF U, V
<1>3. state[0] = ShiftRegisters(c)
  BY <1>1, <1>2, RingBounds
<1>4. \A k \in 0 .. 14 :
        state[k] = (IF i THEN Linked(U(k), c.mq) ELSE Unlinked(V(k), c.l, c.mq))
        /\ state[k + 1] = (IF i THEN Linked(U(k + 1), c.mq) ELSE Unlinked(V(k + 1), c.l, c.mq))
  OBVIOUS
<1>5. state[a] = IF i THEN Linked(U(a), c.mq) ELSE Unlinked(V(a), c.l, c.mq)
  OBVIOUS
<1> HIDE DEF state
<1>6. \A k \in 0 .. 14 : state[k + 1] = OneLeft(state[k], i)
  <2> TAKE k \in 0 .. 14
  <2>1. CASE i
    <3>1. U(k) \in Int /\ 0 <= U(k) /\ U(k) < 2 * \o10000
      BY <1>1
    <3>2. /\ U(k + 1) % \o10000 = (((U(k) % \o10000) * 2) % \o10000) + (U(k) \div \o10000)
          /\ U(k + 1) \div \o10000 = (U(k) % \o10000) \div \o4000
      <4> DEFINE u == U(k)
                 w == ((u * 2) % (2 * \o10000)) + (u \div \o10000)
      <4>1. u \in Int /\ 0 <= u /\ u < 2 * \o10000 /\ U(k + 1) = w
        BY <1>1, <3>1
      <4> HIDE DEF u
      <4>2. /\ w % \o10000 = (((u % \o10000) * 2) % \o10000) + (u \div \o10000)
            /\ w \div \o10000 = (u % \o10000) \div \o4000
        BY <4>1
      <4> HIDE DEF w
      <4> QED
        BY <4>1, <4>2 DEF u
    <3>3. Linked(U(k + 1), c.mq) = OneLeft(Linked(U(k), c.mq), i)
      BY <2>1, <3>2 DEF OneLeft, Linked, Top
    <3> QED
      BY <1>4, <2>1, <3>3
  <2>2. CASE ~i
    <3>1. Unlinked(V(k + 1), c.l, c.mq) = OneLeft(Unlinked(V(k), c.l, c.mq), i)
      BY <1>2, <2>2 DEF OneLeft, Unlinked, Top
    <3> QED
      BY <1>4, <2>2, <3>1
  <2> QED
    BY <2>1, <2>2
<1>7. \A k \in 0 .. 14 : state[k + 1] = One(5, state[k], i)
  BY <1>6 DEF One
<1> QED
  BY <1>3, <1>5, <1>7, Serial DEF U, V

\* MQ, k places after the bits of x began to come into it.
MqBy(x, y, k) == TurnedRight(x, y, Pow2(k), Pow2(12 - k))

\* Each place a ROR turns moves one more bit of the accumulator into the top of MQ.
LEMMA MqOnce ==
  ASSUME NEW x \in Int, 0 <= x, NEW y \in Int, 0 <= y, NEW k \in 0 .. 11
  PROVE  /\ MqBy(x, y, 0) = y
         /\ MqBy(x, y, k + 1) = (MqBy(x, y, k) \div 2) + ((x \div Pow2(k)) % 2) * \o4000
<1> DEFINE p == Pow2(k)
           q == Pow2(12 - 1 - k)
<1>1. /\ p \in Int /\ p > 0 /\ Pow2(k + 1) = 2 * p /\ q \in Int /\ q > 0
      /\ Pow2(12 - k) = 2 * q /\ Pow2(12 - (k + 1)) = q
  BY PowerPlaces
<1>2. \o4000 = p * q
  BY PowerPlaces
<1>3. MqBy(x, y, 0) = y
  <2>1. Pow2(0) = 1 /\ Pow2(12 - 0) = \o10000
    BY DEF Pow2, Powers
  <2>2. TurnedRight(x, y, 1, \o10000) = y
    BY DEF TurnedRight
  <2> QED
    BY <2>1, <2>2 DEF MqBy
<1> HIDE DEF p, q
<1>4. p \in Int /\ q \in Int /\ p > 0 /\ q > 0
  BY <1>1
<1>5. LET u == TurnedRight(x, y, p, 2 * q)
      IN (u \div 2) + ((x \div p) % 2) * (p * q) = TurnedRight(x, y, 2 * p, q)
  BY ONLY <1>4, RightOnce, x \in Int, 0 <= x, y \in Int, 0 <= y
<1>6. MqBy(x, y, k) = TurnedRight(x, y, p, 2 * q) /\ MqBy(x, y, k + 1) = TurnedRight(x, y, 2 * p, q)
  BY <1>1 DEF MqBy, p
<1> QED
  BY <1>2, <1>3, <1>5, <1>6 DEF p

\* The link does not come into the low twelve places.
LEMMA RingPlace ==
  ASSUME NEW x \in Int, NEW l \in Int, NEW k \in 0 .. 11
  PROVE  ((l * \o10000 + x) \div Pow2(k)) % 2 = (x \div Pow2(k)) % 2
<1> DEFINE p == Pow2(k)
           q == Pow2(12 - 1 - k)
           g == x \div p
           r == x % p
           z == l * q
<1>1. p \in Int /\ p > 0 /\ q \in Int
  BY PowerPlaces
<1>2. \o4000 = p * q
  BY PowerPlaces
<1> HIDE DEF p, q
<1>3. g \in Int /\ r \in Int /\ 0 <= r /\ r < p /\ x = p * g + r
  BY <1>1, Division
<1> HIDE DEF g, r
<1>4. z \in Int /\ p * z = l * \o4000
  BY <1>1, <1>2
<1> HIDE DEF z
<1>5. l * \o10000 + x = p * (2 * z + g) + r
  <2> DEFINE pg == p * g
             pz == p * z
  <2>1. p * (2 * z + g) = 2 * pz + pg
    BY <1>1, <1>3, <1>4
  <2>2. x = pg + r /\ pz = l * \o4000 /\ pg \in Int /\ pz \in Int
    BY <1>1, <1>3, <1>4
  <2> HIDE DEF pg, pz
  <2> QED
    BY <1>1, <1>3, <1>4, <2>1, <2>2
<1>6. (p * (2 * z + g) + r) \div p = 2 * z + g
  BY <1>1, <1>3, <1>4, Quotient
<1>7. (2 * z + g) % 2 = g % 2
  BY <1>3, <1>4
<1>8. ((l * \o10000 + x) \div p) % 2 = g % 2
  BY <1>5, <1>6, <1>7
<1> QED
  BY <1>8 DEF p, g

\* ROR, as many one-place shifts; into MQ go the bits of the accumulator, twelve at most.
LEMMA RightSerial ==
  ASSUME NEW c, c.ac \in Word, c.l \in {0, 1}, c.mq \in Word, NEW i \in BOOLEAN, NEW a \in 0 .. 15
  PROVE  \E m : /\ Shifted(c, 6, i, a) = IF i THEN Linked(RightBy(Ring(c), a, 13), m)
                                         ELSE Unlinked(RightBy(c.ac, a, 12), c.l, m)
                /\ a <= 12 => m = MqBy(c.ac, c.mq, a)
<1> DEFINE U(k) == RightBy(Ring(c), k, 13)
           V(k) == RightBy(c.ac, k, 12)
           bit(k) == (IF i THEN U(k) ELSE V(k)) % 2
           n(k) == MqBy(c.ac, c.mq, k)
           n13 == (n(12) \div 2) + bit(12) * \o4000
           n14 == (n13 \div 2) + bit(13) * \o4000
           n15 == (n14 \div 2) + bit(14) * \o4000
           M(k) == IF k <= 12 THEN n(k) ELSE IF k = 13 THEN n13 ELSE IF k = 14 THEN n14 ELSE n15
           file(k) == IF i THEN Linked(U(k), M(k)) ELSE Unlinked(V(k), c.l, M(k))
           state == [k \in 0 .. 15 |-> file(k)]
<1>1. \A k \in 0 .. 14 : /\ U(0) = Ring(c) /\ U(k) \in Int /\ 0 <= U(k) /\ U(k) < 2 * \o10000
                         /\ U(k + 1) = (U(k) \div 2) + (U(k) % 2) * \o10000
                         /\ k < 12 => U(k) % 2 = (Ring(c) \div Pow2(k)) % 2
  <2>1. \A k \in 0 .. 14 : /\ U(0) = Ring(c) /\ U(k) \in Int /\ 0 <= U(k) /\ U(k) < Pow2(13)
                           /\ U(k + 1) = (U(k) \div 2) + (U(k) % 2) * Pow2(13 - 1)
                           /\ k < 12 => U(k) % 2 = (Ring(c) \div Pow2(k)) % 2
    BY RingBounds, RightRing
  <2>2. Pow2(13) = 2 * \o10000 /\ Pow2(13 - 1) = \o10000
    BY DEF Pow2, Powers
  <2> HIDE DEF U
  <2> QED
    BY <2>1, <2>2
<1>2. \A k \in 0 .. 14 : /\ V(0) = c.ac /\ V(k) \in Int /\ 0 <= V(k) /\ V(k) < \o10000
                         /\ V(k + 1) = (V(k) \div 2) + (V(k) % 2) * \o4000
                         /\ k < 12 => V(k) % 2 = (c.ac \div Pow2(k)) % 2
  <2>1. \A k \in 0 .. 14 : /\ V(0) = c.ac /\ V(k) \in Int /\ 0 <= V(k) /\ V(k) < Pow2(12)
                           /\ V(k + 1) = (V(k) \div 2) + (V(k) % 2) * Pow2(12 - 1)
                           /\ k < 12 => V(k) % 2 = (c.ac \div Pow2(k)) % 2
    BY RingBounds, RightRing
  <2>2. Pow2(12) = \o10000 /\ Pow2(12 - 1) = \o4000
    BY DEF Pow2, Powers
  <2> HIDE DEF V
  <2> QED
    BY <2>1, <2>2
<1> HIDE DEF U, V
<1>3. \A k \in 0 .. 11 : bit(k) = (c.ac \div Pow2(k)) % 2
  <2> TAKE k \in 0 .. 11
  <2>1. c.ac \in Int /\ c.l \in Int
    BY RingBounds
  <2>2. (Ring(c) \div Pow2(k)) % 2 = (c.ac \div Pow2(k)) % 2
    BY <2>1, RingPlace DEF Ring
  <2> QED
    BY <1>1, <1>2, <2>2
<1>4. n(0) = c.mq /\ \A k \in 0 .. 11 : n(k + 1) = (n(k) \div 2) + bit(k) * \o4000
  <2>1. c.ac \in Int /\ 0 <= c.ac /\ c.mq \in Int /\ 0 <= c.mq
    BY WordBounds
  <2>2. \A k \in 0 .. 11 : n(k + 1) = (n(k) \div 2) + ((c.ac \div Pow2(k)) % 2) * \o4000
    BY <2>1, MqOnce
  <2>3. n(0) = c.mq
    BY <2>1, MqOnce
  <2> HIDE DEF n, bit
  <2> QED
    BY <1>3, <2>2, <2>3
<1> HIDE DEF n, bit
<1>5. M(0) = c.mq /\ \A k \in 0 .. 14 : M(k + 1) = (M(k) \div 2) + bit(k) * \o4000
  <2>1. ASSUME NEW k \in 0 .. 14
        PROVE  M(k + 1) = (M(k) \div 2) + bit(k) * \o4000
    <3>1. CASE k < 12
      BY <1>4, <3>1
    <3>2. CASE k = 12
      BY <3>2
    <3>3. CASE k = 13
      BY <3>3
    <3>4. CASE k = 14
      BY <3>4
    <3> QED
      BY <3>1, <3>2, <3>3, <3>4
  <2> QED
    BY <1>4, <2>1
<1>6. a <= 12 => M(a) = n(a)
  OBVIOUS
<1> HIDE DEF M
<1>7. file(0) = ShiftRegisters(c)
  BY <1>1, <1>2, <1>5, RingBounds
<1>8. \A k \in 0 .. 14 : file(k + 1) = OneRight(file(k), i)
  <2> TAKE k \in 0 .. 14
  <2>1. CASE i
    <3> DEFINE u == U(k)
               w == (u \div 2) + (u % 2) * \o10000
    <3>1. u \in Int /\ 0 <= u /\ u < 2 * \o10000 /\ U(k + 1) = w /\ bit(k) = u % 2
      BY <1>1, <2>1 DEF bit
    <3> HIDE DEF u
    <3>2. /\ w % \o10000 = ((u % \o10000) \div 2) + (u \div \o10000) * \o4000
          /\ w \div \o10000 = (u % \o10000) % 2 /\ (u % \o10000) % 2 = u % 2
      BY <3>1
    <3> HIDE DEF w
    <3>3. Linked(w, M(k + 1)) = OneRight(Linked(u, M(k)), i)
      BY <1>5, <2>1, <3>1, <3>2 DEF OneRight, Linked, Out
    <3>4. file(k) = Linked(u, M(k)) /\ file(k + 1) = Linked(w, M(k + 1))
      BY <2>1, <3>1 DEF u
    <3> HIDE DEF file
    <3> QED
      BY <3>3, <3>4
  <2>2. CASE ~i
    <3>1. bit(k) = V(k) % 2
      BY <2>2 DEF bit
    <3>2. Unlinked(V(k + 1), c.l, M(k + 1)) = OneRight(Unlinked(V(k), c.l, M(k)), i)
      BY <1>2, <1>5, <2>2, <3>1 DEF OneRight, Unlinked, Out
    <3> QED
      BY <2>2, <3>2
  <2> QED
    BY <2>1, <2>2
<1> HIDE DEF file
<1>9. state[0] = ShiftRegisters(c) /\ state[a] = file(a)
  BY <1>7
<1>10. \A k \in 0 .. 14 : state[k + 1] = One(6, state[k], i)
  BY <1>8 DEF One
<1> HIDE DEF state
<1>11. Shifted(c, 6, i, a) = file(a)
  BY <1>9, <1>10, Serial
<1> WITNESS M(a)
<1> QED
  BY <1>6, <1>11 DEF file, U, V, n

\* The weight of the sign of the 24 bits of AC and MQ.
HalfLong == \o40000000

\* The powers of two on the two sides of a place of the 24 bits of AC and MQ.
LEMMA LongPlaces ==
  ASSUME NEW k \in 0 .. 15
  PROVE  /\ Pow2(k) \in Int /\ Pow2(k) > 0 /\ Pow2(k + 1) = 2 * Pow2(k)
         /\ Pow2(23 - k) \in Int /\ Pow2(23 - k) > 0 /\ Pow2(23 - k) <= HalfLong
         /\ Pow2(24 - k) = 2 * Pow2(23 - k) /\ Pow2(24 - (k + 1)) = Pow2(23 - k)
         /\ Pow2(k) * Pow2(23 - k) = HalfLong
         /\ Pow2(0) = 1
<1>1. k \in {0, 1, 2, 3, 4, 5, 6, 7, 8, 9, 10, 11, 12, 13, 14, 15}
  OBVIOUS
<1> QED
  BY <1>1, SMT DEF Pow2, Powers, HalfLong

SignBit(x) == IF x >= \o4000 THEN 1 ELSE 0
\* SCR by k places and SCR by k + 1 differ by one arithmetic shift of the 24 bits.
LEMMA ScaledOnce ==
  ASSUME NEW x \in Word, NEW y \in Word, NEW k \in 0 .. 15
  PROVE  LET u == Scaled(x, y, k)
         IN /\ Scaled(x, y, 0) = x * \o10000 + y
            /\ u \in Int /\ 0 <= u /\ u < 2 * HalfLong
            /\ u \div HalfLong = SignBit(x)
            /\ Scaled(x, y, k + 1) = (u \div 2) + SignBit(x) * HalfLong
<1> DEFINE p == Pow2(k)
           q == Pow2(23 - k)
           t == HalfLong
           s == x * \o10000 + y
           g == s \div p
           r == s % p
           h == g \div 2
           b == g % 2
           d == SignBit(x)
           m == p * b + r
<1>1. /\ p \in Int /\ p > 0 /\ Pow2(k + 1) = 2 * p /\ q \in Int /\ q > 0 /\ q <= t
      /\ Pow2(24 - k) = 2 * q /\ Pow2(24 - (k + 1)) = q /\ p * q = t
  BY LongPlaces, Zenon
<1>2. s \in Int /\ 0 <= s /\ s < 2 * t /\ d \in {0, 1} /\ (d = 1 <=> s >= t)
  <2>1. x \in Int /\ 0 <= x /\ x <= \o7777 /\ y \in Int /\ 0 <= y /\ y <= \o7777
    BY WordBounds
  <2> QED
    BY <2>1, SMT DEF SignBit, HalfLong
<1>3. Scaled(x, y, 0) = s
  <2>1. Pow2(0) = 1
    BY LongPlaces
  <2>2. s \div 1 = s
    BY <1>2
  <2>3. (IF x >= \o4000 THEN (1 - 1) * Pow2(24 - 0) ELSE 0) = 0
    BY DEF Pow2, Powers
  <2> HIDE DEF s
  <2> QED
    BY <1>2, <2>1, <2>2, <2>3 DEF Scaled, s
<1>4. /\ Scaled(x, y, k) = g + (IF x >= \o4000 THEN (p - 1) * (2 * q) ELSE 0)
      /\ Scaled(x, y, k + 1) = (s \div (2 * p)) + (IF x >= \o4000 THEN (2 * p - 1) * q ELSE 0)
  BY <1>1 DEF Scaled
<1>5. (p - 1) * (2 * q) = 2 * t - 2 * q /\ (2 * p - 1) * q = 2 * t - q
  BY <1>1
<1>6. d = 1 <=> x >= \o4000
  BY DEF SignBit
<1> HIDE DEF p, q, s, d
<1>7. g \in Int /\ r \in Int /\ 0 <= r /\ r < p /\ s = p * g + r /\ 0 <= g
  BY <1>1, <1>2, Division
<1> HIDE DEF g, r
<1>8. h \in Int /\ b \in {0, 1} /\ g = 2 * h + b
  BY <1>7
<1> HIDE DEF h, b
<1>9. m \in Int /\ 0 <= m /\ m < 2 * p /\ s = (2 * p) * h + m
  <2>1. s = (2 * p) * h + m
    BY <1>1, <1>7, <1>8
  <2> QED
    BY <1>1, <1>7, <1>8, <2>1
<1> HIDE DEF m
<1>10. s \div (2 * p) = h
  BY <1>1, <1>8, <1>9, Quotient
<1>11. g < 2 * q
  <2>1. CASE g >= 2 * q
    <3>1. p * g >= p * (2 * q)
      BY <1>1, <1>7, <2>1
    <3>2. p * (2 * q) = 2 * t
      BY <1>1
    <3> QED
      BY <1>1, <1>2, <1>7, <3>1, <3>2
  <2> QED
    BY <1>1, <1>7, <2>1
<1>12. d = 1 => g >= q
  <2>1. CASE d = 1 /\ g <= q - 1
    <3>1. p * g <= p * (q - 1)
      BY <1>1, <1>7, <2>1
    <3>2. p * (q - 1) = t - p
      BY <1>1
    <3> QED
      BY <1>1, <1>2, <1>7, <2>1, <3>1, <3>2
  <2> QED
    BY <1>1, <1>7, <2>1
<1>13. d = 0 => g < q
  <2>1. CASE d = 0 /\ g >= q
    <3>1. p * g >= p * q
      BY <1>1, <1>7, <2>1
    <3> QED
      BY <1>1, <1>2, <1>7, <2>1, <3>1
  <2> QED
    BY <1>1, <1>7, <2>1
<1> DEFINE u == Scaled(x, y, k)
<1>14. /\ u = g + (IF d = 1 THEN 2 * t - 2 * q ELSE 0)
       /\ Scaled(x, y, k + 1) = h + (IF d = 1 THEN 2 * t - q ELSE 0)
  BY <1>4, <1>5, <1>6, <1>10
<1> HIDE DEF u
<1>15. u \in Int /\ 0 <= u /\ u < 2 * t /\ u \div t = d
  BY <1>1, <1>2, <1>7, <1>11, <1>12, <1>13, <1>14
<1>16. Scaled(x, y, k + 1) = (u \div 2) + d * t
  <2>1. CASE d = 1
    <3>1. t \in Int
      BY DEF HalfLong
    <3> HIDE DEF t
    <3>2. u = 2 * (h + t - q) + b /\ Scaled(x, y, k + 1) = h + 2 * t - q
      BY <1>1, <1>8, <1>14, <2>1, <3>1
    <3>3. u \div 2 = h + t - q
      BY <1>1, <1>8, <3>1, <3>2
    <3> QED
      BY <1>1, <1>8, <2>1, <3>1, <3>2, <3>3
  <2>2. CASE d = 0
    BY <1>1, <1>8, <1>14, <2>2
  <2> QED
    BY <1>2, <2>1, <2>2
<1>17. x * \o10000 + y = s /\ SignBit(x) = d
  BY DEF s, d
<1> QED
  BY <1>3, <1>15, <1>16, <1>17 DEF u

\* Where the bits of the 24 go when it is halved and its sign d kept.
LEMMA Halved ==
  ASSUME NEW u \in Int, 0 <= u, u < 2 * HalfLong, NEW d \in {0, 1}, u \div HalfLong = d
  PROVE  LET w == (u \div 2) + d * HalfLong
         IN /\ w \div \o10000 = ((u \div \o10000) \div 2) + ((u \div \o10000) \div \o4000) * \o4000
            /\ w % \o10000 = ((u % \o10000) \div 2) + ((u \div \o10000) % 2) * \o4000
            /\ (w \div \o4000) % 2 = (u \div \o10000) % 2
<1> DEFINE x == u \div \o10000
           y == u % \o10000
           g == x \div 2
           o == x % 2
           z == y \div 2
           w == (u \div 2) + d * HalfLong
<1>1. x \in Int /\ 0 <= x /\ y \in Int /\ 0 <= y /\ y < \o10000 /\ u = \o10000 * x + y
  OBVIOUS
<1>2. /\ u < \o10000 * \o10000 /\ (d = 0 => u < \o4000 * \o10000) /\ (d = 1 => u >= \o4000 * \o10000)
      /\ d * HalfLong = \o10000 * (d * \o4000)
  BY SMT DEF HalfLong
<1> HIDE DEF x, y
<1>3. x < \o10000 /\ (d = 0 => x < \o4000) /\ (d = 1 => x >= \o4000)
  BY <1>1, <1>2, SMT
<1>4. x \div \o4000 = d
  BY <1>1, <1>3
<1>5. /\ g \in Int /\ 0 <= g /\ o \in {0, 1} /\ x = 2 * g + o
      /\ z \in Int /\ 0 <= z /\ z < \o4000 /\ u \div 2 = \o4000 * x + z
  BY <1>1
<1> HIDE DEF g, o, z
<1> DEFINE m == z + o * \o4000
           e == g + d * \o4000
<1>6. m \in Int /\ 0 <= m /\ m < \o10000 /\ e \in Int
  BY <1>5
<1>7. w = \o10000 * e + m /\ w = \o4000 * (2 * e + o) + z
  BY <1>2, <1>5, SMT
<1> HIDE DEF w, m, e
<1>8. w \div \o10000 = e /\ w % \o10000 = m
  BY <1>6, <1>7
<1>9. w \div \o4000 = 2 * e + o
  BY <1>5, <1>6, <1>7
<1>10. (w \div \o4000) % 2 = o
  BY <1>5, <1>6, <1>9
<1> QED
  BY <1>4, <1>8, <1>10 DEF x, y, g, o, z, w, m, e

\* AC and MQ as one number of 24 bits.
Long(u, l) == [ac |-> u \div \o10000, l |-> l, mq |-> u % \o10000]

\* SCR, as many one-place shifts.
LEMMA ScaleSerial ==
  ASSUME NEW c, c.ac \in Word, c.l \in {0, 1}, c.mq \in Word, NEW i \in BOOLEAN, NEW a \in 0 .. 15
  PROVE  LET u == Scaled(c.ac, c.mq, a)
         IN Shifted(c, 7, i, a) = Long(u, IF i /\ a >= 1 THEN (u \div \o4000) % 2 ELSE c.l)
<1> DEFINE V(k) == Scaled(c.ac, c.mq, k)
           link(k) == IF i /\ k >= 1 THEN (V(k) \div \o4000) % 2 ELSE c.l
           file(k) == Long(V(k), link(k))
           state == [k \in 0 .. 15 |-> file(k)]
           d == SignBit(c.ac)
<1>1. \A k \in 0 .. 14 : /\ V(0) = c.ac * \o10000 + c.mq
                         /\ V(k) \in Int /\ 0 <= V(k) /\ V(k) < 2 * HalfLong
                         /\ V(k) \div HalfLong = d
                         /\ V(k + 1) = (V(k) \div 2) + d * HalfLong
  <2> SUFFICES ASSUME NEW k \in 0 .. 14
               PROVE  /\ V(0) = c.ac * \o10000 + c.mq
                      /\ V(k) \in Int /\ 0 <= V(k) /\ V(k) < 2 * HalfLong
                      /\ V(k) \div HalfLong = d
                      /\ V(k + 1) = (V(k) \div 2) + d * HalfLong
    OBVIOUS
  <2> QED
    BY ScaledOnce
<1>2. d \in {0, 1}
  BY DEF SignBit
<1> HIDE DEF V, d
<1>3. file(0) = ShiftRegisters(c)
  <2> DEFINE x == c.ac
             y == c.mq
             s == x * \o10000 + y
  <2>1. x \in Int /\ 0 <= x /\ x <= \o7777 /\ y \in Int /\ 0 <= y /\ y <= \o7777
    BY WordBounds
  <2>2. V(0) = s
    BY <1>1
  <2> HIDE DEF x, y
  <2>3. s \div \o10000 = x /\ s % \o10000 = y
    BY <2>1
  <2> HIDE DEF s
  <2> QED
    BY <2>2, <2>3 DEF x, y, Long, ShiftRegisters
<1>4. \A k \in 0 .. 14 : file(k + 1) = OneScale(file(k), i)
  <2> TAKE k \in 0 .. 14
  <2> DEFINE u == V(k)
             w == (u \div 2) + d * HalfLong
             n == link(k)
  <2>1. u \in Int /\ 0 <= u /\ u < 2 * HalfLong /\ u \div HalfLong = d /\ V(k + 1) = w
    <3> HIDE DEF link
    <3> QED
      BY <1>1
  <2>2. file(k) = Long(u, n)
    OBVIOUS
  <2>3. k + 1 >= 1
    OBVIOUS
  <2>4. file(k + 1) = Long(w, IF i THEN (w \div \o4000) % 2 ELSE c.l)
    BY <2>1, <2>3
  <2>5. ~i => n = c.l
    OBVIOUS
  <2> HIDE DEF u, n
  <2>6. /\ w \div \o10000 = ((u \div \o10000) \div 2) + ((u \div \o10000) \div \o4000) * \o4000
        /\ w % \o10000 = ((u % \o10000) \div 2) + ((u \div \o10000) % 2) * \o4000
        /\ (w \div \o4000) % 2 = (u \div \o10000) % 2
    BY <1>2, <2>1, Halved
  <2> HIDE DEF w, file
  <2>7. Long(w, IF i THEN (w \div \o4000) % 2 ELSE c.l) = OneScale(Long(u, n), i)
    BY <2>5, <2>6 DEF OneScale, Long, Out, Top
  <2> QED
    BY <2>2, <2>4, <2>7
<1> HIDE DEF file
<1>5. state[0] = ShiftRegisters(c) /\ state[a] = file(a)
  BY <1>3
<1>6. \A k \in 0 .. 14 : state[k + 1] = One(7, state[k], i)
  BY <1>4 DEF One
<1> HIDE DEF state
<1>7. Shifted(c, 7, i, a) = file(a)
  BY <1>5, <1>6, Serial
<1> QED
  BY <1>7 DEF file, V

\* What the code computes before it masks is the rotated value and multiples of 2^n.
LEMMA Rotations ==
  ASSUME NEW n \in {12, 13}, NEW v \in Int, 0 <= v, v < Pow2(n), NEW a \in 0 .. 15
  PROVE  /\ \E h \in Int : RotateLeft(v, a % n, n) = LeftBy(v, a, n) + Pow2(n) * h
         /\ \E h \in Int : RotateRight(v, a % n, n) = RightBy(v, a, n) + Pow2(n) * h
<1> DEFINE k == a % n
           p == Pow2(k)
           q == Pow2(n - k)
<1>1. k \in 0 .. (n - 1)
  OBVIOUS
<1>2. p \in Int /\ p > 0 /\ q \in Int /\ q > 0 /\ Pow2(n) = p * q
  <2> HIDE DEF k
  <2>1. /\ p \in Int /\ p > 0 /\ q = 2 * Pow2(n - 1 - k) /\ Pow2(n - 1 - k) \in Int
        /\ Pow2(n - 1 - k) > 0 /\ Pow2(n) = 2 * Pow2(n - 1) /\ Pow2(n - 1) = p * Pow2(n - 1 - k)
    BY <1>1, PowerPlaces
  <2> HIDE DEF p, q
  <2> QED
    BY <2>1
<1>3. /\ RotateLeft(v, k, n) = Join(v * p, v \div q) /\ RotateRight(v, k, n) = Join(v * q, v \div p)
      /\ LeftBy(v, a, n) = TurnedLeft(v, p, q) /\ RightBy(v, a, n) = TurnedRight(v, v, p, q)
  BY DEF RotateLeft, RotateRight, LeftBy, RightBy
<1> HIDE DEF p, q, k
<1> DEFINE h == v \div q
           r == v % q
           g == v \div p
           s == v % p
<1>4. /\ h \in Int /\ r \in Int /\ v = q * h + r /\ 0 <= h
      /\ g \in Int /\ s \in Int /\ v = p * g + s /\ 0 <= g
  BY <1>2, Division
<1>5. TurnedLeft(v, p, q) = r * p + h /\ TurnedRight(v, v, p, q) = g + s * q
  BY DEF TurnedLeft, TurnedRight
<1> HIDE DEF h, r, g, s
<1>6. v * p = (p * q) * h + r * p /\ v * q = (p * q) * g + s * q
  BY <1>2, <1>4
<1>7. Join(v * p, h) = v * p + h /\ Join(v * q, g) = v * q + g
  BY <1>4 DEF Join
<1>8. v * p + h = (r * p + h) + (p * q) * h /\ v * q + g = (g + s * q) + (p * q) * g
  BY <1>2, <1>4, <1>6
<1>9. RotateLeft(v, k, n) = LeftBy(v, a, n) + Pow2(n) * h
  BY <1>2, <1>3, <1>5, <1>7, <1>8 DEF h
<1>10. RotateRight(v, k, n) = RightBy(v, a, n) + Pow2(n) * g
  BY <1>2, <1>3, <1>5, <1>7, <1>8 DEF g
<1> QED
  BY <1>4, <1>9, <1>10 DEF k

\* What the mask and the shift of the code leave in MQ is what MqBy says.
LEMMA RotatedMq ==
  ASSUME NEW x \in Word, NEW y \in Word, NEW a \in 0 .. 12
  PROVE  RorMq(x, y, a) % \o10000 = MqBy(x, y, a) /\ MqBy(x, y, a) \in Word
<1>1. x \in Int /\ 0 <= x /\ x <= \o7777 /\ y \in Int /\ 0 <= y /\ y <= \o7777
  BY WordBounds
<1>2. CASE a = 12
  <2>1. Pow2(0) = 1 /\ Pow2(12) = \o10000
    BY DEF Pow2, Powers
  <2>2. RorMq(x, y, a) = x
    <3>1. x \div 1 = x
      BY <1>1
    <3> QED
      BY <1>2, <2>1, <3>1 DEF RorMq
  <2>3. MqBy(x, y, a) = x
    <3>1. (y \div \o10000) + (x % \o10000) * 1 = x
      BY <1>1
    <3> QED
      BY <1>2, <2>1, <3>1 DEF MqBy, TurnedRight
  <2>4. x % \o10000 = x
    BY <1>1
  <2> QED
    BY <2>2, <2>3, <2>4
<1>3. CASE a < 12
  <2> DEFINE p == Pow2(a)
             q == Pow2(12 - a)
             g == x \div p
             u == TurnedRight(x, y, p, q)
  <2>1. a \in 0 .. (12 - 1)
    BY <1>3
  <2>2. /\ p \in Int /\ p > 0 /\ q = 2 * Pow2(12 - 1 - a) /\ Pow2(12 - 1 - a) \in Int
        /\ Pow2(12 - 1 - a) > 0
    BY <2>1, PowerPlaces
  <2>3. \o10000 = p * q
    <3>1. Pow2(12 - 1) = p * Pow2(12 - 1 - a) /\ Pow2(12) = 2 * Pow2(12 - 1) /\ Pow2(12) = \o10000
      BY <2>1, PowerPlaces
    <3> HIDE DEF p, q
    <3> QED
      BY <2>2, <3>1
  <2>4. RorMq(x, y, a) = (y \div p) + x * q
    BY <1>3 DEF RorMq
  <2> HIDE DEF p, q, u
  <2>5. p \in Int /\ p > 0 /\ q \in Int /\ q > 0
    BY <2>2
  <2>6. g \in Int /\ (y \div p) + x * q = u + (p * q) * g
    <3> DEFINE s == x % p
               z == y \div p
    <3>1. g \in Int /\ s \in Int /\ x = p * g + s /\ z \in Int
      BY <1>1, <2>5, Division
    <3>2. u = z + s * q
      BY DEF u, TurnedRight
    <3> HIDE DEF g, s, z
    <3>3. x * q = (p * q) * g + s * q
      BY <2>5, <3>1
    <3>4. z + x * q = (z + s * q) + (p * q) * g
      BY <2>5, <3>1, <3>3
    <3> QED
      BY <3>1, <3>2, <3>4 DEF z
  <2>7. u \in Int /\ 0 <= u /\ u < p * q
    <3>1. y < p * q
      BY <1>1, <2>3
    <3>2. x \in Int /\ 0 <= x /\ y \in Int /\ 0 <= y
      BY <1>1
    <3>3. LET m == TurnedRight(x, y, p, q) IN m \in Int /\ 0 <= m /\ m < p * q
      BY ONLY <2>5, <3>1, <3>2, RightBound
    <3> QED
      BY <3>3 DEF u
  <2> HIDE DEF g
  <2>8. RorMq(x, y, a) = u + \o10000 * g /\ 0 <= u /\ u < \o10000
    BY <2>3, <2>4, <2>6, <2>7
  <2>9. (u + \o10000 * g) % \o10000 = u
    BY <2>6, <2>7, <2>8
  <2>10. MqBy(x, y, a) = u
    BY DEF MqBy, u, p, q
  <2>11. u \in Word
    BY <2>7, <2>8 DEF Word
  <2> QED
    BY <2>8, <2>9, <2>10, <2>11
<1> QED
  BY <1>2, <1>3

\* Storing in AC, MQ and the link: the register file that is left.
Files(d, x, y, z) == d.ac = x /\ d.mq = y /\ d.l = z
\* Reading a register back after the three registers were stored, one after the other.
LEMMA Stored ==
  ASSUME NEW c, IsCpu(c), NEW x, NEW y, NEW z
  PROVE  /\ Files([c EXCEPT !.ac = x], x, c.mq, c.l)
         /\ Files([[c EXCEPT !.l = z] EXCEPT !.ac = x], x, c.mq, z)
         /\ Files([[c EXCEPT !.mq = y] EXCEPT !.ac = x], x, y, c.l)
         /\ Files([[[c EXCEPT !.l = z] EXCEPT !.mq = y] EXCEPT !.ac = x], x, y, z)
         /\ Files([[c EXCEPT !.ac = x] EXCEPT !.mq = y], x, y, c.l)
         /\ Files([[[c EXCEPT !.l = z] EXCEPT !.ac = x] EXCEPT !.mq = y], x, y, z)
<1> DEFINE d(u, v, w) == [g \in Registers \union {"core", "out"} |->
                            IF g = "ac" THEN u ELSE IF g = "mq" THEN v ELSE IF g = "l" THEN w ELSE c[g]]
<1>1. /\ [c EXCEPT !.ac = x] = d(x, c.mq, c.l)
      /\ [[c EXCEPT !.l = z] EXCEPT !.ac = x] = d(x, c.mq, z)
      /\ [[c EXCEPT !.mq = y] EXCEPT !.ac = x] = d(x, y, c.l)
      /\ [[[c EXCEPT !.l = z] EXCEPT !.mq = y] EXCEPT !.ac = x] = d(x, y, z)
      /\ [[c EXCEPT !.ac = x] EXCEPT !.mq = y] = d(x, y, c.l)
      /\ [[[c EXCEPT !.l = z] EXCEPT !.ac = x] EXCEPT !.mq = y] = d(x, y, z)
  BY DEF IsCpu
<1>2. \A u, v, w : Files(d(u, v, w), u, v, w)
  BY RegisterNames DEF Files
<1> HIDE DEF d
<1> QED
  BY <1>1, <1>2

\* A value that is congruent to a 13-bit or a 12-bit one, masked.
LEMMA Masked ==
  ASSUME NEW u \in Int, 0 <= u, NEW h \in Int, NEW t \in Int
  PROVE  /\ u < Pow2(13) /\ t = u + Pow2(13) * h
              => /\ t % \o10000 = u % \o10000
                 /\ (IF Has(t, \o10000) THEN 1 ELSE 0) = u \div \o10000
         /\ u < Pow2(12) /\ t = u + Pow2(12) * h => t % \o10000 = u
<1>1. Pow2(12) = \o10000 /\ Pow2(13) = \o20000
  BY DEF Pow2, Powers
<1>2. CASE u < \o20000 /\ t = u + \o20000 * h
  <2>1. t % \o10000 = u % \o10000 /\ (t \div \o10000) % 2 = u \div \o10000 /\ u \div \o10000 \in {0, 1}
    BY <1>2
  <2> QED
    BY <1>1, <2>1 DEF Has
<1>3. CASE u < \o10000 /\ t = u + \o10000 * h
  <2>1. t % \o10000 = u
    BY <1>3
  <2> QED
    BY <1>1, <1>3, <2>1 DEF Has
<1> QED
  BY <1>1, <1>2, <1>3

\* The two registers that a rotation leaves, with and without the link.
LEMMA RolFrame ==
  ASSUME NEW b, NEW c, IsCpu(c), c.ac \in Word, NEW i \in BOOLEAN, NEW a \in 0 .. 15,
         b.ac = c.ac /\ b.l = c.l /\ b.mq = c.mq
  PROVE  LET d == RotatedLeft(c, i, a)
             r == Shifted(b, 5, i, a)
         IN d.ac = r.ac /\ d.l = r.l /\ d.mq = r.mq
<1>0. c.l \in {0, 1} /\ c.l \in Int /\ c.ac \in Int
  BY Types, Integral
<1>1. Ring(b) = Ring(c)
  BY DEF Ring
<1>2. Shifted(b, 5, i, a) = IF i THEN Linked(LeftBy(Ring(c), a, 13), c.mq)
                            ELSE Unlinked(LeftBy(c.ac, a, 12), c.l, c.mq)
  BY <1>0, <1>1, LeftSerial
<1>3. /\ Ring(c) \in Int /\ 0 <= Ring(c) /\ Ring(c) < Pow2(13)
      /\ c.ac \in Int /\ 0 <= c.ac /\ c.ac < Pow2(12) /\ WithLink(c.ac, c.l) = Ring(c)
  BY <1>0, RingBounds
<1>4. CASE i
  <2> DEFINE u == LeftBy(Ring(c), a, 13)
             t == RotateLeft(Ring(c), a % 13, 13)
             n == IF Has(t, \o10000) THEN 1 ELSE 0
             x == t % \o10000
             d == [[c EXCEPT !.l = n] EXCEPT !.ac = x]
  <2>1. u \in Int /\ 0 <= u /\ u < Pow2(13)
    BY <1>3, LeftRing
  <2>2. PICK h \in Int : t = u + Pow2(13) * h
    BY <1>3, Rotations
  <2>3. t \in Int
    BY <2>1, <2>2, PowerPositive
  <2>4. RotatedLeft(c, i, a) = d
    <3>1. RotatedLeft(c, i, a) = SetAc(SetL(c, n), t)
      BY <1>3, <1>4 DEF RotatedLeft
    <3>2. (IF n # 0 THEN 1 ELSE 0) = n
      OBVIOUS
    <3> HIDE DEF n, t
    <3>3. SetL(c, n) = [c EXCEPT !.l = n]
      BY <3>2 DEF SetL
    <3> QED
      BY <3>1, <3>3 DEF SetAc
  <2> HIDE DEF u, t
  <2>5. x = u % \o10000 /\ n = u \div \o10000
    BY <2>1, <2>2, <2>3, Masked
  <2> HIDE DEF n, x
  <2>6. d.ac = x /\ d.l = n /\ d.mq = c.mq
    BY Stored DEF Files
  <2> HIDE DEF d
  <2> DEFINE r == Shifted(b, 5, i, a)
  <2>7. r = Linked(u, c.mq)
    BY <1>2, <1>4 DEF u
  <2> HIDE DEF r
  <2>8. r.ac = u % \o10000 /\ r.l = u \div \o10000 /\ r.mq = c.mq
    BY <2>7 DEF Linked
  <2> QED
    BY <2>4, <2>5, <2>6, <2>8 DEF r
<1>5. CASE ~i
  <2> DEFINE u == LeftBy(c.ac, a, 12)
             t == RotateLeft(c.ac, a % 12, 12)
             x == t % \o10000
             d == [c EXCEPT !.ac = x]
  <2>1. u \in Int /\ 0 <= u /\ u < Pow2(12)
    BY <1>3, LeftRing
  <2>2. PICK h \in Int : t = u + Pow2(12) * h
    BY <1>3, Rotations
  <2>3. t \in Int
    BY <2>1, <2>2, PowerPositive
  <2>4. RotatedLeft(c, i, a) = d
    BY <1>5 DEF RotatedLeft, SetAc
  <2> HIDE DEF u, t
  <2>5. x = u
    BY <2>1, <2>2, <2>3, Masked
  <2> HIDE DEF x
  <2>6. d.ac = x /\ d.l = c.l /\ d.mq = c.mq
    BY Stored DEF Files
  <2> HIDE DEF d
  <2> QED
    BY <1>2, <1>5, <2>4, <2>5, <2>6 DEF Unlinked, u
<1> QED
  BY <1>4, <1>5

\* The same to the right, where MQ takes in the bits that leave.
LEMMA RorFrame ==
  ASSUME NEW b, NEW c, IsCpu(c), c.ac \in Word, NEW i \in BOOLEAN, NEW a \in 0 .. 15,
         b.ac = c.ac /\ b.l = c.l /\ b.mq = c.mq
  PROVE  LET d == RotatedRight(c, i, a)
             r == Shifted(b, 6, i, a)
         IN d.ac = r.ac /\ d.l = r.l /\ (a <= 12 => d.mq = r.mq)
<1> DEFINE r == Shifted(b, 6, i, a)
           m == RorMq(c.ac, c.mq, a)
           y == m % \o10000
<1>0. c.l \in {0, 1} /\ c.l \in Int /\ c.ac \in Int /\ c.mq \in Word
  BY Types, Integral
<1>1. Ring(b) = Ring(c)
  BY DEF Ring
<1>2. PICK k : /\ r = IF i THEN Linked(RightBy(Ring(c), a, 13), k)
                      ELSE Unlinked(RightBy(c.ac, a, 12), c.l, k)
               /\ a <= 12 => k = MqBy(c.ac, c.mq, a)
  BY <1>0, <1>1, RightSerial
<1>3. /\ Ring(c) \in Int /\ 0 <= Ring(c) /\ Ring(c) < Pow2(13)
      /\ c.ac \in Int /\ 0 <= c.ac /\ c.ac < Pow2(12) /\ WithLink(c.ac, c.l) = Ring(c)
  BY <1>0, RingBounds
<1>4. a <= 12 => y = k
  BY <1>0, <1>2, RotatedMq
<1>5. CASE i
  <2> DEFINE u == RightBy(Ring(c), a, 13)
             t == RotateRight(Ring(c), a % 13, 13)
             n == IF Has(t, \o10000) THEN 1 ELSE 0
             x == t % \o10000
             d == [[[c EXCEPT !.l = n] EXCEPT !.mq = y] EXCEPT !.ac = x]
  <2>1. u \in Int /\ 0 <= u /\ u < Pow2(13)
    BY <1>3, RightRing
  <2>2. PICK h \in Int : t = u + Pow2(13) * h
    BY <1>3, Rotations
  <2>3. t \in Int
    BY <2>1, <2>2, PowerPositive
  <2>4. RotatedRight(c, i, a) = d
    <3>1. RotatedRight(c, i, a) = SetAc(SetMq(SetL(c, n), m), t)
      BY <1>3, <1>5 DEF RotatedRight
    <3>2. (IF n # 0 THEN 1 ELSE 0) = n
      OBVIOUS
    <3> HIDE DEF n, t, m
    <3>3. SetL(c, n) = [c EXCEPT !.l = n]
      BY <3>2 DEF SetL
    <3> QED
      BY <3>1, <3>3 DEF SetAc, SetMq
  <2> HIDE DEF u, t
  <2>5. x = u % \o10000 /\ n = u \div \o10000
    BY <2>1, <2>2, <2>3, Masked
  <2> HIDE DEF n, x, y
  <2>6. d.ac = x /\ d.l = n /\ d.mq = y
    BY Stored DEF Files
  <2> HIDE DEF d
  <2>7. r = Linked(u, k)
    BY <1>2, <1>5 DEF u
  <2> HIDE DEF r
  <2>8. r.ac = u % \o10000 /\ r.l = u \div \o10000 /\ r.mq = k
    BY <2>7 DEF Linked
  <2> QED
    BY <1>4, <2>4, <2>5, <2>6, <2>8 DEF r
<1>6. CASE ~i
  <2> DEFINE u == RightBy(c.ac, a, 12)
             t == RotateRight(c.ac, a % 12, 12)
             x == t % \o10000
             d == [[c EXCEPT !.mq = y] EXCEPT !.ac = x]
  <2>1. u \in Int /\ 0 <= u /\ u < Pow2(12)
    BY <1>3, RightRing
  <2>2. PICK h \in Int : t = u + Pow2(12) * h
    BY <1>3, Rotations
  <2>3. t \in Int
    BY <2>1, <2>2, PowerPositive
  <2>4. RotatedRight(c, i, a) = d
    <3>1. RotatedRight(c, i, a) = SetAc(SetMq(c, m), t)
      BY <1>6 DEF RotatedRight
    <3> HIDE DEF t, m
    <3> QED
      BY <3>1 DEF SetAc, SetMq
  <2> HIDE DEF u, t
  <2>5. x = u
    BY <2>1, <2>2, <2>3, Masked
  <2> HIDE DEF x, y
  <2>6. d.ac = x /\ d.l = c.l /\ d.mq = y
    BY Stored DEF Files
  <2> HIDE DEF d
  <2>7. r = Unlinked(u, c.l, k)
    BY <1>2, <1>6 DEF u
  <2> HIDE DEF r
  <2>8. r.ac = u /\ r.l = c.l /\ r.mq = k
    BY <2>7 DEF Unlinked
  <2> QED
    BY <1>4, <2>4, <2>5, <2>6, <2>8 DEF r
<1> QED
  BY <1>5, <1>6

\* And with the sign copied in, where the link takes the last bit that leaves AC.
LEMMA ScrFrame ==
  ASSUME NEW b, NEW c, IsCpu(c), c.ac \in Word, NEW i \in BOOLEAN, NEW a \in 0 .. 15,
         b.ac = c.ac /\ b.l = c.l /\ b.mq = c.mq
  PROVE  LET d == ScaledRight(c, i, a)
             r == Shifted(b, 7, i, a)
         IN d.ac = r.ac /\ d.l = r.l /\ d.mq = r.mq
<1> DEFINE r == Shifted(b, 7, i, a)
           u == Scaled(c.ac, c.mq, a)
           n == IF Has(u, \o4000) THEN 1 ELSE 0
           x == (u \div \o10000) % \o10000
           y == u % \o10000
           l == IF i /\ a >= 1 THEN (u \div \o4000) % 2 ELSE c.l
           d == ScaledRight(c, i, a)
<1>1. c.l \in {0, 1} /\ c.mq \in Word
  BY Types
<1>2. r = Long(u, l)
  BY <1>1, ScaleSerial
<1>3. u \in Int /\ 0 <= u /\ u < 2 * HalfLong
  BY <1>1, ScaledOnce
<1>4. d = SetMq(SetAc(IF i /\ a >= 1 THEN SetL(c, n) ELSE c, u \div \o10000), u)
  BY DEF ScaledRight
<1> HIDE DEF r, u, d
<1>5. x = u \div \o10000 /\ n = (u \div \o4000) % 2
  BY <1>3, SMT DEF Has, HalfLong
<1>6. r.ac = x /\ r.l = l /\ r.mq = y
  <2>1. r.ac = u \div \o10000 /\ r.l = l /\ r.mq = y
    BY <1>2 DEF Long
  <2> QED
    BY <1>5, <2>1
<1>7. CASE i /\ a >= 1
  <2>1. (IF n # 0 THEN 1 ELSE 0) = n /\ l = n
    BY <1>5, <1>7
  <2> HIDE DEF n, l
  <2>2. SetL(c, n) = [c EXCEPT !.l = n]
    BY <2>1 DEF SetL
  <2> DEFINE e == [[[c EXCEPT !.l = n] EXCEPT !.ac = x] EXCEPT !.mq = y]
  <2>3. d = e
    BY <1>4, <1>7, <2>2 DEF SetAc, SetMq
  <2> HIDE DEF x, y
  <2>4. e.ac = x /\ e.l = n /\ e.mq = y
    BY Stored DEF Files
  <2> HIDE DEF e
  <2> QED
    BY <1>6, <2>1, <2>3, <2>4 DEF d, r
<1>8. CASE ~(i /\ a >= 1)
  <2>1. l = c.l
    BY <1>8
  <2> HIDE DEF n, l
  <2> DEFINE e == [[c EXCEPT !.ac = x] EXCEPT !.mq = y]
  <2>2. d = e
    <3>1. d = SetMq(SetAc(c, u \div \o10000), u)
      BY <1>4, <1>8
    <3> QED
      BY <3>1 DEF SetAc, SetMq
  <2> HIDE DEF x, y
  <2>3. e.ac = x /\ e.l = c.l /\ e.mq = y
    BY Stored DEF Files
  <2> HIDE DEF e
  <2> QED
    BY <1>6, <2>1, <2>2, <2>3 DEF d, r
<1> QED
  BY <1>7, <1>8

\* For every register file and every count: ROL, ROR and SCR shift one place at a time.
THEOREM ShiftsActSerially == Spec => ShiftsAreSerial
<1> DEFINE SerialStep ==
             ShiftStep /\ cpu.ac \in Word
               => LET r == Shifted(cpu, Op, I, A)
                  IN /\ cpu'.ac = r.ac /\ cpu'.l = r.l
                     /\ (Op = 6 /\ A > 12) \/ cpu'.mq = r.mq
<1>1. StartOK(cpu) /\ [Next]_cpu => [SerialStep]_cpu
  <2> SUFFICES ASSUME StartOK(cpu), ShiftStep, cpu.ac \in Word
               PROVE  SerialStep
    OBVIOUS
  <2>1. LOK(cpu)
    BY SoundModes DEF ShiftStep, ROL, ROR, SCR, Alpha, AlphaClass, LincTurn
  <2>2. /\ IsCpu(F) /\ F.ac = cpu.ac /\ F.l = cpu.l /\ F.mq = cpu.mq
        /\ I \in BOOLEAN /\ A \in 0 .. 15
    BY <2>1, Fetched, FetchFrame
  <2>3. CASE ROL
    <3>1. Op = 5 /\ cpu' = RotatedLeft(F, I, A)
      BY <2>3 DEF ROL, Alpha
    <3> QED
      BY <2>2, <3>1, RolFrame
  <2>4. CASE ROR
    <3>1. Op = 6 /\ cpu' = RotatedRight(F, I, A)
      BY <2>4 DEF ROR, Alpha
    <3>2. A <= 12 \/ A > 12
      BY <2>2
    <3> QED
      BY <2>2, <3>1, <3>2, RorFrame
  <2>5. CASE SCR
    <3>1. Op = 7 /\ cpu' = ScaledRight(F, I, A)
      BY <2>5 DEF SCR, Alpha
    <3> QED
      BY <2>2, <3>1, ScrFrame
  <2> QED
    BY <2>3, <2>4, <2>5 DEF ShiftStep
<1> QED
  BY <1>1, Invariant, PTL DEF Spec, ShiftsAreSerial
-----------------------------------------------------------------------------
\* What the setters of AC and of the link leave of the other, and of the instruction.
LEMMA Parts ==
  ASSUME NEW c, IsCpu(c), NEW n
  PROVE  /\ SetAc(c, n).ac = n % \o10000 /\ SetAc(c, n).l = c.l /\ SetAc(c, n).ir = c.ir
         /\ SetL(c, n).ac = c.ac /\ SetL(c, n).ir = c.ir
         /\ SetL(c, n).l = IF n # 0 THEN 1 ELSE 0
<1> DEFINE x == n % \o10000
           z == IF n # 0 THEN 1 ELSE 0
           d(u, v) == [g \in Registers \union {"core", "out"} |->
                        IF g = "ac" THEN u ELSE IF g = "l" THEN v ELSE c[g]]
<1>1. SetAc(c, n) = [c EXCEPT !.ac = x] /\ SetL(c, n) = [c EXCEPT !.l = z]
  BY DEF SetAc, SetL
<1> HIDE DEF x, z
<1>2. [c EXCEPT !.ac = x] = d(x, c.l) /\ [c EXCEPT !.l = z] = d(c.ac, z)
  BY DEF IsCpu
<1>3. \A u, v : d(u, v).ac = u /\ d(u, v).l = v /\ d(u, v).ir = c.ir
  BY RegisterNames
<1> HIDE DEF d
<1> QED
  BY <1>1, <1>2, <1>3 DEF x, z

\* Clearing, complementing and incrementing, one after the other, compute Unrotated.
LEMMA MicroParts ==
  ASSUME EOK(cpu), cpu.ac \in Word
  PROVE  LET d == G1Increment(G1Complement(G1Clear(G)))
         IN /\ IsCpu(d) /\ d.ir = G.ir /\ d.ac = Unrotated.ac
            /\ LinkKept => d.l = Unrotated.l
<1> DEFINE a == G1Clear(G)
           b == G1Complement(a)
           d == G1Increment(b)
           l == IF Bit(\o100) THEN 0 ELSE cpu.l
           Computed == d.ir = G.ir /\ d.ac = Unrotated.ac /\ (LinkKept => d.l = Unrotated.l)
<1>1. Follows8(G) /\ Follows8(a) /\ Follows8(b) /\ Follows8(d)
  BY Pdp8FetchOK, G1ClearOK, G1ComplementOK, G1IncrementOK
<1>2. IsCpu(G) /\ IsCpu(a) /\ IsCpu(b) /\ IsCpu(d)
  BY <1>1, Steps8
<1>3. l \in {0, 1}
  BY Setters8, Types
<1>4. a.ac = Cleared /\ a.l = l /\ a.ir = G.ir
  <2> DEFINE e == Micro(\o200, G, SetAc(G, 0))
  <2>1. Follows8(e)
    BY <1>1, Steps8 DEF Micro
  <2>2. IsCpu(e)
    BY <2>1, Steps8
  <2>3. e.ac = Cleared /\ e.l = cpu.l /\ e.ir = G.ir
    BY <1>2, Parts, Fetch8Registers DEF Micro, Cleared, Bit
  <2>4. a = Micro(\o100, e, SetL(e, 0))
    BY DEF G1Clear
  <2> HIDE DEF e, a
  <2> QED
    BY <2>2, <2>3, <2>4, Parts DEF Micro, Bit
<1> HIDE DEF a, l
<1>5. Cleared \in Word
  BY DEF Cleared, Word
<1>6. b.ac = Complemented /\ b.ir = G.ir /\ (~Bit(\o20) => b.l = l)
  <2> DEFINE e == Micro(\o40, a, SetAc(a, Comp(a.ac)))
  <2>1. \A w \in Word : Comp(w) \in Int /\ Comp(w) % \o10000 = \o7777 - w
    <3> TAKE w \in Word
    <3>1. w \in Int /\ 0 <= w /\ w <= \o7777
      BY WordBounds
    <3>2. Comp(w) \in Int /\ Comp(w) = \o10000 * (-1) + (\o7777 - w)
      BY <3>1 DEF Comp
    <3> QED
      BY <3>1, <3>2
  <2>2. Follows8(e)
    <3>1. Comp(a.ac) \in Int
      BY <1>4, <1>5, <2>1
    <3> QED
      BY <1>1, <3>1, Steps8 DEF Micro
  <2>3. IsCpu(e)
    BY <2>2, Steps8
  <2>4. e.ac = Complemented /\ e.l = l /\ e.ir = G.ir
    BY <1>2, <1>4, <1>5, <2>1, Parts DEF Micro, Complemented, Bit
  <2>5. b = Micro(\o20, e, ComplementLink(e))
    BY DEF G1Complement
  <2> HIDE DEF e, b
  <2> QED
    BY <2>3, <2>4, <2>5, Parts DEF Micro, Bit, ComplementLink
<1> HIDE DEF b
<1>7. Complemented \in Word
  <2>1. \A w \in Word : \o7777 - w \in Word
    BY WordBounds DEF Word
  <2> QED
    BY <1>5, <2>1 DEF Complemented
<1>8. /\ \A w \in Word : w % \o10000 = w
      /\ \A w \in Word : Has(w + 1, \o10000) <=> (w + 1) % \o10000 = 0
  BY WordBounds DEF Has
<1>9. Unrotated.ac = (IF Bit(1) THEN (Complemented + 1) % \o10000 ELSE Complemented)
      /\ Unrotated.l = l
  <2>1. \A w \in Word : w + 0 = w
    BY DEF Word
  <2>2. /\ Unrotated.ac = (Complemented + (IF Bit(1) THEN 1 ELSE 0)) % \o10000
        /\ Unrotated.l = l
    BY DEF Unrotated, l
  <2> QED
    BY <1>7, <1>8, <2>1, <2>2
<1>10. ASSUME Bit(1) PROVE Computed
  <2> DEFINE e == SetAc(b, b.ac + 1)
  <2>1. d = CarryIfSet(b.ac + 1, e)
    BY <1>6, <1>10 DEF G1Increment, Micro, Bit
  <2>2. IsCpu(e)
    <3>1. b.ac + 1 \in Int
      BY <1>6, <1>7, WordBounds
    <3> QED
      BY <1>1, <3>1, Steps8
  <2>3. e.ac = (b.ac + 1) % \o10000 /\ e.l = b.l /\ e.ir = b.ir
    BY <1>2, Parts
  <2> HIDE DEF e, d
  <2>4. d.ac = (b.ac + 1) % \o10000 /\ d.ir = b.ir
    BY <2>1, <2>2, <2>3, Parts DEF CarryIfSet, ComplementLink
  <2>5. ~Has(b.ac + 1, \o10000) => d.l = b.l
    BY <2>1, <2>3 DEF CarryIfSet
  <2>6. d.ac = Unrotated.ac /\ d.ir = G.ir
    BY <1>6, <1>9, <1>10, <2>4
  <2>7. LinkKept => d.l = Unrotated.l
    <3>1. Has(b.ac + 1, \o10000) <=> Unrotated.ac = 0
      BY <1>6, <1>7, <1>8, <1>9, <1>10
    <3> QED
      BY <1>6, <1>9, <1>10, <2>5, <3>1 DEF LinkKept
  <2> QED
    BY <2>6, <2>7
<1>11. ASSUME ~Bit(1) PROVE Computed
  <2>1. d = b
    BY <1>6, <1>11 DEF G1Increment, Micro, Bit
  <2> HIDE DEF d
  <2> QED
    BY <1>6, <1>9, <1>11, <2>1 DEF LinkKept
<1> QED
  BY <1>2, <1>10, <1>11 DEF a, b

\* As many shifts of AC, by one place and with the link, as a microinstruction rotates.
Serially(r, op, a) == Shifted(r, op, TRUE, a)

\* A rotation of link and AC, as many one-place shifts.
LEMMA TurnedSerially ==
  ASSUME NEW c, EOK(c), c.ac \in Word, NEW a \in {1, 2},
         NEW r, r.ac = c.ac, r.l = c.l, r.mq \in Word
  PROVE  LET left == Rotated(c, RotateLeft(WithLink(c.ac, c.l), a, 13))
             right == Rotated(c, RotateRight(WithLink(c.ac, c.l), a, 13))
         IN /\ left.ac = Serially(r, 5, a).ac /\ left.l = Serially(r, 5, a).l
            /\ right.ac = Serially(r, 6, a).ac /\ right.l = Serially(r, 6, a).l
<1> DEFINE v == Ring(r)
<1>1. IsCpu(c) /\ r.ac \in Word /\ r.l \in {0, 1} /\ a \in 0 .. 15 /\ a % 13 = a
  BY Setters8, Types
<1>2. v \in Int /\ 0 <= v /\ v < Pow2(13) /\ WithLink(c.ac, c.l) = v
  BY <1>1, RingBounds
<1> HIDE DEF v
<1>3. ASSUME NEW u \in Int, 0 <= u, u < Pow2(13), NEW t, NEW h \in Int, t = u + Pow2(13) * h, NEW m
      PROVE  Rotated(c, t).ac = Linked(u, m).ac /\ Rotated(c, t).l = Linked(u, m).l
  <2> DEFINE e == SetAc(c, t)
             n == IF Has(t, \o10000) THEN 1 ELSE 0
  <2>1. t \in Int
    BY <1>3, PowerPositive
  <2>2. t % \o10000 = u % \o10000 /\ n = u \div \o10000
    BY <1>3, <2>1, Masked
  <2>3. e.ac = t % \o10000
    BY <1>1, Parts
  <2>4. IsCpu(e)
    BY <2>1, Setters8
  <2>5. Rotated(c, t) = SetL(e, n)
    BY DEF Rotated
  <2>6. (IF n # 0 THEN 1 ELSE 0) = n
    OBVIOUS
  <2> HIDE DEF e, n
  <2>7. Rotated(c, t).ac = u % \o10000 /\ Rotated(c, t).l = u \div \o10000
    BY <2>2, <2>3, <2>4, <2>5, <2>6, Parts
  <2> QED
    BY <2>7 DEF Linked
<1>4. /\ \E h \in Int : RotateLeft(v, a, 13) = LeftBy(v, a, 13) + Pow2(13) * h
      /\ \E h \in Int : RotateRight(v, a, 13) = RightBy(v, a, 13) + Pow2(13) * h
  BY <1>1, <1>2, Rotations
<1>5. /\ LeftBy(v, a, 13) \in Int /\ 0 <= LeftBy(v, a, 13) /\ LeftBy(v, a, 13) < Pow2(13)
      /\ RightBy(v, a, 13) \in Int /\ 0 <= RightBy(v, a, 13) /\ RightBy(v, a, 13) < Pow2(13)
  BY <1>1, <1>2, LeftRing, RightRing
<1>6. Shifted(r, 5, TRUE, a) = Linked(LeftBy(v, a, 13), r.mq)
  BY <1>1, LeftSerial DEF v
<1>7. \E m : Shifted(r, 6, TRUE, a) = Linked(RightBy(v, a, 13), m)
  BY <1>1, RightSerial DEF v
<1>8. LET d == Rotated(c, RotateLeft(WithLink(c.ac, c.l), a, 13))
      IN d.ac = Shifted(r, 5, TRUE, a).ac /\ d.l = Shifted(r, 5, TRUE, a).l
  <2>1. PICK h \in Int : RotateLeft(v, a, 13) = LeftBy(v, a, 13) + Pow2(13) * h
    BY <1>4
  <2> DEFINE t == RotateLeft(v, a, 13)
             u == LeftBy(v, a, 13)
  <2>2. u \in Int /\ 0 <= u /\ u < Pow2(13) /\ t = u + Pow2(13) * h
    BY <1>5, <2>1
  <2> HIDE DEF t, u
  <2>3. Rotated(c, t).ac = Linked(u, r.mq).ac /\ Rotated(c, t).l = Linked(u, r.mq).l
    BY <1>3, <2>2
  <2> QED
    BY <1>2, <1>6, <2>3 DEF t, u
<1>9. LET d == Rotated(c, RotateRight(WithLink(c.ac, c.l), a, 13))
      IN d.ac = Shifted(r, 6, TRUE, a).ac /\ d.l = Shifted(r, 6, TRUE, a).l
  <2>1. PICK h \in Int : RotateRight(v, a, 13) = RightBy(v, a, 13) + Pow2(13) * h
    BY <1>4
  <2>2. PICK m : Shifted(r, 6, TRUE, a) = Linked(RightBy(v, a, 13), m)
    BY <1>7
  <2> DEFINE t == RotateRight(v, a, 13)
             u == RightBy(v, a, 13)
  <2>3. u \in Int /\ 0 <= u /\ u < Pow2(13) /\ t = u + Pow2(13) * h
    BY <1>5, <2>1
  <2> HIDE DEF t, u
  <2>4. Rotated(c, t).ac = Linked(u, m).ac /\ Rotated(c, t).l = Linked(u, m).l
    BY <1>3, <2>3
  <2> QED
    BY <1>2, <2>2, <2>4 DEF t, u
<1> QED
  BY <1>8, <1>9 DEF Serially

\* Storing a rotation leaves the instruction register.
LEMMA RotatedInstruction ==
  ASSUME NEW c, EOK(c), NEW t \in Int
  PROVE  Rotated(c, t).ir = c.ir
<1> DEFINE e == SetAc(c, t)
           n == IF Has(t, \o10000) THEN 1 ELSE 0
<1>1. EOK(e) /\ e.ir = c.ir
  BY Setters8, Parts
<1>2. Rotated(c, t) = SetL(e, n)
  BY DEF Rotated
<1> HIDE DEF e, n
<1> QED
  BY <1>1, <1>2, Setters8, Parts

(***************************************************************************)
(* The microinstructions of every Group 1 word act in their order on every *)
(* accumulator: the rotation takes what the others have left.              *)
(***************************************************************************)
THEOREM MicrosInOrder == Spec => MicrosActInOrder
<1> DEFINE op == IF Bit(\o10) THEN 6 ELSE 5
           a == IF Bit(2) THEN 2 ELSE 1
           r == IF Turning THEN Shifted(Unrotated, op, TRUE, a) ELSE Unrotated
           Ordered == Group1 /\ cpu.ac \in Word /\ ~(Bit(\o4) /\ Bit(\o10))
                        => /\ ~Turning \/ LinkKept => cpu'.ac = r.ac
                           /\ LinkKept => cpu'.l = r.l
<1>1. StartOK(cpu) /\ [Next]_cpu => [Ordered]_cpu
  <2> SUFFICES ASSUME StartOK(cpu), Group1, cpu.ac \in Word, ~(Bit(\o4) /\ Bit(\o10))
               PROVE  Ordered
    OBVIOUS
  <2> DEFINE d == G1Increment(G1Complement(G1Clear(G)))
             left == Rotated(d, RotateLeft(WithLink(d.ac, d.l), a, 13))
             right == Rotated(d, RotateRight(WithLink(d.ac, d.l), a, 13))
  <2>1. EOK(cpu)
    BY SoundModes DEF Group1, Class, Pdp8Turn
  <2>2. Follows8(d) /\ EOK(d)
    <3>1. Follows8(G1Complement(G1Clear(G)))
      BY <2>1, Pdp8FetchOK, G1ClearOK, G1ComplementOK
    <3> QED
      BY <3>1, G1IncrementOK, Steps8
  <2>3. d.ir = G.ir /\ d.ac = Unrotated.ac /\ (LinkKept => d.l = Unrotated.l)
    BY <2>1, MicroParts
  <2>4. cpu' = G1Rotate(d)
    BY DEF Group1
  <2> HIDE DEF d
  <2>5. Places(d) = a
    BY <2>3 DEF Places, Bit
  <2>6. cpu' = IF Bit(\o4) THEN left ELSE IF Bit(\o10) THEN right ELSE d
    <3> DEFINE x == Micro(\o10, d, right)
    <3>1. cpu' = Micro(\o4, x, Rotated(x, RotateLeft(WithLink(x.ac, x.l), Places(x), 13)))
      BY <2>4, <2>5 DEF G1Rotate
    <3>2. right.ir = G.ir
      BY <2>2, <2>3, <2>5, TurnInteger, RotatedInstruction
    <3> HIDE DEF right, a
    <3>3. x.ir = G.ir /\ x = IF Bit(\o10) THEN right ELSE d
      BY <2>3, <3>2 DEF Micro, Bit
    <3> HIDE DEF x
    <3> QED
      BY <2>5, <3>1, <3>3 DEF Micro, Bit
  <2>7. ASSUME LinkKept
        PROVE  /\ left.ac = Serially(Unrotated, 5, a).ac
               /\ left.l = Serially(Unrotated, 5, a).l
               /\ right.ac = Serially(Unrotated, 6, a).ac
               /\ right.l = Serially(Unrotated, 6, a).l
    <3>1. Unrotated.mq \in Word
      BY <2>1, Setters8, Types DEF Unrotated
    <3>2. d.ac \in Word
      <4>1. cpu.ac \in Int /\ \o7777 \in Int
        BY WordBounds
      <4>2. Complemented \in Int
        BY <4>1 DEF Complemented, Cleared
      <4> QED
        BY <2>3, <4>2 DEF Unrotated, Word
    <3>3. a \in {1, 2} /\ Unrotated.ac = d.ac /\ Unrotated.l = d.l
      BY <2>3, <2>7
    <3> HIDE DEF a
    <3> QED
      BY <2>2, <3>1, <3>2, <3>3, TurnedSerially
  <2> HIDE DEF left, right, a
  <2> QED
    BY <2>3, <2>6, <2>7 DEF Turning, Serially
<1> QED
  BY <1>1, Invariant, PTL DEF Spec, MicrosActInOrder
=============================================================================
