-------------------------------- MODULE Alu --------------------------------
(***************************************************************************)
(* The arithmetic of the instructions, as functions of the operand values. *)
(* An accumulator operand ac is a word, or the -512 that instr_SAM leaves. *)
(***************************************************************************)
EXTENDS Words

\* Mutant: the end-around carry is dropped.
OnesSumMutant(x, y) == (x + y) % \o10000
\* The end-around-carry sum of instr_ADD, instr_ADA and instr_ADM.
OnesSum(x, y) ==
  LET t == x + y IN IF Has(t, \o10000) THEN (t % \o10000) + 1 ELSE t

\* Mutant: the signs of the operands are not compared.
OverflowsMutant(x, y, t) == Has(t, \o4000) # Has(x, \o4000)
\* check_overflow: operands of one sign, a result of the other.
Overflows(x, y, t) ==
  /\ Has(x, \o4000) = Has(y, \o4000)
  /\ Has(t, \o4000) # Has(x, \o4000)

\* Mutant: the sign is taken for the carry.
LamCarryMutant(t) == IF Has(t, \o4000) THEN 1 ELSE 0
\* The link instr_LAM leaves: t & 030000.
LamCarry(t) == IF (t \div \o10000) % 4 # 0 THEN 1 ELSE 0

\* Mutant: two's complement instead of ones'.
MagnitudeMutant(x) == (IF Has(x, \o4000) THEN -x ELSE x) % \o4000
\* instr_MUL: the magnitude of an operand, the sign bit of the product and its halves.
Magnitude(x) == (IF Has(x, \o4000) THEN Comp(x) ELSE x) % \o4000
ProductSign(x, y) == IF Has(x, \o4000) = Has(y, \o4000) THEN 0 ELSE \o4000
MulAc(hf, x, y) ==
  LET t == Magnitude(x) * Magnitude(y)
      signed == IF ProductSign(x, y) = 0 THEN t ELSE Comp(t)
  IN (IF hf THEN (signed \div \o4000) % \o4000 ELSE signed % \o4000) + ProductSign(x, y)
MulMq(x, y) == ((Magnitude(x) * Magnitude(y)) % \o4000) * 2

\* The accumulator with the link as bit 12; a negative ac has that bit set already.
WithLink(ac, l) == IF ac < 0 \/ l = 0 THEN ac ELSE ac + \o10000

\* A rotation of n-bit t by r places, bits above n left in place for the caller to mask.
RotateLeft(t, r, n) == Join(t * Pow2(r), t \div Pow2(n - r))
RotateRight(t, r, n) == Join(t * Pow2(n - r), t \div Pow2(r))

\* instr_ROR: what is shifted into MQ from the accumulator.
RorMq(ac, mq, a) ==
  IF a < 12 THEN (mq \div Pow2(a)) + ac * Pow2(12 - a) ELSE ac \div Pow2(a - 12)

\* Mutant: the sign is not copied in.
ScaledMutant(ac, mq, a) == (ac * \o10000 + mq) \div Pow2(a)
\* instr_SCR: the 24-bit AC,MQ shifted right by a with the sign copied in.
Scaled(ac, mq, a) ==
  ((ac * \o10000 + mq) \div Pow2(a))
  + (IF ac >= \o4000 THEN (Pow2(a) - 1) * Pow2(24 - a) ELSE 0)

\* Index registers and the program counter count in their low ten bits.
IncIndex(x) == ((x \div \o2000) % 4) * \o2000 + ((x + 1) % \o2000)

\* Mutant: the word is not stepped after its right half.
NextHalfMutant(x) == (x + \o4000) % \o10000
\* beta_addr: left half, then right half, then the next word.
NextHalf(x) ==
  LET t == x + \o4000 IN IF Has(t, \o10000) THEN IncIndex(t) ELSE t

\* instr_SRO: a word rotated right one place.
RotatedWord(x) == (x \div 2) + (x % 2) * \o4000

\* The left and the right six bits of a word.
LeftHalf(x) == (x \div \o100) % \o100
RightHalf(x) == x % \o100
=============================================================================
