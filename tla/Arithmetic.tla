----------------------------- MODULE Arithmetic ----------------------------
(***************************************************************************)
(* What the arithmetic of the instructions means, stated without the bit   *)
(* manipulation of the code: ones' complement numbers, sign and magnitude  *)
(* products, and shifts done one place at a time.                          *)
(***************************************************************************)
EXTENDS Pdp12

\* The ones' complement value of a word; 07777 is minus zero.
Signed(w) == IF w < \o4000 THEN w ELSE w - \o7777
Abs(n) == IF n < 0 THEN -n ELSE n
MaxSigned == \o3777

\* ADD, ADA and ADM add ones' complement numbers: the sum in AC is exact when FLO is left
\* clear, FLO is set only when no word could hold it, and ADM stores what it put in AC.
AddStep == ADD \/ ADA \/ ADM
Addend == IF Direct(1) THEN LincRead(F, D) ELSE Operand
TrueSum == Signed(cpu.ac) + Signed(Addend)
SumIsExact ==
  [][AddStep /\ cpu.ac \in Word
       => /\ IF "FLO" \in cpu'.flags THEN Abs(TrueSum) > MaxSigned
             ELSE Signed(cpu'.ac) = TrueSum
          /\ ADM => CpuRead(cpu', LincAddress(B, Y)) = cpu'.ac]_cpu

\* MUL: AC and MQ hold the product of the magnitudes - as a fraction the high part in AC,
\* complemented under a negative sign, and the low part left-justified in MQ - and the
\* link and the sign of AC say whether the signs of the operands differ.
Uncomplemented(ac) == IF ac >= \o4000 THEN \o7777 - ac ELSE ac
ProductIsExact ==
  [][MUL /\ cpu.ac \in Word
       => LET product == Abs(Signed(cpu.ac)) * Abs(Signed(Operand))
              negative == (cpu.ac >= \o4000) # (Operand >= \o4000)
          IN /\ IF RightHand
                THEN Uncomplemented(cpu'.ac) * \o4000 + cpu'.mq \div 2 = product
                ELSE Uncomplemented(cpu'.ac) = product % \o4000
             /\ cpu'.mq \div 2 = product % \o4000
             /\ negative = (cpu'.ac >= \o4000)
             /\ negative = (cpu'.l = 1)]_cpu
----------------------------------------------------------------------------
\* Shifting a register file r one place: the bit that leaves goes where the wiring says.
Out(r) == r.ac % 2
Top(r) == r.ac \div \o4000
OneLeft(r, linked) ==
  [ac |-> ((r.ac * 2) % \o10000) + (IF linked THEN r.l ELSE Top(r)),
   l |-> IF linked THEN Top(r) ELSE r.l,
   mq |-> r.mq]
OneRight(r, linked) ==
  [ac |-> (r.ac \div 2) + (IF linked THEN r.l ELSE Out(r)) * \o4000,
   l |-> IF linked THEN Out(r) ELSE r.l,
   mq |-> (r.mq \div 2) + Out(r) * \o4000]
OneScale(r, linked) ==
  [ac |-> (r.ac \div 2) + Top(r) * \o4000,
   l |-> IF linked THEN Out(r) ELSE r.l,
   mq |-> (r.mq \div 2) + Out(r) * \o4000]
One(op, r, linked) ==
  CASE op = 5 -> OneLeft(r, linked) [] op = 6 -> OneRight(r, linked) [] op = 7 -> OneScale(r, linked)
ShiftRegisters(c) == [ac |-> c.ac, l |-> c.l, mq |-> c.mq]
Shifted(c, op, linked, places) ==
  LET after[k \in 0 .. places] ==
        IF k = 0 THEN ShiftRegisters(c) ELSE One(op, after[k - 1], linked)
  IN after[places]

\* ROL, ROR and SCR, which compute with whole words, do what as many one-place shifts do;
\* MQ under ROR only up to twelve places.
ShiftStep == ROL \/ ROR \/ SCR
ShiftsAreSerial ==
  [][ShiftStep /\ cpu.ac \in Word
       => LET r == Shifted(cpu, Op, I, A)
          IN /\ cpu'.ac = r.ac /\ cpu'.l = r.l
             /\ (Op = 6 /\ A > 12) \/ cpu'.mq = r.mq]_cpu

\* AC and link of a Group 1 word after clearing, complementing and incrementing.
Cleared == IF Bit(\o200) THEN 0 ELSE cpu.ac
Complemented == IF Bit(\o40) THEN \o7777 - Cleared ELSE Cleared
Unrotated ==
  [ac |-> (Complemented + (IF Bit(1) THEN 1 ELSE 0)) % \o10000,
   l |-> IF Bit(\o100) THEN 0 ELSE cpu.l,
   mq |-> cpu.mq]

\* The microinstructions of a Group 1 word act one after the other, each on what the one
\* before has left: clearing, complementing, incrementing, then rotating the 13 bits of
\* link and AC one place at a time.  What a carry or CML does to the link is not said here.
LinkKept == ~Bit(\o20) /\ ~(Bit(1) /\ Unrotated.ac = 0)
Turning == Bit(\o4) \/ Bit(\o10)
MicrosActInOrder ==
  [][Group1 /\ cpu.ac \in Word /\ ~(Bit(\o4) /\ Bit(\o10))
       => LET r == IF Turning
                   THEN Shifted(Unrotated, IF Bit(\o10) THEN 6 ELSE 5, TRUE, IF Bit(2) THEN 2 ELSE 1)
                   ELSE Unrotated
          IN /\ ~Turning \/ LinkKept => cpu'.ac = r.ac
             /\ LinkKept => cpu'.l = r.l]_cpu
=============================================================================
