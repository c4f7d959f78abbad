---------------------------- MODULE LincPrograms ----------------------------
(***************************************************************************)
(* Whole LINC programs, run from the prompt to their HLT: a subroutine     *)
(* called twice that calls another, a table summed through two index       *)
(* registers, characters packed by half-word stores, a two-word addition.  *)
(* Each program's inputs stay in core, so its result is a relation between *)
(* cells when it has halted at its own HLT.                                *)
(***************************************************************************)
EXTENDS Bench, Arithmetic

L(addr) == LincField + addr

\* main: JMP SUB; JMP SUB; HLT.  SUB keeps its return, calls LEAF, puts it back: JMP 0.
\* LEAF: adds one to the counter at 0500 and returns.
CallImage ==
  Code(L(\o200), <<\o6300, \o6300, 0>>)
  @@ Code(L(\o300), <<\o11, \o2000, \o4501, \o6400, \o2501, \o4000, \o6000>>)
  @@ Code(L(\o400), <<\o1020, 1, \o2500, \o4500, \o6000>>)
CallHalt == \o203
Calls == {Booted(0, CallImage @@ At(L(\o500), n)) : n \in {0, 7}}
\* Any machine about to make these calls, whatever the counter and the rest of it are; no
\* change of field is pending and no return is suppressed.
CallText ==
  {<<\o200, \o6300>>, <<\o201, \o6300>>, <<\o202, 0>>,
   <<\o300, \o11>>, <<\o301, \o2000>>, <<\o302, \o4501>>, <<\o303, \o6400>>,
   <<\o304, \o2501>>, <<\o305, \o4000>>, <<\o306, \o6000>>,
   <<\o400, \o1020>>, <<\o401, 1>>, <<\o402, \o2500>>, <<\o403, \o4500>>, <<\o404, \o6000>>}
CallStart(c) ==
  /\ "RUN" \in c.flags /\ c.flags \intersect {"8MODE", "LIF", "DJR"} = {}
  /\ c.ifr * \o2000 = LincField /\ c.pc = \o200
  /\ \A t \in CallText : Cell(c.core, L(t[1])) = t[2]

\* SET I 2 count; SET I 3 table-1; CLR; ADA I 3; XSK I 2; JMP .-2; HLT.
SumImage(values) ==
  Code(L(\o600), <<\o62, \o1777 - Len(values), \o63, \o777, \o11, \o1123, \o222, \o6605, 0>>)
  @@ Code(L(\o1000), values)
SumHalt == \o611
Tables == {<<x, y, z>> : x, y, z \in {5, \o7772, \o1777}}
Sums == {[Booted(0, SumImage(t)) EXCEPT !.pc = \o600] : t \in Tables}
\* Any machine about to sum three words, whatever they and the rest of it are.
TableText ==
  {<<\o600, \o62>>, <<\o601, \o1774>>, <<\o602, \o63>>, <<\o603, \o777>>, <<\o604, \o11>>,
   <<\o605, \o1123>>, <<\o606, \o222>>, <<\o607, \o6605>>, <<\o610, 0>>}
TableStart(c) ==
  /\ "RUN" \in c.flags /\ c.flags \intersect {"8MODE", "LIF", "DJR"} = {}
  /\ c.ifr * \o2000 = LincField /\ c.pc = \o600
  /\ \A t \in TableText : Cell(c.core, L(t[1])) = t[2]

\* SET I 4 start; then LDA I c, STH I 4 three times; HLT.
PackImage(start, cs) ==
  Code(L(\o1200), <<\o64, start, \o1020, cs[1], \o1364, \o1020, cs[2], \o1364,
                    \o1020, cs[3], \o1364, 0>>)
PackHalt == \o1214
Filler == \o3737
PackStarts == {\o4377, \o400, \o2377, \o7777}
Packs ==
  { [Booted(0, PackImage(s, cs)
               @@ Code(L(\o377), <<Filler, Filler, Filler, Filler>>)
               @@ Code(DataField + \o377, <<Filler, Filler, Filler, Filler>>)
               @@ Code(DataField, <<Filler, Filler, Filler>>)) EXCEPT !.pc = \o1200]
    : s \in PackStarts, cs \in {<<1, 2, 3>>, <<\o77, 0, \o7705>>} }

\* Two-word sum: CLR; LDA low1; LAM low2; LDA high1; LAM high2; HLT (operands by address).
LamImage(a, b) ==
  Code(L(\o1400), <<\o11, \o1000, \o1501, \o1200, \o1503, \o1000, \o1502, \o1200, \o1504, 0>>)
  @@ Code(L(\o1501), <<a % \o10000, a \div \o10000, b % \o10000, b \div \o10000>>)
  @@ Code(L(\o1511), <<b % \o10000, b \div \o10000>>)
LamHalt == \o1412
LongWords == {0, 1, \o7777, \o10000, \o17777777 - \o7777, \o37777777, \o77777777, \o77770001}
Lams == {[Booted(0, LamImage(a, b)) EXCEPT !.pc = \o1400] : a \in LongWords, b \in LongWords}
\* Any machine about to add, whatever the two numbers and the rest of it are: the sum
\* replaces one of them, of which there is a copy.
LamText ==
  {<<\o1400, \o11>>, <<\o1401, \o1000>>, <<\o1402, \o1501>>, <<\o1403, \o1200>>,
   <<\o1404, \o1503>>, <<\o1405, \o1000>>, <<\o1406, \o1502>>, <<\o1407, \o1200>>,
   <<\o1410, \o1504>>, <<\o1411, 0>>}
LamStart(c) ==
  /\ "8MODE" \notin c.flags /\ "RUN" \in c.flags
  /\ c.ifr * \o2000 = LincField /\ c.pc = \o1400
  /\ \A t \in LamText : Cell(c.core, L(t[1])) = t[2]
  /\ Cell(c.core, L(\o1503)) = Cell(c.core, L(\o1511))
  /\ Cell(c.core, L(\o1504)) = Cell(c.core, L(\o1512))

LincProgramStarts == Calls \union Sums \union Packs \union Lams
----------------------------------------------------------------------------
Word2(addr) == Cell(cpu.core, L(addr)) + Cell(cpu.core, L(addr + 1)) * \o10000
LincDone(pc) == ~Running /\ "8MODE" \notin cpu.flags /\ cpu.pc % \o2000 = pc

LincEnds == {CallHalt, SumHalt, PackHalt, LamHalt}

\* JMP, the return word it stores and JMP 0 nest: two calls of a subroutine that calls
\* another come back to the caller twice, and the leaf has run twice.
CallsReturn ==
  LincDone(CallHalt) => Cell(cpu.core, L(\o500)) \in {2, 9} /\ Cell(cpu.core, L(0)) = \o202
\* From any other count, with the end-around carry of ADD.
LeafRan(n) == OnesSum(1, n)
CallsReturnFrom(n) ==
  LincDone(CallHalt) =>
    Cell(cpu.core, L(\o500)) = LeafRan(LeafRan(n)) /\ Cell(cpu.core, L(0)) = \o202

\* ADA through a stepped index register and XSK visit each word of the table once.
TableValue(k) == Signed(Cell(cpu.core, L(\o777 + k)))
TableIsSummed ==
  LincDone(SumHalt) =>
    LET total == TableValue(1) + TableValue(2) + TableValue(3)
    IN Abs(total) <= MaxSigned => Signed(cpu.ac) = total

\* STH I fills halves left to right, stepping from a word to the next in the field the
\* index register selects, and leaves the half after the last character alone.
HalfAt(p) ==
  LET start == Cell(cpu.core, L(\o1201))
      word == LincRead(cpu, ((start \div \o2000) % 2) * \o2000 + ((start + p \div 2) % \o2000))
  IN IF p % 2 = 1 THEN RightHalf(word) ELSE LeftHalf(word)
FirstHalf == IF Has(Cell(cpu.core, L(\o1201)), \o4000) THEN 1 ELSE 0
CharactersArePacked ==
  LincDone(PackHalt) =>
    /\ \A k \in 1 .. 3 :
         HalfAt(FirstHalf + k) = RightHalf(Cell(cpu.core, L(\o1200 + 3 * k)))
    /\ HalfAt(FirstHalf + 4) = RightHalf(Filler)

\* Two LAM instructions add the halves of a 24-bit number.
LamSumIsExact ==
  LincDone(LamHalt) =>
    Word2(\o1503) + cpu.l * \o100000000 = Word2(\o1501) + Word2(\o1511)
=============================================================================
