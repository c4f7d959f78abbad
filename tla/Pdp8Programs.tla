---------------------------- MODULE Pdp8Programs ----------------------------
(***************************************************************************)
(* Whole PDP-8 programs, run to their HLT: a block copied through two      *)
(* auto-index cells in a loop counted by ISZ, a subroutine that takes      *)
(* arguments from the words after its call, a two-word addition, and a     *)
(* text printed.                                                           *)
(* Inputs stay in core beside the results.                                 *)
(***************************************************************************)
EXTENDS Bench, Terminal

Negative(n) == (-n) % \o10000

\* TAD I 10; DCA I 11; ISZ COUNT; JMP .-3; HLT; the pointers are in the data field.
CopyHalt == \o305
Copies ==
  { [Pdp8Booted(Code(\o300, <<\o1410, \o3411, \o2350, \o5300, PDP8_HLT>>)
                @@ At(\o350, Negative(3))
                @@ Code(field + \o10, <<from - 1, to - 1>>)
                @@ Code(field + from, <<\o111, \o222, \o333>>), \o300)
       EXCEPT !.dfr = (field \div \o10000) * 4 + 3]
    : field \in {0, \o40000}, from \in {\o1000, \o1200}, to \in {\o1200, \o2000, \o7776} }
\* Any machine about to copy a block b of three words, in any data field: the pointers name
\* the places before them.  What the program needs is that no copy falls on the program, its
\* count, its pointers or a word still to be copied.
CopyText ==
  {<<\o300, \o1410>>, <<\o301, \o3411>>, <<\o302, \o2350>>, <<\o303, \o5300>>, <<\o304, PDP8_HLT>>}
Blocks ==
  [field : {f * \o10000 : f \in 0 .. 7}, from : Word, to : Word, word : [1 .. 3 -> Word]]
SourcePlace(b, i) == b.field + ((b.from + i) % \o10000)
TargetPlace(b, i) == b.field + ((b.to + i) % \o10000)
CopyOwn(b) == {\o350, b.field + \o10, b.field + \o11}
Separate(b) ==
  /\ \A i \in 1 .. 3 : SourcePlace(b, i) \notin CopyOwn(b)
                       /\ TargetPlace(b, i) \notin CopyOwn(b) \union (\o300 .. \o304)
  /\ \A i, j \in 1 .. 3 : i < j => TargetPlace(b, i) # SourcePlace(b, j)
CopyStart(c, b) ==
  /\ {"8MODE", "RUN"} \subseteq c.flags /\ c.ifr \div 4 = 0 /\ (c.dfr \div 4) * \o10000 = b.field
  /\ c.pc = \o300 /\ c.ac = 0
  /\ \A t \in CopyText : Cell(c.core, t[1]) = t[2]
  /\ Cell(c.core, \o350) = \o7775
  /\ Cell(c.core, b.field + \o10) = b.from /\ Cell(c.core, b.field + \o11) = b.to
  /\ \A i \in 1 .. 3 : Cell(c.core, SourcePlace(b, i)) = b.word[i]

\* JMS SUB; arg; JMS SUB; arg; HLT.  SUB: TAD I SUB; ISZ SUB; JMP I SUB.
ArgumentHalt == \o405
ArgumentCalls ==
  { Pdp8Booted(Code(\o400, <<\o4220, x, \o4220, y, PDP8_HLT>>)
               @@ Code(\o420, <<0, \o1620, \o2220, \o5620>>), \o400)
    : x \in {0, 1, \o7777}, y \in {5, \o4000, \o7777} }
\* Any machine about to make these calls, whatever the arguments and the rest of it are.
ArgumentText ==
  {<<\o400, \o4220>>, <<\o402, \o4220>>, <<\o404, PDP8_HLT>>,
   <<\o421, \o1620>>, <<\o422, \o2220>>, <<\o423, \o5620>>}
InPdp8Field(c, field) == c.ifr \div 4 = field /\ c.dfr \div 4 = field
ArgumentStart(c) ==
  /\ {"8MODE", "RUN"} \subseteq c.flags /\ InPdp8Field(c, 0)
  /\ c.pc = \o400 /\ c.ac = 0
  /\ \A t \in ArgumentText : Cell(c.core, t[1]) = t[2]

\* CLA CLL; TAD LOW1; TAD LOW2; DCA LOW; RAL; TAD HIGH1; TAD HIGH2; DCA HIGH; HLT.
TadHalt == \o611
TadSums ==
  { Pdp8Booted(Code(\o600, <<\o7300, \o1250, \o1252, \o3254, \o7004, \o1251, \o1253, \o3255,
                             PDP8_HLT>>)
               @@ Code(\o650, <<a % \o10000, a \div \o10000, b % \o10000, b \div \o10000>>), \o600)
    : a, b \in {0, 1, \o7777, \o10000, \o37770001, \o77777777} }
\* Any machine about to add, whatever the two numbers and the rest of it are.
TadText ==
  {<<\o600, \o7300>>, <<\o601, \o1250>>, <<\o602, \o1252>>, <<\o603, \o3254>>, <<\o604, \o7004>>,
   <<\o605, \o1251>>, <<\o606, \o1253>>, <<\o607, \o3255>>, <<\o610, PDP8_HLT>>}
TadStart(c) ==
  /\ {"8MODE", "RUN"} \subseteq c.flags /\ InPdp8Field(c, 0)
  /\ c.pc = \o600
  /\ \A t \in TadText : Cell(c.core, t[1]) = t[2]

\* TAD I 10; SNA; HLT; TLS; TSF; JMP .-1; CLA; JMP .-7: the words behind the one that
\* cell 10 names, up to a zero word.
TextPointer == \o10
PrintHalt == \o203
PrintCode == <<\o1410, \o7450, PDP8_HLT, \o6046, \o6041, \o5204, \o7200, \o5200>>
PrintImage(text) == Code(\o200, PrintCode) @@ At(TextPointer, \o577) @@ Code(\o600, text)
\* Any machine about to print, whatever the text and the rest of it are.
PrintStart(c) ==
  /\ {"8MODE", "RUN"} \subseteq c.flags /\ InPdp8Field(c, 0)
  /\ c.pc = \o200 /\ c.ac = 0 /\ c.out = {}
  /\ \A k \in 1 .. 8 : Cell(c.core, \o177 + k) = PrintCode[k]

Pdp8ProgramStarts == Copies \union ArgumentCalls \union TadSums
----------------------------------------------------------------------------
Word8(a) == Cell(cpu.core, a)
Pdp8Done(pc) == ~Running /\ "8MODE" \in cpu.flags /\ cpu.pc = pc

Pdp8Ends == {CopyHalt, ArgumentHalt, TadHalt}

\* Auto-index cells step before use, each word once, in the data field.
BlockIsCopied ==
  Pdp8Done(CopyHalt) =>
    LET field == (cpu.dfr \div 4) * \o10000
        pastSource == Word8(field + \o10)
        pastTarget == Word8(field + \o11)
    IN \A k \in 0 .. 2 :
         Word8(field + ((pastTarget - k) % \o10000)) = (3 - k) * \o111
         /\ pastSource \in {\o1002, \o1202}
\* For any block: its words are at the targets, and both pointers name the last of them.
BlockIsAt(b) ==
  Pdp8Done(CopyHalt) =>
    /\ \A i \in 1 .. 3 : Word8(TargetPlace(b, i)) = b.word[i]
    /\ Word8(b.field + \o10) = (b.from + 3) % \o10000
    /\ Word8(b.field + \o11) = (b.to + 3) % \o10000

\* JMS, a return address stepped over the argument with ISZ, and JMP I: both calls saw
\* their argument and the second came back to the halt.
ArgumentsAreAdded ==
  Pdp8Done(ArgumentHalt) => cpu.ac = (Word8(\o401) + Word8(\o403)) % \o10000

\* The print loop prints the words of the text in order: what is printed is the character
\* of seven bits in the word that its auto-index pointer has just reached.
TextWord(c) == Cell(c.core, Cell(c.core, TextPointer))
TextIsPrinted ==
  [][\A ch \in Printed(cpu') :
       Cell(cpu.core, TextPointer) # 0 => ch = TextWord(cpu) % \o200]_cpu

\* TAD, RAL and TAD add the halves of a 24-bit number.
TadSumIsExact ==
  Pdp8Done(TadHalt) =>
    Word8(\o654) + Word8(\o655) * \o10000 + cpu.l * \o100000000
      = Word8(\o650) + Word8(\o652) + (Word8(\o651) + Word8(\o653)) * \o10000
=============================================================================
