-------------------------- MODULE ChangedTapeProofs ------------------------
(***************************************************************************)
(* The checksum of a BIN tape catches the change of any one byte's data    *)
(* bits, for every file: the two loaders of ChangedTape stay in step, with *)
(* sums that differ by less than a word can hide, or one of them is bound  *)
(* to refuse.                                                              *)
(***************************************************************************)
EXTENDS ChangedTape, PaperdumpProofs

Delta(i) == tape[i] - tape0[i]
Near(i) ==
  /\ DOMAIN tape = DOMAIN tape0
  /\ \A j \in DOMAIN tape0 : Type(tape[j]) = Type(tape0[j]) /\ (j # i => tape[j] = tape0[j])

\* A tape that begins with an instruction has no origin to store at, and no sum but 0.
Doomed ==
  \/ phase = "returned" /\ result = -1
  \/ /\ phase \in {"leader", "frames"} /\ addr = -1 /\ checksum = 0
     /\ ByteAt(tape, pos) # EOF /\ ByteAt(tape, pos) # 0 /\ Type(ByteAt(tape, pos)) = 0
OriginalDoomed ==
  \/ phase0 = "returned" /\ result0 = -1
  \/ /\ phase0 \in {"leader", "frames"} /\ addr0 = -1 /\ checksum0 = 0
     /\ ByteAt(tape0, pos0) # EOF /\ ByteAt(tape0, pos0) # 0 /\ Type(ByteAt(tape0, pos0)) = 0

\* Nothing is summed before the first frame.
Unstarted == phase \in {"seek", "padding", "leader"} => addr = -1 /\ checksum = 0

\* In step, the changed byte not summed yet, or summed since.
Same == checksum = checksum0 /\ addr = addr0 /\ core = core0
Apart(i) ==
  /\ phase = "frames" /\ i < pos
  /\ Delta(i) \in (-63 .. 63) \ {0} /\ checksum = checksum0 + Delta(i)
InStep(i) == phase = phase0 /\ pos = pos0 /\ Unstarted /\ (Same \/ Apart(i))
Coupled(i) == Doomed \/ OriginalDoomed \/ InStep(i)
OriginalTyped == tape0 \in Seq(Byte) /\ pos0 \in Int /\ checksum0 \in Nat
PairInv ==
  format = "bin" => OriginalTyped /\ \E i \in Nat : Near(i) /\ Coupled(i)
----------------------------------------------------------------------------
\* What the two loaders look at.
LEMMA Looks ==
  /\ Bin!c0 = ByteAt(tape, pos) /\ Bin!c1 = ByteAt(tape, pos + 1) /\ Bin!c2 = ByteAt(tape, pos + 2)
  /\ Bin!word = Pair(ByteAt(tape, pos), ByteAt(tape, pos + 1))
  /\ Original!c0 = ByteAt(tape0, pos0) /\ Original!c1 = ByteAt(tape0, pos0 + 1)
  /\ Original!c2 = ByteAt(tape0, pos0 + 2)
  /\ Original!word = Pair(ByteAt(tape0, pos0), ByteAt(tape0, pos0 + 1))
  /\ Bin!EOF = EOF /\ Original!EOF = EOF
  /\ \A c : Bin!Type(c) = Type(c) /\ Original!Type(c) = Type(c)
<1>1. Bin!EOF = EOF /\ Original!EOF = EOF
  BY DEF Bin!EOF, Original!EOF, EOF
<1>2. /\ Bin!c0 = ByteAt(tape, pos) /\ Bin!c1 = ByteAt(tape, pos + 1) /\ Bin!c2 = ByteAt(tape, pos + 2)
      /\ Original!c0 = ByteAt(tape0, pos0) /\ Original!c1 = ByteAt(tape0, pos0 + 1)
      /\ Original!c2 = ByteAt(tape0, pos0 + 2)
  BY <1>1 DEF Bin!c0, Bin!c1, Bin!c2, Bin!ByteAt, Original!c0, Original!c1, Original!c2,
              Original!ByteAt, ByteAt
<1>3. \A c : Bin!Type(c) = Type(c) /\ Original!Type(c) = Type(c)
  BY DEF Bin!Type, Original!Type, Type
<1>4. \A a, b : Bin!Pair(a, b) = Pair(a, b) /\ Original!Pair(a, b) = Pair(a, b)
  BY DEF Bin!Pair, Original!Pair, Pair, Bin!Or, Original!Or, Or, Bin!Type, Original!Type, Type
<1> QED
  BY <1>1, <1>2, <1>3, <1>4 DEF Bin!word, Original!word

\* The two tapes have their ends and the types of their bytes in common, and every byte
\* but one.
LEMMA Nearness ==
  ASSUME tape \in Seq(Byte), tape0 \in Seq(Byte), NEW i \in Nat, Near(i), NEW j \in Int
  PROVE  /\ ByteAt(tape, j) = EOF <=> ByteAt(tape0, j) = EOF
         /\ ByteAt(tape, j) # EOF => /\ ByteAt(tape, j) \in Byte /\ ByteAt(tape0, j) \in Byte
                                     /\ Type(ByteAt(tape, j)) = Type(ByteAt(tape0, j))
                                     /\ j = i => ByteAt(tape, j) - ByteAt(tape0, j) = Delta(i)
         /\ j # i => ByteAt(tape, j) = ByteAt(tape0, j)
<1>1. /\ ByteAt(tape, j) # EOF => j \in DOMAIN tape /\ ByteAt(tape, j) \in Byte
      /\ ByteAt(tape0, j) # EOF => j \in DOMAIN tape0 /\ ByteAt(tape0, j) \in Byte
  BY DEF ByteAt
<1>2. ~(EOF \in Byte)
  BY DEF EOF, Byte
<1>3. ByteAt(tape, j) # EOF <=> j \in DOMAIN tape
  BY <1>1, <1>2 DEF ByteAt
<1>4. ByteAt(tape0, j) # EOF <=> j \in DOMAIN tape0
  BY <1>1, <1>2 DEF ByteAt
<1>5. DOMAIN tape = DOMAIN tape0
  BY DEF Near
<1>6. ASSUME j \in DOMAIN tape0
      PROVE  /\ ByteAt(tape, j) = tape[j] /\ ByteAt(tape0, j) = tape0[j]
             /\ Type(tape[j]) = Type(tape0[j]) /\ (j # i => tape[j] = tape0[j])
  BY <1>5, <1>6 DEF Near, ByteAt
<1>7. CASE j \in DOMAIN tape0
  BY <1>1, <1>3, <1>4, <1>5, <1>6, <1>7 DEF Delta
<1>8. CASE j \notin DOMAIN tape0
  BY <1>3, <1>4, <1>5, <1>8
<1> QED
  BY <1>7, <1>8

\* Two bytes of one type differ by less than 64.
LEMMA SmallDelta ==
  ASSUME NEW a \in Byte, NEW b \in Byte, Type(a) = Type(b)
  PROVE  a - b \in -63 .. 63
<1> DEFINE t == a \div 64
           u == a % 64
           v == b % 64
<1>1. a \in Int /\ b \in Int
  BY DEF Byte
<1>2. t \in Int /\ u \in 0 .. 63 /\ v \in 0 .. 63
  BY <1>1
<1>3. a = 64 * t + u
  BY <1>1
<1>4. b = 64 * t + v
  <2>1. b = 64 * (b \div 64) + (b % 64)
    BY <1>1
  <2>2. b \div 64 = t
    BY DEF Type
  <2> QED
    BY <2>1, <2>2
<1> HIDE DEF t, u, v
<1> QED
  BY <1>2, <1>3, <1>4

----------------------------------------------------------------------------
\* Which action it is that the other loader can take.
LEMMA OriginalTurnOf ==
  ASSUME Original!Next, phase0 = "frames", Original!c0 # EOF, Original!c1 # EOF
  PROVE  /\ Type(Original!c0) = 0 => Original!Instruction \/ Original!Outside \/ Original!Checksum
         /\ Type(Original!c0) = 1 => Original!Origin
         /\ Type(Original!c0) = 2 => Original!Trailer
         /\ Type(Original!c0) = 3 => Original!Field
BY Looks DEF Original!Next, Original!Seek, Original!SkipPadding, Original!SkipLeader, Original!NoData,
             Original!Origin, Original!Instruction, Original!Outside, Original!Checksum,
             Original!Trailer, Original!Field, Original!Premature, Original!Turn,
             Original!INSTR, Original!ORIGIN, Original!LEAD_TRAIL, Original!FIELD
----------------------------------------------------------------------------
\* Two frames of which the first has data and is no origin make no word of 0.
LEMMA LonelyWord ==
  ASSUME NEW a \in Byte, NEW b \in Byte, Type(a) = 0, a # 0
  PROVE  Pair(a, b) # 0
<1> DEFINE high == (a % 64) \div 4
           mid == Or(a % 4, Type(b))
           low == b % 64
<1>1. a \in 1 .. 63
  BY DEF Byte, Type
<1>2. a % 64 = a /\ a % 4 \in 0 .. 3 /\ low \in 0 .. 63
  BY <1>1 DEF Byte
<1>3. high \in 0 .. 15 /\ (high = 0 => a % 4 # 0)
  <2>1. a \div 4 \in 0 .. 15 /\ (a \div 4 = 0 => a % 4 # 0)
    BY <1>1
  <2> QED
    BY <1>2, <2>1
<1>4. mid \in 0 .. 3 /\ (a % 4 # 0 => mid # 0)
  <2>1. Type(b) \in 0 .. 3
    BY TypeTyped
  <2> HIDE DEF mid
  <2>2. mid \in 0 .. 3
    BY <1>2, <2>1, OrTyped DEF mid
  <2>3. \A x \in 0 .. 3, y \in 0 .. 3 : x # 0 => Or(x, y) # 0
    BY DEF Or
  <2> QED
    BY <1>2, <2>1, <2>2, <2>3 DEF mid
<1>5. Pair(a, b) = high * 256 + mid * 64 + low
  BY DEF Pair
<1> HIDE DEF high, mid, low
<1> QED
  BY <1>2, <1>3, <1>4, <1>5

\* A loader whose tape begins with an instruction is refused in the end.
LEMMA DoomedStays ==
  ASSUME Bin!TypeOK, Doomed, Bin!Next
  PROVE  Doomed'
<1> USE DEF Bin!Return, Bin!Enter
<1>1. tape \in Seq(Byte) /\ pos \in Int /\ pos + 1 \in Int /\ 0 % 4096 = 0
  BY DEF Bin!TypeOK, Bin!Byte, Byte
<1>2. phase # "returned" /\ tape' = tape
  BY DEF Bin!Next, Bin!Seek, Bin!SkipPadding, Bin!SkipLeader, Bin!NoData, Bin!Origin, Bin!Instruction,
         Bin!Outside, Bin!Checksum, Bin!Trailer, Bin!Field, Bin!Premature, Bin!Turn, Bin!SkipByte, Bin!FrameDone
<1>3. /\ phase \in {"leader", "frames"} /\ addr = -1 /\ checksum = 0
      /\ Bin!c0 # EOF /\ Bin!c0 # 0 /\ Type(Bin!c0) = 0
  BY <1>2, Looks DEF Doomed
<1>4. CASE phase = "leader"
  <2>1. Bin!SkipLeader
    BY <1>3, <1>4, Looks DEF Bin!Next, Bin!Seek, Bin!SkipPadding, Bin!SkipLeader, Bin!NoData, Bin!Origin,
      Bin!Instruction, Bin!Outside, Bin!Checksum, Bin!Trailer, Bin!Field, Bin!Premature, Bin!Turn
  <2>2. UNCHANGED <<tape, pos, addr, checksum>> /\ phase' = "frames"
    BY <1>3, <2>1, Looks DEF Bin!SkipLeader, Bin!LEAD_TRAIL
  <2>3. ByteAt(tape, pos)' = ByteAt(tape, pos)
    BY <2>2 DEF ByteAt
  <2> QED
    BY <1>3, <2>2, <2>3, Looks DEF Doomed
<1>5. CASE phase = "frames" /\ Bin!c1 = EOF
  <2>1. Bin!Premature
    BY <1>5, Looks DEF Bin!Next, Bin!Seek, Bin!SkipPadding, Bin!SkipLeader, Bin!NoData, Bin!Origin,
      Bin!Instruction, Bin!Outside, Bin!Checksum, Bin!Trailer, Bin!Field, Bin!Premature, Bin!Turn
  <2> QED
    BY <2>1 DEF Bin!Premature, Doomed
<1>6. CASE phase = "frames" /\ Bin!c1 # EOF
  <2>1. Bin!Instruction \/ Bin!Outside \/ Bin!Checksum
    BY <1>3, <1>6, TurnOf
  <2>2. ~Bin!Instruction
    BY <1>3, CoreSizeAssumption DEF Bin!Instruction, Bin!InCore
  <2>3. Bin!word # checksum % 4096
    BY <1>1, <1>3, <1>6, ByteAtTyped, LonelyWord, Looks
  <2> QED
    BY <2>1, <2>2, <2>3 DEF Bin!Outside, Bin!Checksum, Doomed
<1> QED
  BY <1>3, <1>4, <1>5, <1>6

\* The same of the other.
LEMMA OriginalDoomedStays ==
  ASSUME OriginalTyped, OriginalDoomed, Original!Next
  PROVE  OriginalDoomed'
<1> USE DEF Original!Return, Original!Enter
<1>1. tape0 \in Seq(Byte) /\ pos0 \in Int /\ pos0 + 1 \in Int /\ 0 % 4096 = 0
  BY DEF OriginalTyped
<1>2. phase0 # "returned" /\ tape0' = tape0
  BY DEF Original!Next, Original!Seek, Original!SkipPadding, Original!SkipLeader, Original!NoData,
         Original!Origin, Original!Instruction, Original!Outside, Original!Checksum, Original!Trailer,
         Original!Field, Original!Premature, Original!Turn, Original!SkipByte, Original!FrameDone
<1>3. /\ phase0 \in {"leader", "frames"} /\ addr0 = -1 /\ checksum0 = 0
      /\ Original!c0 # EOF /\ Original!c0 # 0 /\ Type(Original!c0) = 0
  BY <1>2, Looks DEF OriginalDoomed
<1>4. CASE phase0 = "leader"
  <2>1. Original!SkipLeader
    BY <1>3, <1>4, Looks DEF Original!Next, Original!Seek, Original!SkipPadding, Original!SkipLeader,
      Original!NoData, Original!Origin, Original!Instruction, Original!Outside, Original!Checksum,
      Original!Trailer, Original!Field, Original!Premature, Original!Turn
  <2>2. UNCHANGED <<tape0, pos0, addr0, checksum0>> /\ phase0' = "frames"
    BY <1>3, <2>1, Looks DEF Original!SkipLeader, Original!LEAD_TRAIL
  <2>3. ByteAt(tape0, pos0)' = ByteAt(tape0, pos0)
    BY <2>2 DEF ByteAt
  <2> QED
    BY <1>3, <2>2, <2>3, Looks DEF OriginalDoomed
<1>5. CASE phase0 = "frames" /\ Original!c1 = EOF
  <2>1. Original!Premature
    BY <1>5, Looks DEF Original!Next, Original!Seek, Original!SkipPadding, Original!SkipLeader,
      Original!NoData, Original!Origin, Original!Instruction, Original!Outside, Original!Checksum,
      Original!Trailer, Original!Field, Original!Premature, Original!Turn
  <2> QED
    BY <2>1 DEF Original!Premature, OriginalDoomed
<1>6. CASE phase0 = "frames" /\ Original!c1 # EOF
  <2>1. Original!Instruction \/ Original!Outside \/ Original!Checksum
    BY <1>3, <1>6, OriginalTurnOf
  <2>2. ~Original!Instruction
    BY <1>3, CoreSizeAssumption DEF Original!Instruction, Original!InCore
  <2>3. Original!word # checksum0 % 4096
    BY <1>1, <1>3, <1>6, ByteAtTyped, LonelyWord, Looks
  <2> QED
    BY <2>1, <2>2, <2>3 DEF Original!Outside, Original!Checksum, OriginalDoomed
<1> QED
  BY <1>3, <1>4, <1>5, <1>6
----------------------------------------------------------------------------
\* What two frames add to the two sums: the same, or the difference of the changed byte,
\* which is behind the loaders from then on.
LEMMA Frames ==
  ASSUME Bin!TypeOK, OriginalTyped, NEW i \in Nat, Near(i), pos0 = pos,
         ByteAt(tape, pos) # EOF, ByteAt(tape, pos + 1) # EOF
  PROVE  /\ Bin!c0 \in Byte /\ Bin!c1 \in Byte /\ Original!c0 \in Byte /\ Original!c1 \in Byte
         /\ Type(Bin!c0) = Type(Original!c0)
         /\ (Bin!c2 = EOF <=> Original!c2 = EOF)
         /\ (Bin!c2 # EOF => Type(Bin!c2) = Type(Original!c2))
         /\ \/ Bin!c0 = Original!c0 /\ Bin!c1 = Original!c1 /\ Bin!word = Original!word
            \/ /\ i \in {pos, pos + 1} /\ Delta(i) \in (-63 .. 63) \ {0}
               /\ Bin!c0 + Bin!c1 = Original!c0 + Original!c1 + Delta(i)
<1>1. /\ tape \in Seq(Byte) /\ tape0 \in Seq(Byte) /\ pos \in Int /\ pos + 1 \in Int /\ pos + 2 \in Int
      /\ pos # pos + 1
  BY DEF Bin!TypeOK, Bin!Byte, Byte, OriginalTyped
<1> DEFINE a == ByteAt(tape, pos)
           b == ByteAt(tape, pos + 1)
           c == ByteAt(tape0, pos)
           d == ByteAt(tape0, pos + 1)
<1>2. /\ a \in Byte /\ c \in Byte /\ Type(a) = Type(c) /\ (pos = i => a - c = Delta(i)) /\ (pos # i => a = c)
  BY <1>1, Nearness
<1>3. /\ b \in Byte /\ d \in Byte /\ (pos + 1 = i => b - d = Delta(i)) /\ (pos + 1 # i => b = d)
  BY <1>1, Nearness
<1>4. /\ ByteAt(tape, pos + 2) = EOF <=> ByteAt(tape0, pos + 2) = EOF
      /\ ByteAt(tape, pos + 2) # EOF => Type(ByteAt(tape, pos + 2)) = Type(ByteAt(tape0, pos + 2))
  BY <1>1, Nearness
<1>5. a - c \in -63 .. 63 /\ b - d \in -63 .. 63
  <2>1. Type(b) = Type(d)
    BY <1>1, Nearness
  <2> HIDE DEF a, b, c, d
  <2>2. a - c \in -63 .. 63
    BY <1>2, SmallDelta
  <2>3. b - d \in -63 .. 63
    BY <1>3, <2>1, SmallDelta
  <2> QED
    BY <2>2, <2>3
<1>6. \/ a = c /\ b = d
      \/ i \in {pos, pos + 1} /\ Delta(i) \in (-63 .. 63) \ {0} /\ a + b = c + d + Delta(i)
  <2> HIDE DEF a, b, c, d
  <2>0. a \in Int /\ b \in Int /\ c \in Int /\ d \in Int
    BY <1>2, <1>3 DEF Byte
  <2>1. CASE i = pos
    <3>1. b = d /\ a - c = Delta(i) /\ Delta(i) \in -63 .. 63
      BY <1>1, <1>2, <1>3, <1>5, <2>1
    <3>2. Delta(i) \in Int /\ a + b = c + d + Delta(i) /\ (Delta(i) = 0 => a = c)
      BY <2>0, <3>1
    <3> QED
      BY <2>1, <3>1, <3>2
  <2>2. CASE i = pos + 1
    <3>1. a = c /\ b - d = Delta(i) /\ Delta(i) \in -63 .. 63
      BY <1>1, <1>2, <1>3, <1>5, <2>2
    <3>2. Delta(i) \in Int /\ a + b = c + d + Delta(i) /\ (Delta(i) = 0 => b = d)
      BY <2>0, <3>1
    <3> QED
      BY <2>2, <3>1, <3>2
  <2>3. CASE i \notin {pos, pos + 1}
    BY <1>2, <1>3, <2>3
  <2> QED
    BY <2>1, <2>2, <2>3
<1> QED
  BY <1>2, <1>3, <1>4, <1>6, Looks

\* Two loaders that have both added the frames at hand to their sums.
LEMMA SumsCoupled ==
  ASSUME Bin!TypeOK, OriginalTyped, NEW i \in Nat, Near(i), InStep(i), phase = "frames",
         ByteAt(tape, pos) # EOF, ByteAt(tape, pos + 1) # EOF,
         Bin!FrameDone, Original!FrameDone,
         checksum = checksum0 /\ Bin!word = Original!word /\ Same => addr' = addr0' /\ core' = core0'
  PROVE  InStep(i)'
<1>1. /\ checksum' = checksum + Bin!c0 + Bin!c1 /\ checksum0' = checksum0 + Original!c0 + Original!c1
      /\ pos' = pos + 2 /\ pos0' = pos0 + 2 /\ UNCHANGED <<tape, tape0, phase, phase0>>
  BY DEF Bin!FrameDone, Original!FrameDone, Bin!Summed, Original!Summed
<1>2. pos0 = pos /\ phase0 = phase /\ pos \in Int /\ checksum \in Int /\ checksum0 \in Int
  BY DEF InStep, Bin!TypeOK, OriginalTyped
<1>3. /\ Bin!c0 \in Int /\ Bin!c1 \in Int /\ Original!c0 \in Int /\ Original!c1 \in Int
  BY <1>2, Frames DEF Byte
<1>4. Delta(i)' = Delta(i) /\ Unstarted'
  BY <1>1 DEF Delta, Unstarted
<1>5. CASE Apart(i)
  <2>1. i \notin {pos, pos + 1} /\ i < pos'
    BY <1>1, <1>2, <1>5 DEF Apart
  <2>2. Bin!c0 = Original!c0 /\ Bin!c1 = Original!c1
    BY <1>2, <2>1, Frames
  <2>3. /\ checksum = checksum0 + Delta(i) /\ Delta(i) \in (-63 .. 63) \ {0}
    BY <1>5 DEF Apart
  <2>4. checksum' = checksum0' + Delta(i)
    BY <1>1, <1>2, <1>3, <2>2, <2>3
  <2> QED
    BY <1>1, <1>2, <1>4, <2>1, <2>3, <2>4 DEF InStep, Apart
<1>6. CASE Same /\ Bin!c0 = Original!c0 /\ Bin!c1 = Original!c1 /\ Bin!word = Original!word
  <2>1. checksum' = checksum0' /\ addr' = addr0' /\ core' = core0'
    BY <1>1, <1>6 DEF Same
  <2> QED
    BY <1>1, <1>2, <1>4, <2>1 DEF InStep, Same
<1>7. CASE /\ Same /\ i \in {pos, pos + 1} /\ Delta(i) \in (-63 .. 63) \ {0}
           /\ Bin!c0 + Bin!c1 = Original!c0 + Original!c1 + Delta(i)
  <2>1. i < pos'
    BY <1>1, <1>2, <1>7
  <2>2. checksum' = checksum0' + Delta(i)
    BY <1>1, <1>2, <1>3, <1>7 DEF Same
  <2> QED
    BY <1>1, <1>2, <1>4, <1>7, <2>1, <2>2 DEF InStep, Apart
<1> QED
  BY <1>2, <1>5, <1>6, <1>7, Frames DEF InStep
----------------------------------------------------------------------------
\* Before the first frame the two loaders read the same, unless one of them takes a byte for
\* padding that the other takes for a frame.
LEMMA StartsInStep ==
  ASSUME Bin!TypeOK, OriginalTyped, NEW i \in Nat, Near(i), InStep(i), phase # "frames",
         Bin!Next, Original!Next
  PROVE  Coupled(i)'
<1> USE DEF Bin!Return, Bin!Enter, Bin!SkipByte, Original!Return, Original!Enter, Original!SkipByte
<1>1. Same /\ Unstarted /\ phase0 = phase /\ pos0 = pos /\ pos \in Int /\ pos + 1 \in Int
  BY DEF InStep, Apart, Bin!TypeOK
<1>2. /\ Bin!c0 = EOF <=> Original!c0 = EOF
      /\ Bin!c0 # EOF => Type(Bin!c0) = Type(Original!c0)
  <2>1. tape \in Seq(Byte) /\ tape0 \in Seq(Byte)
    BY DEF Bin!TypeOK, Bin!Byte, Byte, OriginalTyped
  <2> QED
    BY <1>1, <2>1, Nearness, Looks
<1>3. /\ Bin!Seek \/ Bin!SkipPadding \/ Bin!SkipLeader \/ Bin!NoData
      /\ Original!Seek \/ Original!SkipPadding \/ Original!SkipLeader \/ Original!NoData
  BY <1>1 DEF Bin!Next, Bin!Origin, Bin!Instruction, Bin!Outside, Bin!Checksum, Bin!Trailer, Bin!Field,
    Bin!Premature, Bin!Turn, Original!Next, Original!Origin, Original!Instruction, Original!Outside,
    Original!Checksum, Original!Trailer, Original!Field, Original!Premature, Original!Turn
<1>4. CASE phase = "seek"
  <2>1. Bin!Seek /\ Original!Seek
    BY <1>1, <1>3, <1>4 DEF Bin!SkipPadding, Bin!SkipLeader, Bin!NoData,
      Original!SkipPadding, Original!SkipLeader, Original!NoData
  <2>2. CASE pos < 1
    BY <1>1, <2>1, <2>2 DEF Bin!Seek, Coupled, Doomed
  <2>3. CASE ~(pos < 1)
    BY <1>1, <1>4, <2>1, <2>3 DEF Bin!Seek, Original!Seek, Coupled, InStep, Same, Unstarted
  <2> QED
    BY <2>2, <2>3
<1>5. CASE phase \in {"padding", "leader"} /\ Bin!c0 = EOF
  <2>1. Bin!NoData /\ Original!NoData
    BY <1>1, <1>2, <1>3, <1>5, Looks DEF Bin!Seek, Bin!SkipPadding, Bin!SkipLeader,
      Original!Seek, Original!SkipPadding, Original!SkipLeader
  <2> QED
    BY <1>1, <2>1 DEF Bin!NoData, Original!NoData, Coupled, InStep, Same, Unstarted
<1>6. CASE phase = "padding" /\ Bin!c0 # EOF
  <2>1. Bin!SkipPadding /\ Original!SkipPadding
    BY <1>1, <1>2, <1>3, <1>6, Looks DEF Bin!Seek, Bin!NoData, Bin!SkipLeader,
      Original!Seek, Original!NoData, Original!SkipLeader
  <2>2. CASE Bin!c0 = 0 <=> Original!c0 = 0
    BY <1>1, <1>6, <2>1, <2>2 DEF Bin!SkipPadding, Original!SkipPadding, Coupled, InStep, Same, Unstarted
  <2>3. Type(0) = 0
    BY DEF Type
  <2>4. CASE Bin!c0 = 0 /\ Original!c0 # 0
    <3>1. phase0' = "leader" /\ UNCHANGED <<tape0, pos0, addr0, checksum0>>
      BY <2>1, <2>4 DEF Original!SkipPadding
    <3>2. Original!c0 # EOF /\ Type(Original!c0) = 0 /\ ByteAt(tape0, pos0)' = Original!c0
      BY <1>2, <1>6, <2>3, <2>4, <3>1, Looks DEF ByteAt
    <3>3. addr0 = -1 /\ checksum0 = 0
      BY <1>1, <1>6 DEF Same, Unstarted
    <3> QED
      BY <2>4, <3>1, <3>2, <3>3 DEF Coupled, OriginalDoomed
  <2>5. CASE Bin!c0 # 0 /\ Original!c0 = 0
    <3>1. phase' = "leader" /\ UNCHANGED <<tape, pos, addr, checksum>>
      BY <2>1, <2>5 DEF Bin!SkipPadding
    <3>2. Type(Bin!c0) = 0 /\ ByteAt(tape, pos)' = Bin!c0
      BY <1>2, <1>6, <2>3, <2>5, <3>1, Looks DEF ByteAt
    <3>3. addr = -1 /\ checksum = 0
      BY <1>1, <1>6 DEF Same, Unstarted
    <3> QED
      BY <1>6, <2>5, <3>1, <3>2, <3>3 DEF Coupled, Doomed
  <2> QED
    BY <2>2, <2>4, <2>5
<1>7. CASE phase = "leader" /\ Bin!c0 # EOF
  <2>1. Bin!SkipLeader /\ Original!SkipLeader
    BY <1>1, <1>2, <1>3, <1>7, Looks DEF Bin!Seek, Bin!NoData, Bin!SkipPadding,
      Original!Seek, Original!NoData, Original!SkipPadding
  <2>2. Bin!Type(Bin!c0) = Original!Type(Original!c0)
    BY <1>2, <1>7, Looks
  <2> QED
    BY <1>1, <1>7, <2>1, <2>2 DEF Bin!SkipLeader, Original!SkipLeader, Coupled, InStep, Same, Unstarted,
      Bin!LEAD_TRAIL, Original!LEAD_TRAIL
<1>8. phase \in {"seek", "padding", "leader"}
  BY <1>3 DEF Bin!Seek, Bin!SkipPadding, Bin!SkipLeader, Bin!NoData
<1> QED
  BY <1>4, <1>5, <1>6, <1>7, <1>8
----------------------------------------------------------------------------
\* Loaders that both meet the checksum: two sums that differ are not both accepted.
LEMMA ChecksumsCompared ==
  ASSUME Bin!TypeOK, OriginalTyped, NEW i \in Nat, Near(i), InStep(i),
         Bin!Checksum, Original!Checksum
  PROVE  Coupled(i)'
<1> USE DEF Bin!Return, Original!Return
<1>1. /\ phase = "frames" /\ phase0 = phase /\ pos0 = pos /\ pos \in Int
      /\ ByteAt(tape, pos) # EOF /\ ByteAt(tape, pos + 1) # EOF
  BY Looks DEF Bin!Checksum, Bin!Turn, InStep, Bin!TypeOK
<1>2. CASE Same
  BY <1>1, <1>2 DEF Bin!Checksum, Original!Checksum, Coupled, InStep, Same, Unstarted
<1>3. CASE Apart(i)
  <2>1. Bin!word = Original!word
    BY <1>1, <1>3, Frames DEF Apart
  <2>2. checksum = checksum0 + Delta(i) /\ Delta(i) \in -63 .. 63 /\ Delta(i) # 0 /\ checksum0 \in Nat
    BY <1>3 DEF Apart, OriginalTyped
  <2>3. checksum % 4096 # checksum0 % 4096
    <3>1. PICK d \in -63 .. 63 : d = Delta(i)
      BY <2>2
    <3>2. checksum = checksum0 + d /\ d # 0
      BY <2>2, <3>1
    <3> QED
      BY <2>2, <3>2
  <2>4. Bin!word # checksum % 4096 \/ Original!word # checksum0 % 4096
    BY <2>1, <2>3
  <2> QED
    BY <2>4 DEF Bin!Checksum, Original!Checksum, Coupled, Doomed, OriginalDoomed
<1> QED
  BY <1>2, <1>3 DEF InStep

\* One turn of the main loop in each.
LEMMA FramesInStep ==
  ASSUME Bin!TypeOK, OriginalTyped, NEW i \in Nat, Near(i), InStep(i), phase = "frames",
         Bin!Next, Original!Next
  PROVE  Coupled(i)'
<1> USE DEF Bin!Return, Original!Return
<1>1. /\ phase0 = phase /\ pos0 = pos /\ pos \in Int /\ pos + 1 \in Int
      /\ tape \in Seq(Byte) /\ tape0 \in Seq(Byte)
  BY DEF InStep, Bin!TypeOK, Bin!Byte, Byte, OriginalTyped
<1>2. CASE ByteAt(tape, pos) = EOF \/ ByteAt(tape, pos + 1) = EOF
  <2>1. Bin!Premature
    BY <1>2, Looks DEF Bin!Next, Bin!Seek, Bin!SkipPadding, Bin!SkipLeader, Bin!NoData, Bin!Origin,
      Bin!Instruction, Bin!Outside, Bin!Checksum, Bin!Trailer, Bin!Field, Bin!Turn
  <2> QED
    BY <2>1 DEF Bin!Premature, Coupled, Doomed
<1>3. CASE ByteAt(tape, pos) # EOF /\ ByteAt(tape, pos + 1) # EOF
  <2>1. /\ Bin!c0 # EOF /\ Bin!c1 # EOF /\ Original!c0 # EOF /\ Original!c1 # EOF
    BY <1>1, <1>3, Nearness, Looks
  <2>2. /\ Bin!c0 \in Byte /\ Type(Bin!c0) = Type(Original!c0)
        /\ (Bin!c2 = EOF <=> Original!c2 = EOF)
        /\ (Bin!c2 # EOF => Type(Bin!c2) = Type(Original!c2))
    BY <1>1, <1>3, Frames
  <2>3. Bin!IsChecksum <=> Original!IsChecksum
    BY <2>2, Looks DEF Bin!IsChecksum, Original!IsChecksum, Bin!LEAD_TRAIL, Original!LEAD_TRAIL
  <2>4. CASE Type(Bin!c0) = 0
    <3>1. Bin!Instruction \/ Bin!Outside \/ Bin!Checksum
      BY <2>1, <2>4, TurnOf
    <3>2. Original!Instruction \/ Original!Outside \/ Original!Checksum
      BY <1>1, <2>1, <2>2, <2>4, OriginalTurnOf
    <3>3. CASE Bin!Outside \/ Original!Outside
      BY <3>3 DEF Bin!Outside, Original!Outside, Coupled, Doomed, OriginalDoomed
    <3>4. CASE Bin!Checksum
      <4>1. Original!Checksum \/ Original!Outside
        BY <2>3, <3>2, <3>4 DEF Bin!Checksum, Original!Instruction
      <4> QED
        BY <3>3, <3>4, <4>1, ChecksumsCompared
    <3>5. CASE Bin!Instruction /\ Original!Instruction
      <4>1. /\ Bin!FrameDone /\ Original!FrameDone
            /\ core' = Bin!Stored(core, addr, Bin!word) /\ addr' = addr + 1
            /\ core0' = Original!Stored(core0, addr0, Original!word) /\ addr0' = addr0 + 1
        BY <3>5 DEF Bin!Instruction, Original!Instruction
      <4>2. Bin!word = Original!word /\ Same => addr' = addr0' /\ core' = core0'
        BY <4>1 DEF Same, Bin!Stored, Original!Stored
      <4> QED
        BY <1>3, <4>1, <4>2, SumsCoupled DEF Coupled
    <3>6. Bin!Instruction => ~Original!Checksum
      BY <2>3 DEF Bin!Instruction, Original!Checksum
    <3> QED
      BY <3>1, <3>2, <3>3, <3>4, <3>5, <3>6
  <2>5. CASE Type(Bin!c0) = 1
    <3>1. Bin!Origin /\ Original!Origin
      BY <1>1, <2>1, <2>2, <2>5, TurnOf, OriginalTurnOf
    <3>2. /\ Bin!FrameDone /\ Original!FrameDone /\ addr' = Bin!word /\ addr0' = Original!word
          /\ core' = core /\ core0' = core0
      BY <3>1 DEF Bin!Origin, Original!Origin
    <3>3. Bin!word = Original!word /\ Same => addr' = addr0' /\ core' = core0'
      BY <3>2 DEF Same
    <3> QED
      BY <1>3, <3>2, <3>3, SumsCoupled DEF Coupled
  <2>6. CASE Type(Bin!c0) = 2
    <3>1. Bin!Trailer
      BY <2>1, <2>6, TurnOf
    <3> QED
      BY <3>1 DEF Bin!Trailer, Coupled, Doomed
  <2>7. CASE Type(Bin!c0) = 3
    <3>1. Bin!Field /\ Original!Field
      BY <1>1, <2>1, <2>2, <2>7, TurnOf, OriginalTurnOf
    <3>2. /\ pos' = pos + 1 /\ pos0' = pos0 + 1
          /\ UNCHANGED <<tape, phase, addr, checksum, core, tape0, phase0, addr0, checksum0, core0>>
      BY <3>1 DEF Bin!Field, Original!Field
    <3>3. pos' = pos0' /\ (i < pos => i < pos')
      BY <1>1, <3>2
    <3>4. InStep(i)'
      BY <3>2, <3>3 DEF InStep, Same, Apart, Unstarted, Delta
    <3> QED
      BY <3>4 DEF Coupled
  <2>8. Type(Bin!c0) \in 0 .. 3
    BY <2>2, TypeTyped
  <2> QED
    BY <2>4, <2>5, <2>6, <2>7, <2>8
<1> QED
  BY <1>2, <1>3
----------------------------------------------------------------------------
\* The tapes stay, and the variables of the original keep their types.
LEMMA OriginalKeepsTypes ==
  ASSUME OriginalTyped, Original!Next
  PROVE  OriginalTyped' /\ tape0' = tape0
<1> USE DEF Original!Return, Original!Enter, Original!SkipByte
<1>1. CASE Original!Seek \/ Original!SkipPadding \/ Original!SkipLeader \/ Original!NoData
  BY <1>1 DEF Original!Seek, Original!SkipPadding, Original!SkipLeader, Original!NoData, OriginalTyped
<1>2. CASE Original!Outside \/ Original!Checksum \/ Original!Trailer \/ Original!Premature \/ Original!Field
  BY <1>2 DEF Original!Outside, Original!Checksum, Original!Trailer, Original!Premature,
    Original!Field, OriginalTyped
<1>3. CASE Original!Origin \/ Original!Instruction
  <2>1. Original!c0 # EOF /\ Original!c1 # EOF /\ Original!FrameDone
    BY <1>3, Looks DEF Original!Origin, Original!Instruction, Original!Turn
  <2>2. tape0 \in Seq(Byte) /\ pos0 \in Int /\ pos0 + 1 \in Int
    BY DEF OriginalTyped
  <2>3. Original!c0 \in Byte /\ Original!c1 \in Byte
    BY <2>1, <2>2, ByteAtTyped, Looks
  <2>4. checksum0 + Original!c0 + Original!c1 \in Nat
    BY <2>3 DEF Byte, OriginalTyped
  <2> QED
    BY <2>1, <2>4 DEF Original!FrameDone, Original!Summed, OriginalTyped
<1> QED
  BY <1>1, <1>2, <1>3 DEF Original!Next

\* load_bin never writes to the file.
LEMMA TapeKept ==
  ASSUME [Next]_vars
  PROVE  tape' = tape /\ format' = format
BY DEF Next, Load, Dump, Exited, vars, loader,
  Rim!Next, Rim!Seek, Rim!SkipPadding, Rim!NoData, Rim!SkipBlank, Rim!Address, Rim!Data, Rim!Outside,
  Rim!End, Rim!Return, Rim!Enter, Rim!Skip,
  Bin!Next, Bin!Seek, Bin!SkipPadding, Bin!SkipLeader, Bin!NoData, Bin!Origin,
  Bin!Instruction, Bin!Outside, Bin!Checksum, Bin!Trailer, Bin!Field, Bin!Premature,
  Bin!Return, Bin!Enter, Bin!SkipByte, Bin!FrameDone

\* What a state of one loader depends on.
LEMMA Stutters ==
  ASSUME NEW i \in Nat
  PROVE  /\ UNCHANGED loader /\ Doomed => Doomed'
         /\ UNCHANGED original /\ OriginalDoomed => OriginalDoomed'
         /\ UNCHANGED <<loader, original>> /\ InStep(i) => InStep(i)'
BY DEF loader, original, Doomed, OriginalDoomed, InStep, Same, Apart, Unstarted, Delta, ByteAt

\* The invariant of the pair.
LEMMA PairKept ==
  ASSUME TypeOK, PairInv, [PairNext]_<<vars, original>>
  PROVE  PairInv'
<1> SUFFICES ASSUME format = "bin" PROVE OriginalTyped' /\ \E i \in Nat : Near(i)' /\ Coupled(i)'
  BY TapeKept DEF PairInv, PairNext, vars
<1>1. PICK i \in Nat : Near(i) /\ Coupled(i)
  BY DEF PairInv
<1>2. OriginalTyped /\ Bin!TypeOK
  BY DEF PairInv, TypeOK
<1>3. [Next]_vars /\ (Original!Next \/ UNCHANGED original)
  BY DEF PairNext, Beside, original
<1>4. OriginalTyped' /\ tape0' = tape0 /\ tape' = tape
  BY <1>2, <1>3, OriginalKeepsTypes, TapeKept DEF original, OriginalTyped
<1>5. Near(i)'
  BY <1>1, <1>4 DEF Near
<1> SUFFICES Coupled(i)'
  BY <1>4, <1>5
<1>6. Bin!Next \/ UNCHANGED loader
  BY <1>3 DEF Next, Load, Dump, Exited, vars
<1>7. CASE Doomed
  BY <1>2, <1>6, <1>7, DoomedStays, Stutters DEF Coupled
<1>8. CASE OriginalDoomed
  BY <1>2, <1>3, <1>8, OriginalDoomedStays, Stutters DEF Coupled
<1>9. CASE InStep(i)
  <2>1. phase0 = phase
    BY <1>9 DEF InStep
  <2>2. CASE UNCHANGED <<loader, original>>
    BY <1>9, <2>2, Stutters DEF Coupled
  <2>3. CASE Bin!Next /\ Original!Next
    BY <1>1, <1>2, <1>9, <2>3, StartsInStep, FramesInStep
  <2>4. phase # "returned" => (Bin!Next /\ Original!Next) \/ UNCHANGED <<loader, original>>
    BY <1>3, <2>1 DEF PairNext, Beside, Next, Load, Dump, Exited, TypeOK, vars
  <2>5. phase = "returned" => UNCHANGED <<loader, original>>
    <3>1. phase = "returned" => ~Bin!Next
      BY DEF Bin!Next, Bin!Seek, Bin!SkipPadding, Bin!SkipLeader, Bin!NoData, Bin!Origin,
        Bin!Instruction, Bin!Outside, Bin!Checksum, Bin!Trailer, Bin!Field, Bin!Premature, Bin!Turn
    <3> QED
      BY <1>6, <2>1, <3>1 DEF PairNext, Beside
  <2> QED
    BY <2>2, <2>3, <2>4, <2>5
<1> QED
  BY <1>1, <1>7, <1>8, <1>9 DEF Coupled

\* A tape and the same with one byte changed start in step.
LEMMA PairAtStart == PairInit => TypeOK /\ PairInv
<1> SUFFICES ASSUME PairInit PROVE TypeOK /\ PairInv
  OBVIOUS
<1>1. TypeOK
  BY DumpTypedAtStart DEF PairInit
<1> SUFFICES ASSUME format = "bin" PROVE OriginalTyped /\ \E i \in Nat : Near(i) /\ Coupled(i)
  BY <1>1 DEF PairInv
<1>2. Bin!Init /\ Original!Init /\ pos0 = pos
  BY DEF PairInit, Init
<1>3. OriginalTyped /\ tape \in Seq(Byte) /\ tape0 \in Seq(Byte)
  BY <1>2 DEF Bin!Init, Original!Init, OriginalTyped, Bin!Byte, Original!Byte, Byte
<1>4. \A i : InStep(i)
  BY <1>2 DEF Bin!Init, Original!Init, InStep, Same, Unstarted, Bin!Nothing, Original!Nothing
<1>5. \E i \in Nat : Near(i)
  <2>1. CASE tape = tape0
    BY <2>1 DEF Near
  <2>2. CASE \E i \in DOMAIN tape0 : ChangedAt(i)
    <3>1. PICK i \in DOMAIN tape0 : ChangedAt(i)
      BY <2>2
    <3>2. i \in Nat
      BY <1>3
    <3>3. Near(i)
      BY <3>1 DEF Near, ChangedAt
    <3> QED
      BY <3>2, <3>3
  <2> QED
    BY <2>1, <2>2 DEF PairInit
<1> QED
  BY <1>3, <1>4, <1>5 DEF Coupled

\* bin.c: whatever the file, and whichever byte of it had data bits changed, the changed
\* file and the one it was are not both accepted, or load the same core.
THEOREM ChangedByteNoticed == PairSpec => []ChangedByteIsNoticed
<1>1. TypeOK /\ PairInv /\ [PairNext]_<<vars, original>> => TypeOK' /\ PairInv'
  <2>1. [PairNext]_<<vars, original>> => [Next]_vars
    BY DEF PairNext
  <2> QED
    BY <2>1, DumpTyped, PairKept
<1>2. PairInv => ChangedByteIsNoticed
  <2> SUFFICES ASSUME PairInv, format = "bin", phase = "returned", phase0 = "returned",
                      result > 0, result0 > 0
               PROVE  core = core0
    BY DEF ChangedByteIsNoticed
  <2>1. PICK i \in Nat : Coupled(i)
    BY DEF PairInv
  <2>2. ~Doomed /\ ~OriginalDoomed
    BY DEF Doomed, OriginalDoomed
  <2> QED
    BY <2>1, <2>2 DEF Coupled, InStep, Same, Apart
<1> QED
  BY <1>1, <1>2, PairAtStart, PTL DEF PairSpec
=============================================================================
