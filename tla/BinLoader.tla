----------------------------- MODULE BinLoader -----------------------------
(***************************************************************************)
(* load_bin: the loader of BIN tapes, used by the shell's load command and *)
(* by paperdump.  One action per turn of a loop.                           *)
(***************************************************************************)
EXTENDS Tape

VARIABLES
  tape,      \* the bytes of the file
  pos,       \* where the next fgetc reads, from 1
  phase,     \* where load_bin is
  addr,      \* -1 before the first origin
  checksum,
  count,
  core,      \* the words stored in core
  result     \* what load_bin returned

vars == <<tape, pos, phase, addr, checksum, count, core, result>>

INSTR == 0
ORIGIN == 1
LEAD_TRAIL == 2
FIELD == 3

c0 == ByteAt(tape, pos)
c1 == ByteAt(tape, pos + 1)
c2 == ByteAt(tape, pos + 2)
word == Pair(c0, c1)

\* Mutant: the address starts at 0, as that of load_rim does.
InitMutant ==
  /\ tape \in Seq(Byte) /\ pos \in Int
  /\ phase = "seek"
  /\ addr = 0 /\ checksum = 0 /\ count = 0
  /\ core = Nothing
  /\ result = 0
\* The offset is the caller's, any int.
Init ==
  /\ tape \in Seq(Byte) /\ pos \in Int
  /\ phase = "seek"
  /\ addr = -1 /\ checksum = 0 /\ count = 0
  /\ core = Nothing
  /\ result = 0

Return(n) ==
  /\ phase' = "returned" /\ result' = n
  /\ UNCHANGED <<tape, pos, addr, checksum, count, core>>
Enter(next) == phase' = next /\ UNCHANGED <<tape, pos, addr, checksum, count, core, result>>
SkipByte == pos' = pos + 1 /\ UNCHANGED <<tape, phase, addr, checksum, count, core, result>>

\* fseek refuses a negative offset.
Seek == phase = "seek" /\ IF pos < 1 THEN Return(-1) ELSE Enter("padding")

\* skip_all, for the padding that some archived dumps start with, then for the leader.
SkipPadding ==
  /\ phase = "padding" /\ c0 # EOF
  /\ IF c0 = 0 THEN SkipByte ELSE Enter("leader")
\* Mutant: every byte that was looked at is put back.
SkipLeaderMutant ==
  /\ phase = "leader" /\ c0 # EOF
  /\ IF Type(c0) = LEAD_TRAIL THEN UNCHANGED vars ELSE Enter("frames")
SkipLeader ==
  /\ phase = "leader" /\ c0 # EOF
  /\ IF Type(c0) = LEAD_TRAIL THEN SkipByte ELSE Enter("frames")
NoData == phase \in {"padding", "leader"} /\ c0 = EOF /\ Return(0)
----------------------------------------------------------------------------
\* The main loop, which needs two bytes to go on.
Turn(type) == phase = "frames" /\ c0 # EOF /\ c1 # EOF /\ Type(c0) = type

Summed == checksum' = checksum + c0 + c1
FrameDone ==
  /\ pos' = pos + 2 /\ count' = count + 1 /\ Summed
  /\ UNCHANGED <<tape, phase, result>>

Origin == Turn(ORIGIN) /\ addr' = word /\ FrameDone /\ UNCHANGED core

\* Mutant: only the end of the file is looked for.
IsChecksumMutant == c2 = EOF
\* Whether the frames at hand are the checksum depends on what follows them.
IsChecksum == c2 = EOF \/ Type(c2) = LEAD_TRAIL
\* Mutant: the last cell of core is refused, and the one after it accepted.
InCoreMutant == addr \in 0 .. CoreSize
InCore == addr \in 0 .. CoreSize - 1
Instruction ==
  /\ Turn(INSTR) /\ ~IsChecksum /\ InCore
  /\ core' = Stored(core, addr, word)
  /\ addr' = addr + 1
  /\ FrameDone
\* No origin yet, or past the end of core.
Outside == Turn(INSTR) /\ ~IsChecksum /\ ~InCore /\ Return(-1)

\* Mutant: the sum is not compared.
ChecksumMutant == Turn(INSTR) /\ IsChecksum /\ Return(count + 1)
Checksum ==
  /\ Turn(INSTR) /\ IsChecksum
  /\ Return(IF word = checksum % 4096 THEN count + 1 ELSE -1)

Trailer == Turn(LEAD_TRAIL) /\ Return(-1)

\* Mutant: both bytes are put back.
FieldMutant == Turn(FIELD) /\ UNCHANGED vars
\* A field directive is one byte; it is counted, but neither summed nor obeyed.
Field ==
  /\ Turn(FIELD)
  /\ pos' = pos + 1 /\ count' = count + 1
  /\ UNCHANGED <<tape, phase, addr, checksum, core, result>>

Premature == phase = "frames" /\ (c0 = EOF \/ c1 = EOF) /\ Return(-1)

Next ==
  \/ Seek \/ SkipPadding \/ SkipLeader \/ NoData
  \/ Origin \/ Instruction \/ Outside \/ Checksum \/ Trailer \/ Field \/ Premature
Spec == Init /\ [][Next]_vars
----------------------------------------------------------------------------
TypeOK ==
  /\ tape \in Seq(Byte) /\ pos \in Int
  /\ phase \in {"seek", "padding", "leader", "frames", "returned"}
  /\ addr \in -1 .. CoreSize \/ addr \in CoreWord
  /\ checksum \in Nat /\ count \in Nat
  /\ core \in [DOMAIN core -> CoreWord] /\ DOMAIN core \subseteq 0 .. CoreSize - 1
  /\ result \in Int

\* Every word of core stands on the tape as two frames, of which the first has the type of
\* an instruction; and the cells that were stored form runs that start at an origin.
InstructionAt(i, w) ==
  /\ ByteAt(tape, i) # EOF /\ ByteAt(tape, i + 1) # EOF
  /\ Type(ByteAt(tape, i)) = INSTR /\ Pair(ByteAt(tape, i), ByteAt(tape, i + 1)) = w
OriginAt(i, a) ==
  /\ ByteAt(tape, i) # EOF /\ ByteAt(tape, i + 1) # EOF
  /\ Type(ByteAt(tape, i)) = ORIGIN /\ Pair(ByteAt(tape, i), ByteAt(tape, i + 1)) = a
WordsComeFromTape ==
  \A a \in DOMAIN core :
    /\ \E i \in 1 .. pos - 1 : InstructionAt(i, core[a])
    /\ a - 1 \in DOMAIN core \/ \E i \in 1 .. pos - 1 : OriginAt(i, a)

\* The loader seen by its caller.
Status == IF phase # "returned" THEN "loading" ELSE IF result = -1 THEN "refused" ELSE "loaded"
Promise == INSTANCE Loader WITH status <- Status
=============================================================================
