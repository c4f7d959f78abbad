----------------------------- MODULE RimLoader -----------------------------
(***************************************************************************)
(* load_rim: the loader of RIM tapes, used by paperdump.  A RIM tape has   *)
(* no checksum: nothing on it is ever refused but a word outside core.     *)
(***************************************************************************)
EXTENDS Tape

VARIABLES tape, pos, phase, addr, count, core, result

vars == <<tape, pos, phase, addr, count, core, result>>

c0 == ByteAt(tape, pos)
c1 == ByteAt(tape, pos + 1)
word == Pair(c0, c1)

Init ==
  /\ tape \in Seq(Byte) /\ pos \in Int
  /\ phase = "seek"
  /\ addr = 0 /\ count = 0
  /\ core = Nothing
  /\ result = 0

Return(n) ==
  /\ phase' = "returned" /\ result' = n
  /\ UNCHANGED <<tape, pos, addr, count, core>>
Enter(next) == phase' = next /\ UNCHANGED <<tape, pos, addr, count, core, result>>
Skip(bytes) == pos' = pos + bytes /\ UNCHANGED <<tape, phase, result>>

Seek == phase = "seek" /\ IF pos < 1 THEN Return(-1) ELSE Enter("padding")

SkipPadding ==
  /\ phase = "padding" /\ c0 # EOF
  /\ IF c0 = 0 THEN Skip(1) /\ UNCHANGED <<addr, count, core>> ELSE Enter("frames")
NoData == phase = "padding" /\ c0 = EOF /\ Return(0)
----------------------------------------------------------------------------
Blank(c) == c >= 128
SkipBlank == phase = "frames" /\ Blank(c0) /\ Skip(1) /\ UNCHANGED <<addr, count, core>>

\* The first frame says what the two are; the second is taken whatever it is.
Turn(type) == phase = "frames" /\ c0 # EOF /\ c1 # EOF /\ Type(c0) = type

Address == Turn(1) /\ addr' = word /\ Skip(2) /\ UNCHANGED <<count, core>>

InCore == addr \in 0 .. CoreSize - 1
\* Mutant: a loader that steps the address, as BIN does.
DataMutant ==
  /\ Turn(0) /\ InCore
  /\ core' = Stored(core, addr, word) /\ count' = count + 1 /\ addr' = addr + 1
  /\ Skip(2)
Data ==
  /\ Turn(0) /\ InCore
  /\ core' = Stored(core, addr, word) /\ count' = count + 1
  /\ Skip(2) /\ UNCHANGED addr
Outside == Turn(0) /\ ~InCore /\ Return(-1)

\* The end of the file, also in the middle of a word.
Truncated == c1 = EOF /\ ~Blank(c0)
End == phase = "frames" /\ (c0 = EOF \/ Truncated) /\ Return(count)

Next == Seek \/ SkipPadding \/ NoData \/ SkipBlank \/ Address \/ Data \/ Outside \/ End
Spec == Init /\ [][Next]_vars
----------------------------------------------------------------------------
TypeOK ==
  /\ tape \in Seq(Byte) /\ pos \in Int
  /\ phase \in {"seek", "padding", "frames", "returned"}
  /\ addr \in CoreWord /\ count \in Nat
  /\ core \in [DOMAIN core -> CoreWord] /\ DOMAIN core \subseteq 0 .. CoreSize - 1
  /\ result \in Int

\* The loader seen by its caller.
Status == IF phase # "returned" THEN "loading" ELSE IF result = -1 THEN "refused" ELSE "loaded"
Promise == INSTANCE Loader WITH status <- Status
=============================================================================
