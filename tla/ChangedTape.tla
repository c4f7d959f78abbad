----------------------------- MODULE ChangedTape ---------------------------
(***************************************************************************)
(* Two files, loaded side by side: the one paperdump is given, and the     *)
(* same file as it was before one byte of it changed.  load_bin is         *)
(* deterministic, so the pace of the second loader does not matter.        *)
(***************************************************************************)
EXTENDS Paperdump

VARIABLES tape0, pos0, phase0, addr0, checksum0, count0, core0, result0
original == <<tape0, pos0, phase0, addr0, checksum0, count0, core0, result0>>
Original == INSTANCE BinLoader
              WITH tape <- tape0, pos <- pos0, phase <- phase0, addr <- addr0,
                   checksum <- checksum0, count <- count0, core <- core0, result <- result0

\* The data bits of the byte at i are not what they were.
ChangedAt(i) ==
  /\ i \in DOMAIN tape0 /\ tape[i] # tape0[i] /\ Type(tape[i]) = Type(tape0[i])
  /\ DOMAIN tape = DOMAIN tape0 /\ \A j \in DOMAIN tape0 \ {i} : tape[j] = tape0[j]

PairInit ==
  /\ Init /\ pos0 = pos /\ Original!Init
  /\ tape = tape0 \/ \E i \in DOMAIN tape0 : ChangedAt(i)
Beside ==
  IF format = "bin" /\ phase0 # "returned" THEN Original!Next ELSE UNCHANGED original
PairNext == Next /\ Beside
PairSpec == PairInit /\ [][PairNext]_<<vars, original>>
----------------------------------------------------------------------------
\* bin.c: the checksum of a BIN tape catches every change of one byte's data bits: of the
\* two tapes one is refused, or what was loaded from both is the same.
ChangedByteIsNoticed ==
  format = "bin" /\ phase = "returned" /\ phase0 = "returned" /\ result > 0 /\ result0 > 0
    => core = core0
=============================================================================
