----------------------------- MODULE Paperdump -----------------------------
(***************************************************************************)
(* paperdump: it loads one tape into a core of 4096 words, all of them -1  *)
(* before, with load_rim or with load_bin, and prints what it finds there. *)
(***************************************************************************)
EXTENDS Tape

CORE_SIZE == 4096

VARIABLES
  format,   \* "rim" with --rim, else "bin"
  tape, pos, phase, addr, checksum, count, core, result,   \* the loader's
  printed,  \* the pairs of an address and a word on the screen
  exit      \* "", or the exit status

loader == <<tape, pos, phase, addr, checksum, count, core, result>>
vars == <<format, loader, printed, exit>>

Bin == INSTANCE BinLoader
Rim == INSTANCE RimLoader

Init ==
  /\ \/ format = "bin" /\ Bin!Init
     \/ format = "rim" /\ Rim!Init /\ checksum = 0
  /\ printed = {} /\ exit = ""

Load ==
  /\ \/ format = "bin" /\ Bin!Next
     \/ format = "rim" /\ Rim!Next /\ UNCHANGED checksum
  /\ UNCHANGED <<format, printed, exit>>

\* dump, after the loader is back.  Neither words of 0 nor words of 07777 are printed.
Dump ==
  /\ phase = "returned" /\ exit = ""
  /\ IF result = -1 THEN exit' = "1" /\ UNCHANGED printed
     ELSE /\ exit' = "0"
          /\ printed' = {<<i, core[i]>> : i \in {a \in DOMAIN core : core[a] > 0 /\ core[a] < 4095}}
  /\ UNCHANGED <<format, loader>>

Exited == exit # "" /\ UNCHANGED vars

Next == Load \/ Dump \/ Exited
Spec == Init /\ [][Next]_vars
Fairness == WF_vars(Load) /\ WF_vars(Dump)
----------------------------------------------------------------------------
TypeOK ==
  /\ format \in {"bin", "rim"}
  /\ IF format = "bin" THEN Bin!TypeOK ELSE Rim!TypeOK
  /\ printed \subseteq (0 .. CoreSize - 1) \X CoreWord
  /\ exit \in {"", "0", "1"} /\ (exit # "" => phase = "returned")

\* bin.c: words come from the tape, in runs that start at an origin; and so does every word
\* that is on the screen.
RunsStartAtOrigins ==
  format = "bin" =>
    /\ Bin!WordsComeFromTape
    /\ \A line \in printed : \E i \in 1 .. pos - 1 : Bin!InstructionAt(i, line[2])

\* Whatever is on the tape, the loader keeps to its promise and comes back: every store is
\* inside core and changes one cell, and nothing is stored after the loader has returned.
Promise == INSTANCE Loader WITH status <- Bin!Status
KeepsPromise == Promise!FairSpec
=============================================================================
