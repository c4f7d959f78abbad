----------------------------- MODULE MCPrograms -----------------------------
(***************************************************************************)
(* The programs of both modes, each punched on a tape, loaded and started  *)
(* by the operator on a machine that has just been switched on, and run to *)
(* its end.                                                                *)
(***************************************************************************)
EXTENDS Programs, Boot, Punch

\* The programs run here are among those that ProgramProofs speaks of.
ASSUME ArgumentCallsStart == \A c \in ArgumentCalls : StartOK(c) /\ ArgumentStart(c)
ASSUME NestedCallsStart == \A c \in Calls : StartOK(c) /\ CallStart(c)
ASSUME TablesStart == \A c \in Sums : StartOK(c) /\ TableStart(c)
ASSUME BlocksStart ==
  \A c \in Copies : \E field \in {0, \o40000}, from \in {\o777, \o1177},
                       to \in {\o1177, \o1777, \o7775} :
    LET b == [field |-> field, from |-> from, to |-> to, word |-> <<\o111, \o222, \o333>>]
    IN b \in Blocks /\ StartOK(c) /\ Separate(b) /\ CopyStart(c, b)
ASSUME LongSumsStart ==
  /\ \A c \in TadSums : StartOK(c) /\ TadStart(c)
  /\ \A c \in Lams : StartOK(c) /\ LamStart(c)

MCStarts == LincProgramStarts \union Pdp8ProgramStarts
MCKeys == {}
MCSamples == {0}

\* The orders that bring a machine just switched on to such a start.  A tape has addresses
\* of 12 bits, so what lies above them is deposited word by word.  The operator may leave
\* a counter above 01777 when LINC mode is selected.
OnTape(c) == {a \in DOMAIN c.core : a < 4096}
Deposits(c) ==
  LET cells == InOrder(DOMAIN c.core \ OnTape(c))
  IN [n \in DOMAIN cells |-> <<"deposit", cells[n], c.core[cells[n]]>>]
BootOrders(c, high) ==
  <<<<"load", Punch(ImageItems([a \in OnTape(c) |-> c.core[a]]), "bin")>>>>
  \o Deposits(c)
  \o (IF "8MODE" \in c.flags THEN <<<<"pdp8">>, <<"set", "pc", c.pc>>>>
      ELSE <<<<"set", "pc", c.pc + high>>, <<"linc">>>>)
  \o <<<<"set", "dfr", c.dfr>>, <<"run">>>>
MCInit ==
  /\ \E high \in {0, \o4000} :
       /\ orders \in {BootOrders(c, high) : c \in MCStarts}
       /\ cpu = IF high = 0 THEN PowerOn(0) ELSE SetFlag(PowerOn(0), "FLO")
  /\ NotLoading
MCSpec == MCInit /\ [][BootNext]_vars /\ WF_vars(BootNext)
----------------------------------------------------------------------------
\* A program that has been started halts at its own HLT: no return, skip or index has gone
\* astray, and nothing of it was lost on the way from the tape.
HaltsAtItsEnd ==
  Finished => \/ \E pc \in LincEnds : LincDone(pc)
              \/ \E pc \in Pdp8Ends : Pdp8Done(pc)

\* Every program ends.
ProgramsHalt == <>Finished
=============================================================================
