------------------------------ MODULE Terminal -----------------------------
(***************************************************************************)
(* What a program can rely on when it talks to the ASR-33 through the I/O  *)
(* bus: flags, waiting loops, and which codes reach the device.            *)
(***************************************************************************)
EXTENDS Pdp12

Printed(c) == {e[2] : e \in {o \in c.out : o[1] = "print"}}

\* Keyboard input is neither lost nor taken twice: the flag of a key goes down only in a
\* step whose instruction asks for it, and the key is in AC when it asked for it as well.
KeyIsTakenOnce ==
  [][cpu.kf = 1 /\ cpu'.kf = 0
       => /\ Contains(cpu'.ir, KCC)
          /\ Contains(cpu'.ir, KRS) => cpu'.ac % \o400 = cpu.key]_cpu

\* An I/O skip passes over the next instruction only, in the mode's own way of counting.
AfterIo == IF LincMode THEN IncIndex(F.pc) ELSE G.pc
SkipsOne(p) == IF LincMode THEN IncIndex(p) ELSE (p + 1) % \o10000
IoSkipsAtMostOne ==
  [][IOB \/ IOT8
       => \/ cpu'.pc \in {AfterIo, SkipsOne(AfterIo)}
          \/ Contains(cpu'.ir, KSF) /\ Contains(cpu'.ir, TSF)
          \/ cpu'.ir = IOB_LINC]_cpu
=============================================================================
