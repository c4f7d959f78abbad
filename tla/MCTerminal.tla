----------------------------- MODULE MCTerminal ----------------------------
(***************************************************************************)
(* Programs that print a text and that echo the keyboard, in both modes,   *)
(* with a user who may strike a key whenever the last one has been taken.  *)
(***************************************************************************)
EXTENDS Pdp8Programs

Text == <<\o310, \o311>>   \* "HI" with the parity bit set, ended by a zero word
\* KSF; JMP .-1; KRB; TLS; JMP .-4.
EchoImage == Code(\o200, <<\o6031, \o5200, \o6036, \o6046, \o5200>>)

\* SXL 15; JMP .-1; IOB; KRB; IOB; TLS; IOB; TSF; JMP .-2; JMP .-11.
LincEchoImage ==
  Code(LincOrigin, <<\o415, \o6200, \o500, \o6036, \o500, \o6046, \o500, \o6041, \o6206, \o6200>>)
\* IOB; KSF; JMP .-2; IOB; KRB; IOB; TLS; JMP .-7.
LincSkipImage ==
  Code(LincOrigin, <<\o500, \o6031, \o6200, \o500, \o6036, \o500, \o6046, \o6200>>)
\* KSF and TSF in one word, a code of no device, and the ASR-33 flags cleared together.
OddImage(w) == Code(\o200, <<w, PDP8_HLT, PDP8_HLT, PDP8_HLT>>)
OddWords == {\o6071, \o6077, \o6301, \o6042, \o6032, \o6072, \o6001, \o6002, \o6214}

Flags(c, kf, pf) == [c EXCEPT !.kf = kf, !.pf = pf]
Prints == {Flags(Pdp8Booted(PrintImage(Text), \o200), 0, pf) : pf \in {0, 1}}
\* The text printed here is one of those that ProgramProofs speaks of.
ASSUME PrintsStart == \A c \in Prints : StartOK(c) /\ PrintStart(c)
MCStarts ==
  Prints
  \union {Flags(c, 0, pf) : pf \in {0, 1},
            c \in {Pdp8Booted(EchoImage, \o200), Booted(0, LincEchoImage), Booted(0, LincSkipImage)}}
  \union {Flags(Pdp8Booted(OddImage(w), \o200), kf, pf) : w \in OddWords, kf, pf \in {0, 1}}
MCKeys == {0, \o301}

MCSamples == {0}
----------------------------------------------------------------------------
\* A key struck is echoed in the end, less its parity bit, in every echo program: no waiting
\* loop is stuck and no skip is off by one.
Echoing == Cell(cpu.core, \o200) = \o6031 \/ Cell(cpu.core, LincOrigin) # 0
KeyIsEchoed ==
  \A k \in Keys : (Echoing /\ cpu.kf = 1 /\ cpu.key = k) ~> (<<"print", k % \o200>> \in cpu.out)

\* The print loop comes to its end.
PrintingEnds == (Cell(cpu.core, TextPointer) # 0) ~> (~Running)
=============================================================================
