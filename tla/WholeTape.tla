------------------------------ MODULE WholeTape ----------------------------
(***************************************************************************)
(* What a tape was punched from, and what paperdump must make of it.  The  *)
(* history variable "layout" goes through the tape item by item; nothing   *)
(* in it is read by the program.                                           *)
(***************************************************************************)
EXTENDS Paperdump

VARIABLE layout
  \* .tape   the file as it came from the punch
  \* .items  what was punched: origins, words and field directives
  \* .lead   the number of zero bytes in front of the leader
  \* .place  where item k begins, and at the last index what follows the last item
  \* .at     the address before item k
  \* .sum    the sum of the frames before item k
  \* .image  what should be in core before item k

Count(l) == Len(l.items)
Final(l) == Count(l) + 1

\* Two frames of one type that hold a word, at p.
Holds(l, p, type, w) ==
  /\ p \in DOMAIN l.tape /\ p + 1 \in DOMAIN l.tape
  /\ l.tape[p] = 64 * type + (w \div 64) /\ l.tape[p + 1] = w % 64

\* An item and what it changes.  The words of a BIN tape follow each other from an origin,
\* that of a RIM tape goes where the last address says.
PunchedWord(l, k, type) ==
  /\ l.items[k][2] \in CoreWord
  /\ Holds(l, l.place[k], type, l.items[k][2])
  /\ l.place[k + 1] = l.place[k] + 2
  /\ l.sum[k + 1] = l.sum[k] + l.tape[l.place[k]] + l.tape[l.place[k] + 1]
PunchedOrigin(l, k) ==
  /\ l.items[k][1] = "origin" /\ PunchedWord(l, k, 1)
  /\ l.at[k + 1] = l.items[k][2] /\ l.image[k + 1] = l.image[k]
PunchedData(l, k, f) ==
  /\ l.items[k][1] = "word" /\ PunchedWord(l, k, 0)
  /\ l.at[k + 1] = IF f = "bin" THEN l.at[k] + 1 ELSE l.at[k]
  /\ l.image[k + 1] = Stored(l.image[k], l.at[k], l.items[k][2])
PunchedField(l, k) ==
  /\ l.items[k][1] = "field"
  /\ l.place[k] \in DOMAIN l.tape /\ Type(l.tape[l.place[k]]) = 3
  /\ l.place[k + 1] = l.place[k] + 1
  /\ l.sum[k + 1] = l.sum[k] /\ l.at[k + 1] = l.at[k] /\ l.image[k + 1] = l.image[k]

\* Zero bytes and a leader before the first item, which is an origin.
PunchedStart(l) ==
  /\ l.tape \in Seq(Byte) /\ Count(l) \in Nat \ {0} /\ l.items[1][1] = "origin"
  /\ l.place \in [1 .. Final(l) -> Nat] /\ l.at \in [1 .. Final(l) -> Nat]
  /\ l.sum \in [1 .. Final(l) -> Nat] /\ l.lead \in Nat /\ l.lead < l.place[1]
  /\ \A i \in 1 .. l.place[1] - 1 :
       IF i <= l.lead THEN ByteAt(l.tape, i) = 0 ELSE Type(ByteAt(l.tape, i)) = 2
  /\ l.at[1] = 0 /\ l.sum[1] = 0 /\ l.image[1] = Nothing
\* The checksum and a trailer, or the end of the file; RIM tapes have no checksum.
PunchedEnd(l, f) ==
  LET p == l.place[Final(l)]
  IN IF f = "bin"
     THEN /\ Holds(l, p, 0, l.sum[Final(l)] % 4096)
          /\ p + 2 \in DOMAIN l.tape => Type(l.tape[p + 2]) = 2
     ELSE \A i \in DOMAIN l.tape : i >= p => l.tape[i] >= 128
WellPunched(l, f) ==
  /\ PunchedStart(l) /\ PunchedEnd(l, f)
  /\ \A k \in 1 .. Count(l) : PunchedOrigin(l, k) \/ PunchedData(l, k, f) \/ PunchedField(l, k)

\* No word is meant for a cell that core does not have.
Fits(l) == \A k \in 1 .. Count(l) : l.items[k][1] = "word" => l.at[k] < CoreSize

\* Everything that is on the file was punched; it may end early.
IsPart(t, whole) == \A i \in DOMAIN t : i \in DOMAIN whole /\ t[i] = whole[i]

\* Reading starts at an offset before the first item.
TapeInit == Init /\ pos <= layout.place[1]
TapeSpec == TapeInit /\ [][Next /\ UNCHANGED layout]_<<vars, layout>>
----------------------------------------------------------------------------
\* shell.c: "Core might be dirty" - but from a whole tape, or one that is cut off anywhere,
\* core only ever holds what the items up to some place said.
CoreIsAsMeant ==
  IsPart(tape, layout.tape) /\ WellPunched(layout, format)
    => \E k \in 1 .. Final(layout) : core = layout.image[k]

\* paperdump: "Dumps a PDP-12 tape image to the screen": an undamaged tape is printed, but
\* for its words of 0 and 07777, and its exit status says so.
WholeTapeIsDumped ==
  tape = layout.tape /\ WellPunched(layout, format) /\ Fits(layout) /\ exit # "" /\ pos > 0
    => LET all == layout.image[Final(layout)]
       IN exit = "0" /\ printed = {<<a, all[a]>> : a \in {b \in DOMAIN all : all[b] \notin {0, \o7777}}}
=============================================================================
