------------------------------ MODULE MCTapes ------------------------------
(***************************************************************************)
(* paperdump reading small tapes, well punched or damaged in one place.    *)
(* What befell the tape is a history variable, as is what was meant.       *)
(***************************************************************************)
EXTENDS ChangedTape, WholeTape, Punch, SequencesExt

VARIABLE damage    \* what happened to the tape since it was punched

MCvars == <<vars, original, layout, damage>>

Items == ({"origin"} \X {\o200, \o7777}) \union ({"word"} \X {0, \o102, \o7777}) \union {<<"field", 1>>}
\* Enough words to take the checksum past 07777, and to leave core at its end.
LongTape == <<<<"origin", \o200>>>> \o [i \in 1 .. 36 |-> <<"word", \o7777 - i>>]
TwoBlocks == <<<<"origin", \o7777>>, <<"word", 5>>, <<"origin", \o200>>, <<"word", 6>>, <<"word", 7>>>>
Programs == BoundedSeq(Items, 3) \union {LongTape, TwoBlocks}

\* What the items say should be in core: BIN words follow each other from an origin, a RIM
\* word goes where the last address says.
Loaded(items, f) ==
  FoldLeft(LAMBDA c, item :
             CASE item[1] = "origin" -> [c EXCEPT !.at = item[2]]
               [] item[1] = "word" -> [at |-> IF f = "bin" THEN c.at + 1 ELSE c.at,
                                       core |-> Stored(c.core, c.at, item[2])]
               [] item[1] = "field" -> c,
           [at |-> 0, core |-> Nothing], items)
\* The layout of a tape with some padding.
LayoutOf(items, f, lead) ==
  LET upTo(k) == SubSeq(items, 1, k - 1)
      each == 1 .. Len(items) + 1
  IN [tape |-> [i \in 1 .. lead |-> 0] \o Punch(items, f), items |-> items, lead |-> lead,
      place |-> [k \in each |-> lead + Len(Leader) + Len(Body(upTo(k))) + 1],
      at |-> [k \in each |-> Loaded(upTo(k), f).at], sum |-> [k \in each |-> ByteSum(upTo(k))],
      image |-> [k \in each |-> Loaded(upTo(k), f).core]]
\* The tapes made here are well punched, as the theorems on them ask.
ASSUME TapesWellPunched ==
  \A items \in Programs, f \in {"bin", "rim"}, lead \in {0, 2} :
    items # << >> /\ Head(items)[1] = "origin" => WellPunched(LayoutOf(items, f, lead), f)

\* One byte changed in its data bits, one byte lost, or the tape cut off.
Flipped(c, bit) == IF (c \div bit) % 2 = 1 THEN c - bit ELSE c + bit
Damages == {"none", "changed", "lost", "cut", "padded"}
Damaged(t, d) ==
  CASE d \in {"none", "padded"} -> {t}
    [] d = "changed" -> {[t EXCEPT ![i] = Flipped(t[i], bit)] : i \in DOMAIN t, bit \in {1, 32}}
    [] d = "lost" -> {RemoveAt(t, i) : i \in DOMAIN t}
    [] d = "cut" -> {SubSeq(t, 1, n) : n \in 0 .. Len(t) - 1}

MCInit ==
  /\ format \in {"bin", "rim"} /\ damage \in Damages
  /\ \E items \in Programs :
       /\ (format = "rim" => \A i \in DOMAIN items : items[i][1] # "field")
       /\ layout = LayoutOf(items, format, IF damage = "padded" THEN 2 ELSE 0)
  /\ tape \in Damaged(layout.tape, damage)
  /\ tape0 = IF damage = "changed" THEN layout.tape ELSE tape
  /\ pos \in IF damage = "none" THEN {0, 1, 2} ELSE {1}
  /\ PairInit /\ TapeInit
MCSpec == MCInit /\ [][PairNext /\ UNCHANGED <<layout, damage>>]_MCvars /\ Fairness
=============================================================================
