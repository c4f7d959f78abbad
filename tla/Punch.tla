-------------------------------- MODULE Punch ------------------------------
(***************************************************************************)
(* How the tapes of the model-checking modules are made: from a sequence   *)
(* of items, each an origin, a word or a field directive, to bytes.        *)
(***************************************************************************)
EXTENDS Tape, FiniteSets
LOCAL INSTANCE SequencesExt

\* The members of a finite set of numbers, smallest first.
InOrder(S) ==
  [n \in 1 .. Cardinality(S) |-> CHOOSE x \in S : Cardinality({y \in S : y < x}) = n - 1]

Frames(type, w) == <<64 * type + (w \div 64), w % 64>>
Punched(item) ==
  CASE item[1] = "origin" -> Frames(1, item[2])
    [] item[1] = "word" -> Frames(0, item[2])
    [] item[1] = "field" -> <<192 + 8 * item[2]>>
ByteSum(items) ==
  FoldLeft(LAMBDA s, item : IF item[1] = "field" THEN s
                            ELSE s + Punched(item)[1] + Punched(item)[2], 0, items)
Body(items) == FlattenSeq([i \in DOMAIN items |-> Punched(items[i])])
Leader == <<128>>
Punch(items, f) ==
  IF f = "rim" THEN Leader \o Body(items) \o Leader
  ELSE Leader \o Body(items) \o Frames(0, ByteSum(items) % 4096) \o Leader

\* The items of a part of core, with an origin before each run of words.
ImageItems(image) ==
  LET cells == InOrder(DOMAIN image)
  IN FlattenSeq([n \in DOMAIN cells |->
       (IF cells[n] - 1 \in DOMAIN image THEN << >> ELSE <<<<"origin", cells[n]>>>>)
       \o <<<<"word", image[cells[n]]>>>>])
=============================================================================
