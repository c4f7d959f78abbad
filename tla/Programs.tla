------------------------------ MODULE Programs -----------------------------
(***************************************************************************)
(* The programs of both modes, and what they have in common: a long number *)
(* is added word by word, and the carry goes from word to word in the link.*)
(***************************************************************************)
EXTENDS LincPrograms, Pdp8Programs

\* The carry of the low words reaches the high words through the link in both modes, and
\* the carry out of the whole sum is left there.
LongSumIsExact == LamSumIsExact /\ TadSumIsExact
=============================================================================
