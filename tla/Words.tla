------------------------------- MODULE Words -------------------------------
(***************************************************************************)
(* Twelve-bit words and the C integer operators the emulator applies to    *)
(* them.  A C int is a TLA+ integer: the program never leaves the range of *)
(* a 32-bit int, so its arithmetic is exact, and \div and % by a power of  *)
(* two are >> and & on negative operands too, since both floor.            *)
(***************************************************************************)
EXTENDS Integers, Sequences

\* The values of a cpu_reg12_t that has been masked with 07777.
Word == 0 .. \o7777

\* 2^k for the shift counts of the instruction set (0..24).
Powers == << 1, 2, 4, 8, 16, 32, 64, 128, 256, 512, 1024, 2048, 4096, 8192,
             16384, 32768, 65536, 131072, 262144, 524288, 1048576, 2097152,
             4194304, 8388608, 16777216 >>
Pow2(k) == Powers[k + 1]

\* x & p is not zero, for a power of two p.
Has(x, p) == (x \div p) % 2 = 1

\* ~x
Comp(x) == -x - 1

\* The set of the twelve low bits that are one in x, and the word with a set of bits.
Bits(x) == {k \in 0 .. 11 : Has(x, Pow2(k))}
Weight(S, k) == IF k \in S THEN Pow2(k) ELSE 0
FromBits(S) ==
  Weight(S, 0) + Weight(S, 1) + Weight(S, 2) + Weight(S, 3) + Weight(S, 4) + Weight(S, 5)
  + Weight(S, 6) + Weight(S, 7) + Weight(S, 8) + Weight(S, 9) + Weight(S, 10) + Weight(S, 11)

\* (x & mask) == mask
Contains(x, mask) == Bits(mask) \subseteq Bits(x)

(***************************************************************************)
(* hi | lo, where lo fits below the lowest one of hi, or both are shifts   *)
(* of the same negative accumulator and lo has the fewer trailing zeros.   *)
(***************************************************************************)
Join(hi, lo) == IF lo < 0 THEN lo ELSE hi + lo
=============================================================================
