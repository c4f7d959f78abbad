-------------------------------- MODULE Tape -------------------------------
(***************************************************************************)
(* A paper tape as the loaders of libpdp12utils read it: bytes read with   *)
(* fgetc, and words of core made of two of them.                           *)
(***************************************************************************)
EXTENDS Integers, Sequences

CONSTANT CoreSize   \* the number of words of the core that a loader is given
ASSUME CoreSizeAssumption == CoreSize \in Nat

Byte == 0 .. 255
CoreWord == 0 .. 4095
EOF == -1

\* fgetc at a position of the file; a position beyond the end reads EOF as well.
ByteAt(tape, i) == IF i \in DOMAIN tape THEN tape[i] ELSE EOF

\* The two type bits of a frame, c & BIN_TYPE_MASK: 0, 1 (0x40), 2 (0x80) or 3 (0xC0).
Type(c) == c \div 64

\* a | b on two bits.
Or(a, b) == IF a = 0 \/ a = b THEN b ELSE IF b = 0 THEN a ELSE 3

\* ((c0 << 6) | c1) & 07777: the type bits of c1 fall on the low data bits of c0.
Pair(c0, c1) == ((c0 % 64) \div 4) * 256 + Or(c0 % 4, Type(c1)) * 64 + (c1 % 64)

\* core[a] = w, for the part of core that has been stored to.
Stored(core, a, w) == [b \in DOMAIN core \union {a} |-> IF b = a THEN w ELSE core[b]]
Nothing == [a \in {} |-> 0]
=============================================================================
