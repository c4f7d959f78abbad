--------------------------- MODULE PaperdumpProofs -------------------------
(***************************************************************************)
(* Both loaders keep their promise for every file, every offset and every  *)
(* size of core: types, which include that nothing is stored outside core, *)
(* where the words of a BIN tape come from, and the refinement of Loader.  *)
(* So does paperdump, which uses one or the other.  Of a tape that is well *)
(* punched they load what was punched, and paperdump shows it.             *)
(***************************************************************************)
EXTENDS WholeTape, TLAPS

\* Reading inside the file gives a byte, reading outside gives EOF, which is none.
LEMMA ByteAtTyped ==
  ASSUME NEW t \in Seq(Byte), NEW i \in Int, ByteAt(t, i) # EOF
  PROVE  i \in 1 .. Len(t) /\ ByteAt(t, i) \in Byte
BY DEF ByteAt, EOF

\* The or of two two-bit numbers is one.
LEMMA OrTyped ==
  ASSUME NEW a \in 0 .. 3, NEW b \in 0 .. 3
  PROVE  Or(a, b) \in 0 .. 3
BY DEF Or

\* The type of a byte has two bits.
LEMMA TypeTyped ==
  ASSUME NEW c \in Byte
  PROVE  Type(c) \in 0 .. 3
BY DEF Byte, Type

\* Two frames make a word of twelve bits, whatever their types.
LEMMA PairTyped ==
  ASSUME NEW c0 \in Byte, NEW c1 \in Byte
  PROVE  Pair(c0, c1) \in CoreWord
<1> DEFINE high == (c0 % 64) \div 4
           mid == Or(c0 % 4, Type(c1))
           low == c1 % 64
<1>1. high \in 0 .. 15
  BY DEF Byte
<1>2. mid \in 0 .. 3
  <2>1. c0 % 4 \in 0 .. 3
    BY DEF Byte
  <2> QED
    BY <2>1, TypeTyped, OrTyped
<1>3. low \in 0 .. 63
  BY DEF Byte
<1> HIDE DEF high, mid, low
<1>4. high * 256 + mid * 64 + low \in 0 .. 4095
  BY <1>1, <1>2, <1>3
<1>5. Pair(c0, c1) = high * 256 + mid * 64 + low
  BY DEF Pair, high, mid, low
<1> QED
  BY <1>4, <1>5 DEF CoreWord
-----------------------------------------------------------------------------
\* The lemmas about bytes and frames, as load_bin sees them.
LEMMA BinByteAtTyped ==
  ASSUME NEW t \in Seq(Bin!Byte), NEW j \in Int, Bin!ByteAt(t, j) # Bin!EOF
  PROVE  j \in 1 .. Len(t) /\ Bin!ByteAt(t, j) \in Bin!Byte
BY ByteAtTyped DEF Bin!ByteAt, Bin!EOF, Bin!Byte, ByteAt, EOF, Byte

\* The same for the word of two frames.
LEMMA BinPairTyped ==
  ASSUME NEW a \in Bin!Byte, NEW b \in Bin!Byte
  PROVE  Bin!Pair(a, b) \in Bin!CoreWord
<1>1. Bin!Byte = Byte /\ Bin!CoreWord = CoreWord
  BY DEF Bin!Byte, Byte, Bin!CoreWord, CoreWord
<1>2. Bin!Pair(a, b) = Pair(a, b)
  BY DEF Bin!Pair, Pair, Bin!Or, Or, Bin!Type, Type
<1> QED
  BY <1>1, <1>2, PairTyped

\* While two bytes are there to be read they make a word.
LEMMA BinFramesTyped ==
  ASSUME Bin!TypeOK, Bin!c0 # Bin!EOF, Bin!c1 # Bin!EOF
  PROVE  /\ Bin!c0 \in Bin!Byte /\ Bin!c1 \in Bin!Byte /\ Bin!word \in Bin!CoreWord
         /\ pos \in 1 .. Len(tape) /\ pos + 1 \in 1 .. Len(tape)
<1>1. tape \in Seq(Bin!Byte) /\ pos \in Int /\ pos + 1 \in Int
  BY DEF Bin!TypeOK
<1>2. pos \in 1 .. Len(tape) /\ Bin!c0 \in Bin!Byte
  BY <1>1, BinByteAtTyped DEF Bin!c0
<1>3. pos + 1 \in 1 .. Len(tape) /\ Bin!c1 \in Bin!Byte
  BY <1>1, BinByteAtTyped DEF Bin!c1
<1> QED
  BY <1>2, <1>3, BinPairTyped DEF Bin!word

\* Two more bytes keep the sum a number.
LEMMA BinSumTyped ==
  ASSUME NEW s \in Nat, NEW a \in Bin!Byte, NEW b \in Bin!Byte
  PROVE  s + a + b \in Nat
BY DEF Bin!Byte

\* Storing an instruction.
LEMMA BinInstructionStores ==
  ASSUME Bin!TypeOK, Bin!Instruction
  PROVE  /\ addr \in 0 .. CoreSize - 1 /\ Bin!word \in Bin!CoreWord
         /\ core' = Bin!Stored(core, addr, Bin!word)
         /\ DOMAIN core' = DOMAIN core \union {addr}
         /\ DOMAIN core' \subseteq 0 .. CoreSize - 1
         /\ core' \in [DOMAIN core' -> Bin!CoreWord]
         /\ core'[addr] = Bin!word
         /\ \A b \in DOMAIN core \ {addr} : core'[b] = core[b]
<1>1. addr \in 0 .. CoreSize - 1 /\ core' = Bin!Stored(core, addr, Bin!word)
  BY DEF Bin!Instruction, Bin!InCore
<1>2. Bin!word \in Bin!CoreWord
  BY BinFramesTyped DEF Bin!Instruction, Bin!Turn
<1>3. core \in [DOMAIN core -> Bin!CoreWord] /\ DOMAIN core \subseteq 0 .. CoreSize - 1
  BY DEF Bin!TypeOK
<1>4. DOMAIN core' = DOMAIN core \union {addr} /\ core'[addr] = Bin!word
  BY <1>1 DEF Bin!Stored
<1>5. \A b \in DOMAIN core \ {addr} : core'[b] = core[b]
  BY <1>1, <1>3 DEF Bin!Stored
<1>6. core' = [b \in DOMAIN core' |-> core'[b]]
  BY <1>1 DEF Bin!Stored
<1>7. \A b \in DOMAIN core' : core'[b] \in Bin!CoreWord
  BY <1>2, <1>3, <1>4, <1>5
<1>8. core' \in [DOMAIN core' -> Bin!CoreWord]
  BY <1>6, <1>7
<1> QED
  BY <1>1, <1>2, <1>3, <1>4, <1>5, <1>8
----------------------------------------------------------------------------
\* Every local variable of load_bin keeps its type; an address is a word of the tape or
\* one more than a cell of core, and never leaves the range the code tests.
LEMMA BinTypeIsInductive ==
  ASSUME Bin!TypeOK, [Bin!Next]_Bin!vars
  PROVE  Bin!TypeOK'
<1> USE DEF Bin!Return, Bin!Enter, Bin!SkipByte
<1>1. CASE Bin!Seek \/ Bin!SkipPadding \/ Bin!SkipLeader \/ Bin!NoData
  BY <1>1 DEF Bin!Seek, Bin!SkipPadding, Bin!SkipLeader, Bin!NoData, Bin!TypeOK
<1>2. CASE Bin!Origin
  <2>1. Bin!c0 \in Bin!Byte /\ Bin!c1 \in Bin!Byte /\ Bin!word \in Bin!CoreWord
    BY <1>2, BinFramesTyped DEF Bin!Origin, Bin!Turn
  <2>2. checksum + Bin!c0 + Bin!c1 \in Nat
    BY <2>1, BinSumTyped DEF Bin!TypeOK
  <2> QED
    BY <1>2, <2>1, <2>2 DEF Bin!Origin, Bin!FrameDone, Bin!Summed, Bin!TypeOK
<1>3. CASE Bin!Instruction
  <2>1. Bin!c0 \in Bin!Byte /\ Bin!c1 \in Bin!Byte
    BY <1>3, BinFramesTyped DEF Bin!Instruction, Bin!Turn
  <2>2. checksum + Bin!c0 + Bin!c1 \in Nat
    BY <2>1, BinSumTyped DEF Bin!TypeOK
  <2>3. addr + 1 \in -1 .. CoreSize
    BY <1>3, CoreSizeAssumption DEF Bin!Instruction, Bin!InCore
  <2>4. core' \in [DOMAIN core' -> Bin!CoreWord] /\ DOMAIN core' \subseteq 0 .. CoreSize - 1
    BY <1>3, BinInstructionStores
  <2> QED
    BY <1>3, <2>2, <2>3, <2>4 DEF Bin!Instruction, Bin!FrameDone, Bin!Summed, Bin!TypeOK
<1>4. CASE Bin!Outside \/ Bin!Checksum \/ Bin!Trailer \/ Bin!Premature
  BY <1>4 DEF Bin!Outside, Bin!Checksum, Bin!Trailer, Bin!Premature, Bin!TypeOK
<1>5. CASE Bin!Field
  BY <1>5 DEF Bin!Field, Bin!TypeOK
<1>6. CASE UNCHANGED Bin!vars
  BY <1>6 DEF Bin!vars, Bin!TypeOK
<1> QED
  BY <1>1, <1>2, <1>3, <1>4, <1>5, <1>6 DEF Bin!Next

\* The loader starts well typed.
LEMMA BinTypeAtStart == Bin!Init => Bin!TypeOK
BY CoreSizeAssumption DEF Bin!Init, Bin!TypeOK, Bin!Nothing

\* Registers of the loader and what it has stored are always of their types: no store is
\* outside core.
THEOREM BinTypeCorrect == Bin!Spec => []Bin!TypeOK
<1>1. Bin!TypeOK /\ [Bin!Next]_Bin!vars => Bin!TypeOK'
  BY BinTypeIsInductive
<1> QED
  BY <1>1, BinTypeAtStart, PTL DEF Bin!Spec
----------------------------------------------------------------------------
\* WordsComeFromTape is not inductive: the next address must be one more than a cell that
\* has been stored, or that of an origin that has been read.
AddressComesFromTape ==
  \/ addr = -1
  \/ addr - 1 \in DOMAIN core
  \/ \E i \in 1 .. pos - 1 : Bin!OriginAt(i, addr)
Provenance == Bin!WordsComeFromTape /\ AddressComesFromTape

\* What has been read stays read.
LEMMA BinReadStaysRead ==
  ASSUME Bin!TypeOK, tape' = tape, pos' \in Int, pos' >= pos
  PROVE  \A i \in 1 .. pos - 1 : i \in 1 .. pos' - 1
BY DEF Bin!TypeOK

\* Steps that leave core and the address alone.
LEMMA BinProvenanceKept ==
  ASSUME Bin!TypeOK, Provenance, UNCHANGED <<tape, core, addr>>, pos' \in Int, pos' >= pos
  PROVE  Provenance'
<1>1. \A i \in 1 .. pos - 1 : i \in 1 .. pos' - 1
  BY BinReadStaysRead
<1> QED
  BY <1>1 DEF Provenance, Bin!WordsComeFromTape, AddressComesFromTape, Bin!InstructionAt, Bin!OriginAt

\* Words and addresses come from the tape throughout.
LEMMA BinProvenanceIsInductive ==
  ASSUME Bin!TypeOK, Provenance, [Bin!Next]_Bin!vars
  PROVE  Provenance'
<1> USE DEF Bin!Return, Bin!Enter, Bin!SkipByte
<1>1. CASE Bin!Seek \/ Bin!SkipPadding \/ Bin!SkipLeader \/ Bin!NoData \/ Bin!Field \/ UNCHANGED Bin!vars
  <2>1. UNCHANGED <<tape, core, addr>> /\ pos' \in Int /\ pos' >= pos
    BY <1>1 DEF Bin!Seek, Bin!SkipPadding, Bin!SkipLeader, Bin!NoData, Bin!Field, Bin!vars, Bin!TypeOK
  <2> QED
    BY <2>1, BinProvenanceKept
<1>2. CASE Bin!Outside \/ Bin!Checksum \/ Bin!Trailer \/ Bin!Premature
  <2>1. UNCHANGED <<tape, core, addr>> /\ pos' \in Int /\ pos' >= pos
    BY <1>2 DEF Bin!Outside, Bin!Checksum, Bin!Trailer, Bin!Premature, Bin!TypeOK
  <2> QED
    BY <2>1, BinProvenanceKept
<1>3. CASE Bin!Origin
  <2>1. UNCHANGED <<tape, core>> /\ pos' = pos + 2 /\ addr' = Bin!word
    BY <1>3 DEF Bin!Origin, Bin!FrameDone
  <2>2. pos \in 1 .. pos' - 1 /\ pos' \in Int /\ pos' >= pos
    BY <1>3, <2>1, BinFramesTyped DEF Bin!Origin, Bin!Turn, Bin!TypeOK
  <2>3. Bin!OriginAt(pos, Bin!word)
    BY <1>3 DEF Bin!Origin, Bin!Turn, Bin!OriginAt, Bin!word, Bin!c0, Bin!c1
  <2>4. AddressComesFromTape'
    BY <2>1, <2>2, <2>3 DEF AddressComesFromTape, Bin!OriginAt
  <2>5. Bin!WordsComeFromTape'
    <3>1. \A i \in 1 .. pos - 1 : i \in 1 .. pos' - 1
      BY <2>1, <2>2, BinReadStaysRead
    <3> QED
      BY <2>1, <3>1 DEF Provenance, Bin!WordsComeFromTape, Bin!InstructionAt, Bin!OriginAt
  <2> QED
    BY <2>4, <2>5 DEF Provenance
<1>4. CASE Bin!Instruction
  <2>1. UNCHANGED tape /\ pos' = pos + 2 /\ addr' = addr + 1
    BY <1>4 DEF Bin!Instruction, Bin!FrameDone
  <2>2. pos \in 1 .. pos' - 1 /\ pos' \in Int /\ pos' >= pos
    BY <1>4, <2>1, BinFramesTyped DEF Bin!Instruction, Bin!Turn, Bin!TypeOK
  <2>3. \A i \in 1 .. pos - 1 : i \in 1 .. pos' - 1
    BY <2>1, <2>2, BinReadStaysRead
  <2>4. Bin!InstructionAt(pos, Bin!word)
    BY <1>4 DEF Bin!Instruction, Bin!Turn, Bin!InstructionAt, Bin!word, Bin!c0, Bin!c1
  <2>5. /\ DOMAIN core' = DOMAIN core \union {addr} /\ core'[addr] = Bin!word
        /\ \A b \in DOMAIN core \ {addr} : core'[b] = core[b]
        /\ addr \in 0 .. CoreSize - 1
    BY <1>4, BinInstructionStores
  <2>6. addr' - 1 = addr /\ addr # -1
    BY <2>1, <2>5, CoreSizeAssumption
  <2>7. AddressComesFromTape'
    BY <2>5, <2>6 DEF AddressComesFromTape
  <2>8. ASSUME NEW a \in DOMAIN core'
        PROVE  /\ (\E i \in 1 .. pos - 1 : Bin!InstructionAt(i, core[a])) \/ a = addr
               /\ a - 1 \in DOMAIN core \/ \E i \in 1 .. pos - 1 : Bin!OriginAt(i, a)
    <3>1. CASE a = addr
      BY <2>6, <3>1 DEF Provenance, AddressComesFromTape
    <3>2. CASE a \in DOMAIN core \ {addr}
      BY <3>2 DEF Provenance, Bin!WordsComeFromTape
    <3> QED
      BY <2>5, <3>1, <3>2
  <2>9. ASSUME NEW a \in DOMAIN core'
        PROVE  /\ \E i \in 1 .. pos' - 1 : Bin!InstructionAt(i, core'[a])
               /\ a - 1 \in DOMAIN core' \/ \E i \in 1 .. pos' - 1 : Bin!OriginAt(i, a)
    <3>1. \E i \in 1 .. pos' - 1 : Bin!InstructionAt(i, core'[a])
      <4>1. CASE a = addr
        BY <2>2, <2>4, <2>5, <4>1
      <4>2. CASE a # addr
        BY <2>3, <2>5, <2>8, <4>2
      <4> QED
        BY <4>1, <4>2
    <3> QED
      BY <2>3, <2>5, <2>8, <3>1
  <2>10. Bin!WordsComeFromTape'
    BY <2>1, <2>9 DEF Bin!WordsComeFromTape, Bin!InstructionAt, Bin!OriginAt
  <2> QED
    BY <2>7, <2>10 DEF Provenance
<1> QED
  BY <1>1, <1>2, <1>3, <1>4 DEF Bin!Next

\* Whatever is on the tape and wherever reading starts: each word in core is a pair of
\* frames of the tape, and the stored cells form runs that begin at an origin of the tape.
THEOREM BinWordsComeFromTape == Bin!Spec => []Bin!WordsComeFromTape
<1>1. Bin!Init => Provenance
  BY DEF Bin!Init, Provenance, Bin!WordsComeFromTape, AddressComesFromTape, Bin!Nothing
<1>2. Bin!TypeOK /\ Provenance /\ [Bin!Next]_Bin!vars => Bin!TypeOK' /\ Provenance'
  BY BinTypeIsInductive, BinProvenanceIsInductive
<1>3. Provenance => Bin!WordsComeFromTape
  BY DEF Provenance
<1> QED
  BY <1>1, <1>2, <1>3, BinTypeAtStart, PTL DEF Bin!Spec
----------------------------------------------------------------------------
\* load_bin starts where its promise does.
LEMMA BinPromisedAtStart == Bin!Init => Promise!Init
BY DEF Bin!Init, Promise!Init, Bin!Status, Bin!Nothing, Promise!Nothing

\* Each turn of load_bin stores one word inside core, returns, or leaves core and its
\* status alone.
LEMMA BinStepPromised ==
  ASSUME Bin!TypeOK, [Bin!Next]_Bin!vars
  PROVE  [Promise!Next]_<<core, Bin!Status>>
<1> USE DEF Bin!Return, Bin!Enter, Bin!SkipByte, Bin!Status
<1>1. CASE Bin!Seek \/ Bin!SkipPadding \/ Bin!SkipLeader \/ Bin!NoData
  BY <1>1 DEF Bin!Seek, Bin!SkipPadding, Bin!SkipLeader, Bin!NoData, Promise!Next, Promise!Return
<1>2. CASE Bin!Outside \/ Bin!Checksum \/ Bin!Trailer \/ Bin!Premature
  BY <1>2 DEF Bin!Outside, Bin!Checksum, Bin!Trailer, Bin!Premature, Bin!Turn, Promise!Next, Promise!Return
<1>3. CASE Bin!Origin \/ Bin!Field \/ UNCHANGED Bin!vars
  BY <1>3 DEF Bin!Origin, Bin!Field, Bin!FrameDone, Bin!vars
<1>4. CASE Bin!Instruction
  <2>1. /\ DOMAIN core' \subseteq 0 .. CoreSize - 1 /\ addr \in DOMAIN core'
        /\ core'[addr] \in Bin!CoreWord /\ core' = Bin!Stored(core, addr, core'[addr])
    BY <1>4, BinInstructionStores
  <2>2. Bin!Status = "loading" /\ Bin!Status' = Bin!Status
    BY <1>4 DEF Bin!Instruction, Bin!Turn, Bin!FrameDone
  <2>3. Promise!Store
    BY <2>1, <2>2 DEF Promise!Store, Bin!Stored, Promise!Stored, Bin!CoreWord, Promise!CoreWord
  <2> QED
    BY <2>3 DEF Promise!Next
<1> QED
  BY <1>1, <1>2, <1>3, <1>4 DEF Bin!Next

\* The callers' view: load_bin implements the safety part of Loader.
THEOREM BinKeepsPromise == Bin!Spec => Promise!Spec
BY BinPromisedAtStart, BinStepPromised, BinTypeCorrect, PTL DEF Bin!Spec, Promise!Spec
-----------------------------------------------------------------------------
\* The lemmas about bytes and frames, as load_rim sees them.
LEMMA RimByteAtTyped ==
  ASSUME NEW t \in Seq(Rim!Byte), NEW j \in Int, Rim!ByteAt(t, j) # Rim!EOF
  PROVE  j \in 1 .. Len(t) /\ Rim!ByteAt(t, j) \in Rim!Byte
BY ByteAtTyped DEF Rim!ByteAt, Rim!EOF, Rim!Byte, ByteAt, EOF, Byte

\* The same for the word of two frames.
LEMMA RimPairTyped ==
  ASSUME NEW a \in Rim!Byte, NEW b \in Rim!Byte
  PROVE  Rim!Pair(a, b) \in Rim!CoreWord
<1>1. Rim!Byte = Byte /\ Rim!CoreWord = CoreWord
  BY DEF Rim!Byte, Byte, Rim!CoreWord, CoreWord
<1>2. Rim!Pair(a, b) = Pair(a, b)
  BY DEF Rim!Pair, Pair, Rim!Or, Or, Rim!Type, Type
<1> QED
  BY <1>1, <1>2, PairTyped

\* While two bytes are there to be read they make a word.
LEMMA RimFramesTyped ==
  ASSUME Rim!TypeOK, Rim!c0 # Rim!EOF, Rim!c1 # Rim!EOF
  PROVE  Rim!word \in Rim!CoreWord
<1>1. tape \in Seq(Rim!Byte) /\ pos \in Int /\ pos + 1 \in Int
  BY DEF Rim!TypeOK
<1>2. Rim!c0 \in Rim!Byte
  BY <1>1, RimByteAtTyped DEF Rim!c0
<1>3. Rim!c1 \in Rim!Byte
  BY <1>1, RimByteAtTyped DEF Rim!c1
<1> QED
  BY <1>2, <1>3, RimPairTyped DEF Rim!word

\* Storing a data word.
LEMMA RimDataStores ==
  ASSUME Rim!TypeOK, Rim!Data
  PROVE  /\ addr \in 0 .. CoreSize - 1 /\ Rim!word \in Rim!CoreWord
         /\ core' = Rim!Stored(core, addr, Rim!word)
         /\ addr \in DOMAIN core' /\ core'[addr] = Rim!word
         /\ DOMAIN core' \subseteq 0 .. CoreSize - 1
         /\ core' \in [DOMAIN core' -> Rim!CoreWord]
<1>1. addr \in 0 .. CoreSize - 1 /\ core' = Rim!Stored(core, addr, Rim!word)
  BY DEF Rim!Data, Rim!InCore
<1>2. Rim!word \in Rim!CoreWord
  BY RimFramesTyped DEF Rim!Data, Rim!Turn
<1>3. core \in [DOMAIN core -> Rim!CoreWord] /\ DOMAIN core \subseteq 0 .. CoreSize - 1
  BY DEF Rim!TypeOK
<1>4. DOMAIN core' = DOMAIN core \union {addr} /\ core'[addr] = Rim!word
  BY <1>1 DEF Rim!Stored
<1>5. \A b \in DOMAIN core \ {addr} : core'[b] = core[b]
  BY <1>1, <1>3 DEF Rim!Stored
<1>6. core' = [b \in DOMAIN core' |-> core'[b]]
  BY <1>1 DEF Rim!Stored
<1>7. \A b \in DOMAIN core' : core'[b] \in Rim!CoreWord
  BY <1>2, <1>3, <1>4, <1>5
<1>8. core' \in [DOMAIN core' -> Rim!CoreWord]
  BY <1>6, <1>7
<1> QED
  BY <1>1, <1>2, <1>3, <1>4, <1>8
----------------------------------------------------------------------------
\* Every local variable of load_rim keeps its type.
LEMMA RimTypeIsInductive ==
  ASSUME Rim!TypeOK, [Rim!Next]_Rim!vars
  PROVE  Rim!TypeOK'
<1> USE DEF Rim!Return, Rim!Enter, Rim!Skip
<1>1. CASE Rim!Seek \/ Rim!SkipPadding \/ Rim!NoData
  BY <1>1 DEF Rim!Seek, Rim!SkipPadding, Rim!NoData, Rim!TypeOK
<1>2. CASE Rim!SkipBlank \/ Rim!Outside
  BY <1>2 DEF Rim!SkipBlank, Rim!Outside, Rim!TypeOK
<1>3. CASE Rim!End
  BY <1>3 DEF Rim!End, Rim!TypeOK
<1>4. CASE Rim!Address
  <2>1. Rim!word \in Rim!CoreWord
    BY <1>4, RimFramesTyped DEF Rim!Address, Rim!Turn
  <2> QED
    BY <1>4, <2>1 DEF Rim!Address, Rim!TypeOK
<1>5. CASE Rim!Data
  <2>1. core' \in [DOMAIN core' -> Rim!CoreWord] /\ DOMAIN core' \subseteq 0 .. CoreSize - 1
    BY <1>5, RimDataStores
  <2> QED
    BY <1>5, <2>1 DEF Rim!Data, Rim!TypeOK
<1>6. CASE UNCHANGED Rim!vars
  BY <1>6 DEF Rim!vars, Rim!TypeOK
<1> QED
  BY <1>1, <1>2, <1>3, <1>4, <1>5, <1>6 DEF Rim!Next

\* The loader starts well typed.
LEMMA RimTypeAtStart == Rim!Init => Rim!TypeOK
BY DEF Rim!Init, Rim!TypeOK, Rim!Nothing, Rim!CoreWord

\* load_rim's variables, and the part of core it has stored to, are always of their types:
\* no store is outside core.
THEOREM RimTypeCorrect == Rim!Spec => []Rim!TypeOK
<1>1. Rim!TypeOK /\ [Rim!Next]_Rim!vars => Rim!TypeOK'
  BY RimTypeIsInductive
<1> QED
  BY <1>1, RimTypeAtStart, PTL DEF Rim!Spec

\* load_rim returns the count it has kept, which is never the -1 of a refusal.
LEMMA RimEndIsNoRefusal ==
  ASSUME Rim!TypeOK, Rim!End
  PROVE  Bin!Status = "loading" /\ Bin!Status' = "loaded"
BY DEF Rim!End, Rim!Return, Bin!Status, Rim!TypeOK

\* load_rim starts where its promise does.
LEMMA RimPromisedAtStart == Rim!Init => Promise!Init
BY DEF Rim!Init, Promise!Init, Bin!Status, Rim!Nothing, Promise!Nothing

\* Each turn of load_rim stores one word inside core, returns, or leaves core and its
\* status alone.
LEMMA RimStepPromised ==
  ASSUME Rim!TypeOK, [Rim!Next]_Rim!vars
  PROVE  [Promise!Next]_<<core, Bin!Status>>
<1>1. CASE Rim!Seek \/ Rim!SkipPadding \/ Rim!NoData
  BY <1>1 DEF Rim!Seek, Rim!SkipPadding, Rim!NoData, Rim!Return, Rim!Enter, Rim!Skip, Bin!Status, Promise!Next, Promise!Return
<1>2. CASE Rim!Outside
  BY <1>2 DEF Rim!Outside, Rim!Turn, Rim!Return, Bin!Status, Promise!Next, Promise!Return
<1>3. CASE Rim!End
  BY <1>3, RimEndIsNoRefusal DEF Rim!End, Rim!Return, Promise!Next, Promise!Return
<1>4. CASE Rim!SkipBlank \/ Rim!Address \/ UNCHANGED Rim!vars
  BY <1>4 DEF Rim!SkipBlank, Rim!Address, Rim!Skip, Rim!vars, Bin!Status
<1>5. CASE Rim!Data
  <2>1. /\ DOMAIN core' \subseteq 0 .. CoreSize - 1 /\ addr \in DOMAIN core'
        /\ core'[addr] \in Rim!CoreWord /\ core' = Rim!Stored(core, addr, core'[addr])
    BY <1>5, RimDataStores
  <2>2. Bin!Status = "loading" /\ Bin!Status' = Bin!Status
    BY <1>5 DEF Rim!Data, Rim!Turn, Rim!Skip, Bin!Status
  <2>3. Promise!Store
    BY <2>1, <2>2 DEF Promise!Store, Rim!Stored, Promise!Stored, Rim!CoreWord, Promise!CoreWord
  <2> QED
    BY <2>3 DEF Promise!Next
<1> QED
  BY <1>1, <1>2, <1>3, <1>4, <1>5 DEF Rim!Next

\* The callers' view: load_rim implements the safety part of Loader.
THEOREM RimKeepsPromise == Rim!Spec => Promise!Spec
BY RimPromisedAtStart, RimStepPromised, RimTypeCorrect, PTL DEF Rim!Spec, Promise!Spec
-----------------------------------------------------------------------------
\* A line that dump adds to the screen shows a cell of core and its address.
LEMMA DumpedLines ==
  ASSUME Dump, NEW line \in printed', line \notin printed
  PROVE  \E a \in DOMAIN core : line = <<a, core[a]>>
<1>1. printed' = {<<j, core[j]>> : j \in {a \in DOMAIN core : core[a] > 0 /\ core[a] < 4095}}
  BY DEF Dump
<1>2. PICK j \in {a \in DOMAIN core : core[a] > 0 /\ core[a] < 4095} : line = <<j, core[j]>>
  BY <1>1
<1> QED
  BY <1>2

\* paperdump's variables keep their types: what is printed lies in core, and nothing is
\* printed, and the exit status not set, before the loader is back.
LEMMA DumpTyped ==
  ASSUME TypeOK, [Next]_vars
  PROVE  TypeOK'
<1>1. CASE Load /\ format = "bin"
  <2>1. Bin!Next /\ UNCHANGED <<format, printed, exit>>
    BY <1>1 DEF Load
  <2>2. Bin!TypeOK'
    BY <1>1, <2>1, BinTypeIsInductive DEF TypeOK
  <2>3. exit # "" => phase' = "returned"
    <3>1. phase # "returned"
      BY <2>1 DEF Bin!Next, Bin!Seek, Bin!SkipPadding, Bin!SkipLeader, Bin!NoData, Bin!Origin,
         Bin!Instruction, Bin!Outside, Bin!Checksum, Bin!Trailer, Bin!Field, Bin!Premature, Bin!Turn
    <3> QED
      BY <3>1 DEF TypeOK
  <2> QED
    BY <1>1, <2>1, <2>2, <2>3 DEF TypeOK
<1>2. CASE Load /\ format # "bin"
  <2>1. Rim!Next /\ UNCHANGED <<format, printed, exit>>
    BY <1>2 DEF Load
  <2>2. Rim!TypeOK'
    BY <1>2, <2>1, RimTypeIsInductive DEF TypeOK
  <2>3. exit # "" => phase' = "returned"
    <3>1. phase # "returned"
      BY <2>1 DEF Rim!Next, Rim!Seek, Rim!SkipPadding, Rim!NoData, Rim!SkipBlank, Rim!Address,
         Rim!Data, Rim!Outside, Rim!End, Rim!Turn
    <3> QED
      BY <3>1 DEF TypeOK
  <2> QED
    BY <1>2, <2>1, <2>2, <2>3 DEF TypeOK
<1>3. CASE Dump
  <2>1. core \in [DOMAIN core -> CoreWord] /\ DOMAIN core \subseteq 0 .. CoreSize - 1
    <3>1. CoreWord = Bin!CoreWord /\ CoreWord = Rim!CoreWord
      BY DEF CoreWord, Bin!CoreWord, Rim!CoreWord
    <3> QED
      BY <3>1 DEF TypeOK, Bin!TypeOK, Rim!TypeOK
  <2>2. printed' \subseteq (0 .. CoreSize - 1) \X CoreWord
    <3> SUFFICES ASSUME NEW line \in printed', line \notin printed
                 PROVE  line \in (0 .. CoreSize - 1) \X CoreWord
      BY DEF TypeOK
    <3>1. PICK a \in DOMAIN core : line = <<a, core[a]>>
      BY <1>3, DumpedLines
    <3>2. a \in 0 .. CoreSize - 1 /\ core[a] \in CoreWord
      BY <2>1
    <3> QED
      BY <3>1, <3>2
  <2>3. exit' \in {"0", "1"} /\ phase' = "returned"
    BY <1>3 DEF Dump, loader
  <2>4. IF format' = "bin" THEN Bin!TypeOK' ELSE Rim!TypeOK'
    BY <1>3 DEF Dump, loader, TypeOK, Bin!TypeOK, Rim!TypeOK
  <2>5. format' \in {"bin", "rim"}
    BY <1>3 DEF Dump, TypeOK
  <2> QED
    BY <2>2, <2>3, <2>4, <2>5 DEF TypeOK
<1>4. CASE UNCHANGED vars
  BY <1>4 DEF vars, loader, TypeOK, Bin!TypeOK, Rim!TypeOK
<1> QED
  BY <1>1, <1>2, <1>3, <1>4 DEF Next, Exited

\* paperdump starts well typed, with either loader.
LEMMA DumpTypedAtStart == Init => TypeOK
BY BinTypeAtStart, RimTypeAtStart DEF Init, TypeOK

\* Types, for the whole program: it prints only what lies in core, and exits only after
\* the loader is back.
THEOREM PaperdumpTypeCorrect == Spec => []TypeOK
<1>1. TypeOK /\ [Next]_vars => TypeOK'
  BY DumpTyped
<1> QED
  BY <1>1, DumpTypedAtStart, PTL DEF Spec

\* What the loader has read is what is printed.
PrintedIsInCore == \A line \in printed : \E a \in DOMAIN core : line[2] = core[a]
Punched ==
  /\ format = "bin" => Provenance
  /\ PrintedIsInCore /\ (exit = "" => printed = {})

\* Every word on the screen is in core while nothing can be stored any more.
LEMMA PunchedIsInductive ==
  ASSUME TypeOK, Punched, [Next]_vars
  PROVE  Punched'
<1>1. CASE Load
  <2>1. UNCHANGED <<format, printed, exit>> /\ (format = "bin" => Bin!Next)
    BY <1>1 DEF Load
  <2>2. phase # "returned"
    BY <1>1 DEF Load, Rim!Next, Rim!Seek, Rim!SkipPadding, Rim!NoData, Rim!SkipBlank, Rim!Address,
       Rim!Data, Rim!Outside, Rim!End, Rim!Turn,
       Bin!Next, Bin!Seek, Bin!SkipPadding, Bin!SkipLeader, Bin!NoData, Bin!Origin,
       Bin!Instruction, Bin!Outside, Bin!Checksum, Bin!Trailer, Bin!Field, Bin!Premature, Bin!Turn
  <2>3. exit = "" /\ printed = {}
    BY <2>2 DEF TypeOK, Punched
  <2>4. format = "bin" => Provenance'
    BY <2>1, BinProvenanceIsInductive DEF Punched, TypeOK
  <2> QED
    BY <2>1, <2>3, <2>4 DEF Punched, PrintedIsInCore
<1>2. CASE Dump
  <2>1. UNCHANGED <<format, tape, pos, addr, core>> /\ exit' # "" /\ exit = ""
    BY <1>2 DEF Dump, loader
  <2>2. PrintedIsInCore'
    <3> SUFFICES ASSUME NEW line \in printed' PROVE \E a \in DOMAIN core : line[2] = core[a]
      BY <2>1 DEF PrintedIsInCore
    <3>1. line \notin printed
      BY <2>1 DEF Punched
    <3>2. PICK a \in DOMAIN core : line = <<a, core[a]>>
      BY <1>2, <3>1, DumpedLines
    <3> QED
      BY <3>2
  <2>3. format = "bin" => Provenance'
    <3> SUFFICES ASSUME format = "bin" PROVE Provenance'
      OBVIOUS
    <3>1. Bin!TypeOK /\ Provenance
      BY DEF Punched, TypeOK
    <3>2. pos \in Int /\ pos' = pos
      BY <2>1, <3>1 DEF Bin!TypeOK
    <3>3. pos' \in Int /\ pos' >= pos
      BY <3>2
    <3> QED
      BY <2>1, <3>1, <3>3, BinProvenanceKept
  <2> QED
    BY <2>1, <2>2, <2>3 DEF Punched
<1>3. CASE UNCHANGED vars
  BY <1>3 DEF vars, loader, Punched, PrintedIsInCore, Provenance, Bin!WordsComeFromTape,
     AddressComesFromTape, Bin!InstructionAt, Bin!OriginAt
<1> QED
  BY <1>1, <1>2, <1>3 DEF Next, Exited

\* From the file to the screen: every word that paperdump prints of a BIN tape stands on
\* it as two frames, and the cells it is in form runs that begin at an origin of the tape.
THEOREM PrintsWhatWasPunched == Spec => []RunsStartAtOrigins
<1>1. Init => Punched
  BY DEF Init, Punched, PrintedIsInCore, Bin!Init, Provenance, Bin!WordsComeFromTape,
     AddressComesFromTape, Bin!Nothing
<1>2. TypeOK /\ Punched /\ [Next]_vars => TypeOK' /\ Punched'
  BY DumpTyped, PunchedIsInductive
<1>3. Punched => RunsStartAtOrigins
  BY DEF Punched, Provenance, PrintedIsInCore, RunsStartAtOrigins, Bin!WordsComeFromTape
<1> QED
  BY <1>1, <1>2, <1>3, DumpTypedAtStart, PTL DEF Spec

\* paperdump's core changes as its loader has promised, and no more once it is back.
THEOREM PaperdumpKeepsPromise == Spec => Promise!Spec
<1>1. Init => Promise!Init
  BY BinPromisedAtStart, RimPromisedAtStart DEF Init
<1>2. TypeOK /\ [Next]_vars => [Promise!Next]_<<core, Bin!Status>>
  BY BinStepPromised, RimStepPromised DEF Next, Load, Dump, Exited, TypeOK, vars, loader, Bin!Status
<1> QED
  BY <1>1, <1>2, PaperdumpTypeCorrect, PTL DEF Spec, Promise!Spec
----------------------------------------------------------------------------
\* Two frames give back the word they were punched from.
LEMMA PunchedPair ==
  ASSUME NEW type \in {0, 1}, NEW w \in CoreWord
  PROVE  LET a == 64 * type + (w \div 64)
             b == w % 64
         IN Type(a) = type /\ Pair(a, b) = w /\ a < 128 /\ (type = 1 => a # 0)
<1> DEFINE q == w \div 64
           b == w % 64
           a == 64 * type + q
           h == q \div 4
           m == q % 4
<1>1. w \in Int /\ 0 <= w /\ w <= 4095
  BY DEF CoreWord
<1>2. q \in Int /\ 0 <= q /\ q <= 63 /\ b \in Int /\ 0 <= b /\ b <= 63 /\ w = 64 * q + b
  BY <1>1
<1> HIDE DEF q, b
<1>3. h \in Int /\ m \in Int /\ 0 <= m /\ m <= 3 /\ q = 4 * h + m
  BY <1>2
<1>4. a \div 64 = type /\ a % 64 = q /\ a % 4 = m /\ b \div 64 = 0 /\ b % 64 = b /\ a < 128
      /\ (type = 1 => a # 0)
  <2>1. CASE type = 0
    BY <1>2, <2>1
  <2>2. CASE type = 1
    BY <1>2, <2>2
  <2> QED
    BY <2>1, <2>2
<1>5. (a % 64) \div 4 = h
  BY <1>4
<1> HIDE DEF a, h, m
<1>6. Or(m, 0) = m
  BY DEF Or
<1>7. Type(a) = type /\ Type(b) = 0
  BY <1>4 DEF Type
<1>8. Pair(a, b) = h * 256 + m * 64 + b
  BY <1>4, <1>5, <1>6, <1>7 DEF Pair
<1>9. h * 256 + m * 64 + b = w
  BY <1>2, <1>3
<1> QED
  BY <1>4, <1>7, <1>8, <1>9 DEF a, q, b

\* What the loaders look at.
LEMMA Looked ==
  /\ Bin!c0 = ByteAt(tape, pos) /\ Bin!c1 = ByteAt(tape, pos + 1) /\ Bin!c2 = ByteAt(tape, pos + 2)
  /\ Bin!word = Pair(Bin!c0, Bin!c1) /\ Bin!EOF = EOF
  /\ Rim!c0 = ByteAt(tape, pos) /\ Rim!c1 = ByteAt(tape, pos + 1)
  /\ Rim!word = Pair(Rim!c0, Rim!c1) /\ Rim!EOF = EOF
  /\ \A c : Bin!Type(c) = Type(c) /\ Rim!Type(c) = Type(c)
  /\ \A s, a, w : Bin!Stored(s, a, w) = Stored(s, a, w) /\ Rim!Stored(s, a, w) = Stored(s, a, w)
<1>1. Bin!EOF = EOF /\ Rim!EOF = EOF
  BY DEF Bin!EOF, Rim!EOF, EOF
<1>2. /\ Bin!c0 = ByteAt(tape, pos) /\ Bin!c1 = ByteAt(tape, pos + 1) /\ Bin!c2 = ByteAt(tape, pos + 2)
      /\ Rim!c0 = ByteAt(tape, pos) /\ Rim!c1 = ByteAt(tape, pos + 1)
  BY <1>1 DEF Bin!c0, Bin!c1, Bin!c2, Bin!ByteAt, Rim!c0, Rim!c1, Rim!ByteAt, ByteAt
<1>3. \A c : Bin!Type(c) = Type(c) /\ Rim!Type(c) = Type(c)
  BY DEF Bin!Type, Rim!Type, Type
<1>4. \A a, b : Bin!Pair(a, b) = Pair(a, b) /\ Rim!Pair(a, b) = Pair(a, b)
  BY DEF Bin!Pair, Rim!Pair, Pair, Bin!Or, Rim!Or, Or, Bin!Type, Rim!Type, Type
<1>5. \A s, a, w : Bin!Stored(s, a, w) = Stored(s, a, w) /\ Rim!Stored(s, a, w) = Stored(s, a, w)
  BY DEF Bin!Stored, Rim!Stored, Stored
<1> QED
  BY <1>1, <1>2, <1>3, <1>4, <1>5 DEF Bin!word, Rim!word
----------------------------------------------------------------------------
\* Reading a tape that is well punched, or the first part of one.
Good == IsPart(tape, layout.tape) /\ WellPunched(layout, format)

\* A byte that is read is the byte that was punched; on the whole tape all of them are.
LEMMA ReadAsPunched ==
  ASSUME tape \in Seq(Byte), Good, NEW i \in Int
  PROVE  /\ ByteAt(tape, i) # EOF => /\ i \in DOMAIN tape /\ i >= 1 /\ i \in DOMAIN layout.tape
                                     /\ ByteAt(tape, i) = layout.tape[i] /\ layout.tape[i] \in Byte
                                     /\ ByteAt(tape, i) = ByteAt(layout.tape, i)
         /\ tape = layout.tape /\ i \in DOMAIN layout.tape => ByteAt(tape, i) # EOF
<1>1. ~(EOF \in Byte)
  BY DEF EOF, Byte
<1>2. layout.tape \in Seq(Byte)
  BY DEF Good, WellPunched, PunchedStart
<1>3. ASSUME ByteAt(tape, i) # EOF
      PROVE  /\ i \in DOMAIN tape /\ i >= 1 /\ i \in DOMAIN layout.tape
             /\ ByteAt(tape, i) = layout.tape[i] /\ layout.tape[i] \in Byte
             /\ ByteAt(tape, i) = ByteAt(layout.tape, i)
  <2>1. i \in DOMAIN tape /\ ByteAt(tape, i) = tape[i] /\ i >= 1
    BY <1>3 DEF ByteAt
  <2>2. i \in DOMAIN layout.tape /\ tape[i] = layout.tape[i]
    BY <2>1 DEF Good, IsPart
  <2> QED
    BY <1>2, <2>1, <2>2 DEF ByteAt
<1>4. ASSUME tape = layout.tape, i \in DOMAIN layout.tape PROVE ByteAt(tape, i) # EOF
  BY <1>1, <1>2, <1>4 DEF ByteAt
<1> QED
  BY <1>3, <1>4

\* The shape of the layout.
LEMMA Shape ==
  ASSUME Good
  PROVE  /\ Final(layout) \in Nat /\ Final(layout) >= 2 /\ Count(layout) \in Nat
         /\ Final(layout) = Count(layout) + 1 /\ 1 \in 1 .. Count(layout)
         /\ \A k \in 1 .. Final(layout) :
              layout.place[k] \in Nat /\ layout.at[k] \in Nat /\ layout.sum[k] \in Nat
         /\ \A k \in 1 .. Count(layout) : k \in 1 .. Final(layout) /\ k + 1 \in 1 .. Final(layout)
         /\ \A k \in 1 .. Final(layout) : k \in 1 .. Count(layout) \/ k = Final(layout)
         /\ layout.lead \in Nat /\ layout.lead < layout.place[1]
<1>1. Count(layout) \in Nat \ {0} /\ Final(layout) = Count(layout) + 1
  BY DEF Good, WellPunched, PunchedStart, Final
<1> QED
  BY <1>1 DEF Good, WellPunched, PunchedStart

\* The kinds of an item exclude each other.
ItemRead(k, type, step) ==
  LET p == layout.place[k]
  IN /\ layout.place[k + 1] = p + step
     /\ ByteAt(tape, p) # EOF => Type(ByteAt(tape, p)) = type /\ p \in Nat \ {0}
     /\ tape = layout.tape => \A j \in 0 .. step - 1 : ByteAt(tape, p + j) # EOF
PairRead(k) ==
  LET p == layout.place[k]
  IN ByteAt(tape, p) # EOF /\ ByteAt(tape, p + 1) # EOF
       => /\ Pair(ByteAt(tape, p), ByteAt(tape, p + 1)) = layout.items[k][2]
          /\ layout.sum[k + 1] = layout.sum[k] + ByteAt(tape, p) + ByteAt(tape, p + 1)
          /\ ByteAt(tape, p) < 128

\* A word or an origin, as it is read.
LEMMA WordRead ==
  ASSUME tape \in Seq(Byte), Good, NEW k \in 1 .. Count(layout), NEW type \in {0, 1},
         PunchedWord(layout, k, type)
  PROVE  /\ ItemRead(k, type, 2) /\ PairRead(k)
         /\ type = 1 => ByteAt(tape, layout.place[k]) # 0
<1> DEFINE p == layout.place[k]
           w == layout.items[k][2]
<1>1. p \in Nat /\ p + 1 \in Int
  BY Shape
<1>2. /\ w \in CoreWord /\ p \in DOMAIN layout.tape /\ p + 1 \in DOMAIN layout.tape
      /\ layout.tape[p] = 64 * type + (w \div 64) /\ layout.tape[p + 1] = w % 64
      /\ layout.place[k + 1] = p + 2
      /\ layout.sum[k + 1] = layout.sum[k] + layout.tape[p] + layout.tape[p + 1]
  BY DEF PunchedWord, Holds
<1>3. /\ Type(layout.tape[p]) = type /\ Pair(layout.tape[p], layout.tape[p + 1]) = w
      /\ layout.tape[p] < 128 /\ (type = 1 => layout.tape[p] # 0)
  BY <1>2, PunchedPair
<1>4. /\ ByteAt(tape, p) # EOF => ByteAt(tape, p) = layout.tape[p] /\ p >= 1
      /\ tape = layout.tape => ByteAt(tape, p) # EOF
  BY <1>1, <1>2, ReadAsPunched
<1>5. /\ ByteAt(tape, p + 1) # EOF => ByteAt(tape, p + 1) = layout.tape[p + 1]
      /\ tape = layout.tape => ByteAt(tape, p + 1) # EOF
  BY <1>1, <1>2, ReadAsPunched
<1>6. EOF # 0
  BY DEF EOF
<1> HIDE DEF p, w
<1>7. tape = layout.tape => \A j \in 0 .. 2 - 1 : ByteAt(tape, p + j) # EOF
  <2>1. \A j \in 0 .. 2 - 1 : p + j = p \/ p + j = p + 1
    BY <1>1
  <2> QED
    BY <1>4, <1>5, <2>1
<1>8. ItemRead(k, type, 2)
  BY <1>1, <1>2, <1>3, <1>4, <1>7 DEF ItemRead, p
<1>9. PairRead(k)
  BY <1>2, <1>3, <1>4, <1>5 DEF PairRead, p, w
<1>10. type = 1 => ByteAt(tape, p) # 0
  BY <1>3, <1>4, <1>6
<1> QED
  BY <1>8, <1>9, <1>10 DEF p

\* Every item, as it is read.
LEMMA ItemCases ==
  ASSUME tape \in Seq(Byte), Good, NEW k \in 1 .. Count(layout)
  PROVE  \/ PunchedOrigin(layout, k) /\ ItemRead(k, 1, 2) /\ PairRead(k)
         \/ PunchedData(layout, k, format) /\ ItemRead(k, 0, 2) /\ PairRead(k)
         \/ PunchedField(layout, k) /\ ItemRead(k, 3, 1)
<1>1. CASE PunchedOrigin(layout, k)
  BY <1>1, WordRead DEF PunchedOrigin
<1>2. CASE PunchedData(layout, k, format)
  BY <1>2, WordRead DEF PunchedData
<1>3. CASE PunchedField(layout, k)
  <2> DEFINE p == layout.place[k]
  <2>1. p \in Nat /\ p \in Int
    BY Shape
  <2>2. p \in DOMAIN layout.tape /\ Type(layout.tape[p]) = 3 /\ layout.place[k + 1] = p + 1
    BY <1>3 DEF PunchedField
  <2>3. /\ ByteAt(tape, p) # EOF => ByteAt(tape, p) = layout.tape[p] /\ p >= 1
        /\ tape = layout.tape => ByteAt(tape, p) # EOF
    BY <2>1, <2>2, ReadAsPunched
  <2> HIDE DEF p
  <2>4. tape = layout.tape => \A j \in 0 .. 1 - 1 : ByteAt(tape, p + j) # EOF
    <3>1. \A j \in 0 .. 1 - 1 : p + j = p
      BY <2>1
    <3> QED
      BY <2>3, <3>1
  <2> QED
    BY <1>3, <2>1, <2>2, <2>3, <2>4 DEF ItemRead, p
<1> QED
  BY <1>1, <1>2, <1>3 DEF Good, WellPunched

\* The first item is an origin, which neither padding nor a leader looks like.
LEMMA FirstRead ==
  ASSUME tape \in Seq(Byte), Good
  PROVE  LET p == layout.place[1]
         IN /\ PunchedOrigin(layout, 1) /\ ItemRead(1, 1, 2) /\ ByteAt(tape, p) # 0
            /\ tape = layout.tape => ByteAt(tape, p) # EOF
            /\ \A i \in 1 .. p - 1 :
                 /\ ByteAt(tape, i) # EOF => IF i <= layout.lead THEN ByteAt(tape, i) = 0
                                                               ELSE Type(ByteAt(tape, i)) = 2
                 /\ tape = layout.tape => ByteAt(tape, i) # EOF
<1> DEFINE p == layout.place[1]
<1>1. 1 \in 1 .. Count(layout) /\ p \in Nat
  BY Shape
<1>2. layout.items[1][1] = "origin"
  BY DEF Good, WellPunched, PunchedStart
<1>3. PunchedOrigin(layout, 1)
  BY <1>1, <1>2 DEF Good, WellPunched, PunchedData, PunchedField
<1>4. ItemRead(1, 1, 2) /\ ByteAt(tape, p) # 0
  BY <1>1, <1>3, WordRead DEF PunchedOrigin
<1>5. tape = layout.tape => ByteAt(tape, p) # EOF
  <2>1. p \in DOMAIN layout.tape
    BY <1>3 DEF PunchedOrigin, PunchedWord, Holds
  <2> QED
    BY <1>1, <2>1, ReadAsPunched
<1>6. ASSUME NEW i \in 1 .. p - 1
      PROVE  /\ ByteAt(tape, i) # EOF => IF i <= layout.lead THEN ByteAt(tape, i) = 0
                                                            ELSE Type(ByteAt(tape, i)) = 2
             /\ tape = layout.tape => ByteAt(tape, i) # EOF
  <2>1. IF i <= layout.lead THEN ByteAt(layout.tape, i) = 0 ELSE Type(ByteAt(layout.tape, i)) = 2
    BY DEF Good, WellPunched, PunchedStart
  <2>2. i \in Int
    BY <1>1
  <2>3. ByteAt(tape, i) # EOF => ByteAt(tape, i) = ByteAt(layout.tape, i)
    BY <2>2, ReadAsPunched
  <2>4. p \in DOMAIN layout.tape
    BY <1>3 DEF PunchedOrigin, PunchedWord, Holds
  <2>5. i \in DOMAIN layout.tape
    <3>1. layout.tape \in Seq(Byte)
      BY DEF Good, WellPunched, PunchedStart
    <3> QED
      BY <1>1, <2>2, <2>4, <3>1
  <2> QED
    BY <2>1, <2>2, <2>3, <2>5, ReadAsPunched
<1> QED
  BY <1>3, <1>4, <1>5, <1>6

\* The checksum of a BIN tape, as it is read.
LEMMA ChecksumRead ==
  ASSUME tape \in Seq(Byte), Good, format = "bin"
  PROVE  LET p == layout.place[Final(layout)]
             a == ByteAt(tape, p)
             b == ByteAt(tape, p + 1)
         IN /\ a # EOF => Type(a) = 0
            /\ a # EOF /\ b # EOF => Pair(a, b) = layout.sum[Final(layout)] % 4096
            /\ ByteAt(tape, p + 2) = EOF \/ Type(ByteAt(tape, p + 2)) = 2
            /\ tape = layout.tape => a # EOF /\ b # EOF
<1> DEFINE p == layout.place[Final(layout)]
           s == layout.sum[Final(layout)] % 4096
<1>1. p \in Nat /\ p + 1 \in Int /\ p + 2 \in Int
  BY Shape
<1>2. s \in CoreWord
  <2>1. PICK n \in Nat : n = layout.sum[Final(layout)]
    BY Shape
  <2>2. n % 4096 \in CoreWord
    BY DEF CoreWord
  <2> QED
    BY <2>1, <2>2
<1>3. /\ p \in DOMAIN layout.tape /\ p + 1 \in DOMAIN layout.tape
      /\ layout.tape[p] = 64 * 0 + (s \div 64) /\ layout.tape[p + 1] = s % 64
      /\ p + 2 \in DOMAIN layout.tape => Type(layout.tape[p + 2]) = 2
  BY DEF Good, WellPunched, PunchedEnd, Holds
<1> HIDE DEF p, s
<1>4. Type(layout.tape[p]) = 0 /\ Pair(layout.tape[p], layout.tape[p + 1]) = s
  BY <1>2, <1>3, PunchedPair
<1>5. /\ ByteAt(tape, p) # EOF => ByteAt(tape, p) = layout.tape[p]
      /\ tape = layout.tape => ByteAt(tape, p) # EOF
  BY <1>1, <1>3, ReadAsPunched
<1>6. /\ ByteAt(tape, p + 1) # EOF => ByteAt(tape, p + 1) = layout.tape[p + 1]
      /\ tape = layout.tape => ByteAt(tape, p + 1) # EOF
  BY <1>1, <1>3, ReadAsPunched
<1>7. ByteAt(tape, p + 2) = EOF \/ Type(ByteAt(tape, p + 2)) = 2
  BY <1>1, <1>3, ReadAsPunched
<1> QED
  BY <1>3, <1>4, <1>5, <1>6, <1>7 DEF p, s

\* Up to the checksum of a whole BIN tape there are always two bytes to be read, and they do
\* not look like the trailer.
LEMMA MoreToRead ==
  ASSUME tape \in Seq(Byte), Good, format = "bin", tape = layout.tape,
         NEW k \in 1 .. Final(layout)
  PROVE  LET p == layout.place[k]
         IN ByteAt(tape, p) # EOF /\ Type(ByteAt(tape, p)) # 2 /\ ByteAt(tape, p + 1) # EOF
<1>1. ASSUME NEW j \in 1 .. Final(layout)
      PROVE  ByteAt(tape, layout.place[j]) # EOF /\ Type(ByteAt(tape, layout.place[j])) # 2
  <2>1. CASE j \in 1 .. Count(layout)
    <3>1. layout.place[j] \in Nat /\ layout.place[j] + 0 = layout.place[j] /\ 0 \in 0 .. 2 - 1 /\ 0 \in 0 .. 1 - 1
      BY Shape
    <3> QED
      BY <2>1, <3>1, ItemCases DEF ItemRead
  <2>2. CASE j = Final(layout)
    BY <2>2, ChecksumRead
  <2> QED
    BY <2>1, <2>2, Shape
<1>2. CASE k \in 1 .. Count(layout)
  <2>1. k + 1 \in 1 .. Final(layout) /\ 1 \in 0 .. 2 - 1
    BY <1>2, Shape
  <2>2. CASE ItemRead(k, 3, 1)
    BY <1>1, <2>1, <2>2 DEF ItemRead
  <2>3. CASE ItemRead(k, 1, 2) \/ ItemRead(k, 0, 2)
    BY <1>1, <2>1, <2>3 DEF ItemRead
  <2> QED
    BY <1>2, <2>2, <2>3, ItemCases
<1>3. CASE k = Final(layout)
  BY <1>1, <1>3, ChecksumRead
<1> QED
  BY <1>2, <1>3, Shape
----------------------------------------------------------------------------
\* Where load_bin is on a tape that is well punched, or on the first part of one.
Fresh == pos <= layout.place[1] /\ addr = -1 /\ checksum = 0 /\ core = Nothing
BinAt(k) ==
  /\ pos = layout.place[k] /\ core = layout.image[k] /\ checksum = layout.sum[k]
  /\ addr = IF k = 1 THEN -1 ELSE layout.at[k]
Kept == \E k \in 1 .. Final(layout) : core = layout.image[k]
Complete ==
  tape = layout.tape /\ Fits(layout) /\ pos > 0
    => result # -1 /\ core = layout.image[Final(layout)]
BinReading ==
  \/ phase = "seek" /\ Fresh
  \/ phase = "padding" /\ Fresh /\ pos > 0
  \/ phase = "leader" /\ Fresh /\ pos > layout.lead
  \/ phase = "frames" /\ \E k \in 1 .. Final(layout) : BinAt(k)
  \/ phase = "returned" /\ Kept /\ Complete

\* Padding and leader end where the first item begins.
LEMMA BinBeforeItems ==
  ASSUME Bin!TypeOK, tape \in Seq(Byte), Good, Bin!Next, BinReading,
         phase \in {"seek", "padding", "leader"}, UNCHANGED layout
  PROVE  BinReading'
<1> DEFINE p == layout.place[1]
<1>1. /\ Bin!c0 = ByteAt(tape, pos) /\ Bin!EOF = EOF /\ pos \in Int /\ p \in Nat
      /\ layout.lead \in Nat /\ layout.lead < p /\ Fresh
      /\ 1 \in 1 .. Final(layout)
  BY Looked, Shape DEF Bin!TypeOK, BinReading
<1>2. core = layout.image[1] /\ checksum = layout.sum[1]
  BY <1>1 DEF Fresh, Good, WellPunched, PunchedStart
<1>3. Kept
  BY <1>1, <1>2 DEF Kept
<1>4. /\ ByteAt(tape, p) # 0 /\ (tape = layout.tape => ByteAt(tape, p) # EOF)
      /\ ByteAt(tape, p) # EOF => Type(ByteAt(tape, p)) = 1
      /\ \A i \in 1 .. p - 1 :
           /\ ByteAt(tape, i) # EOF => IF i <= layout.lead THEN ByteAt(tape, i) = 0
                                                         ELSE Type(ByteAt(tape, i)) = 2
           /\ tape = layout.tape => ByteAt(tape, i) # EOF
  BY FirstRead DEF ItemRead
<1>5. pos > 0 => pos = p \/ pos \in 1 .. p - 1
  BY <1>1 DEF Fresh
<1>6. ASSUME Bin!Return(-1), pos < 1 PROVE BinReading'
  BY <1>1, <1>3, <1>6 DEF Bin!Return, BinReading, Kept, Complete, Final, Count
<1>7. CASE phase = "seek"
  <2>1. Bin!Seek
    BY <1>7 DEF Bin!Next, Bin!Seek, Bin!SkipPadding, Bin!SkipLeader, Bin!NoData, Bin!Origin,
         Bin!Instruction, Bin!Outside, Bin!Checksum, Bin!Trailer, Bin!Field, Bin!Premature, Bin!Turn
  <2>2. CASE pos < 1
    BY <1>6, <2>1, <2>2 DEF Bin!Seek
  <2>3. CASE pos >= 1
    BY <1>1, <2>1, <2>3 DEF Bin!Seek, Bin!Enter, BinReading, Fresh
  <2> QED
    BY <1>1, <2>2, <2>3
<1>8. ASSUME Bin!NoData, pos > 0 PROVE BinReading'
  <2>1. tape # layout.tape
    BY <1>1, <1>4, <1>5, <1>8 DEF Bin!NoData
  <2> QED
    BY <1>3, <1>8, <2>1 DEF Bin!NoData, Bin!Return, BinReading, Kept, Complete, Final, Count
<1>9. CASE phase = "padding"
  <2>1. Bin!SkipPadding \/ Bin!NoData
    BY <1>9 DEF Bin!Next, Bin!Seek, Bin!SkipPadding, Bin!SkipLeader, Bin!NoData, Bin!Origin,
         Bin!Instruction, Bin!Outside, Bin!Checksum, Bin!Trailer, Bin!Field, Bin!Premature, Bin!Turn
  <2>2. pos > 0
    BY <1>9 DEF BinReading
  <2>3. CASE Bin!SkipPadding /\ Bin!c0 = 0
    <3>1. pos # p
      BY <1>1, <1>4, <2>3
    <3>2. pos + 1 <= p /\ pos + 1 > 0
      BY <1>1, <1>5, <2>2, <3>1
    <3>3. phase' = "padding" /\ pos' = pos + 1 /\ UNCHANGED <<addr, checksum, core, layout>>
      BY <1>9, <2>3 DEF Bin!SkipPadding, Bin!SkipByte
    <3> QED
      BY <1>1, <3>2, <3>3 DEF BinReading, Fresh
  <2>4. CASE Bin!SkipPadding /\ Bin!c0 # 0
    <3>1. pos > layout.lead
      BY <1>1, <1>4, <1>5, <2>2, <2>4 DEF Bin!SkipPadding
    <3> QED
      BY <1>1, <2>4, <3>1 DEF Bin!SkipPadding, Bin!Enter, BinReading, Fresh
  <2> QED
    BY <1>8, <2>1, <2>2, <2>3, <2>4
<1>10. CASE phase = "leader"
  <2>1. Bin!SkipLeader \/ Bin!NoData
    BY <1>10 DEF Bin!Next, Bin!Seek, Bin!SkipPadding, Bin!SkipLeader, Bin!NoData, Bin!Origin,
         Bin!Instruction, Bin!Outside, Bin!Checksum, Bin!Trailer, Bin!Field, Bin!Premature, Bin!Turn
  <2>2. pos > layout.lead /\ pos > 0
    BY <1>1, <1>10 DEF BinReading
  <2>3. Bin!Type(Bin!c0) = Type(ByteAt(tape, pos)) /\ Bin!LEAD_TRAIL = 2
    BY Looked DEF Bin!LEAD_TRAIL
  <2>4. CASE Bin!SkipLeader /\ Type(ByteAt(tape, pos)) = 2
    <3>1. pos # p /\ pos' = pos + 1 /\ pos + 1 <= p
      BY <1>1, <1>4, <1>5, <2>2, <2>3, <2>4 DEF Bin!SkipLeader, Bin!SkipByte
    <3> QED
      BY <1>1, <1>10, <2>2, <2>3, <2>4, <3>1 DEF Bin!SkipLeader, Bin!SkipByte, BinReading, Fresh
  <2>5. CASE Bin!SkipLeader /\ Type(ByteAt(tape, pos)) # 2
    <3>1. pos = p
      BY <1>1, <1>4, <1>5, <2>2, <2>5 DEF Bin!SkipLeader
    <3>2. BinAt(1)
      BY <1>1, <1>2, <3>1 DEF BinAt, Fresh
    <3>3. phase' = "frames" /\ UNCHANGED <<pos, addr, checksum, core, layout>>
      BY <2>3, <2>5 DEF Bin!SkipLeader, Bin!Enter
    <3> QED
      BY <1>1, <3>2, <3>3 DEF BinReading, BinAt, Final, Count
  <2> QED
    BY <1>8, <2>1, <2>2, <2>4, <2>5
<1> QED
  BY <1>7, <1>9, <1>10

\* Which action it is that load_bin can take.
LEMMA TurnOf ==
  ASSUME Bin!Next, phase = "frames", Bin!c0 # EOF, Bin!c1 # EOF
  PROVE  /\ Type(Bin!c0) = 0 => Bin!Instruction \/ Bin!Outside \/ Bin!Checksum
         /\ Type(Bin!c0) = 1 => Bin!Origin
         /\ Type(Bin!c0) = 2 => Bin!Trailer
         /\ Type(Bin!c0) = 3 => Bin!Field
BY Looked DEF Bin!Next, Bin!Seek, Bin!SkipPadding, Bin!SkipLeader, Bin!NoData, Bin!Origin, Bin!Instruction,
              Bin!Outside, Bin!Checksum, Bin!Trailer, Bin!Field, Bin!Premature, Bin!Turn,
              Bin!INSTR, Bin!ORIGIN, Bin!LEAD_TRAIL, Bin!FIELD

\* Where a return leaves core, and with which promise.
LEMMA BinReturns ==
  ASSUME NEW k \in 1 .. Final(layout), core = layout.image[k], UNCHANGED layout,
         NEW n, Bin!Return(n), tape = layout.tape /\ Fits(layout) => k = Final(layout) /\ n # -1
  PROVE  BinReading'
<1>1. phase' = "returned" /\ result' = n /\ UNCHANGED <<tape, pos, core, layout>>
  BY DEF Bin!Return
<1>2. Final(layout)' = Final(layout) /\ (Fits(layout)' <=> Fits(layout))
  BY DEF Final, Count, Fits
<1>3. Kept' /\ Complete'
  BY <1>1, <1>2 DEF Kept, Complete
<1> QED
  BY <1>1, <1>3 DEF BinReading

\* From one item to the next.
LEMMA BinMovesOn ==
  ASSUME NEW k \in 1 .. Count(layout), Good, phase' = "frames", UNCHANGED layout,
         pos' = layout.place[k + 1], core' = layout.image[k + 1], checksum' = layout.sum[k + 1],
         addr' = layout.at[k + 1]
  PROVE  BinReading'
<1>1. k + 1 \in 1 .. Final(layout) /\ k + 1 # 1
  BY Shape
<1>2. Final(layout)' = Final(layout)
  BY DEF Final, Count
<1>3. BinAt(k + 1)'
  BY <1>1 DEF BinAt
<1> QED
  BY <1>1, <1>2, <1>3 DEF BinReading

\* An item is read as it was meant, or else the tape is not whole, or not meant for this
\* core.
LEMMA BinAtItem ==
  ASSUME Bin!TypeOK, tape \in Seq(Byte), Good, format = "bin", Bin!Next, phase = "frames",
         NEW k \in 1 .. Count(layout), BinAt(k), Bin!c0 # EOF, Bin!c1 # EOF, UNCHANGED layout
  PROVE  BinReading'
<1> DEFINE p == layout.place[k]
           w == layout.items[k][2]
<1>1. /\ Bin!c0 = ByteAt(tape, p) /\ Bin!c1 = ByteAt(tape, p + 1) /\ Bin!c2 = ByteAt(tape, p + 2)
      /\ Bin!word = Pair(ByteAt(tape, p), ByteAt(tape, p + 1)) /\ Bin!EOF = EOF
      /\ pos = p /\ core = layout.image[k] /\ checksum = layout.sum[k]
      /\ addr = IF k = 1 THEN -1 ELSE layout.at[k]
  BY Looked DEF BinAt
<1>2. k \in 1 .. Final(layout) /\ k + 1 \in 1 .. Final(layout) /\ layout.at[k] \in Nat
  BY Shape
<1>3. CASE PunchedOrigin(layout, k) /\ ItemRead(k, 1, 2) /\ PairRead(k)
  <2>1. Bin!Origin
    BY <1>1, <1>3, TurnOf DEF ItemRead
  <2>2. Bin!word = w /\ layout.sum[k + 1] = layout.sum[k] + Bin!c0 + Bin!c1 /\ layout.place[k + 1] = p + 2
    BY <1>1, <1>3 DEF PairRead, ItemRead
  <2>3. layout.at[k + 1] = w /\ layout.image[k + 1] = layout.image[k]
    BY <1>3 DEF PunchedOrigin
  <2>4. /\ phase' = "frames" /\ pos' = layout.place[k + 1] /\ core' = layout.image[k + 1]
        /\ checksum' = layout.sum[k + 1] /\ addr' = layout.at[k + 1]
    BY <1>1, <2>1, <2>2, <2>3 DEF Bin!Origin, Bin!FrameDone, Bin!Summed
  <2> QED
    BY <2>4, BinMovesOn
<1>4. CASE PunchedField(layout, k) /\ ItemRead(k, 3, 1)
  <2>1. Bin!Field
    BY <1>1, <1>4, TurnOf DEF ItemRead
  <2>2. /\ layout.place[k + 1] = p + 1 /\ layout.sum[k + 1] = layout.sum[k]
        /\ layout.at[k + 1] = layout.at[k] /\ layout.image[k + 1] = layout.image[k]
    BY <1>4 DEF PunchedField
  <2>3. k # 1
    BY <1>4 DEF PunchedField, Good, WellPunched, PunchedStart
  <2>4. /\ phase' = "frames" /\ pos' = layout.place[k + 1] /\ core' = layout.image[k + 1]
        /\ checksum' = layout.sum[k + 1] /\ addr' = layout.at[k + 1]
    BY <1>1, <2>1, <2>2, <2>3 DEF Bin!Field
  <2> QED
    BY <2>4, BinMovesOn
<1>5. CASE PunchedData(layout, k, format) /\ ItemRead(k, 0, 2) /\ PairRead(k)
  <2>1. Bin!Instruction \/ Bin!Outside \/ Bin!Checksum
    BY <1>1, <1>5, TurnOf DEF ItemRead
  <2>2. Bin!word = w /\ layout.sum[k + 1] = layout.sum[k] + Bin!c0 + Bin!c1 /\ layout.place[k + 1] = p + 2
    BY <1>1, <1>5 DEF PairRead, ItemRead
  <2>3. /\ layout.items[k][1] = "word" /\ layout.at[k + 1] = layout.at[k] + 1
        /\ layout.image[k + 1] = Stored(layout.image[k], layout.at[k], w)
    BY <1>5 DEF PunchedData
  <2>4. addr = layout.at[k]
    BY <1>1, <2>3 DEF Good, WellPunched, PunchedStart
  <2>5. CASE Bin!Instruction
    <3>1. core' = Stored(core, addr, Bin!word)
      BY <2>5, Looked DEF Bin!Instruction
    <3>2. /\ phase' = "frames" /\ pos' = layout.place[k + 1] /\ core' = layout.image[k + 1]
          /\ checksum' = layout.sum[k + 1] /\ addr' = layout.at[k + 1]
      BY <1>1, <2>2, <2>3, <2>4, <2>5, <3>1 DEF Bin!Instruction, Bin!FrameDone, Bin!Summed
    <3> QED
      BY <3>2, BinMovesOn
  <2>6. CASE Bin!Outside
    <3>1. ~(layout.at[k] < CoreSize)
      BY <1>2, <2>4, <2>6, CoreSizeAssumption DEF Bin!Outside, Bin!InCore
    <3>2. ~Fits(layout) /\ Bin!Return(-1)
      BY <2>3, <2>6, <3>1 DEF Fits, Bin!Outside
    <3> QED
      BY <1>1, <1>2, <3>2, BinReturns
  <2>7. CASE Bin!Checksum
    <3>1. ByteAt(tape, layout.place[k + 1]) = EOF \/ Type(ByteAt(tape, layout.place[k + 1])) = 2
      BY <1>1, <2>2, <2>7, Looked DEF Bin!Checksum, Bin!IsChecksum, Bin!LEAD_TRAIL
    <3>2. tape # layout.tape
      BY <1>2, <3>1, MoreToRead
    <3>3. PICK n : Bin!Return(n)
      BY <2>7 DEF Bin!Checksum
    <3> QED
      BY <1>1, <1>2, <3>2, <3>3, BinReturns
  <2> QED
    BY <2>1, <2>5, <2>6, <2>7
<1> QED
  BY <1>3, <1>4, <1>5, ItemCases

\* The words are followed by their checksum, which is right.
LEMMA BinAtChecksum ==
  ASSUME Bin!TypeOK, tape \in Seq(Byte), Good, format = "bin", Bin!Next, phase = "frames",
         BinAt(Final(layout)), Bin!c0 # EOF, Bin!c1 # EOF, UNCHANGED layout
  PROVE  BinReading'
<1> DEFINE p == layout.place[Final(layout)]
<1>1. /\ Bin!c0 = ByteAt(tape, p) /\ Bin!c1 = ByteAt(tape, p + 1) /\ Bin!c2 = ByteAt(tape, p + 2)
      /\ Bin!word = Pair(ByteAt(tape, p), ByteAt(tape, p + 1)) /\ Bin!EOF = EOF
      /\ core = layout.image[Final(layout)] /\ checksum = layout.sum[Final(layout)]
  BY Looked DEF BinAt
<1>2. Final(layout) \in 1 .. Final(layout)
  BY Shape
<1>3. /\ Type(Bin!c0) = 0 /\ Bin!word = checksum % 4096 /\ (Bin!c2 = EOF \/ Type(Bin!c2) = 2)
  BY <1>1, ChecksumRead
<1>4. Bin!IsChecksum
  BY <1>1, <1>3, Looked DEF Bin!IsChecksum, Bin!LEAD_TRAIL
<1>5. Bin!Checksum
  BY <1>3, <1>4, TurnOf DEF Bin!Instruction, Bin!Outside
<1>6. Bin!Return(count + 1)
  BY <1>3, <1>5 DEF Bin!Checksum
<1>7. count + 1 # -1
  BY DEF Bin!TypeOK
<1> QED
  BY <1>1, <1>2, <1>6, <1>7, BinReturns

\* load_bin stays where the layout says.
LEMMA BinStaysOnTape ==
  ASSUME Bin!TypeOK, tape \in Seq(Byte), Good, format = "bin", Bin!Next, BinReading,
         UNCHANGED layout
  PROVE  BinReading'
<1>1. phase # "returned"
  BY DEF Bin!Next, Bin!Seek, Bin!SkipPadding, Bin!SkipLeader, Bin!NoData, Bin!Origin,
         Bin!Instruction, Bin!Outside, Bin!Checksum, Bin!Trailer, Bin!Field, Bin!Premature, Bin!Turn
<1>2. CASE phase \in {"seek", "padding", "leader"}
  BY <1>2, BinBeforeItems
<1>3. CASE phase = "frames"
  <2>1. PICK k \in 1 .. Final(layout) : BinAt(k)
    BY <1>3 DEF BinReading
  <2>2. CASE Bin!c0 = EOF \/ Bin!c1 = EOF
    <3>1. Bin!c0 = ByteAt(tape, layout.place[k]) /\ Bin!c1 = ByteAt(tape, layout.place[k] + 1)
      BY <2>1, Looked DEF BinAt
    <3>2. tape # layout.tape
      BY <2>2, <3>1, MoreToRead
    <3>3. Bin!Premature
      BY <1>3, <2>2, Looked DEF Bin!Next, Bin!Seek, Bin!SkipPadding, Bin!SkipLeader, Bin!NoData,
         Bin!Origin, Bin!Instruction, Bin!Outside, Bin!Checksum, Bin!Trailer, Bin!Field, Bin!Turn
    <3> QED
      BY <2>1, <3>2, <3>3, BinReturns DEF Bin!Premature, BinAt
  <2>3. CASE Bin!c0 # EOF /\ Bin!c1 # EOF
    BY <1>3, <2>1, <2>3, Shape, BinAtItem, BinAtChecksum
  <2> QED
    BY <2>2, <2>3
<1> QED
  BY <1>1, <1>2, <1>3 DEF BinReading
----------------------------------------------------------------------------
\* Where load_rim is: the leader and the trailer are blank to it wherever they stand.
RimFresh == pos <= layout.place[1] /\ addr = 0 /\ core = Nothing
RimAt(k) == pos = layout.place[k] /\ core = layout.image[k] /\ addr = layout.at[k]
RimTrailer == pos >= layout.place[Final(layout)] /\ core = layout.image[Final(layout)]
RimReading ==
  \/ phase = "seek" /\ RimFresh
  \/ phase = "padding" /\ RimFresh /\ pos > 0
  \/ phase = "frames" /\ RimFresh /\ pos > layout.lead
  \/ phase = "frames" /\ \E k \in 1 .. Count(layout) : RimAt(k)
  \/ phase = "frames" /\ RimTrailer
  \/ phase = "returned" /\ Kept /\ Complete

\* Which action it is that load_rim can take.
LEMMA RimTurnOf ==
  ASSUME Rim!Next, phase = "frames", Rim!c0 \in Byte \union {EOF}
  PROVE  /\ Rim!c0 = EOF => Rim!End
         /\ Rim!c0 # EOF /\ Rim!c0 >= 128 => Rim!SkipBlank
         /\ Rim!c0 # EOF /\ Rim!c0 < 128 /\ Rim!c1 = EOF => Rim!End
         /\ Rim!c0 # EOF /\ Rim!c1 # EOF /\ Type(Rim!c0) = 1 => Rim!Address
         /\ Rim!c0 # EOF /\ Rim!c1 # EOF /\ Type(Rim!c0) = 0 => Rim!Data \/ Rim!Outside
<1>1. Rim!SkipBlank \/ Rim!Address \/ Rim!Data \/ Rim!Outside \/ Rim!End
  BY DEF Rim!Next, Rim!Seek, Rim!SkipPadding, Rim!NoData
<1>2. /\ Rim!SkipBlank => Rim!c0 >= 128
      /\ Rim!Address => Rim!c0 # EOF /\ Rim!c1 # EOF /\ Type(Rim!c0) = 1
      /\ Rim!Data \/ Rim!Outside => Rim!c0 # EOF /\ Rim!c1 # EOF /\ Type(Rim!c0) = 0
      /\ Rim!End => Rim!c0 = EOF \/ (Rim!c1 = EOF /\ ~(Rim!c0 >= 128))
  BY Looked DEF Rim!SkipBlank, Rim!Blank, Rim!Address, Rim!Data, Rim!Outside, Rim!Turn, Rim!End,
                Rim!Truncated
<1>3. /\ Rim!c0 \in Byte => /\ Rim!c0 >= 128 => Type(Rim!c0) \notin {0, 1}
                            /\ Type(Rim!c0) \in {0, 1} => ~(Rim!c0 >= 128)
                            /\ Rim!c0 < 128 => ~(Rim!c0 >= 128)
                            /\ Rim!c0 # EOF
      /\ Rim!c0 = EOF => ~(Rim!c0 >= 128)
  BY DEF Byte, EOF, Type
<1> QED
  BY <1>1, <1>2, <1>3

\* Where a return leaves core, and with which promise.
LEMMA RimReturns ==
  ASSUME NEW k \in 1 .. Final(layout), core = layout.image[k], UNCHANGED layout,
         NEW n, Rim!Return(n), tape = layout.tape /\ Fits(layout) => k = Final(layout) /\ n # -1
  PROVE  RimReading'
<1>1. phase' = "returned" /\ result' = n /\ UNCHANGED <<tape, pos, core, layout>>
  BY DEF Rim!Return
<1>2. Final(layout)' = Final(layout) /\ (Fits(layout)' <=> Fits(layout))
  BY DEF Final, Count, Fits
<1>3. Kept' /\ Complete'
  BY <1>1, <1>2 DEF Kept, Complete
<1> QED
  BY <1>1, <1>3 DEF RimReading

\* From one item to the next, or to the trailer.
LEMMA RimMovesOn ==
  ASSUME NEW k \in 1 .. Count(layout), Good, phase' = "frames", UNCHANGED layout,
         pos' = layout.place[k + 1], core' = layout.image[k + 1], addr' = layout.at[k + 1]
  PROVE  RimReading'
<1>1. Final(layout)' = Final(layout) /\ Count(layout)' = Count(layout)
  BY DEF Final, Count
<1>2. CASE k + 1 \in 1 .. Count(layout)
  <2>1. RimAt(k + 1)'
    BY DEF RimAt
  <2> QED
    BY <1>1, <1>2, <2>1 DEF RimReading
<1>3. CASE k + 1 = Final(layout)
  <2>1. layout.place[Final(layout)] \in Nat /\ Final(layout) \in 1 .. Final(layout)
    BY Shape
  <2>2. RimTrailer'
    BY <1>1, <1>3, <2>1 DEF RimTrailer
  <2> QED
    BY <2>2 DEF RimReading
<1> QED
  BY <1>2, <1>3, Shape

\* Padding and leader are skipped.
LEMMA RimBeforeItems ==
  ASSUME Rim!TypeOK, tape \in Seq(Byte), Good, Rim!Next, RimFresh, UNCHANGED layout,
         \/ phase = "seek"
         \/ phase = "padding" /\ pos > 0
         \/ phase = "frames" /\ pos > layout.lead /\ pos # layout.place[1]
  PROVE  RimReading'
<1> DEFINE p == layout.place[1]
<1>1. /\ Rim!c0 = ByteAt(tape, pos) /\ Rim!EOF = EOF /\ pos \in Int /\ p \in Nat
      /\ layout.lead \in Nat /\ layout.lead < p /\ 1 \in 1 .. Final(layout)
      /\ pos <= p /\ addr = 0 /\ core = Nothing
  BY Looked, Shape DEF Rim!TypeOK, RimFresh
<1>2. core = layout.image[1]
  BY <1>1 DEF Good, WellPunched, PunchedStart
<1>3. /\ ByteAt(tape, p) # 0 /\ (tape = layout.tape => ByteAt(tape, p) # EOF)
      /\ \A i \in 1 .. p - 1 :
           /\ ByteAt(tape, i) # EOF => IF i <= layout.lead THEN ByteAt(tape, i) = 0
                                                         ELSE Type(ByteAt(tape, i)) = 2
           /\ tape = layout.tape => ByteAt(tape, i) # EOF
  BY FirstRead
<1>4. pos > 0 => pos = p \/ pos \in 1 .. p - 1
  BY <1>1
<1>5. CASE phase = "seek"
  <2>1. Rim!Seek
    BY <1>5 DEF Rim!Next, Rim!Seek, Rim!SkipPadding, Rim!NoData, Rim!SkipBlank, Rim!Address,
         Rim!Data, Rim!Outside, Rim!End, Rim!Turn
  <2>2. CASE pos < 1
    <3>1. phase' = "returned" /\ UNCHANGED <<pos, core, layout>>
      BY <2>1, <2>2 DEF Rim!Seek, Rim!Return
    <3>2. Kept' /\ Complete'
      BY <1>1, <1>2, <2>2, <3>1 DEF Kept, Complete, Final, Count
    <3> QED
      BY <3>1, <3>2 DEF RimReading
  <2>3. CASE pos >= 1
    BY <1>1, <2>1, <2>3 DEF Rim!Seek, Rim!Enter, RimReading, RimFresh
  <2> QED
    BY <1>1, <2>2, <2>3
<1>6. CASE phase = "padding" /\ pos > 0
  <2>1. Rim!SkipPadding \/ Rim!NoData
    BY <1>6 DEF Rim!Next, Rim!Seek, Rim!SkipPadding, Rim!NoData, Rim!SkipBlank, Rim!Address,
         Rim!Data, Rim!Outside, Rim!End, Rim!Turn
  <2>2. CASE Rim!NoData
    <3>1. tape # layout.tape
      BY <1>1, <1>3, <1>4, <1>6, <2>2 DEF Rim!NoData
    <3> QED
      BY <1>1, <1>2, <2>2, <3>1, RimReturns DEF Rim!NoData
  <2>3. CASE Rim!SkipPadding /\ Rim!c0 = 0
    <3>1. pos # p
      BY <1>1, <1>3, <2>3
    <3>2. pos + 1 <= p /\ pos + 1 > 0
      BY <1>1, <1>4, <1>6, <3>1
    <3>3. phase' = "padding" /\ pos' = pos + 1 /\ UNCHANGED <<addr, core, layout>>
      BY <1>6, <2>3 DEF Rim!SkipPadding, Rim!Skip
    <3> QED
      BY <1>1, <3>2, <3>3 DEF RimReading, RimFresh
  <2>4. CASE Rim!SkipPadding /\ Rim!c0 # 0
    <3>1. pos > layout.lead
      BY <1>1, <1>3, <1>4, <1>6, <2>4 DEF Rim!SkipPadding
    <3> QED
      BY <1>1, <2>4, <3>1 DEF Rim!SkipPadding, Rim!Enter, RimReading, RimFresh
  <2> QED
    BY <2>1, <2>2, <2>3, <2>4
<1>7. CASE phase = "frames" /\ pos > layout.lead /\ pos # p
  <2>1. pos \in 1 .. p - 1 /\ ~(pos <= layout.lead) /\ pos > 0
    BY <1>1, <1>4, <1>7
  <2>2. CASE Rim!c0 = EOF
    <3>1. tape # layout.tape
      BY <1>1, <1>3, <2>1, <2>2
    <3>2. Rim!End
      BY <1>7, <2>2, RimTurnOf
    <3> QED
      BY <1>1, <1>2, <3>1, <3>2, RimReturns DEF Rim!End
  <2>3. CASE Rim!c0 # EOF
    <3>1. Rim!c0 \in Byte
      BY <1>1, <2>3, ReadAsPunched
    <3>2. Rim!c0 >= 128
      <4>1. Type(Rim!c0) = 2
        BY <1>1, <1>3, <2>1, <2>3
      <4> QED
        BY <3>1, <4>1 DEF Type, Byte
    <3>3. Rim!SkipBlank
      BY <1>7, <2>3, <3>1, <3>2, RimTurnOf
    <3>4. phase' = "frames" /\ pos' = pos + 1 /\ UNCHANGED <<addr, core, layout>>
      BY <1>7, <3>3 DEF Rim!SkipBlank, Rim!Skip
    <3>5. pos + 1 <= p /\ pos + 1 > layout.lead
      BY <1>1, <1>7, <2>1
    <3> QED
      BY <1>1, <3>4, <3>5 DEF RimReading, RimFresh
  <2> QED
    BY <2>2, <2>3
<1> QED
  BY <1>5, <1>6, <1>7

\* An item is read as it was meant.
LEMMA RimAtItem ==
  ASSUME Rim!TypeOK, tape \in Seq(Byte), Good, format # "bin", Rim!Next, phase = "frames",
         NEW k \in 1 .. Count(layout), RimAt(k), UNCHANGED layout
  PROVE  RimReading'
<1> DEFINE p == layout.place[k]
           w == layout.items[k][2]
<1>1. /\ Rim!c0 = ByteAt(tape, p) /\ Rim!c1 = ByteAt(tape, p + 1)
      /\ Rim!word = Pair(ByteAt(tape, p), ByteAt(tape, p + 1)) /\ Rim!EOF = EOF
      /\ pos = p /\ core = layout.image[k] /\ addr = layout.at[k] /\ p \in Int /\ p + 0 = p
  BY Looked, Shape DEF RimAt
<1>2. k \in 1 .. Final(layout) /\ k + 1 \in 1 .. Final(layout) /\ layout.at[k] \in Nat
  BY Shape
<1>3. Rim!c0 \in Byte \union {EOF}
  BY <1>1, ReadAsPunched
<1>4. ASSUME Rim!End, tape # layout.tape PROVE RimReading'
  BY <1>1, <1>2, <1>4, RimReturns DEF Rim!End
<1>5. CASE PunchedField(layout, k) /\ ItemRead(k, 3, 1)
  <2>1. tape = layout.tape => Rim!c0 # EOF
    BY <1>1, <1>5 DEF ItemRead
  <2>2. CASE Rim!c0 = EOF
    BY <1>3, <1>4, <2>1, <2>2, RimTurnOf
  <2>3. CASE Rim!c0 # EOF
    <3>1. Type(Rim!c0) = 3 /\ Rim!c0 \in Byte
      BY <1>1, <1>3, <1>5, <2>3 DEF ItemRead
    <3>2. Rim!c0 >= 128
      BY <3>1 DEF Type, Byte
    <3>3. Rim!SkipBlank
      BY <1>3, <2>3, <3>2, RimTurnOf
    <3>4. /\ layout.place[k + 1] = p + 1
          /\ layout.at[k + 1] = layout.at[k] /\ layout.image[k + 1] = layout.image[k]
      BY <1>5 DEF PunchedField
    <3>5. /\ phase' = "frames" /\ pos' = layout.place[k + 1] /\ core' = layout.image[k + 1]
          /\ addr' = layout.at[k + 1]
      BY <1>1, <3>3, <3>4 DEF Rim!SkipBlank, Rim!Skip
    <3> QED
      BY <3>5, RimMovesOn
  <2> QED
    BY <2>2, <2>3
<1>6. ASSUME NEW type \in {0, 1}, ItemRead(k, type, 2), PairRead(k)
      PROVE  /\ tape = layout.tape => Rim!c0 # EOF /\ Rim!c1 # EOF
             /\ Rim!c0 # EOF => Type(Rim!c0) = type /\ Rim!c0 < 128
             /\ Rim!c0 # EOF /\ Rim!c1 # EOF => Rim!word = w
             /\ layout.place[k + 1] = p + 2
  <2>1. tape = layout.tape => Rim!c0 # EOF /\ Rim!c1 # EOF
    BY <1>1, <1>6 DEF ItemRead
  <2>2. ASSUME Rim!c0 # EOF PROVE Type(Rim!c0) = type /\ Rim!c0 < 128
    <3>1. Type(Rim!c0) = type /\ Rim!c0 \in Byte
      BY <1>1, <1>3, <1>6, <2>2 DEF ItemRead
    <3> QED
      BY <3>1 DEF Type, Byte
  <2> QED
    BY <1>1, <1>6, <2>1, <2>2 DEF ItemRead, PairRead
<1>7. ASSUME Rim!c0 = EOF \/ Rim!c1 = EOF, NEW type \in {0, 1}, ItemRead(k, type, 2), PairRead(k)
      PROVE  RimReading'
  BY <1>3, <1>4, <1>6, <1>7, RimTurnOf
<1>8. CASE PunchedOrigin(layout, k) /\ ItemRead(k, 1, 2) /\ PairRead(k) /\ Rim!c0 # EOF /\ Rim!c1 # EOF
  <2>1. Rim!word = w /\ layout.place[k + 1] = p + 2 /\ Rim!Address
    BY <1>3, <1>6, <1>8, RimTurnOf
  <2>2. layout.at[k + 1] = w /\ layout.image[k + 1] = layout.image[k]
    BY <1>8 DEF PunchedOrigin
  <2>3. /\ phase' = "frames" /\ pos' = layout.place[k + 1] /\ core' = layout.image[k + 1]
        /\ addr' = layout.at[k + 1]
    BY <1>1, <2>1, <2>2 DEF Rim!Address, Rim!Skip
  <2> QED
    BY <2>3, RimMovesOn
<1>9. CASE PunchedData(layout, k, format) /\ ItemRead(k, 0, 2) /\ PairRead(k) /\ Rim!c0 # EOF /\ Rim!c1 # EOF
  <2>1. Rim!word = w /\ layout.place[k + 1] = p + 2 /\ (Rim!Data \/ Rim!Outside)
    BY <1>3, <1>6, <1>9, RimTurnOf
  <2>2. /\ layout.items[k][1] = "word" /\ layout.at[k + 1] = layout.at[k]
        /\ layout.image[k + 1] = Stored(layout.image[k], layout.at[k], w)
    BY <1>9 DEF PunchedData
  <2>3. CASE Rim!Data
    <3>1. core' = Stored(core, addr, Rim!word)
      BY <2>3, Looked DEF Rim!Data
    <3>2. /\ phase' = "frames" /\ pos' = layout.place[k + 1] /\ core' = layout.image[k + 1]
          /\ addr' = layout.at[k + 1]
      BY <1>1, <2>1, <2>2, <2>3, <3>1 DEF Rim!Data, Rim!Skip
    <3> QED
      BY <3>2, RimMovesOn
  <2>4. CASE Rim!Outside
    <3>1. ~(layout.at[k] < CoreSize)
      BY <1>1, <1>2, <2>4, CoreSizeAssumption DEF Rim!Outside, Rim!InCore
    <3>2. ~Fits(layout) /\ Rim!Return(-1)
      BY <2>2, <2>4, <3>1 DEF Fits, Rim!Outside
    <3> QED
      BY <1>1, <1>2, <3>2, RimReturns
  <2> QED
    BY <2>1, <2>3, <2>4
<1> QED
  BY <1>5, <1>7, <1>8, <1>9, ItemCases

\* Behind the last item everything is blank, up to the end.
LEMMA RimAtTrailer ==
  ASSUME Rim!TypeOK, tape \in Seq(Byte), Good, format # "bin", Rim!Next, phase = "frames",
         RimTrailer, UNCHANGED layout
  PROVE  RimReading'
<1> DEFINE p == layout.place[Final(layout)]
<1>1. /\ Rim!c0 = ByteAt(tape, pos) /\ pos \in Int /\ p \in Nat /\ pos >= p
      /\ core = layout.image[Final(layout)] /\ Final(layout) \in 1 .. Final(layout)
  BY Looked, Shape DEF Rim!TypeOK, RimTrailer
<1>2. CASE Rim!c0 = EOF
  <2>1. Rim!Return(count) /\ count # -1
    BY <1>2, RimTurnOf DEF Rim!End, Rim!TypeOK
  <2> QED
    BY <1>1, <2>1, RimReturns
<1>3. CASE Rim!c0 # EOF
  <2>1. Rim!c0 \in Byte /\ pos \in DOMAIN layout.tape /\ Rim!c0 = layout.tape[pos]
    BY <1>1, <1>3, ReadAsPunched
  <2>2. Rim!c0 >= 128
    BY <1>1, <2>1 DEF Good, WellPunched, PunchedEnd
  <2>3. Rim!SkipBlank
    BY <1>3, <2>1, <2>2, RimTurnOf
  <2>4. phase' = "frames" /\ pos' = pos + 1 /\ UNCHANGED <<core, layout>>
    BY <2>3 DEF Rim!SkipBlank, Rim!Skip
  <2>5. RimTrailer'
    BY <1>1, <2>4 DEF RimTrailer, Final, Count
  <2> QED
    BY <2>4, <2>5 DEF RimReading
<1> QED
  BY <1>2, <1>3

\* load_rim stays where the layout says.
LEMMA RimStaysOnTape ==
  ASSUME Rim!TypeOK, tape \in Seq(Byte), Good, format # "bin", Rim!Next, RimReading,
         UNCHANGED layout
  PROVE  RimReading'
<1>1. phase # "returned"
  BY DEF Rim!Next, Rim!Seek, Rim!SkipPadding, Rim!NoData, Rim!SkipBlank, Rim!Address,
         Rim!Data, Rim!Outside, Rim!End, Rim!Turn
<1>2. CASE phase = "frames" /\ RimFresh /\ pos > layout.lead /\ pos = layout.place[1]
  <2>1. RimAt(1) /\ 1 \in 1 .. Count(layout)
    BY <1>2, Shape DEF RimFresh, RimAt, Good, WellPunched, PunchedStart
  <2> QED
    BY <1>2, <2>1, RimAtItem
<1> QED
  BY <1>1, <1>2, RimBeforeItems, RimAtItem, RimAtTrailer DEF RimReading
----------------------------------------------------------------------------
\* What is on the screen when paperdump has ended.
Screen(c) == {<<i, c[i]>> : i \in {a \in DOMAIN c : c[a] > 0 /\ c[a] < 4095}}
Shown ==
  exit # "" =>
    IF result = -1 THEN exit = "1" ELSE exit = "0" /\ printed = Screen(core)
Reading == Good => IF format = "bin" THEN BinReading ELSE RimReading
TapeInv == TypeOK /\ Reading /\ Shown

\* The type of the file, for either loader.
LEMMA TapeTyped ==
  ASSUME TypeOK
  PROVE  /\ tape \in Seq(Byte) /\ core \in [DOMAIN core -> CoreWord]
         /\ format = "bin" => Bin!TypeOK
         /\ format # "bin" => Rim!TypeOK
<1>1. Bin!Byte = Byte /\ Rim!Byte = Byte /\ Bin!CoreWord = CoreWord /\ Rim!CoreWord = CoreWord
  BY DEF Bin!Byte, Rim!Byte, Byte, Bin!CoreWord, Rim!CoreWord, CoreWord
<1> QED
  BY <1>1 DEF TypeOK, Bin!TypeOK, Rim!TypeOK

\* No loader writes on the tape.
LEMMA LoadLeavesTape ==
  ASSUME Load
  PROVE  UNCHANGED <<tape, format, exit, printed>> /\ phase # "returned"
<1>1. CASE format = "bin" /\ Bin!Next
  BY <1>1 DEF Load, Bin!Next, Bin!Seek, Bin!SkipPadding, Bin!SkipLeader, Bin!NoData, Bin!Origin,
     Bin!Instruction, Bin!Outside, Bin!Checksum, Bin!Trailer, Bin!Field, Bin!Premature, Bin!Turn,
     Bin!Return, Bin!Enter, Bin!SkipByte, Bin!FrameDone
<1>2. CASE format = "rim" /\ Rim!Next
  BY <1>2 DEF Load, Rim!Next, Rim!Seek, Rim!SkipPadding, Rim!NoData, Rim!SkipBlank, Rim!Address,
     Rim!Data, Rim!Outside, Rim!End, Rim!Turn, Rim!Return, Rim!Enter, Rim!Skip
<1> QED
  BY <1>1, <1>2 DEF Load

\* The loader stays on its tape, and what it has stored is what dump shows.
LEMMA TapeInvKept ==
  ASSUME TapeInv, [Next /\ UNCHANGED layout]_<<vars, layout>>
  PROVE  TapeInv'
<1>1. TypeOK'
  BY DumpTyped DEF TapeInv
<1>2. TypeOK /\ tape \in Seq(Byte) /\ (exit # "" => phase = "returned")
  BY TapeTyped DEF TapeInv, TypeOK
<1>3. CASE Load /\ UNCHANGED layout
  <2>1. UNCHANGED <<tape, format, exit, printed, layout>> /\ exit = ""
    BY <1>2, <1>3, LoadLeavesTape
  <2>2. Good' <=> Good
    BY <2>1 DEF Good
  <2>3. ASSUME Good, format = "bin" PROVE BinReading'
    BY <1>2, <1>3, <2>3, TapeTyped, BinStaysOnTape DEF Load, TapeInv, Reading
  <2>4. ASSUME Good, format # "bin" PROVE RimReading'
    BY <1>2, <1>3, <2>4, TapeTyped, RimStaysOnTape DEF Load, TapeInv, Reading
  <2>5. Reading'
    BY <2>1, <2>2, <2>3, <2>4 DEF Reading
  <2> QED
    BY <1>1, <2>1, <2>5 DEF TapeInv, Shown
<1>4. CASE Dump /\ UNCHANGED layout
  <2>1. UNCHANGED <<format, tape, pos, phase, addr, checksum, core, result, layout>>
    BY <1>4 DEF Dump, loader
  <2>2. Reading' <=> Reading
    BY <2>1 DEF Reading, Good, BinReading, Fresh, BinAt, Kept, Complete, RimReading, RimFresh, RimAt,
                RimTrailer, Final, Count, Fits
  <2>3. IF result = -1 THEN exit' = "1" ELSE exit' = "0" /\ printed' = Screen(core)
    BY <1>4 DEF Dump, Screen
  <2>4. Shown'
    BY <2>1, <2>3 DEF Shown
  <2> QED
    BY <1>1, <2>2, <2>4 DEF TapeInv
<1>5. CASE UNCHANGED <<vars, layout>>
  <2>1. Reading' <=> Reading
    BY <1>5 DEF vars, loader, Reading, Good, BinReading, Fresh, BinAt, Kept, Complete, RimReading,
                RimFresh, RimAt, RimTrailer, Final, Count, Fits
  <2>2. Shown' <=> Shown
    BY <1>5 DEF vars, loader, Shown
  <2> QED
    BY <1>1, <2>1, <2>2 DEF TapeInv
<1> QED
  BY <1>3, <1>4, <1>5 DEF Next, Exited

\* The loader starts before the first item.
LEMMA TapeInvAtStart == TapeInit => TapeInv
<1> SUFFICES ASSUME TapeInit PROVE TapeInv
  OBVIOUS
<1>1. TypeOK /\ Shown
  BY DumpTypedAtStart DEF TapeInit, Init, Shown
<1>2. format = "bin" => BinReading
  BY DEF TapeInit, Init, Bin!Init, Bin!Nothing, Nothing, BinReading, Fresh, Rim!Init
<1>3. format # "bin" => RimReading
  BY DEF TapeInit, Init, Rim!Init, Rim!Nothing, Nothing, RimReading, RimFresh
<1> QED
  BY <1>1, <1>2, <1>3 DEF TapeInv, Reading

\* On a part of a well punched tape core is always that of some place of it.
LEMMA SomePlace ==
  ASSUME TapeInv, Good
  PROVE  Kept
<1>1. 1 \in 1 .. Final(layout) /\ layout.image[1] = Nothing /\ Final(layout) \in 1 .. Final(layout)
      /\ \A k \in 1 .. Count(layout) : k \in 1 .. Final(layout)
  BY Shape DEF Good, WellPunched, PunchedStart
<1>2. core = Nothing => Kept
  BY <1>1 DEF Kept
<1>3. CASE format = "bin"
  BY <1>2, <1>3 DEF TapeInv, Reading, BinReading, Fresh, BinAt, Kept
<1>4. CASE format # "bin"
  BY <1>1, <1>2, <1>4 DEF TapeInv, Reading, RimReading, RimFresh, RimAt, RimTrailer, Kept
<1> QED
  BY <1>3, <1>4

\* The test that dump makes leaves out two words, and no others.
LEMMA ShownWord == \A w \in CoreWord : (w > 0 /\ w < 4095) <=> w \notin {0, \o7777}
BY DEF CoreWord

\* So the screen shows every other cell.
LEMMA ScreenShows ==
  ASSUME NEW f, f \in [DOMAIN f -> CoreWord]
  PROVE  Screen(f) = {<<a, f[a]>> : a \in {b \in DOMAIN f : f[b] \notin {0, \o7777}}}
<1> DEFINE P(w) == w > 0 /\ w < 4095
           Q(w) == w \notin {0, \o7777}
<1>1. \A w \in CoreWord : P(w) <=> Q(w)
  BY ShownWord
<1>2. \A b \in DOMAIN f : f[b] \in CoreWord
  OBVIOUS
<1>3. Screen(f) = {<<a, f[a]>> : a \in {b \in DOMAIN f : P(f[b])}}
  BY DEF Screen
<1> HIDE DEF P, Q
<1>4. {b \in DOMAIN f : P(f[b])} = {b \in DOMAIN f : Q(f[b])}
  BY <1>1, <1>2
<1> QED
  BY <1>3, <1>4, Zenon DEF Q

\* A whole tape has been loaded, and what was loaded is shown.
LEMMA AllShown ==
  ASSUME TapeInv, Good, tape = layout.tape, Fits(layout), exit # "", pos > 0
  PROVE  LET all == layout.image[Final(layout)]
         IN exit = "0" /\ printed = {<<a, all[a]>> : a \in {b \in DOMAIN all : all[b] \notin {0, \o7777}}}
<1> DEFINE all == layout.image[Final(layout)]
<1>1. phase = "returned"
  BY DEF TapeInv, TypeOK
<1>2. result # -1 /\ core = all
  BY <1>1 DEF TapeInv, Reading, BinReading, RimReading, Complete
<1>3. core \in [DOMAIN core -> CoreWord]
  BY TapeTyped DEF TapeInv
<1>4. exit = "0" /\ printed = Screen(core)
  BY <1>2 DEF TapeInv, Shown
<1> HIDE DEF all
<1> QED
  BY <1>2, <1>3, <1>4, ScreenShows DEF all

\* From any tape that is well punched, of any length and in either format, or from one that
\* breaks off anywhere, core never holds anything but what the items up to some place say.
THEOREM CutTapeLeavesPart == TapeSpec => []CoreIsAsMeant
<1>1. TapeInv => CoreIsAsMeant
  BY SomePlace DEF CoreIsAsMeant, Good, Kept
<1> QED
  BY <1>1, TapeInvAtStart, TapeInvKept, PTL DEF TapeSpec

\* Any tape that is well punched and meant for this core is loaded without complaint, and
\* each of its words that paperdump does not take for an empty cell is on the screen.
THEOREM WholeTapeDumped == TapeSpec => []WholeTapeIsDumped
<1>1. IsPart(tape, tape)
  BY DEF IsPart
<1>2. TapeInv => WholeTapeIsDumped
  BY <1>1, AllShown DEF WholeTapeIsDumped, Good
<1> QED
  BY <1>2, TapeInvAtStart, TapeInvKept, PTL DEF TapeSpec
=============================================================================
