------------------------------ MODULE CpuProofs -----------------------------
(***************************************************************************)
(* What every accessor of cpu.c, and the I/O bus built from them, keeps of *)
(* a processor state.  An instruction is a composition of accessors, so    *)
(* the proofs about instructions are compositions of these lemmas.         *)
(***************************************************************************)
EXTENDS Iob, TLAPS

(***************************************************************************)
(* The inductive invariant, for a given mode: registers and core have      *)
(* their types, the LINC counter is an offset in a field, and a pending    *)
(* field change has a field to go to.                                      *)
(***************************************************************************)
ModeNames == {"linc", "pdp8"}
OK(c, mode) ==
  /\ IsCpu(c)
  /\ "8MODE" \in c.flags <=> mode = "pdp8"
  /\ mode = "linc" => c.pc < \o2000
  /\ "LIF" \in c.flags => c.ifb # NoField

\* A word is an integer between 0 and 07777.
LEMMA WordBounds == ASSUME NEW w \in Word PROVE w \in Int /\ 0 <= w /\ w <= \o7777
BY DEF Word

\* An address is an integer between 0 and 077777.
LEMMA AddressBounds == ASSUME NEW n \in Int, 0 <= n, n <= \o77777 PROVE n \in Address
<1> DEFINE last == CPU_CORE_SIZE - 1
<1>1. last = \o77777
  BY SMT DEF CPU_CORE_SIZE
<1>2. last \in Int /\ n <= last
  BY <1>1
<1> HIDE DEF last
<1>3. n \in 0 .. last
  BY <1>2
<1> QED
  BY <1>3 DEF Address, last

\* The range test of cpu_read and cpu_write lets every address through.
LEMMA AddressInCore == ASSUME NEW n \in Address PROVE ~(n > CPU_CORE_SIZE)
BY DEF Address, CPU_CORE_SIZE

\* A quotient and a remainder are the only ones.
LEMMA Quotient ==
  ASSUME NEW b \in Int, b > 0, NEW q \in Int, NEW r \in Int, 0 <= r, r < b
  PROVE  /\ (b * q + r) \div b = q /\ (b * q + r) % b = r
         /\ b * q + r >= 0 => q >= 0
OBVIOUS

\* The registers, by name.
LEMMA RegisterNames ==
  Registers = {"ac", "l", "mq", "pc", "ir", "ifr", "ifb", "dfr", "sfr", "relays", "flags",
               "esf", "ls", "rs", "ss", "kf", "pf", "key"}
BY DEF Registers, RegisterType

\* The types of the registers an instruction reads.
LEMMA Types ==
  ASSUME NEW c, IsCpu(c)
  PROVE  /\ c.ac \in AcValue /\ c.l \in {0, 1} /\ c.mq \in Word
         /\ c.pc \in Word /\ c.ir \in Word /\ c.ifr \in Field /\ c.dfr \in Field
         /\ c.ifb \in (0 .. \o417) \union {NoField} /\ c.relays \in 0 .. \o77
         /\ c.flags \subseteq FlagNames /\ c.esf \in 0 .. \o77
         /\ c.ls \in Word /\ c.rs \in Word /\ c.ss \in Word
         /\ c.kf \in {0, 1} /\ c.pf \in {0, 1} /\ c.key \in 0 .. \o377
         /\ IsCore(c.core)
BY RegisterNames DEF IsCpu, RegisterType

\* Every register an instruction computes with holds an integer.
LEMMA Integral ==
  ASSUME NEW c, IsCpu(c)
  PROVE  /\ c.ac \in Int /\ c.l \in Int /\ c.mq \in Int /\ c.pc \in Int /\ c.ir \in Int
         /\ c.ifr \in Int /\ c.dfr \in Int /\ c.ifb \in Int /\ c.relays \in Int
         /\ c.esf \in Int /\ c.ls \in Int /\ c.rs \in Int /\ c.ss \in Int
<1>1. AcValue \subseteq Int
  BY DEF AcValue, SamNonPositive, Word
<1>2. Word \subseteq Int /\ Field \subseteq Int /\ NoField \in Int
  BY DEF Word, Field, NoField
<1>3. c.ac \in Int /\ c.mq \in Int /\ c.pc \in Int /\ c.ir \in Int
  BY <1>1, <1>2, Types
<1>4. c.ifr \in Int /\ c.dfr \in Int /\ c.ls \in Int /\ c.rs \in Int /\ c.ss \in Int
  BY <1>2, Types
<1>5. c.ifb \in Int /\ c.l \in Int /\ c.relays \in Int /\ c.esf \in Int
  BY <1>2, Types
<1> QED
  BY <1>3, <1>4, <1>5

\* Storing a value of its type in a register keeps the state a processor state.
LEMMA SetRegister ==
  ASSUME NEW c, IsCpu(c), NEW f \in Registers, NEW v \in RegisterType[f]
  PROVE  /\ IsCpu([c EXCEPT ![f] = v])
         /\ [c EXCEPT ![f] = v][f] = v
         /\ \A g \in Registers \ {f} : [c EXCEPT ![f] = v][g] = c[g]
<1> DEFINE d == [g \in Registers \union {"core", "out"} |-> IF g = f THEN v ELSE c[g]]
<1>1. [c EXCEPT ![f] = v] = d
  BY DEF IsCpu
<1>2. f # "core"
  BY RegisterNames
<1>3. IsCpu(d)
  BY <1>2 DEF IsCpu
<1>4. d[f] = v /\ \A g \in Registers \ {f} : d[g] = c[g]
  OBVIOUS
<1> HIDE DEF d
<1> QED
  BY <1>1, <1>3, <1>4

\* A register that is neither the counter, a flag nor the field buffer does not matter to OK.
LEMMA SetPlain ==
  ASSUME NEW c, NEW m \in ModeNames, OK(c, m),
         NEW f \in Registers \ {"pc", "flags", "ifb"}, NEW v \in RegisterType[f]
  PROVE  OK([c EXCEPT ![f] = v], m)
<1> DEFINE d == [c EXCEPT ![f] = v]
<1>0. IsCpu(c) /\ {"pc", "flags", "ifb"} \subseteq Registers \ {f}
  BY RegisterNames DEF OK
<1>1. IsCpu(d) /\ \A g \in {"pc", "flags", "ifb"} : d[g] = c[g]
  BY <1>0, SetRegister
<1>2. d.pc = c.pc /\ d.flags = c.flags /\ d.ifb = c.ifb
  BY <1>1
<1> HIDE DEF d
<1>3. OK(d, m)
  BY <1>1, <1>2 DEF OK
<1> QED
  BY <1>3 DEF d

\* The trace of callbacks does not matter to OK.
LEMMA SetOut ==
  ASSUME NEW c, NEW m \in ModeNames, OK(c, m), NEW v
  PROVE  OK([c EXCEPT !.out = v], m)
<1> DEFINE d == [g \in Registers \union {"core", "out"} |-> IF g = "out" THEN v ELSE c[g]]
<1>1. [c EXCEPT !.out = v] = d
  BY DEF IsCpu, OK
<1>2. IsCpu(d)
  BY RegisterNames DEF IsCpu, OK
<1>3. d.pc = c.pc /\ d.flags = c.flags /\ d.ifb = c.ifb
  BY RegisterNames
<1> HIDE DEF d
<1> QED
  BY <1>1, <1>2, <1>3 DEF OK
----------------------------------------------------------------------------
\* The setters of cpu.c that mask what they store.
LEMMA SetAcOK ==
  ASSUME NEW c, NEW m \in ModeNames, OK(c, m), NEW n \in Int
  PROVE  OK(SetAc(c, n), m)
<1>1. n % \o10000 \in RegisterType["ac"]
  BY DEF RegisterType, AcValue, Word
<1> QED
  BY <1>1, SetPlain, RegisterNames DEF SetAc

\* cpu_set_mq.
LEMMA SetMqOK ==
  ASSUME NEW c, NEW m \in ModeNames, OK(c, m), NEW n \in Int
  PROVE  OK(SetMq(c, n), m)
<1>1. n % \o10000 \in RegisterType["mq"]
  BY DEF RegisterType, Word
<1> QED
  BY <1>1, SetPlain, RegisterNames DEF SetMq

\* cpu_set_l.
LEMMA SetLOK ==
  ASSUME NEW c, NEW m \in ModeNames, OK(c, m), NEW n
  PROVE  OK(SetL(c, n), m)
<1>1. (IF n # 0 THEN 1 ELSE 0) \in RegisterType["l"]
  BY DEF RegisterType
<1> QED
  BY <1>1, SetPlain, RegisterNames DEF SetL

\* cpu_set_relays.
LEMMA SetRelaysOK ==
  ASSUME NEW c, NEW m \in ModeNames, OK(c, m), NEW n \in Int
  PROVE  OK(SetRelays(c, n), m)
<1>1. n % \o100 \in RegisterType["relays"]
  BY DEF RegisterType
<1> QED
  BY <1>1, SetPlain, RegisterNames DEF SetRelays

\* cpu_set_ifr masks the field number, whatever the buffer held.
LEMMA SetIfrOK ==
  ASSUME NEW c, NEW m \in ModeNames, OK(c, m), NEW n \in Int
  PROVE  OK(SetIfr(c, n), m)
<1>1. n % \o40 \in RegisterType["ifr"]
  BY DEF RegisterType, Field
<1> QED
  BY <1>1, SetPlain, RegisterNames DEF SetIfr

\* cpu_set_dfr.
LEMMA SetDfrOK ==
  ASSUME NEW c, NEW m \in ModeNames, OK(c, m), NEW n \in Int
  PROVE  OK(SetDfr(c, n), m)
<1>1. n % \o40 \in RegisterType["dfr"]
  BY DEF RegisterType, Field
<1> QED
  BY <1>1, SetPlain, RegisterNames DEF SetDfr

\* cpu_set_esf keeps five of the six bits.
LEMMA SetEsfOK ==
  ASSUME NEW c, NEW m \in ModeNames, OK(c, m), NEW n \in Int
  PROVE  OK(SetEsf(c, n), m)
<1>1. ((n \div 2) % \o40) * 2 \in RegisterType["esf"]
  BY DEF RegisterType
<1> QED
  BY <1>1, SetPlain, RegisterNames DEF SetEsf

\* cpu_io_preset.
LEMMA IoPresetOK ==
  ASSUME NEW c, NEW m \in ModeNames, OK(c, m)
  PROVE  OK(IoPreset(c), m)
<1>1. CPU_ESF_CHAR_SIZE \in RegisterType["esf"]
  BY DEF RegisterType, CPU_ESF_CHAR_SIZE
<1> QED
  BY <1>1, SetPlain, RegisterNames DEF IoPreset

\* The instruction register takes any word.
LEMMA SetIrOK ==
  ASSUME NEW c, NEW m \in ModeNames, OK(c, m), NEW w \in Word
  PROVE  OK([c EXCEPT !.ir = w], m)
<1>1. w \in RegisterType["ir"]
  BY DEF RegisterType
<1> QED
  BY <1>1, SetPlain, RegisterNames

\* The counter: in LINC mode it must stay below 1024.
LEMMA SetCounter ==
  ASSUME NEW c, NEW m \in ModeNames, OK(c, m), NEW p \in Word, m = "pdp8" \/ p < \o2000
  PROVE  OK([c EXCEPT !.pc = p], m)
<1> DEFINE d == [c EXCEPT !.pc = p]
<1>1. p \in RegisterType["pc"]
  BY DEF RegisterType
<1>2. /\ IsCpu(d) /\ d["pc"] = p
      /\ \A g \in {"flags", "ifb"} : d[g] = c[g]
  BY <1>1, SetRegister, RegisterNames DEF OK
<1>3. d.pc = p /\ d.flags = c.flags /\ d.ifb = c.ifb
  BY <1>2
<1> HIDE DEF d
<1>4. OK(d, m)
  BY <1>2, <1>3 DEF OK
<1> QED
  BY <1>4 DEF d

\* cpu_set_pc masks to 12 bits: in LINC mode the caller must have masked to ten.
LEMMA SetPcOK ==
  ASSUME NEW c, NEW m \in ModeNames, OK(c, m), NEW n \in Int, m = "pdp8" \/ (0 <= n /\ n < \o2000)
  PROVE  OK(SetPc(c, n), m)
<1>1. n % \o10000 \in Word
  BY DEF Word
<1>2. 0 <= n /\ n < \o2000 => n % \o10000 < \o2000
  OBVIOUS
<1> QED
  BY <1>1, <1>2, SetCounter DEF SetPc

\* The flags: leaving 8MODE alone keeps the mode, and LIF needs a field in the buffer.
LEMMA SetFlags ==
  ASSUME NEW c, IsCpu(c), NEW fs \in SUBSET FlagNames
  PROVE  LET d == [c EXCEPT !.flags = fs]
         IN IsCpu(d) /\ d.flags = fs /\ d.pc = c.pc /\ d.ifb = c.ifb /\ d.ifr = c.ifr
<1> DEFINE d == [c EXCEPT !.flags = fs]
<1>1. fs \in RegisterType["flags"]
  BY DEF RegisterType
<1>2. /\ IsCpu(d) /\ d["flags"] = fs
      /\ \A g \in {"pc", "ifb", "ifr"} : d[g] = c[g]
  BY <1>1, SetRegister, RegisterNames
<1> QED
  BY <1>2

\* A set of flags with the same mode bit.
LEMMA SetFlagsOK ==
  ASSUME NEW c, NEW m \in ModeNames, OK(c, m), NEW fs \in SUBSET FlagNames,
         "8MODE" \in fs <=> "8MODE" \in c.flags,
         "LIF" \in fs => c.ifb # NoField
  PROVE  OK([c EXCEPT !.flags = fs], m)
BY SetFlags DEF OK

\* cpu_set_flag, for the flags that no invariant depends on.
LEMMA SetFlagOK ==
  ASSUME NEW c, NEW m \in ModeNames, OK(c, m), NEW f \in FlagNames \ {"8MODE", "LIF"}
  PROVE  OK(SetFlag(c, f), m)
<1>1. c.flags \union {f} \in SUBSET FlagNames
  BY Types DEF OK
<1> QED
  BY <1>1, SetFlagsOK DEF SetFlag, OK

\* cpu_clear_flag: clearing LIF forgets a request, which is harmless.
LEMMA ClearFlagOK ==
  ASSUME NEW c, NEW m \in ModeNames, OK(c, m), NEW f, f # "8MODE"
  PROVE  OK(ClearFlag(c, f), m)
<1>1. c.flags \ {f} \in SUBSET FlagNames
  BY Types DEF OK
<1>2. /\ "8MODE" \in c.flags \ {f} <=> "8MODE" \in c.flags
      /\ "LIF" \in c.flags \ {f} => c.ifb # NoField
  BY DEF OK
<1> QED
  BY <1>1, <1>2, SetFlagsOK DEF ClearFlag
----------------------------------------------------------------------------
\* Core memory: inside the core a write stores a word, and every read is one.
LEMMA CpuReadWord ==
  ASSUME NEW c, IsCpu(c), NEW a
  PROVE  CpuRead(c, a) \in Word
<1>1. IsCore(c.core) /\ 0 \in Word
  BY DEF IsCpu, Word
<1> QED
  BY <1>1 DEF CpuRead, Cell, IsCore

\* cpu_write: an address inside core, not the one just past it that its range test lets through.
LEMMA CpuWriteOK ==
  ASSUME NEW c, NEW m \in ModeNames, OK(c, m), NEW a \in Address, NEW n \in Int
  PROVE  OK(CpuWrite(c, a, n), m)
<1> DEFINE core == [x \in DOMAIN c.core \union {a} |-> IF x = a THEN n % \o10000 ELSE c.core[x]]
           d == [g \in Registers \union {"core", "out"} |-> IF g = "core" THEN core ELSE c[g]]
<1>1. ~(a > CPU_CORE_SIZE)
  BY AddressInCore
<1>2. CpuWrite(c, a, n) = d
  BY <1>1 DEF CpuWrite, OK, IsCpu
<1>3. IsCore(core)
  <2>1. n % \o10000 \in Word
    BY DEF Word
  <2>2. IsCore(c.core)
    BY Types DEF OK
  <2> QED
    BY <2>1, <2>2 DEF IsCore
<1>4. d.core = core /\ \A f \in Registers : d[f] = c[f]
  BY RegisterNames
<1>5. d.pc = c.pc /\ d.flags = c.flags /\ d.ifb = c.ifb
  BY <1>4, RegisterNames
<1>6. IsCpu(d)
  <2>1. d = [g \in Registers \union {"core", "out"} |-> d[g]]
    OBVIOUS
  <2> HIDE DEF d, core
  <2> QED
    BY <2>1, <1>3, <1>4 DEF IsCpu, OK
<1> HIDE DEF d, core
<1> QED
  BY <1>2, <1>5, <1>6 DEF OK
----------------------------------------------------------------------------
(***************************************************************************)
(* Frames.  From b to c the fields and the key flag are as they were, and  *)
(* only the words of R may have changed.                                   *)
(***************************************************************************)
Quiet == {"ifr", "dfr", "kf"}
Calm(b, c, R) ==
  /\ c.ifr = b.ifr /\ c.dfr = b.dfr /\ c.kf = b.kf
  /\ \A a : Cell(c.core, a) # Cell(b.core, a) => a \in R

\* Storing in a register leaves core alone, and every register but that one.
LEMMA RegisterFrame ==
  ASSUME NEW c, IsCpu(c), NEW f \in Registers, NEW v
  PROVE  /\ [c EXCEPT ![f] = v].core = c.core
         /\ [c EXCEPT ![f] = v][f] = v
         /\ \A g \in Registers \ {f} : [c EXCEPT ![f] = v][g] = c[g]
<1> DEFINE d == [g \in Registers \union {"core", "out"} |-> IF g = f THEN v ELSE c[g]]
<1>1. [c EXCEPT ![f] = v] = d
  BY DEF IsCpu
<1>2. d.core = c.core
  BY RegisterNames
<1>3. d[f] = v /\ \A g \in Registers \ {f} : d[g] = c[g]
  OBVIOUS
<1> HIDE DEF d
<1> QED
  BY <1>1, <1>2, <1>3

\* The same with the registers by name.
LEMMA OtherRegisters ==
  ASSUME NEW c, IsCpu(c), NEW f \in Registers, NEW v
  PROVE  LET d == [c EXCEPT ![f] = v]
         IN /\ d.core = c.core /\ d[f] = v
            /\ f # "ac" => d.ac = c.ac
            /\ f # "pc" => d.pc = c.pc
            /\ f # "ir" => d.ir = c.ir
            /\ f # "ifr" => d.ifr = c.ifr
            /\ f # "dfr" => d.dfr = c.dfr
            /\ f # "ifb" => d.ifb = c.ifb
            /\ f # "sfr" => d.sfr = c.sfr
            /\ f # "flags" => d.flags = c.flags
            /\ f # "kf" => d.kf = c.kf
            /\ f # "key" => d.key = c.key
<1> DEFINE d == [c EXCEPT ![f] = v]
<1>1. d.core = c.core /\ d[f] = v /\ \A g \in Registers \ {f} : d[g] = c[g]
  BY RegisterFrame
<1>2. \A g \in {"ac", "pc", "ir", "ifr", "dfr", "ifb", "sfr", "flags", "kf", "key"} :
        f # g => d[g] = c[g]
  BY <1>1, RegisterNames
<1> HIDE DEF d
<1>3. /\ d.core = c.core /\ d[f] = v
      /\ f # "ac" => d.ac = c.ac
      /\ f # "pc" => d.pc = c.pc
      /\ f # "ir" => d.ir = c.ir
      /\ f # "ifr" => d.ifr = c.ifr
      /\ f # "dfr" => d.dfr = c.dfr
      /\ f # "ifb" => d.ifb = c.ifb
      /\ f # "sfr" => d.sfr = c.sfr
      /\ f # "flags" => d.flags = c.flags
      /\ f # "kf" => d.kf = c.kf
      /\ f # "key" => d.key = c.key
  BY <1>1, <1>2
<1> QED
  BY <1>3 DEF d

\* Setting the counter, register by register.
LEMMA PcFrame ==
  ASSUME NEW c, IsCpu(c), NEW n
  PROVE  LET d == SetPc(c, n)
         IN /\ d.core = c.core /\ d.pc = n % \o10000
            /\ d.ac = c.ac /\ d.ir = c.ir /\ d.ifr = c.ifr /\ d.dfr = c.dfr /\ d.ifb = c.ifb
            /\ d.sfr = c.sfr /\ d.flags = c.flags /\ d.kf = c.kf /\ d.key = c.key
<1> DEFINE v == n % \o10000
           d == [c EXCEPT !["pc"] = v]
<1>1. SetPc(c, n) = d
  BY DEF SetPc
<1> HIDE DEF v
<1>2. /\ d.core = c.core /\ d["pc"] = v
      /\ d.ac = c.ac /\ d.ir = c.ir /\ d.ifr = c.ifr /\ d.dfr = c.dfr /\ d.ifb = c.ifb
      /\ d.sfr = c.sfr /\ d.flags = c.flags /\ d.kf = c.kf /\ d.key = c.key
  BY OtherRegisters, RegisterNames
<1> HIDE DEF d
<1> QED
  BY <1>1, <1>2 DEF v

\* Setting AC likewise.
LEMMA AcFrame ==
  ASSUME NEW c, IsCpu(c), NEW n
  PROVE  LET d == SetAc(c, n)
         IN /\ d.core = c.core /\ d.ac = n % \o10000 /\ d.pc = c.pc /\ d.flags = c.flags
            /\ d.ifr = c.ifr /\ d.dfr = c.dfr
<1> DEFINE v == n % \o10000
           d == [c EXCEPT !["ac"] = v]
<1>1. SetAc(c, n) = d
  BY DEF SetAc
<1> HIDE DEF v
<1>2. /\ d.core = c.core /\ d["ac"] = v /\ d.pc = c.pc /\ d.flags = c.flags
      /\ d.ifr = c.ifr /\ d.dfr = c.dfr
  BY OtherRegisters, RegisterNames
<1> HIDE DEF d
<1> QED
  BY <1>1, <1>2 DEF v

\* Setting the link.
LEMMA LinkFrame ==
  ASSUME NEW c, IsCpu(c), NEW n
  PROVE  LET d == SetL(c, n)
         IN /\ d.core = c.core /\ d.ac = c.ac /\ d.pc = c.pc /\ d.flags = c.flags
            /\ d.ifr = c.ifr /\ d.dfr = c.dfr
<1> DEFINE v == IF n # 0 THEN 1 ELSE 0
           d == [c EXCEPT !["l"] = v]
<1>1. SetL(c, n) = d
  BY DEF SetL
<1> HIDE DEF v
<1>2. /\ d.core = c.core /\ d.ac = c.ac /\ d.pc = c.pc /\ d.flags = c.flags
      /\ d.ifr = c.ifr /\ d.dfr = c.dfr
  BY OtherRegisters, RegisterNames
<1> HIDE DEF d
<1> QED
  BY <1>1, <1>2

\* Setting the flags.
LEMMA FlagsFrame ==
  ASSUME NEW c, IsCpu(c), NEW fs
  PROVE  LET d == [c EXCEPT !.flags = fs]
         IN /\ d.core = c.core /\ d.flags = fs /\ d.ifr = c.ifr /\ d.dfr = c.dfr /\ d.ifb = c.ifb
            /\ d.sfr = c.sfr /\ d.ir = c.ir /\ d.pc = c.pc /\ d.kf = c.kf /\ d.ac = c.ac
<1> DEFINE d == [c EXCEPT !["flags"] = fs]
<1>1. [c EXCEPT !.flags = fs] = d
  OBVIOUS
<1>2. /\ d.core = c.core /\ d["flags"] = fs /\ d.ifr = c.ifr /\ d.dfr = c.dfr /\ d.ifb = c.ifb
      /\ d.sfr = c.sfr /\ d.ir = c.ir /\ d.pc = c.pc /\ d.kf = c.kf /\ d.ac = c.ac
  BY OtherRegisters, RegisterNames
<1> HIDE DEF d
<1> QED
  BY <1>1, <1>2

\* A register that is none of the quiet ones.
LEMMA CalmRegister ==
  ASSUME NEW b, NEW R, NEW c, IsCpu(c), Calm(b, c, R), NEW f \in Registers \ Quiet, NEW v
  PROVE  Calm(b, [c EXCEPT ![f] = v], R)
<1> DEFINE d == [c EXCEPT ![f] = v]
<1>1. d.core = c.core
  BY RegisterFrame
<1>2. \A g \in Quiet : d[g] = c[g]
  BY RegisterFrame, RegisterNames DEF Quiet
<1>3. d.ifr = c.ifr /\ d.dfr = c.dfr /\ d.kf = c.kf
  BY <1>2 DEF Quiet
<1> HIDE DEF d
<1>4. Calm(b, d, R)
  BY <1>1, <1>3 DEF Calm
<1> QED
  BY <1>4 DEF d

\* The trace of callbacks.
LEMMA OutFrame ==
  ASSUME NEW c, IsCpu(c), NEW v
  PROVE  /\ [c EXCEPT !.out = v].core = c.core
         /\ \A g \in Registers : [c EXCEPT !.out = v][g] = c[g]
BY RegisterNames DEF IsCpu

\* The trace does not matter to a frame.
LEMMA CalmOut ==
  ASSUME NEW b, NEW R, NEW c, IsCpu(c), Calm(b, c, R), NEW v
  PROVE  Calm(b, [c EXCEPT !.out = v], R)
<1> DEFINE d == [c EXCEPT !.out = v]
<1>1. d.core = c.core /\ \A g \in {"ifr", "dfr", "kf"} : d[g] = c[g]
  BY OutFrame, RegisterNames
<1>2. d.ifr = c.ifr /\ d.dfr = c.dfr /\ d.kf = c.kf
  BY <1>1
<1> HIDE DEF d
<1>3. Calm(b, d, R)
  BY <1>1, <1>2 DEF Calm
<1> QED
  BY <1>3 DEF d

\* cpu_write: the word at its address is what was stored, masked, and the others are kept.
LEMMA WriteFrame ==
  ASSUME NEW c, IsCpu(c), NEW ma \in Address, NEW n
  PROVE  /\ \A g \in Registers \union {"out"} : CpuWrite(c, ma, n)[g] = c[g]
         /\ CpuRead(CpuWrite(c, ma, n), ma) = n % \o10000
         /\ Cell(CpuWrite(c, ma, n).core, ma) = n % \o10000
         /\ \A a : a # ma => Cell(CpuWrite(c, ma, n).core, a) = Cell(c.core, a)
<1> DEFINE core == [x \in DOMAIN c.core \union {ma} |-> IF x = ma THEN n % \o10000 ELSE c.core[x]]
           d == [g \in Registers \union {"core", "out"} |-> IF g = "core" THEN core ELSE c[g]]
<1>1. ~(ma > CPU_CORE_SIZE)
  BY AddressInCore
<1>2. CpuWrite(c, ma, n) = d
  BY <1>1 DEF CpuWrite, IsCpu
<1>3. d.core = core /\ \A g \in Registers \union {"out"} : d[g] = c[g]
  BY RegisterNames
<1>4. Cell(core, ma) = n % \o10000 /\ \A a : a # ma => Cell(core, a) = Cell(c.core, a)
  BY DEF Cell
<1> HIDE DEF core, d
<1> QED
  BY <1>1, <1>2, <1>3, <1>4 DEF CpuRead

\* A write inside R.
LEMMA CalmWrite ==
  ASSUME NEW b, NEW R, NEW c, IsCpu(c), Calm(b, c, R), NEW ma \in Address, ma \in R, NEW n
  PROVE  Calm(b, CpuWrite(c, ma, n), R)
<1> DEFINE d == CpuWrite(c, ma, n)
<1>1. /\ \A g \in Registers \union {"out"} : d[g] = c[g]
      /\ \A a : a # ma => Cell(d.core, a) = Cell(c.core, a)
  BY WriteFrame
<1> HIDE DEF d
<1>2. d.ifr = c.ifr /\ d.dfr = c.dfr /\ d.kf = c.kf
  BY <1>1, RegisterNames
<1>3. Calm(b, d, R)
  BY <1>1, <1>2 DEF Calm
<1> QED
  BY <1>3 DEF d

\* The setters that leave the fields and the key flag alone.
LEMMA CalmSetters ==
  ASSUME NEW b, NEW R, NEW c, IsCpu(c), Calm(b, c, R)
  PROVE  /\ \A n : Calm(b, SetAc(c, n), R) /\ Calm(b, SetPc(c, n), R) /\ Calm(b, SetMq(c, n), R)
         /\ \A n : Calm(b, SetL(c, n), R) /\ Calm(b, SetRelays(c, n), R) /\ Calm(b, SetEsf(c, n), R)
         /\ \A f : Calm(b, SetFlag(c, f), R) /\ Calm(b, ClearFlag(c, f), R)
         /\ Calm(b, IoPreset(c), R)
         /\ Calm(b, LincIncPc(c), R) /\ Calm(b, Pdp8IncPc(c), R)
         /\ \A v : Calm(b, [c EXCEPT !.out = v], R)
<1>1. {"ac", "pc", "mq", "l", "relays", "esf", "flags"} \subseteq Registers \ Quiet
  BY RegisterNames DEF Quiet
<1>2. \A n : Calm(b, SetAc(c, n), R) /\ Calm(b, SetPc(c, n), R) /\ Calm(b, SetMq(c, n), R)
  BY <1>1, CalmRegister DEF SetAc, SetPc, SetMq
<1>3. \A n : Calm(b, SetL(c, n), R) /\ Calm(b, SetRelays(c, n), R) /\ Calm(b, SetEsf(c, n), R)
  BY <1>1, CalmRegister DEF SetL, SetRelays, SetEsf
<1>4. \A f : Calm(b, SetFlag(c, f), R) /\ Calm(b, ClearFlag(c, f), R)
  BY <1>1, CalmRegister DEF SetFlag, ClearFlag
<1>5. Calm(b, IoPreset(c), R)
  BY <1>1, CalmRegister DEF IoPreset
<1>6. Calm(b, LincIncPc(c), R) /\ Calm(b, Pdp8IncPc(c), R)
  BY <1>2 DEF LincIncPc, Pdp8IncPc
<1>7. \A v : Calm(b, [c EXCEPT !.out = v], R)
  BY CalmOut
<1> QED
  BY <1>2, <1>3, <1>4, <1>5, <1>6, <1>7
----------------------------------------------------------------------------
\* The arithmetic the proofs need: results are integers, indexes stay in their ten bits.
LEMMA PowerPositive == ASSUME NEW k \in 0 .. 24 PROVE Pow2(k) \in Nat \ {0}
BY DEF Pow2, Powers

\* A word put together from bits, and one from its four high bits.
LEMMA FromBitsBound ==
  ASSUME NEW S
  PROVE  /\ FromBits(S) \in Int
         /\ S \subseteq 8 .. 11 => FromBits(S) \in 0 .. \o7400
<1>1. \A k \in 0 .. 11 : Weight(S, k) \in {0, Pow2(k)} /\ (k \notin S => Weight(S, k) = 0)
  BY DEF Weight
<1>2. \A k \in 0 .. 11 : Pow2(k) \in Nat
  BY PowerPositive
<1>3. \A k \in 0 .. 11 : Weight(S, k) \in Nat
  BY <1>1, <1>2
<1>4. FromBits(S) \in Int
  BY <1>3 DEF FromBits
<1>5. Pow2(8) = 256 /\ Pow2(9) = 512 /\ Pow2(10) = 1024 /\ Pow2(11) = 2048
  BY DEF Pow2, Powers
<1>6. /\ Weight(S, 8) \in {0, 256} /\ Weight(S, 9) \in {0, 512}
      /\ Weight(S, 10) \in {0, 1024} /\ Weight(S, 11) \in {0, 2048}
  BY <1>1, <1>5
<1>7. ASSUME S \subseteq 8 .. 11 PROVE FromBits(S) \in 0 .. \o7400
  <2>1. \A k \in 0 .. 7 : k \notin S
    BY <1>7
  <2>2. \A k \in 0 .. 7 : Weight(S, k) = 0
    BY <1>1, <2>1
  <2>3. FromBits(S) = Weight(S, 8) + Weight(S, 9) + Weight(S, 10) + Weight(S, 11)
    BY <2>2, <1>6 DEF FromBits
  <2> QED
    BY <2>3, <1>6
<1> QED
  BY <1>4, <1>7

\* A counter below 1024 stays there.
LEMMA IncIndexBound ==
  ASSUME NEW x \in Int
  PROVE  /\ IncIndex(x) \in Int
         /\ 0 <= x /\ x < \o2000 => 0 <= IncIndex(x) /\ IncIndex(x) < \o2000
BY DEF IncIndex

\* cpu_inc_pc steps the counter of the mode the machine is in.
LEMMA IncPcOK ==
  ASSUME NEW c, NEW m \in ModeNames, OK(c, m)
  PROVE  OK(IncPc(c), m)
<1>1. c.pc \in Int /\ 0 <= c.pc
  <2>1. c.pc \in Word
    BY Types DEF OK
  <2> QED
    BY <2>1, WordBounds
<1>2. CASE m = "pdp8"
  <2>1. IncPc(c) = SetPc(c, c.pc + 1)
    BY <1>2 DEF IncPc, Pdp8IncPc, OK
  <2> QED
    BY <1>1, <1>2, <2>1, SetPcOK
<1>3. CASE m = "linc"
  <2>1. IncPc(c) = SetPc(c, IncIndex(c.pc)) /\ c.pc < \o2000
    BY <1>3 DEF IncPc, LincIncPc, OK
  <2>2. 0 <= IncIndex(c.pc) /\ IncIndex(c.pc) < \o2000 /\ IncIndex(c.pc) \in Int
    BY <1>1, <2>1, IncIndexBound
  <2> QED
    BY <2>1, <2>2, SetPcOK
<1> QED
  BY <1>2, <1>3 DEF ModeNames

\* linc_inc_pc.
LEMMA LincIncPcOK ==
  ASSUME NEW c, OK(c, "linc")
  PROVE  OK(LincIncPc(c), "linc")
BY IncPcOK DEF IncPc, OK, ModeNames

\* pdp8_inc_pc.
LEMMA Pdp8IncPcOK ==
  ASSUME NEW c, OK(c, "pdp8")
  PROVE  OK(Pdp8IncPc(c), "pdp8")
BY IncPcOK DEF IncPc, OK, ModeNames
----------------------------------------------------------------------------
\* IOB_LINC enters LINC mode from either mode, with the counter reduced to an offset.
LEMMA OffsetIsWord ==
  ASSUME NEW n \in Int
  PROVE  (n % \o2000) % \o10000 \in Word /\ (n % \o2000) % \o10000 < \o2000
<1>1. n % \o2000 \in Int /\ 0 <= n % \o2000 /\ n % \o2000 < \o2000
  OBVIOUS
<1>2. ASSUME NEW k \in Int, 0 <= k, k < \o2000
      PROVE  k % \o10000 \in Word /\ k % \o10000 < \o2000
  BY <1>2 DEF Word
<1> QED
  BY <1>1, <1>2

\* Entering LINC mode: flags, field and counter change one after the other.
LEMMA EnterLincOK ==
  ASSUME NEW c, NEW m \in ModeNames, OK(c, m)
  PROVE  OK(EnterLinc(c), "linc")
<1> DEFINE d == ClearFlag(c, "8MODE")
           e == SetIfr(d, ((c.ifr \div 4) * 4) + (c.pc \div \o2000))
<1>1. /\ IsCpu(d) /\ "8MODE" \notin d.flags
      /\ "LIF" \in d.flags => d.ifb # NoField
  <2>1. c.flags \ {"8MODE"} \in SUBSET FlagNames /\ IsCpu(c)
    BY Types DEF OK
  <2> QED
    BY <2>1, SetFlags DEF ClearFlag, OK
<1> HIDE DEF d
<1>2. /\ IsCpu(e) /\ "8MODE" \notin e.flags
      /\ "LIF" \in e.flags => e.ifb # NoField
  <2>1. c.ifr \in Int /\ c.pc \in Int
    BY Integral DEF OK
  <2>2. (((c.ifr \div 4) * 4) + (c.pc \div \o2000)) % \o40 \in RegisterType["ifr"]
    BY <2>1 DEF RegisterType, Field
  <2>3. /\ IsCpu(e) /\ e["flags"] = d["flags"] /\ e["ifb"] = d["ifb"]
    BY <1>1, <2>2, SetRegister, RegisterNames DEF SetIfr
  <2>4. e.flags = d.flags /\ e.ifb = d.ifb
    BY <2>3
  <2> QED
    BY <1>1, <2>3, <2>4
<1> HIDE DEF e
<1>3. (c.pc % \o2000) % \o10000 \in RegisterType["pc"] /\ (c.pc % \o2000) % \o10000 < \o2000
  <2>1. c.pc \in Int
    BY Integral DEF OK
  <2> QED
    BY <2>1, OffsetIsWord DEF RegisterType
<1> DEFINE p == (c.pc % \o2000) % \o10000
           f == [e EXCEPT !.pc = p]
<1>4. /\ IsCpu(f) /\ f["pc"] = p /\ f["flags"] = e["flags"] /\ f["ifb"] = e["ifb"]
  BY <1>2, <1>3, SetRegister, RegisterNames
<1>5. f.pc < \o2000 /\ f.flags = e.flags /\ f.ifb = e.ifb
  BY <1>3, <1>4
<1>6. EnterLinc(c) = f
  BY DEF EnterLinc, SetPc, d, e
<1> HIDE DEF f
<1> QED
  BY <1>2, <1>4, <1>5, <1>6 DEF OK

\* The processor's own I/O codes.
LEMMA Pdp12IoOK ==
  ASSUME NEW c, NEW m \in ModeNames, OK(c, m), c.ir \in Pdp12Codes
  PROVE  OK(Pdp12Io(c), m) \/ OK(Pdp12Io(c), "linc")
<1> USE DEF Pdp12Io, Pdp12Codes, IOB_ION, IOB_IOF, IOB_LINC, Unimplemented
<1>1. CASE c.ir = IOB_ION
  BY <1>1, SetFlagOK DEF FlagNames
<1>2. CASE c.ir = IOB_IOF
  BY <1>2, ClearFlagOK
<1>3. CASE c.ir = IOB_LINC
  BY <1>3, EnterLincOK
<1>4. CASE c.ir \in Unimplemented
  BY <1>4, ClearFlagOK
<1> QED
  BY <1>1, <1>2, <1>3, <1>4

\* What KRS leaves in AC: four of its bits and an eight-bit character.
LEMMA KeyReadTyped ==
  ASSUME NEW c, IsCpu(c)
  PROVE  KeyRead(c) \in AcValue
<1> DEFINE b == FromBits(Bits(c.ac) \intersect (8 .. 11))
           k == c.key
<1>1. b \in 0 .. \o7400 /\ k \in 0 .. \o377 /\ c.ac \in AcValue
  BY FromBitsBound, Types
<1>2. KeyRead(c) \in {c.ac, b + k}
  BY DEF KeyRead
<1> HIDE DEF b, k
<1>3. b + k \in Word
  <2>1. b \in Int /\ 0 <= b /\ b <= \o7400
    BY <1>1
  <2>2. k \in Int /\ 0 <= k /\ k <= \o377
    BY <1>1
  <2> QED
    BY <2>1, <2>2 DEF Word
<1> QED
  BY <1>1, <1>2, <1>3 DEF AcValue

\* Two skips in one word leave the counter where its mode allows.
LEMMA AfterSkipsTyped ==
  ASSUME NEW c, NEW m \in ModeNames, OK(c, m)
  PROVE  AfterSkips(c) \in Word /\ (m = "pdp8" \/ AfterSkips(c) < \o2000)
<1>1. OK(IncPc(c), m) /\ OK(IncPc(IncPc(c)), m)
  BY IncPcOK
<1>2. ASSUME NEW d, OK(d, m) PROVE d.pc \in Word /\ (m = "pdp8" \/ d.pc < \o2000)
  BY <1>2, Types DEF OK, ModeNames
<1> QED
  BY <1>1, <1>2 DEF AfterSkips, NextPc

\* The four registers and the trace that asr33_instr changes at once.
LEMMA Asr33InstrOK ==
  ASSUME NEW c, NEW m \in ModeNames, OK(c, m)
  PROVE  OK(Asr33Instr(c), m)
<1> DEFINE p == AfterSkips(c)
           a == KeyRead(c)
           k == KeyFlag(c)
           q == PrinterFlag(c)
           o == c.out \union CharacterOut(c)
           d == [[[[c EXCEPT !.pc = p] EXCEPT !.ac = a] EXCEPT !.kf = k] EXCEPT !.pf = q]
<1>1. Asr33Instr(c) = [d EXCEPT !.out = o]
  BY DEF Asr33Instr
<1>2. p \in Word /\ (m = "pdp8" \/ p < \o2000)
  BY AfterSkipsTyped
<1>3. a \in RegisterType["ac"]
  BY KeyReadTyped DEF OK, RegisterType
<1>4. k \in RegisterType["kf"] /\ q \in RegisterType["pf"]
  BY Types DEF OK, RegisterType, KeyFlag, PrinterFlag
<1> HIDE DEF p, a, k, q, o
<1>5. OK([c EXCEPT !.pc = p], m)
  BY <1>2, SetCounter
<1>6. OK([[c EXCEPT !.pc = p] EXCEPT !.ac = a], m)
  BY <1>3, <1>5, SetPlain, RegisterNames
<1>7. OK([[[c EXCEPT !.pc = p] EXCEPT !.ac = a] EXCEPT !.kf = k], m)
  BY <1>4, <1>6, SetPlain, RegisterNames
<1>8. OK(d, m)
  BY <1>4, <1>7, SetPlain, RegisterNames
<1> HIDE DEF d
<1> QED
  BY <1>1, <1>8, SetOut

\* Every I/O word leaves the mode alone but IOB_LINC, which enters LINC mode.
LEMMA IobIoOK ==
  ASSUME NEW c, NEW m \in ModeNames, OK(c, m)
  PROVE  OK(IobIo(c), m) \/ OK(IobIo(c), "linc")
<1>1. CASE c.ir \in Pdp12Codes
  BY <1>1, Pdp12IoOK DEF IobIo
<1>2. CASE c.ir \notin Pdp12Codes
  BY <1>2, Asr33InstrOK, ClearFlagOK DEF IobIo
<1> QED
  BY <1>1, <1>2
----------------------------------------------------------------------------
\* IOB_LINC changes the mode bit, the instruction field and the counter, and nothing else.
LEMMA EnterLincFrame ==
  ASSUME NEW c, IsCpu(c)
  PROVE  LET d == EnterLinc(c)
         IN /\ d.core = c.core /\ d.flags = c.flags \ {"8MODE"}
            /\ d.ifr = (((c.ifr \div 4) * 4) + (c.pc \div \o2000)) % \o40
            /\ d.pc = (c.pc % \o2000) % \o10000
            /\ d.dfr = c.dfr /\ d.ir = c.ir /\ d.kf = c.kf
<1> DEFINE fs == c.flags \ {"8MODE"}
           i == (((c.ifr \div 4) * 4) + (c.pc \div \o2000)) % \o40
           p == (c.pc % \o2000) % \o10000
           d == [g \in Registers \union {"core", "out"} |->
                   IF g = "pc" THEN p ELSE IF g = "ifr" THEN i ELSE IF g = "flags" THEN fs ELSE c[g]]
<1>1. EnterLinc(c) = [[[c EXCEPT !.flags = fs] EXCEPT !.ifr = i] EXCEPT !.pc = p]
  BY DEF EnterLinc, SetPc, SetIfr, ClearFlag
<1> HIDE DEF fs, i, p
<1>2. EnterLinc(c) = d
  BY <1>1 DEF IsCpu
<1>3. /\ d.core = c.core /\ d.flags = fs /\ d.ifr = i /\ d.pc = p
      /\ d.dfr = c.dfr /\ d.ir = c.ir /\ d.kf = c.kf
  BY RegisterNames
<1> HIDE DEF d
<1> QED
  BY <1>2, <1>3 DEF fs, i, p

\* The ASR-33 changes the accumulator, the counter, its flags and the trace.
LEMMA Asr33Frame ==
  ASSUME NEW c, IsCpu(c)
  PROVE  LET d == Asr33Instr(c)
         IN /\ d.core = c.core /\ d.flags = c.flags /\ d.ifr = c.ifr /\ d.dfr = c.dfr /\ d.ir = c.ir
            /\ d.pc = AfterSkips(c) /\ d.ac = KeyRead(c) /\ d.kf = KeyFlag(c)
<1> DEFINE p == AfterSkips(c)
           a == KeyRead(c)
           k == KeyFlag(c)
           q == PrinterFlag(c)
           o == c.out \union CharacterOut(c)
           d == [g \in Registers \union {"core", "out"} |->
                   IF g = "pc" THEN p ELSE IF g = "ac" THEN a ELSE IF g = "kf" THEN k
                   ELSE IF g = "pf" THEN q ELSE IF g = "out" THEN o ELSE c[g]]
<1>1. Asr33Instr(c) = [[[[[c EXCEPT !.pc = p] EXCEPT !.ac = a] EXCEPT !.kf = k] EXCEPT !.pf = q]
                        EXCEPT !.out = o]
  BY DEF Asr33Instr
<1> HIDE DEF p, a, k, q, o
<1>2. Asr33Instr(c) = d
  BY <1>1 DEF IsCpu
<1>3. /\ d.core = c.core /\ d.flags = c.flags /\ d.ifr = c.ifr /\ d.dfr = c.dfr /\ d.ir = c.ir
      /\ d.pc = p /\ d.ac = a /\ d.kf = k
  BY RegisterNames
<1> HIDE DEF d
<1> QED
  BY <1>2, <1>3 DEF p, a, k

\* KRS puts the key in the low eight bits of AC: what it keeps of AC lies above them.
LEMMA KeyReadLowBits ==
  ASSUME NEW c, IsCpu(c), HasInstr(c, KRS), Keys # {}
  PROVE  KeyRead(c) % \o400 = c.key
<1> DEFINE S == Bits(c.ac) \intersect (8 .. 11)
           b == FromBits(S)
           k == c.key
<1>1. KeyRead(c) = b + k
  BY DEF KeyRead
<1>2. k \in Int /\ 0 <= k /\ k <= \o377
  <2>1. k \in 0 .. \o377
    BY Types
  <2> QED
    BY <2>1
<1>3. \A n \in 0 .. 11 : Weight(S, n) \in {0, Pow2(n)} /\ (n \notin S => Weight(S, n) = 0)
  BY DEF Weight
<1>4. Pow2(8) = 256 /\ Pow2(9) = 512 /\ Pow2(10) = 1024 /\ Pow2(11) = 2048
  BY DEF Pow2, Powers
<1>5. \A n \in 0 .. 7 : Weight(S, n) = 0
  BY <1>3
<1>6. /\ Weight(S, 8) \in {0, 256} /\ Weight(S, 9) \in {0, 512}
      /\ Weight(S, 10) \in {0, 1024} /\ Weight(S, 11) \in {0, 2048}
  BY <1>3, <1>4
<1>7. b = Weight(S, 8) + Weight(S, 9) + Weight(S, 10) + Weight(S, 11)
  BY <1>5, <1>6 DEF FromBits
<1> HIDE DEF S, b, k
<1>8. b \in Int /\ b % \o400 = 0
  BY <1>6, <1>7
<1>9. (b + k) % \o400 = k
  BY <1>2, <1>8
<1> QED
  BY <1>1, <1>9 DEF k

(***************************************************************************)
(* What the I/O bus may do: only IOB_LINC touches the mode and the field,  *)
(* core and the data field are left alone, a key flag that changes was     *)
(* asked to and the key was read if that was asked for too, and a skip     *)
(* passes over one word unless two skips are asked for.                    *)
(***************************************************************************)
LEMMA IobIoFrame ==
  ASSUME NEW c, IsCpu(c)
  PROVE  LET d == IobIo(c)
         IN /\ d.core = c.core /\ d.dfr = c.dfr /\ d.ir = c.ir
            /\ d.kf # c.kf => /\ HasInstr(c, KCC)
                              /\ HasInstr(c, KRS) /\ Keys # {} => d.ac % \o400 = c.key
            /\ c.ir # IOB_LINC =>
                 /\ d.ifr = c.ifr
                 /\ "8MODE" \in d.flags <=> "8MODE" \in c.flags
                 /\ d.pc \in {c.pc, NextPc(c)} \/ (HasInstr(c, KSF) /\ HasInstr(c, TSF))
            /\ c.ir = IOB_LINC => d = EnterLinc(c)
<1> DEFINE Flagged(fs) == IobIo(c) = [c EXCEPT !.flags = fs] /\ ("8MODE" \in fs <=> "8MODE" \in c.flags)
<1>1. CASE c.ir = IOB_LINC
  <2>1. IobIo(c) = EnterLinc(c)
    BY <1>1 DEF IobIo, Pdp12Codes, Pdp12Io, IOB_ION, IOB_IOF, IOB_LINC, Unimplemented
  <2> QED
    BY <1>1, <2>1, EnterLincFrame
<1>2. CASE c.ir # IOB_LINC /\ ~\E fs : Flagged(fs)
  <2>1. c.ir \notin Pdp12Codes
    BY <1>2 DEF IobIo, Pdp12Codes, Pdp12Io, IOB_ION, IOB_IOF, IOB_LINC, Unimplemented,
                SetFlag, ClearFlag
  <2>2. IobIo(c) = Asr33Instr(c)
    BY <1>2, <2>1 DEF IobIo, ClearFlag
  <2>3. AfterSkips(c) \in {c.pc, NextPc(c)} \/ (HasInstr(c, KSF) /\ HasInstr(c, TSF))
    BY DEF AfterSkips, SkipOnKey, SkipOnPrinter
  <2>4. KeyFlag(c) # c.kf => HasInstr(c, KCC)
    BY DEF KeyFlag
  <2> QED
    BY <1>2, <2>2, <2>3, <2>4, Asr33Frame, KeyReadLowBits
<1>3. CASE c.ir # IOB_LINC /\ \E fs : Flagged(fs)
  <2>1. PICK fs : Flagged(fs)
    BY <1>3
  <2> DEFINE d == [c EXCEPT !.flags = fs]
  <2>2. /\ d.core = c.core /\ d.flags = fs /\ d.ifr = c.ifr /\ d.dfr = c.dfr /\ d.ir = c.ir
        /\ d.pc = c.pc /\ d.kf = c.kf
    BY FlagsFrame
  <2>3. IobIo(c) = d /\ ("8MODE" \in fs <=> "8MODE" \in c.flags)
    BY <2>1
  <2> HIDE DEF d
  <2> QED
    BY <1>3, <2>2, <2>3
<1> QED
  BY <1>1, <1>2, <1>3
=============================================================================
