-------------------------------- MODULE Cpu --------------------------------
(***************************************************************************)
(* The processor state (struct cpu_instance in cpu.h), the ASR-33 flags it *)
(* points to, and the accessors of cpu.c.  The accessors are functions     *)
(* from a state to the next, as the C functions change the cpu they are    *)
(* given; an instruction composes them into one step of the variable cpu.  *)
(***************************************************************************)
EXTENDS Alu, FiniteSets

CONSTANTS
  Keys,     \* the characters the frontend's keyboard can deliver; {} when read is NULL
  Samples   \* the values cpu_call_sam can return; {0} without a sample_ad callback

CPU_CORE_SIZE == 32768
CPU_ESF_IO_PRESET == 1
CPU_ESF_CHAR_SIZE == 8
CPU_ESF_TAPE_TRAP == 16
CPU_ESF_INSTRUCTION_TRAP == 32

\* The flip-flops of cpu->flags that some instruction sets or tests.
FlagNames == {"FLO", "8MODE", "RUN", "ION", "DJR", "LIF", "LINC_II"}

Field == 0 .. \o37
\* ifb and sfr before the first write: cpu_create leaves them uninitialized.
NoField == -1
\* What a register set by cpu->ac = ... without a mask can hold: see instr_SAM.
SamNonPositive == -512
AcValue == Word \union {SamNonPositive}

VARIABLE cpu

(***************************************************************************)
(* Core memory is a function on the addresses written so far; the others   *)
(* hold the zero that cpu_create stored.                                   *)
(***************************************************************************)
Address == 0 .. CPU_CORE_SIZE - 1
IsCore(m) == /\ DOMAIN m \subseteq Address
             /\ \A a \in DOMAIN m : m[a] \in Word
Cell(m, a) == IF a \in DOMAIN m THEN m[a] ELSE 0

\* What each register can hold.  instr_LIF stores (i << 4) | a in ifb without a mask.
RegisterType ==
  [ ac |-> AcValue, l |-> {0, 1}, mq |-> Word, pc |-> Word, ir |-> Word,
    ifr |-> Field, ifb |-> (0 .. \o417) \union {NoField}, dfr |-> Field,
    sfr |-> (0 .. \o1777) \union {NoField}, relays |-> 0 .. \o77,
    flags |-> SUBSET FlagNames, esf |-> 0 .. \o77,
    ls |-> Word, rs |-> Word, ss |-> Word,
    kf |-> {0, 1}, pf |-> {0, 1}, key |-> 0 .. \o377 ]
Registers == DOMAIN RegisterType

IsCpu(c) ==
  /\ c = [f \in Registers \union {"core", "out"} |-> c[f]]
  /\ \A f \in Registers : c[f] \in RegisterType[f]
  /\ IsCore(c.core)
----------------------------------------------------------------------------
\* Mutant: the mask is forgotten.
SetAcMutant(c, n) == [c EXCEPT !.ac = n]
\* The setters of cpu.c: each masks what it stores.
SetAc(c, n) == [c EXCEPT !.ac = n % \o10000]
SetPc(c, n) == [c EXCEPT !.pc = n % \o10000]
SetMq(c, n) == [c EXCEPT !.mq = n % \o10000]
SetL(c, n) == [c EXCEPT !.l = IF n # 0 THEN 1 ELSE 0]
SetRelays(c, n) == [c EXCEPT !.relays = n % \o100]
SetIfr(c, n) == [c EXCEPT !.ifr = n % \o40]
SetDfr(c, n) == [c EXCEPT !.dfr = n % \o40]
SetEsf(c, n) == [c EXCEPT !.esf = ((n \div 2) % \o40) * 2]
SetFlag(c, f) == [c EXCEPT !.flags = @ \union {f}]
ClearFlag(c, f) == [c EXCEPT !.flags = @ \ {f}]
IoPreset(c) == [c EXCEPT !.esf = CPU_ESF_CHAR_SIZE]

\* cpu_write and cpu_read: the range test lets ma = CPU_CORE_SIZE through.
CpuWrite(c, ma, mb) ==
  IF ma > CPU_CORE_SIZE THEN c
  ELSE [c EXCEPT !.core = [a \in DOMAIN c.core \union {ma} |->
                             IF a = ma THEN mb % \o10000 ELSE c.core[a]]]
CpuRead(c, ma) == IF ma > CPU_CORE_SIZE THEN 0 ELSE Cell(c.core, ma)

\* Mutant: the counter runs out of the field.
LincIncPcMutant(c) == SetPc(c, c.pc + 1)
\* linc_inc_pc stays inside the instruction field, pdp8_inc_pc inside 4096 words.
LincIncPc(c) == SetPc(c, IncIndex(c.pc))
Pdp8IncPc(c) == SetPc(c, c.pc + 1)
IncPc(c) == IF "8MODE" \in c.flags THEN Pdp8IncPc(c) ELSE LincIncPc(c)

\* A callback the step makes into the frontend, kept until the next step starts.
Emit(c, e) == [c EXCEPT !.out = @ \union {e}]
----------------------------------------------------------------------------
(***************************************************************************)
(* The state cpu_create and start_emulator build, with junk for the ESF    *)
(* register that neither sets.                                             *)
(***************************************************************************)
PowerOn(junk) ==
  [ ac |-> 0, l |-> 0, mq |-> 0, pc |-> \o200, ir |-> 0,
    ifr |-> 2, ifb |-> NoField, dfr |-> 3, sfr |-> NoField, relays |-> 0,
    flags |-> {}, esf |-> junk, ls |-> 0, rs |-> 0, ss |-> 0,
    kf |-> 0, pf |-> 1, key |-> 0, core |-> << >>, out |-> {} ]

\* The operator loads a tape, sets registers and types "run" (cmd_load, cmd_set, cmd_run).
Deposited(c, image) ==
  [c EXCEPT !.core = [a \in DOMAIN c.core \union DOMAIN image |->
                        IF a \in DOMAIN image THEN image[a] ELSE c.core[a]]]
Started(c) == SetFlag(c, "RUN")

\* The condition of the loop in cmd_run, and the test of cpu_step.
Running == "RUN" \in cpu.flags
LincMode == "8MODE" \notin cpu.flags

\* Keyboard input: the frontend raises the flag the processor polls.
KeyStruck ==
  \E k \in Keys : cpu.kf = 0 /\ cpu' = [cpu EXCEPT !.kf = 1, !.key = k]
=============================================================================
