# A TLA+ model of the PDP-12 emulator

The repository emulates a PDP-12, a computer of 1969 with two instruction sets (LINC and
PDP-8) over one set of registers and one core memory. This directory holds a TLA+ model of
the emulator, the configurations that check it with TLC, and proofs that TLAPS checks. All
numbers in the modules are octal where the source has them in octal.

## Inventory of the system

| Component | State | Operations | Used by / uses |
|---|---|---|---|
| Processor (`libpdp12/cpu.c`) | `struct cpu_instance`: registers, `core[]`, flags, callbacks | setters that mask, `cpu_read`/`cpu_write`, `cpu_inc_pc`, `cpu_step`, `cpu_create` | the frontend steps it; both instruction sets change it |
| LINC mode (`linc.c`) | the processor's | fetch, four addressing forms, some 70 instructions, trap, field switching | arithmetic helpers, display callbacks, I/O bus |
| PDP-8 mode (`pdp8.c`) | the processor's | six memory references, I/O, two operate groups | I/O bus |
| I/O bus (`iob.c`) | devices attached (none in the frontend) | `iob_io`, `pdp12_io` | both modes; the teletype |
| Teletype (`asr33.c`) | `keyboard_flag`, `print_flag` (and callbacks) | `asr33_instr`: skip, clear, read, print, combined by bits of one word | I/O bus; the frontend's print and key callbacks |
| Display (`vr12.c`) | none in the library | `vr12_dis`, `vr12_dsc[e]` | DIS and DSC; the frontend's plot callback |
| Console (`frontend/console`) | nesting of command loops with their `end` flags | the shell's commands, scripts, `cmd_run`, `sig_int` | the processor |
| Display surface (`pdp12c.c`) | `vr12_surface`, the brightness of each point in two channels, and the SDL screen | `vr12_plot`, `vr12_fade`, `sdl_update` | DIS and DSC plot; `cmd_run` fades and shows every 1000 instructions |
| Parser (`parser.c`) | a copy of the line, the argument vector while a command runs | `parse`, `split`, `parser_exec` | the shell |
| Line input (`readln.c`, the loop of `shell_script`) | a buffer of fixed size | `fgets` into it | the shell, the parser |
| Tape loaders (`libpdp12utils`) | position, address and checksum | `load_bin`, `load_rim` | `cmd_load`, `paperdump` |
| `paperdump` | a core of 4096 words, all -1 | load one tape, print it | the loaders |
| Log, build files | none of interest | | |

There is one thread. The only concurrency is SIGINT, whose handler reads and writes
`cpu->flags` between any two machine instructions of the main program, and the outside
world: a key may be struck between any two steps of the processor. Nothing is persistent,
nothing is sent over a network, and there are no timeouts.

What is hard in this code is the combination of small things: microinstructions that act in
a fixed order within one word; a program counter that is an offset of 10 bits in one mode
and 12 in the other; a field change requested by one instruction and performed by a later
one; index registers stepped before use, and in half words; ones' complement arithmetic
with minus zero; I/O words matched by *superset*; initial values that `cpu_create` does not
set. `PROJECT.json` lists each such place under `hazards`, with the properties for it.

What makes each component correct:

* Processor: registers keep their widths, stores stay in core.
* LINC mode: stores stay in the addressable fields, every field change is announced, a trap
  can be resumed from, arithmetic agrees with ones' complement integers, shifts agree with
  repeated one-place shifts, and whole programs (calls, indexed loops, packed characters,
  multi-word sums) end with the right result.
* PDP-8 mode: the same on its fields; operate words combine in the specified order.
* Mode switching: execution goes on with the word after the switching one.
* Teletype: a print raises the flag a program waits for; a key is read once and not lost.
* Display: characters drawn side by side do not touch; what a program draws is shown, and
  fading only ever dims.
* Console: the machine runs only between a `run` and a halt; a request to halt is obeyed.
* Parser and scripts: plain lines are executed word for word and in order, quoted text stays
  together, every script ends.
* Tape loaders: every store is inside core; what is stored stands on the tape; a changed byte
  is noticed; whatever the tape, the loader comes back.

## Modules

| Module | Models | Variables |
|---|---|---|
| `Words` | 12-bit words, bit tests, masks, signed reading | none |
| `Alu` | the arithmetic and rotation helpers of `linc.c` as functions of words | none |
| `Cpu` | `cpu.c`: the record, setters, core access, `cpu_inc_pc`, `cpu_create` | `cpu` |
| `Iob` | `iob.c` and `asr33.c`, as an operator from processor to processor, and the keyboard | `cpu` |
| `Vr12` | `vr12.c`: the set of points an instruction plots | none |
| `Linc` | `linc.c`: one action per instruction | `cpu` |
| `Pdp8` | `pdp8.c`: one action per instruction | `cpu` |
| `Pdp12` | the machine: `Linc`, `Pdp8` and the keyboard composed as in `cpu_step` and `cmd_run` | `cpu` |
| `Arithmetic` | reference definitions for sums, products, shifts and combined microinstructions, and the properties against them | |
| `Terminal` | properties of the teletype | |
| `Console` | `shell.c`, `cmd_run`, `sig_int`, `vr12_plot`, `vr12_fade`, `sdl_update` | `flags at copy inputs atomic i surface screen` |
| `HaltSwitch` | abstract: what a run switch promises | `state` |
| `Tape` | bytes read with `fgetc`, pairs of frames, stores to core | none |
| `Loader` | abstract: what a tape loader promises its callers | `core status` |
| `BinLoader` | `load_bin`, one action per turn of a loop | `tape pos phase addr checksum count core result` |
| `RimLoader` | `load_rim`, the same | the same without `checksum` |
| `Paperdump` | `dump`: either loader, then the words printed | the loader's and `format printed exit` |
| `ChangedTape` | `Paperdump` beside a second `load_bin`, which reads the file as it was before one byte changed | the second loader's, with a 0: `tape0 pos0 ...` |
| `Boot` | the shell's commands on the whole machine, from power on: composes `Pdp12` and `BinLoader` | `cpu orders` and the loader's |
| `Parser` | `parse`, `split`, `parser_exec` as operators on lines | none |
| `Script` | the loops of `shell_script` and `shell_start` over `fgets`, with `Parser` | `file line at called` |
| `WholeTape` | what it means that a tape is well punched, and what must come of it: `Paperdump` with a history variable that goes through the tape item by item | `layout` |
| `Punch` | how the tapes of the checks are made from what is meant by them | none |
| `Bench` | laying programs out in core, building the states an operator starts from | |
| `LincCases`, `ArithmeticCases`, `Pdp8Cases`, `DisplayCases` | starting states, one instruction or pair each, and the property of the characters displayed | |
| `LincPrograms`, `Pdp8Programs`, `Programs` | whole programs and what each must have computed; what the programs of both modes have in common | |
| `MCInstructions`, `MCPrograms`, `MCTerminal`, `MCConsole`, `MCTapes`, `MCScripts`, `MCDocumented` | what TLC runs | |
| `CpuProofs`, `LincProofs`, `Pdp12Proofs`, `ArithmeticProofs`, `ProgramProofs`, `ConsoleProofs`, `PaperdumpProofs`, `ChangedTapeProofs` | theorems, each about the module it is named for; `Pdp12Proofs` holds those about PDP-8 mode, `PaperdumpProofs` those about both loaders | |

**State.** `cpu` is one record whose fields are those of `struct cpu_instance` that an
instruction can change, with the teletype's two flags and the key (`kf`, `pf`, `key`) and
`out`, the set of points the last step plotted and of characters it printed: `asr33_instr`
hands out a byte, of which the console's `asr33_print` prints seven bits (`Asr33Print`; the
listing it adds at a verbose log level is left out). Names follow the source; `ifr`, `dfr` are its `ifr` and `dfr`. `core` is a function on the words that
were ever written: `Cell` reads any other address as zero, which is what `cpu_create`'s
memory holds. `flags` is the set of bits set in `cpu->flags`. `NoField` stands for the
uninitialized `ifb`; the uninitialized `esf` is the argument `junk` of `PowerOn`. Words of
fixed width are masked where the source masks them and not elsewhere.

**Actions.** An instruction is one action: fetch (`F` for LINC, `G` for PDP-8, with the
counter already stepped), decoding as the guard, the operand computed through the four
addressing forms, and one new record. Nothing observes the processor in the middle of an
instruction: the callbacks only draw and print, and the handler touches only `flags`, which
`Console` models at the level of single loads and stores.

`Console` takes the opposite view: the processor is reduced to the changes an instruction
makes to `cpu->flags` (any number, none of which sets RUN) and the points it draws, and the
shell, its scripts, the handler and the surface are modelled in full. `atomic` says whether
the compiler makes `flags |= x` one instruction or a load and a store. The C source allows
both, `Builds` names the ones considered, and a behaviour keeps to one.

The loaders read one frame or pair of frames per action. `tape` is the file, `pos` where the
next `fgetc` reads, counted from 1: the offset an `fseek` starts from is an initial value of
`pos`, and a `pos` below 1 is the negative offset that `fseek` refuses. `core` is only the
part that was stored to, so that "what the loader touched" is `DOMAIN core`. The callers
differ in the rest: in `Paperdump` it holds -1, in `Boot` it is the machine's.

A line is a sequence of characters of which `Parser` tells apart blanks, newlines, quotes,
backslashes and letters. `parse` is the *set* of copies it can come back with: bytes it does
not write are what `malloc` left there, any of `Garbage`.

## Runs

Every passing run of the machine starts from states built like the operator builds them:
power on, load, `set`, choose the mode, `run`. The state space is the set of starting states
times the steps each takes, so the interesting bound is the choice of programs and operands.

| Run | Starting states | What it shows |
|---|---|---|
| `instructions` | every LINC instruction (alpha, beta direct/indexed, skips, direct, half-word, miscellaneous) followed by each of: jump, JMP 0, PDP, HLT, LIF, an undefined word, IOB, trapping and not, and with the counter at both ends of five fields; ADD, ADA, ADM, MUL on 15 x 15 boundary operands; ROL, ROR, SCR by 0 to 15 places; six PDP-8 memory references on page 0, this page and an auto-index cell, direct and indirect, in two data fields; **every** Group 1 and Group 2 word; I/O words; IOB_LINC at field ends; DIS at 11 x 8 coordinates and pairs of characters in both sizes | registers keep their widths, stores (the return of a jump into another field among them) and field changes are where they should be, mode switches keep their place, traps can be resumed; sums, products and shifts agree with ones' complement integers and one-place shifts; operate words combine in order; neighbouring characters are apart |
| `programs` | LINC: nested calls, a three-word table, three characters packed from four starts including the wrap at 01777, 64 double-word sums; PDP-8: a counted block copy with a wrapping pointer, calls with in-line arguments, 36 double-word sums. Each is punched on a BIN tape, loaded into a machine that has just been switched on, registers and words are `set`, the mode is chosen and `run` is typed; LINC programs are also started with bit 04000 of the counter set, which `linc` leaves alone, and with FLO set | each program halts, at its own HLT, with the result its inputs call for |
| `terminal` | print and echo programs in both modes, keys struck at any step, nine words that mix I/O codes | a key is read once, a word skips at most once, the text printed is the text in core less its parity bits; each key struck is echoed, the print loop ends |
| `console` | every sequence of typed commands, two scripts of which one runs the other and itself halts, SIGINT anywhere, nesting up to 3, both kinds of build, one point drawn in either channel or both | the prompt only on a stopped machine in either build; where updates are one instruction a halt is not undone and the console implements `HaltSwitch` with its liveness; fading only dims, and what a program draws is shown |
| `tapes` | `paperdump` with every tape of up to three items (origins 0200 and 07777, words 0, 0102 and 07777, a field directive), one of 36 words and one of two blocks; as punched, with one byte changed in its data bits, one lost, cut off anywhere, or padded with zeros; offsets -1, 0 and 1 | whole tapes are loaded and printed, of a BIN tape and the same with a byte changed one is refused or both load the same, of a tape cut off or not fitting core a part from its start is loaded; the loaders implement `Loader` with its liveness |
| `scripts` | every text of up to four characters and six longer ones, a buffer of 8 bytes, a byte of garbage that is NUL, a letter or the name of a command | plain scripts are executed word for word, also where a line is longer than the buffer; quoted text stays in one argument; every script ends |

The remaining runs are violations: each checks what a comment or help text says and shows
that the code does something else. They are described under *Findings*.

Bounds and why they are enough: operands are the values at which sign, carry, mask or wrap
changes, plus one mixed pattern; two fields suffice to tell the instruction field, the data
field and a third one (0, by trap) apart; the longest program bounds (three words, three
characters, a block of three) exceed every boundary inside them; two script files are enough
for a script in a script, and `MaxNesting = 3` for one below it. A run of `MCConsole` with
three flags has one flag that is the mode, one that neither the handler nor the shell
touches, and RUN. Its brightness of 15 fades by 10, as 255 does, to a value below the step,
which is where `vr12_fade` must stop, and every second instruction is the shortest period
that has an instruction without a fade; points do not influence each other, so one is
enough. The tape of 36 words is the shortest kind whose checksum exceeds 07777, and the
origin 07777 puts the second word after it outside of core. Eight bytes of buffer hold a
command with its parameters and are less than three of the longer texts.

Deadlock is checked in every run. A halted machine and an ended emulator stutter explicitly
(`Halted`, `Exited`).

**Fairness.** The machine's `FairSpec` has `WF_cpu(Step)`: the loop of `cmd_run` calls
`cpu_step` for as long as RUN is set and nothing blocks it. The key is not fair: nobody has
to type. `Console` has weak fairness on the main program's own steps, except that the
commands typed are not fair, and strong fairness on `StepDone`: an instruction has finitely
many flag updates, so `FlagInstr` and `Store`, between which `StepDone` is not enabled, do
not go on for ever. The handler is not fair: nobody has to press the key. No program has to
halt: `ImplementsSwitch` asks for the prompt only once RUN is clear, and only where flag
updates are one instruction; `RequestIsHonoured` asks the same of every build, and fails.
`Paperdump` (`Load`, `Dump`), `Script` (`ReadLine`, `Exec`, `EndOfFile`) and `Boot`
(`BootNext`) are sequential programs reading a file: each has weak fairness on its steps.

## Proofs

TLAPS checks the following for every value of the constants. Where a theorem states a
property of a run, the run shows it on the instance above.

**The machine's invariant** (`CpuProofs`, `LincProofs`, `Pdp12Proofs`).
`RegistersKeepTheirWidth`, `LincCounterIsOffset` and `PendingFieldIsLoaded` are
`Spec => []TypeOK`, `[]LincPcInSegment` and `[]PendingFieldLoaded`, for any set of `Starts`
with `StartOK`, any `Keys` of eight bits and any `Samples` in the range `cpu.h` promises (the
three ASSUMEs of `Pdp12`, which TLC evaluates for each run). None is inductive by itself.
The invariant is `StartOK`, the conjunction of the three: the range of the counter depends
on the mode, the mode switch and the jump into a field need the field registers and the
buffer in range, and the counter in range is what keeps the stores of the return word and
of traps in core. `CpuProofs` proves, setter by setter, that the operators preserve
`OK(c, mode)`, which is `StartOK` with the mode spelled out; `LincStepOK` and `Pdp8StepOK`
use these lemmas once for each instruction.

**What a step may not do** (`Pdp12Proofs`). Six action properties, from the same invariant:

* `WritesStay`: nothing is stored outside the fields an instruction may address, and a jump
  stores its return in the field it arrives in (`JmpStores`), not in the one it leaves.
* `FieldChangesAnnounced`: no instruction changes the field behind the program's back.
* `ModeSwitchKeeps`, `TrapsAreResumable`: execution goes on, or can be resumed, with the next
  word, though counter and field are renumbered.
* `KeysAreTakenOnce` and `IoSkipsOne`: no key is lost to a word that did not ask for it, and
  an I/O word skips at most one word.

Their argument is a *frame* for each operator, proved next to its `OK` lemma: `Calm(b, c, R)`
says that `c` has the fields and the key flag of `b` and differs in core at most in the
addresses `R`; `Follows` adds `OK`, for the state before the step and the words it may
address. Setters are calm, most instructions are a composition of setters, and the jump, the
trap, the field instructions and I/O, which are not calm, get a lemma of their own. `IobIoFrame` does this once for the I/O bus, over all
combinations of codes a word can contain.

`KeysAreTakenOnce` has the hypothesis `Keys # {}`: a machine without a keyboard has no key
to lose, and KRS then leaves AC alone, as `asr33.c` does where `read` is NULL. The console is
such a machine: it has no `read`, and nothing in the repository raises `keyboard_flag`. The
keyboard (`KeyStruck`) is that of a frontend which sets both as `asr33.h` allows. The
arithmetic theorems ask for an AC of 12 bits, as their properties do, because SAM can leave
-512 there.

A property about an instruction names the *action* that executes it, such as `MUL` or `TRAP1`.
An earlier form named the instruction by the contents of IR alone. That form was not
provable: a key struck between two steps is a step with the same IR, about which such a
property must say nothing.

**Arithmetic** (`ArithmeticProofs`), for all operands where the run has boundary values:

* `SumsAreExact` (ADD, ADA, ADM) and `ProductsAreExact` (MUL, integers and fractions): the
  masks and end-around carries compute the ones' complement sum, and the 24-bit shifts and
  masks the product, exactly.
* `ShiftsActSerially` (ROL, ROR, SCR) and `MicrosInOrder` (Group 1). The reference shifts by one
  place, a recursive function of the number of places. It is unrolled fifteen times, once for
  each count the instruction can hold, and each value is proved equal to a closed form with
  `div` and `%`, as is what the code's masks compute; no induction is needed. Where ROR shifts
  by more than 12, MQ differs, which the property leaves out and *Findings* lists.

**Programs** (`ProgramProofs`), from any machine that holds their text and is about to start it.
Each start (`ArgumentStart`, `TadStart`, `LamStart`, `CallStart`, `TableStart`, `CopyStart`,
`PrintStart`) fixes the words of text, the mode, the instruction field and the counter, and whatever else the program relies on; the data, the other
words of core, the other registers and the keyboard are free. TLC evaluates that the starts of
the `programs` and `terminal` runs fulfil them.

* `ArgumentsReachSubroutine`: two calls of a PDP-8 subroutine that takes its argument from the
  word after the call. The machine halts nowhere but at the program's HLT, with the sum in AC.
* `LongSumsAreExact`: the sum of two 24-bit numbers, in PDP-8 mode with TAD and the link that
  RAL brings into the next word, in LINC mode with LAM. The machine halts nowhere but
  at the HLT, with the exact sum in core and the carry out of it in the link.
* `NestedCallsReturn`: a LINC subroutine called twice, which calls another. JMP leaves each
  return in word 0, so the outer one must put its own away and back. Both calls come back to
  where they were made, and the count of the inner one is stepped twice, with the end-around
  carry of ADD (`CallsReturnFrom`).
* `TablesAreSummed`: ADA through an index register that steps, in a loop that XSK counts. Each
  word of the table is added once. If the total fits a word the accumulator is that total,
  although a sum on the way may have run over: `TotalFits`, from `CarriedRound`, that a sum
  with end-around carry differs from the sum by no or one 07777.
* `BlocksAreCopied`: TAD and DCA through two auto-index cells in the data field, in a loop that
  ISZ counts, for any three words, any two pointers and any data field, also where a pointer
  runs around the end of the field, and where source and target overlap. It assumes only what
  the program needs (`Separate`): no copy falls on the program, its count, its pointers or a
  word still to be read. Each word is at its target, and each pointer names the last place.
* `AnyTextIsPrinted`: the loop that takes the words of a text through an auto-index cell and
  prints them, for a text of any length, also one that runs past the end of the field or
  into the program, and whichever keys are struck. What is printed is the seven low bits of
  the word the pointer has reached, and the machine halts nowhere but at the HLT behind the test, at a word of zero.

Each has an invariant (`AtWork`, `SumAtWork`, `LamAtWork`,
`CallsAtWork`, `TableAtWork`, `CopyAtWork`, `AtPrinter`) that says that the text is in core and
the counter at one of a few places, each with what the registers and the words written so
far hold there. A lemma for each instruction used computes its step from the actions of `Pdp8`
or `Linc`: fetch, decoding, address, operand, result. They rest on lemmas about fetching and
about which class or word an action can belong to. TAD sets the link at a carry and never
clears it (*Findings*, `tad`), so that the carry of a sum of three numbers is a fact of its own:
`CarryTwice`, that the two additions do not both carry.

**The console** (`ConsoleProofs`).

* `TypeCorrect`, for every set of scripts and any nesting bound.
* `PromptAlwaysStopped`, even where a flag update is torn. It needs the stronger `Stopped`:
  outside of the run loop RUN is clear not only in `flags` but also in the word about to be
  stored.
* `HaltsAreNotUndone` is about builds whose updates are one instruction; in the others the
  statement is false, which is the finding `interrupted_update`.
* `FadesOnlyDim` is for every surface, brightness, step and period.
* `IsARunSwitch`: `Spec => Switch!Spec`, the safety half of the refinement.

**Tapes** (`PaperdumpProofs`), for every file, every offset and every `CoreSize` (any natural
number, the ASSUME of `Tape`):

* `BinTypeCorrect`, `RimTypeCorrect`: what is stored are 12-bit words inside core. They rest on
  two lemmas: a byte read is a byte or EOF, and a pair of bytes is a word of 12 bits.
* `BinWordsComeFromTape`: every stored word is a pair of instruction frames of the file, and
  the stored cells are runs that begin at an origin. This is not inductive: the cell about
  to be stored must be justified before it is. `Provenance` adds that the address is -1, an
  origin of the file, or one past a cell already stored.
* `BinKeepsPromise`, `RimKeepsPromise`: `Spec => Promise!Spec`. Every step of a loader is a
  store, a return or a stutter of `Loader`. A count must not be taken for the -1 of a refusal,
  which is where the invariant is used.
* `PaperdumpTypeCorrect`, `PrintsWhatWasPunched`, `PaperdumpKeepsPromise`: the same for
  the program that calls them. A step of `Paperdump` is a step of the loader in use, whose
  lemmas apply through `INSTANCE`, or a `dump`, which comes when nothing is stored any more.
  `Punched` carries this: `Provenance`, and whatever is on the screen is in core. So the words
  printed of a BIN tape are pairs of its instruction frames.
* `ChangedByteNoticed` (`ChangedTapeProofs`): what the checksum catches. Of two files that differ
  in the data bits of one byte, `load_bin` refuses one or loads the same words from both. The two
  loaders run side by side. `PairInv` says that one of them has refused or will (a file that
  begins with an instruction frame has no origin), or that they are in step: the same place and
  address, and either the same sum and core, or sums that differ by what the byte changed
  by. That is between -63 and 63 and not 0, so it does not vanish when the sum is cut to 12
  bits; a byte of the checksum itself is compared, not summed.
* `WholeTapeDumped`, `CutTapeLeavesPart`: the loaders do what they are for, for every well
  punched tape of either format read from an offset that does not reach past its leader
  (`TapeSpec` of `WholeTape`). Whatever its length, padding and leader, a tape that fits core
  is accepted, core holds just what its items say, and `paperdump` prints it; of a tape that
  breaks off anywhere, or does not fit, core holds what the items up to some place say. What a
  tape says would be a fold over its items, about which nothing can be proved by induction
  here. `layout` lists the intermediate results of that fold instead: where each item begins,
  and the address, sum and core before it. `WellPunched` asks of neighbours in the list what
  the item between them changes. The induction is then that over the steps of the loader:
  `BinReading` and `RimReading` say that in the frames it is at item `k`, with
  its address, sum and core those of the list. That `load_bin` takes the two frames
  before a trailer for the checksum needs that no other item is followed by what looks like
  one (`MoreToRead`).

**Only model-checked**, and why:

* The liveness properties and the fairness halves of the refinements of `HaltSwitch` and
  `Loader`: TLAPS has neither liveness nor ENABLED. This is also why `RequestIsHonoured` and
  `ImplementsSwitch` as a whole are TLC's.
* That scripts are executed word for word: a recursive `split` takes induction over a line, which
  these provers cannot do. For tapes the induction is avoided: that the tapes `Punch` makes,
  with its folds, are `WellPunched` is an ASSUME of `MCTapes`, which TLC evaluates.
* The packed characters of `LincPrograms` (`CharactersArePacked`): the program needs an
  invariant of its own like `AtWork`. That any of the programs ends is liveness.
* `CharactersDoNotOverlap`: it is about characters drawn one after the other, which the run
  has in many places; where a DIS has just plotted into the place of a character it is false.

## Findings

Six disagreements between the code and what the source says of itself have a run that
shows them:

| Run | Code | Documentation |
|---|---|---|
| `interrupted_update` | SIGINT between load and store of `cpu_set_flag` is undone by the store (`cpu.c:105-113`) | "User requested HALT." (`pdp12c.c:117`) |
| `text_is_translated` | the escape mode that a backslash starts never ends, and quotes, backslashes and unknown codes leave bytes of the copy as `malloc` returned them (`parser.c:53`) | "a NULL separated string with the translated result" (`parser.c:29-30`) |
| `characters_on_screen` | DSC passes y untranslated, x past 0777 (`vr12.c:26`) | coordinates are translated (`vr12.h:15-20`) |
| `inhibit` | LINC_II is never cleared, not even by a jump inside the new field (`linc.c:483`) | "until next JMP in new IF" (`cpu.h:53`), "if we aren't waiting for a new IF" (`linc.c:480-482`) |
| `tad` | the link is only ever set, `~1` is true (`pdp8.c:56`) | "Two's Complement Add", "Link (AC extension)" |
| `dca` | the last word of a page addresses the next (`pdp8.c:146`) | "This page or page 0?" (`pdp8.c:146`) |

Others were met while modelling. The modules do in these places what the code does, and no
run is spent on them:

| Code | Documentation |
|---|---|
| `exit` ends the innermost command loop (`shell.c:35`) | "Exits the emulator" (`shell.c:217`) |
| ROR by more than 12: bits that come round a second time are lost on their way to MQ (`linc.c:387`) | "data rotated "out" of the AC is shifted into MQ" (`linc.c:372-373`) |
| DSC ignores the pattern (`vr12.c:25`) | a bit for each point (`vr12.h:27-33`) |
| the i bit is shifted twice, SFA is never recognised (`linc.c:857`), LDF and LIF cannot name fields 020 to 037 (`linc.c:657`) | "Place Special Function Flip-Flops in AC" (`linc.c:739`), "Load data field register with N." (`linc.c:654`) |
| samples of zero or less leave -512 in AC (`linc.c:593`) | "between -0777 and 0777" (`cpu.h:80`) |
| the rest of a line that is too long is read, and executed, as the next line (`readln.c`) | "Long commands are truncated" (`readln.c:24`) |
| `load_bin` returns the frames it read, origins and field directives included (`bin.c:72`) | the "number of words read" (`bin.h:20`) |
| RMF, a code of the processor, prints (`asr33.c:71`) | codes declared in `iob.h:15` |

The properties of the passing runs describe what the code does around these places: for
instance `TypeOK` gives AC the range that SAM leaves it in, and `ShiftsAreSerial` leaves out
MQ where ROR shifts by more than 12.

## Not modelled, and why

* `set` with a value wider than its register or word, and the `linc` command with a counter
  above 01777 within its field (bit 02000): both start the machine outside of its invariant.
  `StartOK` leaves them out, and `hazards` lists them. `Boot` gives values in range.
* `step` on the whole machine: `Boot` starts programs with `run`; `Console` has `step`, at the
  level of the flags.
* The SDL window, its events and pixel formats, and builds without SDL or without a screen,
  which show nothing.
* `log.c` and the commands that only print (`state`, `dump`, `help`): formatting and output.
* `paperdump`'s argument parser, GNU readline and the prompt.
* Scripts that run themselves: the code has no bound, `MaxNesting` is the model's.
* `sig_int`'s own `printf`, which may interrupt `malloc` or `printf`: the C library is not
  modelled.
* The unsigned count in `cmd_run` wraps at 2^32, which 1000 does not divide: one fade comes
  early, after billions of instructions. `i` counts modulo `FadePeriod`.
* Device dispatch in `iob.c` and the two reset functions: nothing attaches a device and
  nothing calls them.

## Plan

Done: the machine, the console with the display surface, the loaders and `paperdump`, the
parser and scripts, the boot of whole programs from tape by commands; the invariants and
action properties of the machine, of the console and of both loaders proved, arithmetic proved
exact, the refinements' safety halves, `paperdump` as a whole, what the BIN checksum catches,
that whole tapes are loaded, and the calls, the long sums, the table, the block copy and the print loop for any data.

Next, in this order:

1. One more program, as `ProgramProofs` does for seven: the packed characters of
   `LincPrograms` for any characters and place.
2. `LincLinkage`: an abstract specification of calls and field changes (who may be resumed
   where), which the JMP, LIF and trap actions of `Linc` implement.
3. `set` and `linc` with values outside of the machine's widths, and what the first
   instructions make of them; `step` in `Boot`.
