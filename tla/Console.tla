------------------------------ MODULE Console ------------------------------
(***************************************************************************)
(* The console frontend: the shell and its scripts (shell.c), the run loop *)
(* of cmd_run, and the SIGINT handler that interrupts it (pdp12c.c).  The  *)
(* handler runs on the main thread's own stack, between two of its machine *)
(* instructions, and finishes before the main program goes on.             *)
(* The processor is reduced to what its instructions do to cpu->flags,     *)
(* through cpu_set_flag and cpu_clear_flag, and to the points they draw on *)
(* the VR-12, which the run loop fades and shows.                          *)
(***************************************************************************)
EXTENDS Naturals, Sequences

CONSTANTS
  Scripts,          \* the lines of each script file, by name
  Startup,          \* the scripts that can be given with -s
  Flags,            \* the names of the bits of cpu->flags, RUN among them
  MaxNesting,       \* bound on scripts that run scripts; the code has none
  Builds,           \* whether a build updates cpu->flags in one machine instruction
  Points,           \* the points of the display surface, x and y
  Bright,           \* the brightness of a point just drawn: 0xFF
  FadeStep,         \* how much a fade takes away: 10
  FadePeriod        \* the instructions between two fades: 1000

Terminal == "terminal"
Modes == {"8MODE"}
Commands == {"run", "step", "exit", "pdp8", "linc"}
\* A line that names a script is the "script" command for it.
Lines == Commands \union DOMAIN Scripts
ASSUME ScriptsAssumption ==
  /\ Terminal \notin DOMAIN Scripts
  /\ \A s \in DOMAIN Scripts : Scripts[s] \in Seq(Lines)
ASSUME StartupAssumption == Startup \subseteq DOMAIN Scripts
ASSUME FlagsAssumption == {"RUN"} \union Modes \subseteq Flags
ASSUME NestingAssumption == MaxNesting \in Nat
ASSUME BuildsAssumption == Builds \subseteq BOOLEAN
ASSUME FadeAssumption == Bright \in Nat \ {0} /\ FadeStep \in Nat \ {0} /\ FadePeriod \in Nat \ {0}

VARIABLES
  flags,   \* cpu->flags
  at,      \* where the main program is
  copy,    \* {} or {w}: w is the flag word in a register, to be stored by an update
  inputs,  \* what commands are read from, innermost first: each shell loop's line and end
  atomic,  \* the build: its flag updates are one machine instruction
  i,       \* cmd_run's count of instructions, modulo FadePeriod
  surface, \* vr12_surface: the brightness of each point in either channel
  screen   \* what SDL shows

vars == <<flags, at, copy, inputs, atomic, i, surface, screen>>
quiet == <<i, surface, screen, atomic>>   \* what most steps leave alone

Cells == {0, 1} \X Points   \* channel and point
Black == [c \in Cells |-> 0]

\* "start", "loop" and "step" are in cmd_run, "one" is cpu_step called by cmd_step.
Places == {"prompt", "start", "loop", "step", "one", "exited"}
Reading(file) == [file |-> file, next |-> 1, end |-> FALSE]

Init ==
  /\ flags = {}
  /\ at = "prompt"
  /\ copy = {}
  /\ atomic \in Builds
  /\ i = 0 /\ surface = Black /\ screen = Black
  /\ \/ inputs = <<Reading(Terminal)>>
     \/ \E s \in Startup : inputs = <<Reading(s), Reading(Terminal)>>
----------------------------------------------------------------------------
At(place) == at = place /\ copy = {}

\* cpu_set_flag and cpu_clear_flag: load, modify, store.
Update(new, place) ==
  /\ at' = place
  /\ IF atomic THEN flags' = new /\ UNCHANGED copy
     ELSE copy' = {new} /\ UNCHANGED flags
Store ==
  /\ flags' \in copy /\ copy' = {}
  /\ UNCHANGED <<at, inputs, quiet>>

\* parser_exec: a command may move the main program, change a flag, or open a script.
Goto(place) == at' = place /\ UNCHANGED <<flags, copy>>
Execute(line, rest) ==
  \/ line = "run" /\ Goto("start") /\ inputs' = rest
  \/ line = "step" /\ Goto("one") /\ inputs' = rest
  \/ line = "exit" /\ Goto("prompt") /\ inputs' = [rest EXCEPT ![1].end = TRUE]
  \/ line = "pdp8" /\ Update(flags \union Modes, "prompt") /\ inputs' = rest
  \/ line = "linc" /\ Update(flags \ Modes, "prompt") /\ inputs' = rest
  \/ /\ line \in DOMAIN Scripts /\ Len(inputs) < MaxNesting
     /\ Goto("prompt") /\ inputs' = <<Reading(line)>> \o rest

\* One turn of the loop in shell_start, and of the one in shell_script.
Innermost == inputs[1]
AtEnd == Innermost.file # Terminal /\ Innermost.next > Len(Scripts[Innermost.file])
TypedLine ==
  /\ At("prompt") /\ Innermost.file = Terminal /\ ~Innermost.end
  /\ \E line \in Lines : Execute(line, inputs)
  /\ UNCHANGED quiet
ScriptLine ==
  /\ At("prompt") /\ Innermost.file # Terminal /\ ~Innermost.end /\ ~AtEnd
  /\ Execute(Scripts[Innermost.file][Innermost.next], [inputs EXCEPT ![1].next = @ + 1])
  /\ UNCHANGED quiet
\* Mutant: main does not return.
EndOfInputMutant ==
  /\ At("prompt") /\ (Innermost.end \/ AtEnd)
  /\ inputs' = Tail(inputs)
  /\ UNCHANGED <<flags, copy, at, quiet>>
\* The loop ends on its own "exit" or at the end of the script; the terminal's ends main.
EndOfInput ==
  /\ At("prompt") /\ (Innermost.end \/ AtEnd)
  /\ inputs' = Tail(inputs)
  /\ at' = IF Len(inputs) = 1 THEN "exited" ELSE "prompt"
  /\ UNCHANGED <<flags, copy, quiet>>
Hangup ==
  /\ At("prompt") /\ Innermost.file = Terminal /\ ~Innermost.end
  /\ inputs' = << >> /\ at' = "exited" /\ UNCHANGED <<flags, copy, quiet>>
----------------------------------------------------------------------------
\* cmd_run: set RUN, then step while it is set.
StartRun ==
  /\ At("start") /\ Update(flags \union {"RUN"}, "loop")
  /\ i' = 0
  /\ UNCHANGED <<inputs, surface, screen, atomic>>
\* Mutant: RUN is not tested.
TestMutant == At("loop") /\ at' = "step" /\ UNCHANGED <<flags, copy, inputs, quiet>>
Test ==
  /\ At("loop")
  /\ at' = IF "RUN" \in flags THEN "step" ELSE "prompt"
  /\ UNCHANGED <<flags, copy, inputs, quiet>>

\* cpu_step: any number of flag updates - no instruction sets RUN - and of points drawn.
InStep == at \in {"step", "one"} /\ copy = {}
\* Mutant: an instruction may set RUN.
FlagInstrMutant ==
  /\ InStep
  /\ \E f \in Flags : Update(flags \union {f}, at) \/ Update(flags \ {f}, at)
  /\ UNCHANGED <<inputs, quiet>>
FlagInstr ==
  /\ InStep
  /\ \/ \E f \in Flags \ {"RUN"} : Update(flags \union {f}, at)
     \/ \E f \in Flags : Update(flags \ {f}, at)
  /\ UNCHANGED <<inputs, quiet>>

\* vr12_plot: channel 0, channel 1, or both.
Drawn(channel, p) == {<<c, p>> : c \in IF channel \in {0, 1} THEN {channel} ELSE {0, 1}}
Plot ==
  /\ InStep
  /\ \E channel \in {0, 1, 2}, p \in Points :
       surface' = [c \in Cells |-> IF c \in Drawn(channel, p) THEN Bright ELSE surface[c]]
  /\ UNCHANGED <<flags, at, copy, inputs, i, screen, atomic>>

\* Mutant: a point fades below zero, and an unsigned char wraps.
FadedMutant(b) == IF b > 0 THEN (b - FadeStep) % (Bright + 1) ELSE b
\* vr12_fade, for one point.
Faded(b) == IF b > FadeStep THEN b - FadeStep ELSE b
\* Mutant: the screen is not updated.
ShowMutant ==
  surface' = [c \in Cells |-> Faded(surface[c])] /\ UNCHANGED screen
Show == surface' = [c \in Cells |-> Faded(surface[c])] /\ screen' = surface'

\* Mutant: cmd_run leaves its loop.
StepDoneMutant == InStep /\ at' = "prompt" /\ UNCHANGED <<flags, copy, inputs, quiet>>
\* cpu_step returns: to the run loop, which fades the surface and shows it every so often,
\* or to cmd_step, which does neither.
StepDone ==
  /\ InStep
  /\ at' = IF at = "step" THEN "loop" ELSE "prompt"
  /\ IF at = "step"
     THEN /\ i' = (i + 1) % FadePeriod
          /\ IF i' = 0 THEN Show ELSE UNCHANGED <<surface, screen>>
     ELSE UNCHANGED <<i, surface, screen>>
  /\ UNCHANGED <<flags, copy, inputs, atomic>>

\* sig_int: told to halt while RUN is set, it clears RUN and says so.
SigInt ==
  /\ at # "exited" /\ "RUN" \in flags
  /\ flags' = flags \ {"RUN"}
  /\ UNCHANGED <<at, copy, inputs, quiet>>

Exited == at = "exited" /\ UNCHANGED vars

Main ==
  \/ TypedLine \/ ScriptLine \/ EndOfInput \/ Hangup
  \/ StartRun \/ Test \/ FlagInstr \/ Plot \/ StepDone \/ Store
Next == Main \/ SigInt \/ Exited
Spec == Init /\ [][Next]_vars

\* The process is scheduled, instructions are finite and files end; nobody has to type,
\* and no program has to halt.
Fairness ==
  /\ WF_vars(Store) /\ WF_vars(StartRun) /\ WF_vars(Test) /\ SF_vars(StepDone)
  /\ WF_vars(ScriptLine) /\ WF_vars(EndOfInput)
FairSpec == Spec /\ Fairness
----------------------------------------------------------------------------
TypeOK ==
  /\ flags \subseteq Flags
  /\ at \in Places
  /\ copy \subseteq SUBSET Flags
  /\ inputs \in Seq([file : DOMAIN Scripts \union {Terminal}, next : Nat \ {0}, end : BOOLEAN])
  /\ (at # "exited") = (inputs # << >>)
  /\ atomic \in BOOLEAN
  /\ i \in 0 .. FadePeriod - 1
  /\ surface \in [Cells -> 0 .. Bright] /\ screen \in [Cells -> 0 .. Bright]

\* The shell reads commands, "step" executes its one instruction and "run" sets RUN only
\* on a machine that has stopped: no run is left behind by an interrupt or a script.
PromptIsStopped == at \in {"prompt", "start", "one", "exited"} => "RUN" \notin flags

\* Once the program or the operator has cleared RUN nothing in the run loop sets it again,
\* where the build updates the flags in one instruction: no step puts an old word back.
HaltIsNotUndone ==
  [][(atomic /\ at \in {"loop", "step"} /\ ~("RUN" \in flags)) => ~("RUN" \in flags')]_vars

\* Seen from the prompt, the run loop and the handler are a run switch; and where the flags
\* are updated in one instruction a switch that has been told to stop does.
SwitchState ==
  IF at \in {"loop", "step"}
  THEN IF "RUN" \in flags \union UNION copy THEN "running" ELSE "halting"
  ELSE "stopped"
Switch == INSTANCE HaltSwitch WITH state <- SwitchState
ImplementsSwitch == Switch!Spec /\ (atomic => Switch!Fairness)

\* pdp12c.c, sig_int: "User requested HALT." - and then it halts.
ToldToHalt == at = "step" /\ "RUN" \notin flags
RequestIsHonoured == ToldToHalt ~> (at = "prompt")

\* pdp12c.c: fading never brightens a point, never puts out one that was drawn, and leaves
\* alone what has never been drawn: an unsigned char does not wrap.
FadingOnlyDims ==
  [][\A c \in Cells :
       surface'[c] # surface[c] =>
         surface'[c] = Bright \/ surface'[c] \in 1 .. surface[c] - 1]_vars

\* A program that goes on running has what it has drawn shown, though the count of
\* instructions starts anew with every run.
DrawnIsShown ==
  \A c \in Cells : (at = "step" /\ surface[c] > 0) ~> (screen[c] > 0 \/ at = "prompt")
=============================================================================
