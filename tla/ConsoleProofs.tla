---------------------------- MODULE ConsoleProofs ---------------------------
(***************************************************************************)
(* Proofs about the console, for every set of scripts, every nesting bound *)
(* and both kinds of flag update: types, a stopped machine at the prompt,  *)
(* the safety part of the run switch, that a halt is not undone, and that  *)
(* the fading of the display never wraps around.                           *)
(***************************************************************************)
EXTENDS Console, SequenceTheorems, TLAPS

Input == [file : DOMAIN Scripts \union {Terminal}, next : Nat \ {0}, end : BOOLEAN]

\* Pushing, popping and advancing keep the stack of inputs a stack of inputs.
LEMMA ReadingIsInput ==
  ASSUME NEW s \in DOMAIN Scripts \union {Terminal}
  PROVE  Reading(s) \in Input
BY DEF Reading, Input

\* Reading the next line of a script leaves its loop a loop.
LEMMA AdvancedIsInput ==
  ASSUME NEW r \in Input
  PROVE  [r EXCEPT !.next = @ + 1] \in Input
BY DEF Input

\* "exit" leaves the loop a loop, at its end.
LEMMA EndedIsInput ==
  ASSUME NEW r \in Input
  PROVE  [r EXCEPT !.end = TRUE] \in Input
BY DEF Input

\* The same of the innermost loop on the stack.
LEMMA AdvanceTyped ==
  ASSUME NEW q \in Seq(Input), q # << >>
  PROVE  /\ [q EXCEPT ![1].next = @ + 1] \in Seq(Input) \ {<< >>}
         /\ [q EXCEPT ![1].end = TRUE] \in Seq(Input) \ {<< >>}
<1>1. 1 \in DOMAIN q /\ q[1] \in Input
  OBVIOUS
<1>2. /\ [q[1] EXCEPT !.next = @ + 1] \in Input
      /\ [q[1] EXCEPT !.end = TRUE] \in Input
  BY <1>1, AdvancedIsInput, EndedIsInput
<1> QED
  BY <1>1, <1>2

\* Cells fade inside their range, and one that was lit stays lit.
LEMMA FadedInRange ==
  ASSUME NEW b \in 0 .. Bright
  PROVE  /\ Faded(b) \in 0 .. b /\ Faded(b) \in 0 .. Bright
         /\ b > 0 => Faded(b) > 0
BY FadeAssumption DEF Faded

\* The types of the display's variables, a part of TypeOK.
DisplayOK ==
  /\ i \in 0 .. FadePeriod - 1
  /\ surface \in [Cells -> 0 .. Bright] /\ screen \in [Cells -> 0 .. Bright]

\* Plotting, fading and showing keep every brightness in its range.
LEMMA DisplayTyped ==
  ASSUME DisplayOK, [Next]_vars
  PROVE  DisplayOK'
<1>1. CASE UNCHANGED <<i, surface, screen>>
  BY <1>1 DEF DisplayOK
<1>2. CASE StartRun
  BY <1>2, FadeAssumption DEF DisplayOK, StartRun
<1>3. CASE Plot
  BY <1>3, FadeAssumption DEF DisplayOK, Plot
<1>4. CASE StepDone
  <2>1. Show => surface' \in [Cells -> 0 .. Bright] /\ screen' \in [Cells -> 0 .. Bright]
    <3>1. \A c \in Cells : Faded(surface[c]) \in 0 .. Bright
      BY FadedInRange DEF DisplayOK
    <3> QED
      BY <3>1 DEF Show
  <2>2. (i + 1) % FadePeriod \in 0 .. FadePeriod - 1
    BY FadeAssumption DEF DisplayOK
  <2> QED
    BY <1>4, <2>1, <2>2 DEF DisplayOK, StepDone
<1> QED
  BY <1>1, <1>2, <1>3, <1>4
  DEF Next, Main, quiet, vars, TypedLine, ScriptLine, EndOfInput, Hangup, Test, FlagInstr,
      Store, SigInt, Exited

\* What executing a line does to the places and the inputs.
LEMMA ExecuteTyped ==
  ASSUME NEW line \in Lines, NEW rest \in Seq(Input) \ {<< >>},
         TypeOK, Execute(line, rest)
  PROVE  /\ inputs' \in Seq(Input) \ {<< >>}
         /\ at' \in Places \ {"exited"}
         /\ flags' \subseteq Flags
         /\ copy' \subseteq SUBSET Flags
<1>1. CASE line = "exit" /\ Goto("prompt") /\ inputs' = [rest EXCEPT ![1].end = TRUE]
  BY <1>1, AdvanceTyped DEF Goto, Places, TypeOK
<1>2. CASE line \in DOMAIN Scripts /\ Goto("prompt") /\ inputs' = <<Reading(line)>> \o rest
  <2>1. Reading(line) \in Input
    BY <1>2, ReadingIsInput
  <2>2. <<Reading(line)>> \o rest \in Seq(Input) \ {<< >>}
    BY <2>1
  <2> QED
    BY <1>2, <2>2 DEF Goto, Places, TypeOK
<1>3. CASE Goto("start") \/ Goto("one")
  BY <1>1, <1>2, <1>3 DEF Goto, Places, TypeOK, Execute, Update
<1>4. CASE Update(flags \union Modes, "prompt") \/ Update(flags \ Modes, "prompt")
  BY <1>1, <1>2, <1>4, FlagsAssumption DEF Update, Places, TypeOK, Execute, Goto
<1> QED
  BY <1>1, <1>2, <1>3, <1>4 DEF Execute
----------------------------------------------------------------------------
\* Every place, flag word and stack of inputs keeps its type; the stack is empty exactly
\* when main has returned.
THEOREM TypeCorrect == Spec => []TypeOK
<1>1. Init => TypeOK
  <2> SUFFICES ASSUME Init PROVE TypeOK
    OBVIOUS
  <2>1. \A s \in Startup \union {Terminal} : Reading(s) \in Input
    BY ReadingIsInput, StartupAssumption
  <2>2. \A r, q \in Input : /\ <<r>> \in Seq(Input) \ {<< >>}
                            /\ <<r, q>> \in Seq(Input) \ {<< >>}
    OBVIOUS
  <2>3. inputs \in Seq(Input) \ {<< >>}
    BY <2>1, <2>2 DEF Init
  <2>4. DisplayOK
    BY FadeAssumption DEF Init, DisplayOK, Black
  <2> QED
    BY <2>3, <2>4, FlagsAssumption, BuildsAssumption DEF Init, TypeOK, Places, Input, DisplayOK
<1>2. TypeOK /\ [Next]_vars => TypeOK'
  <2> SUFFICES ASSUME TypeOK, [Next]_vars PROVE TypeOK'
    OBVIOUS
  <2>typed. inputs \in Seq(Input)
    BY DEF TypeOK, Input
  <2>display. DisplayOK'
    BY DisplayTyped DEF TypeOK, DisplayOK
  <2> SUFFICES /\ flags' \subseteq Flags /\ at' \in Places /\ copy' \subseteq SUBSET Flags
               /\ inputs' \in Seq(Input) /\ (at' # "exited") = (inputs' # << >>)
               /\ atomic' = atomic
    BY <2>display DEF TypeOK, DisplayOK, Input
  <2> USE DEF quiet
  <2>1. CASE TypedLine
    <3>1. inputs \in Seq(Input) \ {<< >>}
      BY <2>1, <2>typed DEF TypedLine, At, TypeOK
    <3> QED
      BY <2>1, <3>1, ExecuteTyped DEF TypedLine, TypeOK, Input
  <2>2. CASE ScriptLine
    <3>1. inputs \in Seq(Input) \ {<< >>}
      BY <2>2, <2>typed DEF ScriptLine, At, TypeOK
    <3>2. [inputs EXCEPT ![1].next = @ + 1] \in Seq(Input) \ {<< >>}
      BY <3>1, AdvanceTyped
    <3>3. inputs[1].file \in DOMAIN Scripts /\ inputs[1].next \in DOMAIN Scripts[inputs[1].file]
      <4>1. inputs[1] \in Input
        BY <3>1
      <4>2. inputs[1].file \in DOMAIN Scripts /\ inputs[1].next \in Nat \ {0}
        BY <2>2, <4>1 DEF ScriptLine, Innermost, Input
      <4>3. Scripts[inputs[1].file] \in Seq(Lines)
        BY <4>2, ScriptsAssumption
      <4>4. inputs[1].next <= Len(Scripts[inputs[1].file])
        BY <2>2, <4>2, <4>3 DEF ScriptLine, AtEnd, Innermost
      <4> QED
        BY <4>2, <4>3, <4>4
    <3>4. Scripts[Innermost.file][Innermost.next] \in Lines
      BY <3>3, ScriptsAssumption DEF Innermost
    <3> QED
      BY <2>2, <3>2, <3>4, ExecuteTyped DEF ScriptLine, TypeOK, Input
  <2>3. CASE EndOfInput
    <3>1. inputs \in Seq(Input) \ {<< >>}
      BY <2>3, <2>typed DEF EndOfInput, At, TypeOK
    <3>2. Tail(inputs) \in Seq(Input)
      BY <3>1
    <3>3. Tail(inputs) = << >> <=> Len(inputs) = 1
      <4>1. Len(Tail(inputs)) = Len(inputs) - 1 /\ Len(inputs) \in Nat
        BY <3>1
      <4> QED
        BY <3>2, <4>1, EmptySeq
    <3> QED
      BY <2>3, <3>2, <3>3 DEF EndOfInput, TypeOK, Places, Input, At
  <2>4. CASE Hangup
    BY <2>4 DEF Hangup, TypeOK, Places, At, Input
  <2>5. CASE StartRun \/ Test \/ Plot \/ StepDone \/ SigInt
    BY <2>5, <2>typed, FlagsAssumption
    DEF StartRun, Test, Plot, StepDone, SigInt, TypeOK, Places, At, InStep, Update
  <2>6. CASE FlagInstr \/ Store
    BY <2>6, <2>typed DEF FlagInstr, Store, TypeOK, Places, InStep, Update
  <2>7. CASE Exited \/ UNCHANGED vars
    BY <2>7, <2>typed DEF Exited, vars, TypeOK
  <2> QED
    BY <2>1, <2>2, <2>3, <2>4, <2>5, <2>6, <2>7 DEF Next, Main
<1> QED
  BY <1>1, <1>2, PTL DEF Spec
----------------------------------------------------------------------------
\* PromptIsStopped is not inductive: an update begun at the prompt must not be about to
\* store a flag word with RUN in it.
Stopped ==
  at \in {"prompt", "start", "one", "exited"} =>
    "RUN" \notin flags /\ \A w \in copy : "RUN" \notin w

\* Executing a command leaves a stopped machine stopped.
LEMMA ExecuteStopped ==
  ASSUME NEW line, NEW rest, Stopped, at = "prompt", copy = {}, Execute(line, rest)
  PROVE  Stopped' /\ at' \notin {"loop", "step"}
BY DEF Execute, Goto, Update, Modes, Stopped

\* No step makes a stopped machine run but the one that leaves the prompt for the run loop.
LEMMA StoppedIsInductive ==
  ASSUME Stopped, [Next]_vars
  PROVE  Stopped'
<1>1. CASE TypedLine \/ ScriptLine
  BY <1>1, ExecuteStopped DEF TypedLine, ScriptLine, At
<1>2. CASE EndOfInput \/ Hangup
  BY <1>2 DEF EndOfInput, Hangup, At, Stopped
<1>3. CASE StartRun \/ Test
  BY <1>3 DEF StartRun, Test, At, Update, Stopped
<1>4. CASE FlagInstr
  BY <1>4 DEF FlagInstr, InStep, Update, Stopped
<1>5. CASE StepDone \/ Plot
  BY <1>5 DEF StepDone, Plot, InStep, Stopped
<1>6. CASE Store \/ SigInt
  BY <1>6 DEF Store, SigInt, Stopped
<1>7. CASE Exited \/ UNCHANGED vars
  BY <1>7 DEF Exited, vars, Stopped
<1> QED
  BY <1>1, <1>2, <1>3, <1>4, <1>5, <1>6, <1>7 DEF Next, Main

\* Whatever scripts are run and wherever SIGINT falls, the prompt, "step" and the start of
\* "run" find the run flip-flop clear, even if the build tears its flag updates.
THEOREM PromptAlwaysStopped == Spec => []PromptIsStopped
<1>1. Init => Stopped
  BY DEF Init, Stopped
<1>2. Stopped /\ [Next]_vars => Stopped'
  BY StoppedIsInductive
<1>3. Stopped => PromptIsStopped
  BY DEF Stopped, PromptIsStopped
<1> QED
  BY <1>1, <1>2, <1>3, PTL DEF Spec
----------------------------------------------------------------------------
\* Where the flags are updated in one instruction, no update is ever half done.
NothingHalfDone == atomic => copy = {}

\* A command leaves no update half done.
LEMMA ExecuteAtomic ==
  ASSUME NEW line, NEW rest, atomic, copy = {}, Execute(line, rest)
  PROVE  copy' = {}
BY DEF Execute, Goto, Update

\* The build does not change, and so no flag word is ever held in a register.
LEMMA NothingHalfDoneIsInductive ==
  ASSUME NothingHalfDone, [Next]_vars
  PROVE  NothingHalfDone'
<1> USE DEF NothingHalfDone, quiet
<1>1. CASE TypedLine \/ ScriptLine
  BY <1>1, ExecuteAtomic DEF TypedLine, ScriptLine
<1>2. CASE EndOfInput \/ Hangup \/ StartRun \/ Test \/ StepDone \/ SigInt
  BY <1>2 DEF EndOfInput, Hangup, StartRun, Test, StepDone, SigInt, Update
<1>3. CASE FlagInstr \/ Plot \/ Store \/ Exited \/ UNCHANGED vars
  BY <1>3 DEF FlagInstr, Plot, Store, Exited, vars, Update
<1> QED
  BY <1>1, <1>2, <1>3 DEF Next, Main

\* With such updates, a request to halt made in the run loop is not undone before the
\* loop has seen it.
THEOREM HaltsAreNotUndone == Spec => HaltIsNotUndone
<1> DEFINE Kept == (atomic /\ at \in {"loop", "step"} /\ ~("RUN" \in flags)) => ~("RUN" \in flags')
<1>1. NothingHalfDone /\ [Next]_vars => [Kept]_vars
  <2> SUFFICES ASSUME copy = {}, atomic, Next, at \in {"loop", "step"}, "RUN" \notin flags
               PROVE  "RUN" \notin flags'
    BY DEF vars, NothingHalfDone
  <2>1. CASE TypedLine \/ ScriptLine \/ EndOfInput \/ Hangup \/ StartRun
    BY <2>1 DEF TypedLine, ScriptLine, EndOfInput, Hangup, StartRun, At
  <2>2. CASE Test \/ Plot \/ StepDone \/ SigInt \/ Store \/ Exited
    BY <2>2 DEF Test, Plot, StepDone, SigInt, Store, Exited, vars
  <2>3. CASE FlagInstr
    BY <2>3 DEF FlagInstr, Update
  <2> QED
    BY <2>1, <2>2, <2>3 DEF Next, Main
<1>2. Init => NothingHalfDone
  BY DEF Init, NothingHalfDone
<1>3. NothingHalfDone /\ [Next]_vars => NothingHalfDone'
  BY NothingHalfDoneIsInductive
<1> QED
  BY <1>1, <1>2, <1>3, PTL DEF Spec, HaltIsNotUndone
----------------------------------------------------------------------------
\* Whatever the brightness of a new point, the size of a fade and its period are: fading
\* dims, puts nothing out, and never wraps around.
THEOREM FadesOnlyDim == Spec => FadingOnlyDims
<1> DEFINE Dims == \A c \in Cells :
                     surface'[c] # surface[c] =>
                       surface'[c] = Bright \/ surface'[c] \in 1 .. surface[c] - 1
<1>1. Init => DisplayOK
  BY FadeAssumption DEF Init, DisplayOK, Black
<1>2. DisplayOK /\ [Next]_vars => DisplayOK'
  BY DisplayTyped
<1>3. DisplayOK /\ [Next]_vars => [Dims]_vars
  <2> SUFFICES ASSUME DisplayOK, [Next]_vars, NEW c \in Cells, surface'[c] # surface[c]
               PROVE  surface'[c] = Bright \/ surface'[c] \in 1 .. surface[c] - 1
    OBVIOUS
  <2>1. CASE Plot
    BY <2>1 DEF Plot
  <2>2. CASE StepDone
    <3>1. surface'[c] = Faded(surface[c]) /\ surface[c] \in 0 .. Bright
      BY <2>2 DEF StepDone, Show, DisplayOK
    <3>2. Faded(surface[c]) \in 0 .. surface[c] /\ (surface[c] > 0 => Faded(surface[c]) > 0)
      BY <3>1, FadedInRange
    <3> QED
      BY <3>1, <3>2
  <2>3. CASE UNCHANGED surface
    BY <2>3
  <2> QED
    BY <2>1, <2>2, <2>3
    DEF Next, Main, quiet, vars, TypedLine, ScriptLine, EndOfInput, Hangup, StartRun, Test,
        FlagInstr, Store, SigInt, Exited
<1> QED
  BY <1>1, <1>2, <1>3, PTL DEF Spec, FadingOnlyDims
----------------------------------------------------------------------------
\* Seen from the prompt, the run loop, its commands and the handler are the run switch of
\* HaltSwitch: it is started by a command only and stops before it is started again.
THEOREM IsARunSwitch == Spec => Switch!Spec
<1>1. Init => Switch!Init
  BY DEF Init, Switch!Init, SwitchState
<1>2. Stopped /\ Stopped' /\ [Next]_vars => [Switch!Next]_SwitchState
  <2> SUFFICES ASSUME Stopped, [Next]_vars PROVE [Switch!Next]_SwitchState
    OBVIOUS
  <2> USE DEF Switch!Next, SwitchState
  <2>1. CASE TypedLine \/ ScriptLine
    <3>1. at = "prompt" /\ at' \notin {"loop", "step"}
      BY <2>1, ExecuteStopped DEF TypedLine, ScriptLine, At
    <3> QED
      BY <3>1
  <2>2. CASE EndOfInput \/ Hangup
    BY <2>2 DEF EndOfInput, Hangup, At
  <2>3. CASE StartRun
    <3>1. at = "start" /\ at' = "loop"
      BY <2>3 DEF StartRun, At, Update
    <3>2. "RUN" \in flags' \union UNION copy'
      BY <2>3 DEF StartRun, Update
    <3> QED
      BY <3>1, <3>2 DEF Switch!Run
  <2>4. CASE Test
    BY <2>4 DEF Test, At, Switch!Stop
  <2>5. CASE FlagInstr
    BY <2>5 DEF FlagInstr, InStep, Update, Switch!Halt
  <2>6. CASE StepDone \/ Plot
    BY <2>6 DEF StepDone, Plot, InStep
  <2>7. CASE Store
    BY <2>7 DEF Store, Switch!Halt
  <2>8. CASE SigInt
    BY <2>8 DEF SigInt, Switch!Halt
  <2>9. CASE Exited \/ UNCHANGED vars
    BY <2>9 DEF Exited, vars
  <2> QED
    BY <2>1, <2>2, <2>3, <2>4, <2>5, <2>6, <2>7, <2>8, <2>9 DEF Next, Main
<1>3. Init => Stopped
  BY DEF Init, Stopped
<1>4. Stopped /\ [Next]_vars => Stopped'
  BY StoppedIsInductive
<1> QED
  BY <1>1, <1>2, <1>3, <1>4, PTL DEF Spec, Switch!Spec
=============================================================================
