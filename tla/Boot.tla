-------------------------------- MODULE Boot -------------------------------
(***************************************************************************)
(* From power on to the end of a program: the operator, or a script, loads *)
(* a BIN tape, sets registers and core words, selects a mode and types     *)
(* "run" (the cmd_ functions of shell.c); then the machine runs.           *)
(* It composes the tape loader with the two processor modes.               *)
(***************************************************************************)
EXTENDS Pdp12, Tape

VARIABLES
  orders,   \* the commands still to be given: each is its name and its arguments
  tape, pos, phase, addr, checksum, count, core, result   \* load_bin's, while it is called

loader == <<tape, pos, phase, addr, checksum, count, core, result>>
vars == <<cpu, orders, loader>>
Bin == INSTANCE BinLoader

NotLoading ==
  /\ tape = << >> /\ pos = 1 /\ phase = "idle" /\ addr = -1
  /\ checksum = 0 /\ count = 0 /\ core = Nothing /\ result = 0

\* The next order is taken at the prompt, on a machine that has stopped.
AtPrompt == phase = "idle" /\ ~Running
Given(name) == AtPrompt /\ orders # << >> /\ Head(orders)[1] = name /\ orders' = Tail(orders)
Order == Head(orders)

\* cmd_load opens the file and calls load_bin, which stores into cpu->core itself.
LOAD ==
  /\ Given("load")
  /\ tape' = Order[2] /\ phase' = "seek"
  /\ UNCHANGED <<cpu, pos, addr, checksum, count, core, result>>
Loading == phase # "idle" /\ Bin!Next /\ UNCHANGED <<cpu, orders>>
\* load_bin comes back: what it stored stays, also when it has refused the tape.
WithCore(c, m) ==
  [c EXCEPT !.core = [a \in DOMAIN c.core \union DOMAIN m |->
                        IF a \in DOMAIN m THEN m[a] ELSE c.core[a]]]
Loaded ==
  /\ phase = "returned" /\ cpu' = WithCore(cpu, core)
  /\ tape' = << >> /\ pos' = 1 /\ phase' = "idle" /\ addr' = -1
  /\ checksum' = 0 /\ count' = 0 /\ core' = Nothing /\ result' = 0
  /\ UNCHANGED orders

\* cmd_set stores the value as it is given, in a register or in a word of core.
SET_REGISTER == Given("set") /\ cpu' = [cpu EXCEPT ![Order[2]] = Order[3]] /\ UNCHANGED loader
SET_CORE ==
  /\ Given("deposit") /\ UNCHANGED loader
  /\ cpu' = IF Order[2] \in Address THEN WithCore(cpu, Stored(Nothing, Order[2], Order[3])) ELSE cpu

PDP8 == Given("pdp8") /\ cpu' = SetFlag(cpu, "8MODE") /\ UNCHANGED loader
LINC == Given("linc") /\ cpu' = ClearFlag(cpu, "8MODE") /\ UNCHANGED loader
RUN == Given("run") /\ cpu' = SetFlag(cpu, "RUN") /\ UNCHANGED loader

Execute == phase = "idle" /\ Step /\ UNCHANGED <<orders, loader>>
Finished == AtPrompt /\ orders = << >>

BootNext ==
  \/ LOAD \/ Loading \/ Loaded \/ SET_REGISTER \/ SET_CORE \/ PDP8 \/ LINC \/ RUN \/ Execute
  \/ Finished /\ UNCHANGED vars
=============================================================================
