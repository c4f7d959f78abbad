------------------------------- MODULE Script ------------------------------
(***************************************************************************)
(* Command lines on their way from a file to the command table: the loop   *)
(* of shell_script, and the one of shell_start over readln_basic, which    *)
(* read with fgets into a buffer of a fixed size and hand what they get to *)
(* parser_exec.  What the commands do is the console's.                    *)
(***************************************************************************)
EXTENDS Parser

CONSTANTS
  Files,     \* the texts that can be read
  LineSize   \* MAX_SCRIPT_LINE_LENGTH or MAX_CMD_LENGTH, the NUL included
ASSUME FilesAssumption == Files \subseteq Seq(Char)
ASSUME LineSizeAssumption == LineSize \in Nat \ {0, 1}

VARIABLES
  file,     \* what is still to be read
  line,     \* what fgets has put in the buffer
  at,       \* "read", "exec" or "end"
  called    \* the vectors the commands were called with

vars == <<file, line, at, called>>

Init == file \in Files /\ line = << >> /\ at = "read" /\ called = << >>

\* fgets: up to and with a newline, or as much as the buffer takes.
Fgets(text) ==
  CHOOSE n \in 1 .. Len(text) :
    /\ n = LineSize - 1 \/ text[n] = "newline" \/ n = Len(text)
    /\ \A m \in 1 .. n - 1 : text[m] # "newline" /\ m # LineSize - 1
ReadLine ==
  /\ at = "read" /\ file # << >>
  /\ line' = SubSeq(file, 1, Fgets(file))
  /\ file' = SubSeq(file, Fgets(file) + 1, Len(file))
  /\ at' = "exec" /\ UNCHANGED called
\* Mutant: the loop does not notice.
EndOfFileMutant == at = "read" /\ file = << >> /\ UNCHANGED vars
EndOfFile == at = "read" /\ file = << >> /\ at' = "end" /\ UNCHANGED <<file, line, called>>

\* exit ends the loop that read it.
Exec ==
  /\ at = "exec" /\ UNCHANGED <<file, line>>
  /\ \E argv \in split(line) :
       IF Calls(argv)
       THEN called' = Append(called, argv) /\ at' = IF argv[1] = <<"exit">> THEN "end" ELSE "read"
       ELSE UNCHANGED called /\ at' = "read"

Ended == at = "end" /\ UNCHANGED vars
Next == ReadLine \/ EndOfFile \/ Exec \/ Ended
Spec == Init /\ [][Next]_vars /\ WF_vars(ReadLine) /\ WF_vars(Exec) /\ WF_vars(EndOfFile)
=============================================================================
