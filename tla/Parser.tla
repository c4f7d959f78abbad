------------------------------- MODULE Parser ------------------------------
(***************************************************************************)
(* parser.c: a command line becomes an argument vector, and the vector a   *)
(* call from the command table.  A line is a sequence of characters; what  *)
(* the parser does not tell apart is one of Letters.                       *)
(***************************************************************************)
EXTENDS Integers, Sequences, FiniteSets

CONSTANTS
  Letters,   \* the characters that mean nothing to the parser
  Garbage,   \* what malloc can leave in a byte of the buffer: characters, or the NUL
  Params     \* the command table: the number of parameters by name, -1 for any number

NUL == "NUL"
Spaces == {"blank", "newline"}
Special == {"quote", "backslash"}
Char == Letters \union Spaces \union Special
ASSUME GarbageAssumption == Garbage \subseteq Letters \union {NUL} /\ Garbage # {}
ASSUME ParamsAssumption ==
  \A name \in DOMAIN Params : name \in Seq(Letters) /\ Params[name] \in {-1} \union Nat

----------------------------------------------------------------------------
\* parse.  Once a backslash has been met the rest of the line is escaped; until then each
\* quote opens or closes a quotation.
Before(text, i, c) == {j \in 1 .. i - 1 : text[j] = c}
Escaping(text, i) == Before(text, i, "backslash") # {}
Quoting(text, i) == Cardinality(Before(text, i, "quote")) % 2 = 1

\* The cells of the copy that parse leaves as malloc returned them: those of quotes, of the
\* backslash, and of what it complains of as an unknown escape code.
Unset(text) ==
  {i \in DOMAIN text : IF Escaping(text, i) THEN text[i] \notin {"blank", "quote"}
                       ELSE text[i] \in Special}
\* Mutant: white space separates within quotes as well.
CopiedMutant(text, i) == IF ~Escaping(text, i) /\ text[i] \in Spaces THEN NUL ELSE text[i]
Copied(text, i) ==
  IF ~Escaping(text, i) /\ ~Quoting(text, i) /\ text[i] \in Spaces THEN NUL ELSE text[i]

\* All the copies parse can come back with.
parse(text) ==
  {[i \in DOMAIN text |-> IF i \in Unset(text) THEN junk[i] ELSE Copied(text, i)] :
     junk \in [Unset(text) -> Garbage]}

\* split: strlen finds the end of a token, and the loop goes on after the NUL there.
RECURSIVE strlen(_, _)
strlen(out, i) == IF i > Len(out) \/ out[i] = NUL THEN 0 ELSE 1 + strlen(out, i + 1)
\* Mutant: the loop goes on two characters after the NUL.
RECURSIVE TokensMutant(_, _)
TokensMutant(out, i) ==
  IF i > Len(out) THEN << >>
  ELSE LET l == strlen(out, i)
       IN IF l = 0 THEN TokensMutant(out, i + 1)
          ELSE <<SubSeq(out, i, i + l - 1)>> \o TokensMutant(out, i + l + 2)
RECURSIVE Tokens(_, _)
Tokens(out, i) ==
  IF i > Len(out) THEN << >>
  ELSE LET l == strlen(out, i)
       IN IF l = 0 THEN Tokens(out, i + 1)
          ELSE <<SubSeq(out, i, i + l - 1)>> \o Tokens(out, i + l + 1)
split(text) == {Tokens(out, 1) : out \in parse(text)}

\* parser_exec: the vector is passed to the command it names, with as many parameters as
\* the table asks for.  "help" and the complaints only print.
Calls(argv) ==
  /\ argv # << >> /\ argv[1] \in DOMAIN Params
  /\ Params[argv[1]] \in {-1, Len(argv) - 1}
=============================================================================
