------------------------------ MODULE MCScripts ----------------------------
(***************************************************************************)
(* Every short text, and a few longer ones, as a script.  The table has a  *)
(* command without parameters, one with one and one with any number.       *)
(***************************************************************************)
EXTENDS Script, SequencesExt, TLC

VARIABLE text   \* the whole file: a history variable

MCLetters == {"exit", "x"}
MCGarbage == {"NUL", "x", "exit"}
MCParams == <<"exit">> :> 0 @@ <<"x">> :> 1 @@ <<"x", "x">> :> -1
MCFiles == BoundedSeq(Char, 4) \union
  {<<"x", "blank", "quote", "x", "blank", "x", "quote">>,
   <<"quote", "x", "quote", "blank", "quote", "x", "blank", "quote">>,
   <<"x", "blank", "x", "backslash", "blank", "x">>,
   <<"x", "blank", "x", "newline", "blank", "exit", "newline", "x", "blank", "x">>,
   <<"x", "x", "blank", "x", "blank", "x", "blank", "blank", "x", "blank", "x", "newline", "exit">>,
   <<"exit", "blank", "x", "newline", "newline", "x", "blank", "x", "blank", "x">>}
MCInit == Init /\ text = file
MCSpec ==
  /\ MCInit
  /\ [][Next /\ UNCHANGED text]_<<vars, text>>
  /\ WF_vars(ReadLine) /\ WF_vars(Exec) /\ WF_vars(EndOfFile)
----------------------------------------------------------------------------
\* The words of a line, by their places: a run of other characters between white space.
IsWord(t, i, j) ==
  /\ \A k \in i .. j : t[k] \notin Spaces
  /\ i = 1 \/ t[i - 1] \in Spaces
  /\ j = Len(t) \/ t[j + 1] \in Spaces
WordPlaces(t) == {p \in (DOMAIN t) \X (DOMAIN t) : p[1] <= p[2] /\ IsWord(t, p[1], p[2])}
Words(t) ==
  LET places == SetToSortSeq(WordPlaces(t), LAMBDA p, q : p[1] < q[1])
  IN [n \in DOMAIN places |-> SubSeq(t, places[n][1], places[n][2])]

\* The lines of a text, those that do not fit the buffer as several.
Beginning(t, n) == Max({0} \union {m \in 1 .. n - 1 : t[m] = "newline"})
LineEnds(t) ==
  {n \in DOMAIN t : t[n] = "newline" \/ n = Len(t) \/ (n - Beginning(t, n)) % (LineSize - 1) = 0}
LinesOf(t) ==
  LET ends == SetToSortSeq(LineEnds(t), <)
  IN [n \in DOMAIN ends |-> SubSeq(t, IF n = 1 THEN 1 ELSE ends[n - 1] + 1, ends[n])]
Plain(t) == \A i \in DOMAIN t : t[i] \notin Special

\* One call for every line that is a command with its parameters, in their order, up to
\* and with the first exit.
Expected(t) ==
  LET calls == SelectSeq([n \in DOMAIN LinesOf(t) |-> Words(LinesOf(t)[n])],
                         LAMBDA w : w # << >> /\ w[1] \in DOMAIN Params
                                    /\ Params[w[1]] \in {-1, Len(w) - 1})
      exits == {n \in DOMAIN calls : calls[n][1] = <<"exit">>}
  IN IF exits = {} THEN calls
     ELSE SubSeq(calls, 1, CHOOSE n \in exits : \A m \in exits : n <= m)

\* parser.c and shell_script: a script without quotes and backslashes is executed word for
\* word and line by line, with each piece of a line that is too long as a line of its own.
PlainScriptIsExecuted ==
  Plain(text) =>
    /\ IsPrefix(called, Expected(text))
    /\ at = "end" => called = Expected(text)

\* What stands between two quotes reaches a command inside one argument, whatever was in
\* the buffer before.
Quotations(t) ==
  {p \in (DOMAIN t) \X (DOMAIN t) :
     /\ p[1] < p[2] /\ t[p[1]] = "quote" /\ t[p[2]] = "quote"
     /\ Cardinality({k \in 1 .. p[1] - 1 : t[k] = "quote"}) % 2 = 0
     /\ \A k \in p[1] + 1 .. p[2] - 1 : t[k] # "quote"}
Within(piece, argument) ==
  \E i \in 0 .. Len(argument) - Len(piece) :
    piece = SubSeq(argument, i + 1, i + Len(piece))
QuotedTextStaysTogether ==
  [][(at = "exec" /\ called' # called /\ ~\E i \in DOMAIN line : line[i] = "backslash") =>
       \A p \in Quotations(line) :
         LET piece == SubSeq(line, p[1] + 1, p[2] - 1)
         IN piece # << >> => \E n \in DOMAIN Last(called') : Within(piece, Last(called')[n])]_vars

\* Every script comes to its end.
ScriptEnds == <>(at = "end")

\* parser.c: parse returns "the translated result" - of quotes, which group what is between
\* them, and of escaped blanks and quotes, which stand for themselves.
Escaped(t, i) == i > 1 /\ t[i - 1] = "backslash"
Mark(t, i) == t[i] = "quote" /\ ~Escaped(t, i)
Translated(t) ==
  LET inside(i) == Cardinality({j \in 1 .. i - 1 : Mark(t, j)}) % 2 = 1
      cell(i) == IF t[i] = "backslash" \/ Mark(t, i) THEN "none"
                 ELSE IF t[i] \in Spaces /\ ~inside(i) /\ ~Escaped(t, i) THEN NUL ELSE t[i]
  IN Tokens(SelectSeq([i \in DOMAIN t |-> cell(i)], LAMBDA c : c # "none"), 1)
TextIsTranslated == [][called' # called => Last(called') = Translated(line)]_vars
=============================================================================
