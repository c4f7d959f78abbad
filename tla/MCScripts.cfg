SPECIFICATION MCSpec
CONSTANT
  Letters <- MCLetters
  Garbage <- MCGarbage
  Params <- MCParams
  Files <- MCFiles
  LineSize = 8
INVARIANT PlainScriptIsExecuted
PROPERTY QuotedTextStaysTogether
PROPERTY ScriptEnds
