SPECIFICATION MCSpec
CONSTANT
  Starts <- MCStarts
  Keys <- MCKeys
  Samples <- MCSamples
  CoreSize <- CPU_CORE_SIZE
INVARIANT HaltsAtItsEnd
INVARIANT CallsReturn
INVARIANT TableIsSummed
INVARIANT CharactersArePacked
INVARIANT LongSumIsExact
INVARIANT BlockIsCopied
INVARIANT ArgumentsAreAdded
PROPERTY ProgramsHalt
