SPECIFICATION FairSpec
CONSTANT
  Starts <- MCStarts
  Keys <- MCKeys
  Samples <- MCSamples
PROPERTY KeyIsTakenOnce
PROPERTY IoSkipsAtMostOne
PROPERTY TextIsPrinted
PROPERTY KeyIsEchoed
PROPERTY PrintingEnds
