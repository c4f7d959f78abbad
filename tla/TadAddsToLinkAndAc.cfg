SPECIFICATION Spec
CONSTANT
  Starts <- TadStarts
  Keys <- MCKeys
  Samples <- MCSamples
PROPERTY TadAddsToLinkAndAc
