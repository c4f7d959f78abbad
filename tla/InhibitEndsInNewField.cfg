SPECIFICATION Spec
CONSTANT
  Starts <- InhibitStarts
  Keys <- MCKeys
  Samples <- MCSamples
PROPERTY InhibitEndsInNewField
