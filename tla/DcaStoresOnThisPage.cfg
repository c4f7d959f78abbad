SPECIFICATION Spec
CONSTANT
  Starts <- DcaStarts
  Keys <- MCKeys
  Samples <- MCSamples
PROPERTY DcaStoresOnThisPage
