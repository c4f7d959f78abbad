SPECIFICATION Spec
CONSTANT
  Starts <- CharacterStarts
  Keys <- MCKeys
  Samples <- MCSamples
PROPERTY CharactersAreOnScreen
