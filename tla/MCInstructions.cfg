SPECIFICATION Spec
CONSTANT
  Starts <- MCStarts
  Keys <- MCKeys
  Samples <- MCSamples
INVARIANT TypeOK
INVARIANT LincPcInSegment
INVARIANT PendingFieldLoaded
PROPERTY ModeSwitchKeepsPlace
PROPERTY WritesStayInFields
PROPERTY FieldChangesAreAnnounced
PROPERTY TrapIsResumable
PROPERTY SumIsExact
PROPERTY ProductIsExact
PROPERTY ShiftsAreSerial
PROPERTY MicrosActInOrder
PROPERTY CharactersDoNotOverlap
