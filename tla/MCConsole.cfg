SPECIFICATION FairSpec
CONSTANT
  Scripts <- MCScripts
  Startup <- MCStartup
  Flags <- MCFlags
  Points <- MCPoints
  MaxNesting = 3
  Builds = {TRUE, FALSE}
  Bright = 15
  FadeStep = 10
  FadePeriod = 2
INVARIANT TypeOK
INVARIANT PromptIsStopped
PROPERTY HaltIsNotUndone
PROPERTY ImplementsSwitch
PROPERTY FadingOnlyDims
PROPERTY DrawnIsShown
