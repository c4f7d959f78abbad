SPECIFICATION FairSpec
CONSTANT
  Scripts <- MCScripts
  Startup <- MCStartup
  Flags <- MCFlags
  Points <- MCPoints
  MaxNesting = 3
  Builds = {FALSE}
  Bright = 15
  FadeStep = 10
  FadePeriod = 2
PROPERTY RequestIsHonoured
