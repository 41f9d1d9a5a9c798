SPECIFICATION FairSpec
CONSTANTS
  NSimple = 3
  Values = {v1}
  Offsets <- MCEntry
  OSWord = os
  Unset = unset
PROPERTIES
  EveryReadyRuns
  ModeEnds
