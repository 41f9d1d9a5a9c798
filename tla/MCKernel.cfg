SPECIFICATION Spec
CONSTANTS
  NSimple = 2
  Values = {v1, v2}
  Offsets <- MCOffsets
  OSWord = os
  Unset = unset
INVARIANTS
  TypeOK
  KernelAddressing
  OwnContext
  ActiveCount
  OneRunning
  QueueIsLoaded
  ChoiceCanEnd
PROPERTY
  IsolatedPrograms
