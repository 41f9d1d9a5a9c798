SPECIFICATION Spec
CONSTANTS
  WORD = 18
  Programs <- MCPrograms
  MaxAddress = 60
  MaxArguments = 4
  Received = {0, 65536}
  LeftBehind = {1000, 2000}
INVARIANT MachineTypeOK
PROPERTIES DoesWhatCodeSays SwitchesAsKernel
