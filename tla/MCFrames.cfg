SPECIFICATION FramesSpec
CONSTANTS
  Programs <- PassingAndRecursive
  SEGMENTATION_SIZE_DM = 64
  MaxParams = 2
  Values = {v1}
  Garbage = garbage
INVARIANTS
  FramesTypeOK
  StackPointerAtLast
  LinkageIntact
PROPERTY CallsAndReturns
