SPECIFICATION FramesSpec
CONSTANTS
  Programs <- OnlyRecursive
  SEGMENTATION_SIZE_DM = 64
  MaxParams = 2
  Values = {v1}
  Garbage = garbage
INVARIANT InOwnPartition
