SPECIFICATION RomSpec
CONSTANTS
  SO_INTERVAL = 2
  PROGRAM_INTERVAL = 2
  PROGRAM_INTERVAL_COMPLEX = 3
  MAX_PROGS_SIMPLE = 2
  Entries <- MCEntries
  Lengths = {1, 3, 4}
  SOLengths = {1, 3}
INVARIANTS
  RomTypeOK
  FixedOffsets
  OneProgramPerSlot
  SlotsInOrder
CHECK_DEADLOCK FALSE
