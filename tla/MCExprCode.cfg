SPECIFICATION ExprSpec
CONSTANTS
  MAX_REG = 3
  MaxUses = 9
  MaxPending = 4
  Zero = 31
INVARIANTS
  ExprTypeOK
  InUseCounted
  OperandsIntact
PROPERTY OldestReused
CHECK_DEADLOCK FALSE
