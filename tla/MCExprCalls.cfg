SPECIFICATION ExprSpec
CONSTANTS
  MAX_REG = 3
  MaxUses = 9
  MaxPending = 4
  Zero = 31
INVARIANT OperandsSurviveCalls
CHECK_DEADLOCK FALSE
