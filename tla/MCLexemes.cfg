SPECIFICATION Spec
CONSTANTS
  LEXEMES = 4
  MaxTokens = 9
  MaxErrors = 2
INVARIANTS
  TextsAreOwn
  TextsAwaited
  OverflowIsNesting
CHECK_DEADLOCK FALSE
