SPECIFICATION Spec
CONSTANTS
  Main = main
  Output = output
  f = f
  x = x
  Names = {main, f, x, output}
  Global = global
  Builtin <- OutputOnly
  MaxNodes = 5
  MaxArgs = 2
  MaxSize = 6
  MaxErrors = 1
INVARIANTS
  SemanticTypeOK
  AcceptedIsLegal
  LegalIsAccepted
  LinesAreUses
  CallsAsAnalysed
  AllocatedWhereDeclared
SYMMETRY Interchangeable
CHECK_DEADLOCK FALSE
