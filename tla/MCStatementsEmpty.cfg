SPECIFICATION Spec
CONSTANTS
  MaxFunctions = 1
  MaxStatements = 3
  EmptyThen = TRUE
INVARIANT FollowsSource
