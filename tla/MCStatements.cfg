SPECIFICATION Spec
CONSTANTS
  MaxFunctions = 2
  MaxStatements = 4
  EmptyThen = FALSE
INVARIANTS
  StatementsTypeOK
  FollowsSource
  LabelsResolved
PROPERTY JumpsLeadSomewhere
