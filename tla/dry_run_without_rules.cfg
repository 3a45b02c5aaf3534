SPECIFICATION Spec
CONSTANTS
  Cases <- PolicyCases
  MaxRefs = 2
  MaxItems = 3
INVARIANTS
  DryRunWritesNothing
