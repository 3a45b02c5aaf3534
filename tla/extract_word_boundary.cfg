SPECIFICATION PartSpec
CONSTANTS
  Parts = {"pattern"}
  Values = {"a", "b", "c"}
  OtherPaths = {"resources[*].ARN"}
  WildPaths = {"resources[*].ARN"}
  RuleSets <- MCRuleSets
  Records <- MCRecords
  Patterns <- WordPatterns
  MaxWidth = 2
  MaxAtoms = 2
  MaxValue = 3
  MaxLength = 5
CHECK_DEADLOCK FALSE
INVARIANT LiteralsComplete
