SPECIFICATION PartSpec
CONSTANTS
  Parts = {"index", "record", "pattern", "document"}
  Values = {"a", "b", "c"}
  OtherPaths = {"resources[*].ARN"}
  WildPaths = {"resources[*].ARN"}
  RuleSets <- MCRuleSets
  Records <- MCRecords
  Patterns <- PlainPatterns
  MaxWidth = 2
  MaxAtoms = 2
  MaxValue = 3
  MaxLength = 5
CHECK_DEADLOCK FALSE
INVARIANTS
  DecisionIsLinear
  RecordsReadAlike
  LiteralsComplete
  DocumentsBuild
  FieldsNeverSilent
  GateTruthful
