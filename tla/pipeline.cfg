SPECIFICATION FairSpec
CONSTANTS
  Cases <- AllCases
  MaxRefs = 2
  MaxItems = 3
INVARIANTS
  AckedMeansSettled
  CountersReconcile
  DestinationAllowed
  EveryObjectAccounted
  FailuresAttributed
PROPERTIES
  HandleReturns
