SPECIFICATION FairSpec
CONSTANTS
  OutCap = 1
  PartSize = 2
  MaxItems = 5
INVARIANTS
  CopyVerbatim
  CopyBilled
PROPERTIES
  CopyTerminates
