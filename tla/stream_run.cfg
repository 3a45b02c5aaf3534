SPECIFICATION FairSpec
CONSTANTS
  Bodies <- MCBodies
  MaxRecords = 2
  Damageable = {"keep", "drop"}
  InCap = 1
  RecCap = 1
  OutCap = 1
  PartSize = 2
INVARIANTS
  TypeOK
  DestinationComplete
  OutcomeMatchesDestination
  ModeParity
  CountersSettled
  NoOrphanUpload
PROPERTIES
  Terminates
  FilterSpec
