SPECIFICATION FairSpec
CONSTANTS
  TTL = 2
  Horizon = 3
  MaxRev = 2
INVARIANTS
  NoStalePin
  CachedCompiles
  AgeIsHonest
PROPERTIES
  NeverLosesRuleset
  BoundedStaleness
  EventuallyFresh
