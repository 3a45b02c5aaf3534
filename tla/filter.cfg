SPECIFICATION Spec
CONSTANT Jobs <- AllJobs
CHECK_DEADLOCK FALSE
INVARIANTS
  ExitHonest
  SummaryHonest
  DamageReported
  NothingElseTouched
