SPECIFICATION Spec
CONSTANT Jobs <- CollapsingJobs
CHECK_DEADLOCK FALSE
INVARIANT BackfillComplete
