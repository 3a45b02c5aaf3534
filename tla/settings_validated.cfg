SPECIFICATION Spec
CONSTANTS
    Deployments <- MCDeployments
    Numeral <- MCNumeral
    Usize = 4096
CHECK_DEADLOCK FALSE
INVARIANT ValidatedStarts
