SPECIFICATION Spec
CHECK_DEADLOCK FALSE
CONSTANTS
    Observations = {"o1", "o2"}
    GroupOf   <- MCGroupOf
    Audits    <- MCAudits
    HasApp    = TRUE
    MaxRuns   = 2
    MaxFaults = 1
    Fallible  <- MCFallible
INVARIANTS
    ContinuationPasses
    NoLostContinuation
    RefusalKept
PROPERTIES
    OnlyPeopleDecide
