SPECIFICATION Spec
CHECK_DEADLOCK FALSE
CONSTANTS
    Alphabet    <- Names
    RefHops     = 2
    Roles       <- MCRoles
    Mechanics   <- MCMechanics
    Documents   <- MCDocuments
    Published   <- MCPublished
    Scenarios   <- MCScenarios
    AutoAccept  = {"serverDefault", "immutable"}
    NoFile      = NoFile
    TornFile    = TornFile
    LastOrdinal = 4
    MaxKills    = 1
INVARIANTS
    CompiledApplies
    AcceptingSettles
    TakenStayDeclared
PROPERTIES
    DecisionsKept
    RevisionSettled
