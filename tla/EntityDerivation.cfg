SPECIFICATION Spec
CONSTANTS
    Parameters <- MCParameters
    WordsOf    <- MCSnake
    SingularOf <- MCSingularOf
    Documents  <- MCDocuments
    Order      <- MCOrder
    MediaTypes <- MCMediaTypes
    Versions   <- MCVersions
    Numerals   <- MCNumerals
    Circular   = FALSE
INVARIANTS
    EveryOperationCarried
    FamiliesApart
    ReplacedIfNotUpdatable
    FilledStaysFilled
    OneNameEach
