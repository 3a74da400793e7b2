SPECIFICATION Spec
CONSTANTS
    SliceTypes <- MCSliceTypes
    MaxDeviations = 2
    Unvaried <- NoMultilayer
INVARIANTS
    TypeOK
    ReadsDefined
    SyntaxAgrees
    InferredAgrees
CHECK_DEADLOCK FALSE
