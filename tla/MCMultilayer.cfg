SPECIFICATION Spec
CONSTANTS
    SliceTypes <- MCSliceTypes
    MaxDeviations = 1
    Unvaried = {}
INVARIANT SyntaxAgrees
CHECK_DEADLOCK FALSE
