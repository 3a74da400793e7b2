SPECIFICATION Spec
CONSTANTS
    SpsIds <- MCSpsIds
    MaxSets = 2
    Distances <- MCDistances
    MaxSize = 2
    DeltaRps <- MCDeltaRps
    Poc = 40
    MaxLsb = 16
    LongTermPocs <- MCLongTermPocs
    SpsLongTerm <- MCSpsLongTerm
    MaxLongTerm = 2
    MaxActive = 3
    UsualSets <- MCUsualSets
    MaxDeviations = 2
    None = None
    sps0 = sps0
    sps1 = sps1
INVARIANTS
    TypeOK
    SetsAgree
    ReferencesAgree
    ListsAgree
CHECK_DEADLOCK FALSE
