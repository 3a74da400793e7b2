SPECIFICATION Spec
CONSTANTS
    MaxPicOrderCntLsb = 4
    MaxAU = 4
    Nuts = {0, 1, 7, 8, 17, 19, 21}
    Tids = {0}
    SpsChoices <- MCSps
    IrapPocs = {1}
    OutFlags = {"absent", "no"}
    FollDeltas <- MCFoll
    MaxEvents = 1
    MaxLongTerm = 1
    CodeRules = TRUE
INVARIANTS TypeOK OutputOrder PocRestored MarkingAgrees PocIdentifies NothingLost NoLeak NoAbort

PROPERTY EveryStepAdvances
