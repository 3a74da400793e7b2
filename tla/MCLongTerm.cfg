SPECIFICATION Spec
CONSTANTS
    MaxPicOrderCntLsb = 4
    MaxAU = 5
    Nuts = {0, 1, 19}
    Tids = {0}
    SpsChoices <- MCSps
    IrapPocs = {1}
    OutFlags = {"absent"}
    FollDeltas = {}
    MaxEvents = 0
    MaxLongTerm = 1
    CodeRules = FALSE
PROPERTY UnusedStaysUnused
