SPECIFICATION Spec
CONSTANTS
    MaxPicOrderCntLsb = 8
    MaxAU = 4
    Nuts = {1, 19}
    Tids = {0}
    SpsChoices <- MCLatency
    IrapPocs = {1}
    OutFlags = {"absent"}
    FollDeltas = {}
    MaxEvents = 0
    MaxLongTerm = 0
    CodeRules = FALSE
INVARIANT OutputOrder
