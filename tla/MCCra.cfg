SPECIFICATION Spec
CONSTANTS
    MaxPicOrderCntLsb = 4
    MaxAU = 4
    Nuts = {1, 19, 21}
    Tids = {0}
    SpsChoices <- MCSps
    IrapPocs = {1}
    OutFlags = {"absent"}
    FollDeltas = {}
    MaxEvents = 1
    MaxLongTerm = 0
    CodeRules = FALSE
INVARIANT NoRaslOutputFlagRule
