SPECIFICATION FairSpec
CONSTANTS
    MaxPicOrderCntLsb = 6
    MaxAU = 5
    Nuts = {1, 19}
    Tids = {0}
    SpsChoices <- MCSps
    IrapPocs = {}
    OutFlags = {"absent"}
    FollDeltas = {}
    MaxEvents = 0
    MaxLongTerm = 0
    CodeRules = TRUE
INVARIANT PocRestored
PROPERTY ImplementsPromise EveryPictureLeaves DecodingEnds
