CONSTANTS
    k1 = k1
    k2 = k2
    s1 = s1
    s2 = s2
    Keys <- MCKeys
    Seids <- MCSeids
    SeidOf <- MCSeidOf
    Periods = {p1}
    None = None
    EvtLen = 2
    SrLen = 1
SPECIFICATION FairSpec
PROPERTY CloseCompletes
CHECK_DEADLOCK FALSE
