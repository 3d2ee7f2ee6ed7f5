CONSTANTS
    k1 = k1
    k2 = k2
    s1 = s1
    s2 = s2
    Keys <- MCKeys
    Seids <- MCSeids
    SeidOf <- MCSeidOf
    Periods = {p1, p2}
    None = None
    EvtLen = 1
    SrLen = 1
SPECIFICATION FairSpec
INVARIANTS
    TypeOK
    GroupsHaveTickers
    TimersKept
 
CHECK_DEADLOCK FALSE
