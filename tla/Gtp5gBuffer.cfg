CONSTANTS
    None = None
    Seids = {s1}
    PdrIDs = {1}
    FarIDs = {0, 1}
    Actions <- MCActions
    g1 = g1
    Params = {g1}
    NewFARs <- MCNewFARs
    Changes <- MCChanges
    NlLen = 2
    SrLen = 2
    QLen = 2
    MaxPackets = 3
    MaxSessions = 2
SPECIFICATION Spec
INVARIANTS
    TypeOK
    WrittenInOrder
    PacketsAccounted
PROPERTIES
    SwitchLeavesNoneHeld
    CallsReturn
CHECK_DEADLOCK FALSE
