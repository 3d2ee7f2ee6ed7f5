CONSTANTS
    None = None
    f1 = f1
    b1 = b1
    u1 = u1
    PDRs = {1}
    FARs = {f1}
    BARs = {b1}
    URRs = {u1}
    PDRRules <- MCPDRRules
    FARRules <- MCFARRules
    BARRules <- MCBARRules
    URRRules <- MCURRRules
    Precedence <- MCPrecedence
    Accepts <- MCAccepts
    Workers = {w1, w2}
    Shard = w1
    MaxPkts = 2
    EgressLen = 1
    SrLen = 1
SPECIFICATION Spec
INVARIANTS
    TypeOK
    PacketsAccounted
    ReleasedInOrder
    HeldAreAnnounced
    PendingHasCallback
    UsageConserved
PROPERTY
    ImplementsDownlinkBuffer
