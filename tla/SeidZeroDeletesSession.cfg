CONSTANTS
    smf1 = smf1
    smf2 = smf2
    addr1 = addr1
    addr2 = addr2
    NodeIDs <- MCNodeIDs
    Addrs <- MCAddrs
    AddrOf <- MCAddrOf
    Handles = {h1, h2, h3}
    RSeids = {r1, r2}
    Nil = Nil
    MaxSlots = 3
    MaxPending = 1
SPECIFICATION Spec
CHECK_DEADLOCK FALSE
PROPERTY SeidZeroDeletesSession
