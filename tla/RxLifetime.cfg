CONSTANTS
    RetransTimeout = 4
    MaxRetrans = 3
    PeerTimeout = 4
    PeerRetries = 3
    MaxDelay = 3
    Horizon = 24
SPECIFICATION RxSpec
INVARIANT
    HandledOnce
CHECK_DEADLOCK FALSE
