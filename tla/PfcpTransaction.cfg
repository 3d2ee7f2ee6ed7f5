CONSTANTS
    Peers = {p1}
    PeerSeqs = {0}
    MaxRetrans = 2
    MaxReqs = 2
    WireMod = 4
    SrLen = 1
    RcvLen = 1
    ToLen = 1
SPECIFICATION FairSpec
INVARIANTS
    TypeOK
    OneTimerPerTransaction
    CompletedOnce
    RetransmissionsBounded
PROPERTIES
    TxCompletes
    RxForgotten
CHECK_DEADLOCK FALSE
