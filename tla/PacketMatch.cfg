CONSTANTS
    None = None
    u1 = u1
    u2 = u2
    n1 = n1
    Addresses <- MCAddresses
    NetOf <- MCNetOf
    PortsOf <- MCPortsOf
    NumberOf <- MCNumberOf
    PDRs <- MCPDRs
    Packets <- MCPackets
    Rules <- MCRules
    MaxPDRs = 2
SPECIFICATION Spec
INVARIANTS
    
    DriversAgree
