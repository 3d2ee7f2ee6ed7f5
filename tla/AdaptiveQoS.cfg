CONSTANTS
    None = None
    s1 = s1
    s2 = s2
    f1 = f1
    f2 = f2
    q1 = q1
    q2 = q2
    Seids = {s1, s2}
    PdrIDs = {1}
    PDRRules <- MCPDRRules
    QERs <- MCQERs
    Others = {s1}
    FlowIDs = {f1, f2}
    Reports <- MCReports
    Callers = {c1}
    Rules <- MCRules
    MaxBitrateDL = 500
    MaxBitrateUL = 40
    Word = 1048576
    DefaultDuration = 1
    Grace = 1
    DefaultWindow = 150
    DefaultUL = 100000
    DefaultRate = 1000000
    MaxStarts = 2
    LastReport = 1
    MaxClock = 3
SPECIFICATION Spec
INVARIANTS
    TypeOK
    OverridesHaveFlows
    BurstsAuthorised
PROPERTIES
    RefreshOutdatesTimer
    FlowsEnd
