CONSTANTS
    Rules = {f1}
    URRs = {u1}
    PDRs = {p1}
    MaxRef = 1
    MaxUsars = 2
    MaxReports = 1
SPECIFICATION Spec
INVARIANTS
    TypeOK
    InstalledIsTracked
    CloseLeavesNothing
    RemovalReportIsLast
CHECK_DEADLOCK FALSE
