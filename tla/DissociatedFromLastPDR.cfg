CONSTANTS
    Rules = {f1}
    URRs = {u1}
    PDRs = {p1, p2}
    MaxRef = 2
    MaxUsars = 1
    MaxReports = 1
SPECIFICATION Spec
INVARIANT DissociatedFromLastPDR
CHECK_DEADLOCK FALSE
