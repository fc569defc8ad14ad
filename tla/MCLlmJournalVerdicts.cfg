CONSTANTS
    p1 = p1
    p2 = p2
    s1 = s1
    s2 = s2
    r1 = r1
    r2 = r2
    Nobody = Nobody
    NoSettings = NoSettings
    Processes <- MCProcesses
    Settings <- MCOneSettings
    Requests <- MCRequests
    Batches <- MCOneBatch
    Verdicts <- MCVerdicts
    MaxAttempts = 1
    MaxCycles = 1
SPECIFICATION Spec
CHECK_DEADLOCK FALSE
INVARIANT SameAlertSameVerdict
