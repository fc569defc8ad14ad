CONSTANTS
    p1 = p1
    p2 = p2
    s1 = s1
    s2 = s2
    r1 = r1
    r2 = r2
    Nobody = Nobody
    NoSettings = NoSettings
    Processes <- MCProcesses
    Settings <- MCSettings
    Requests <- MCRequests
    Batches <- MCOneBatch
    Verdicts <- MCOneVerdict
    MaxAttempts = 2
    MaxCycles = 2
SPECIFICATION Spec
CHECK_DEADLOCK FALSE
INVARIANTS TypeOK SlotCalledOnce BytesAreRecorded
PROPERTIES OutcomesRestOnEvidence EvidenceIsKept BudgetIsKept
SYMMETRY Symmetry
