SPECIFICATION Spec
CONSTANTS
    WeekLength = 2
    team = team
    first = first
    second = second
    again = again
    skewed = skewed
    NoRun = NoRun
    s1 = s1
    s2 = s2
    Teams <- MCTeams
    Runs <- MCRuns
    RunTeam <- MCRunTeam
    RunStart <- MCRunStart
    RunEnd <- MCRunEnd
    Sessions <- MCSessions
    MaxPublications = 3
    MaxContents = 1
    MaxDecisions = 1
INVARIANTS TypeOK WeeksNeverOverlap DecisionsRestOnPublications
PROPERTIES HistoryIsKept LedgerIsAtomic
SYMMETRY SessionSymmetry
CHECK_DEADLOCK FALSE
