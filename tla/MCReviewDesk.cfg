CONSTANTS
    Null = Null
    NotAString = NotAString
    Unparseable = Unparseable
    NoRule = NoRule
    A = A
    B = B
    a1 = a1
    a2 = a2
    a3 = a3
    a4 = a4
    a5 = a5
    r3 = r3
    b2 = b2
    Teams = {A, B}
    Runs = {a1, a2, a3, a4, a5, r3, b2}
    RunTeam <- MCRunTeam
    RunStart <- MCRunStart
    RunEnd <- MCRunEnd
    Facts <- MCFacts
    DAY = 1
    WINDOW_DAYS = 7
    WeekLength = 7
    HISTORY_WEEKS = 4
    DEFAULT_V1_RULE_EFFORT = 50
    TOP_LISTED = 2
    TOP_LOUD = 2
    PAGE_SIZE = 2
    MAX_MOVES = 1
    MAX_BATCH_SIZE = 4
    LikeMatches <- MCLikeMatches
    Folded <- MCFolded
    Desks <- MCDesks
    PanelRows <- MCPanelRows
    Variables <- MCVariables
    Responses <- MCResponses
    Operators <- MCOperators
    Filters <- MCFilters
    Requests <- MCRequests
SPECIFICATION Spec
CHECK_DEADLOCK FALSE
INVARIANTS PanelReadingIsSound AnswersBind SurfacesAgree AcceptanceIsExact RegistryIsUnambiguous
PROPERTIES PagesAreOfPublishedWeeks
