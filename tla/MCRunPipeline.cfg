\* Cluster faults and every family of feeds; see MCRunPipeline.
SPECIFICATION Spec
CONSTANTS
    Null = Null
    NotAString = NotAString
    Unparseable = Unparseable
    DAY = 3
    WINDOW_DAYS = 2
    FLAP_WINDOW = 3
    FLAP_CYCLES = 2
    RATE_WINDOW = 3
    SPAM_ROWS = 2
    MIN_SPAN = 2
    STUCK_OPEN = 4
    PAGE = 2
    Inputs <- MCInputs
INVARIANTS
    TypeOK
    FiringIsAsDefined
    SuppressionIsAsDefined
    DaysAreAsDefined
    FindingsAreAsDefined
    StatesAddUp
    PitsAreClosed
PROPERTY RunEnds
