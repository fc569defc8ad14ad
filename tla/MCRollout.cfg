CONSTANTS
    none = none
    api = api
    job = job
    post1 = post1
    post2 = post2
    command = command
    get = get
    None <- none
    NoOne <- none
    Pods <- MCPods
    Images <- MCImages
    MaxRollouts = 1
    MaxCrashes = 1
    Sessions <- MCSessions
    Gated <- MCGated
    Readers <- MCReaders
    PodOf <- MCPodOf
    Deployments <- MCDeployments
    Runs <- MCRuns
    Findings <- MCFindings
    Verdicts <- MCVerdicts
    Payloads <- MCPayloads
    MaxAttempts = 2
SPECIFICATION Spec
CHECK_DEADLOCK FALSE
INVARIANTS TypeOK SomeVersionDescribesIt DoneMeansHead RowsAreOfOneAttempt VerdictsAreStored ReportsAreWhole AnswersAreTheirOwn
PROPERTIES LedgerOnlyGrows GateKeepsOrder SetupsEnd GateIsReleased
