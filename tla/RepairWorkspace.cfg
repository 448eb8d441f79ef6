SPECIFICATION FairSpec
CONSTANTS
    MaxRetries = 2
    MaxSpend = 3
    NoCap = NoCap
    Reserve = 1
    Repos <- AllRepos
    Caps <- SomeCaps
    Requests <- SomeRequests
INVARIANTS
    ReportMatches
    BaselineLifetime
PROPERTIES
    CleanStart
    RetryHasHeadroom
    ImplementsTrials
    Termination
CHECK_DEADLOCK FALSE
