SPECIFICATION Spec
CONSTANTS
    NoFile = NoFile
    NoRow = NoRow
    MaxReruns = 4
INVARIANTS
    InstallsAreConfined
    OrderedVerdict
    UnblockedWasRun
    SetupClaimIsEarned
CHECK_DEADLOCK FALSE
