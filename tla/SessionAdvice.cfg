SPECIFICATION AdvSpec
CONSTANTS
    Run = {r1, r2, r3}
    NoRun = NoRun
    MaxEvents = 9
    MaxCrashes = 0
    OffAdvice = {"failing run", "plan", "review", "check", "approve", "reject", "apply", "verify", "rewind", "restore", "clear"}
    MaxDetours = 2
SYMMETRY RunSymmetry
INVARIANTS
    AdviceMatchesGuard
    AdviceMovesOn
    ExportIsEarned
    ReviewedGateMatchesGuard
PROPERTIES
    NoBlindRetry
CHECK_DEADLOCK FALSE
