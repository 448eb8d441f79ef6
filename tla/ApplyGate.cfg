SPECIFICATION Spec
CONSTANTS
    Run = {r1, r2}
    NoRun = NoRun
    MaxEvents = 6
    MaxCrashes = 1
SYMMETRY RunSymmetry
INVARIANTS
    ResumeAgrees
    TreeIsExplained
PROPERTIES
    ImplementsGate
    RiskyNeedsLastWord
CHECK_DEADLOCK FALSE
