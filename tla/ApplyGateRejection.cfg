SPECIFICATION Spec
CONSTANTS
    Run = {r1}
    NoRun = NoRun
    MaxEvents = 6
    MaxCrashes = 0
PROPERTY
    RejectionHolds
CHECK_DEADLOCK FALSE
