SPECIFICATION Spec
CONSTANTS
    p = p
    q = q
    r = r
    None = None
    Paths = {p, q, r}
    Cores = {c1, c2}
    Signatures = {s}
    Retrievals <- SomeRetrievals
    Hinted = {p}
    Requests <- SomeRequests
    TopK = 1
    ExtraFiles = 1
    MaxAttempts = 3
    Touched <- SomeTouched
SYMMETRY CoreSymmetry
INVARIANTS
    BareSpanNotReused
    NeverCornered
    StoriesAgree
PROPERTY
    HintsSurvive
CHECK_DEADLOCK FALSE
