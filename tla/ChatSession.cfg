SPECIFICATION Spec
CONSTANTS
    t = t
    a = a
    p = p
    q = q
    override = override
    Task = {t}
    NoTask = NoTask
    Notes = {Nothing, n}
    Nothing = Nothing
    Path = {p, q}
    Given = Given
    Value = {default, override}
    Keep = Keep
    Profile = {a}
    NoProfile = NoProfile
    Offers <- AgentOffers
    Label = {l}
    Options <- SomeOptions
    MaxTasks = 1
    MaxRuns = 1
CONSTRAINT
    TasksOrSettings
INVARIANTS
    ResumeAgrees
    StartedIsNotPending
CHECK_DEADLOCK FALSE
