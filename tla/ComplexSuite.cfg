SPECIFICATION SuiteSpec
CONSTANTS
    t1 = t1
    t2 = t2
    f = f
    g = g
    Tasks = {t1, t2}
    Paths = {f, g}
    Plans <- SomePlans
    Repairs <- SomeRepairs
    Suites <- SomeSuites
INVARIANTS
    PassAtNIsSelected
    CheckIsEarned
    FollowupsSettle
