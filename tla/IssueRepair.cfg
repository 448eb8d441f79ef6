SPECIFICATION Spec
CONSTANTS
    t1 = t1
    t2 = t2
    NoFile = NoFile
    Tasks = {t1, t2}
    Prefixes <- SomePrefixes
    Batches <- SomeBatches
    c1 = c1
    c2 = c2
    Criteria = {c1, c2}
    NoSpec = NoSpec
    Reviewed <- SomeReviewed
    Begun <- SomeBegun
    Cap = 4
    MaxEdits = 1
INVARIANTS
    LaunchIsProven
    SpendWithinCap
PROPERTIES
    RefreshKeepsReproductions
    RefreshSettles
