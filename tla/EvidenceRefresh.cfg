SPECIFICATION Spec
CONSTANTS
    Worlds <- SomeWorlds
    MaxEvents = 2
    Lasting <- InOrder
INVARIANTS
    SecondRefreshSettles
    TwoRefreshesCure
    ReadyIsFresh
