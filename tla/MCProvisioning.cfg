CONSTANTS
    Operators = {o1, o2}
    Sites = {s1, s2}
    Databases = {d1, d2}
    NoValue = NoValue
    MaxCommands = 3
    MaxFaults = 1
SPECIFICATION FairSpec
INVARIANT DatabasesAreSound
PROPERTY MigrationsInOrder
PROPERTY DataLossNeedsForce
PROPERTY CommandsEnd
CHECK_DEADLOCK FALSE
