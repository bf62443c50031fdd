SPECIFICATION FairSpec
CONSTANTS
    r1 = r1  r2 = r2  k1 = k1  k2 = k2  k3 = k3
    Runs = {r1, r2}
    Conditions = {k1, k2, k3}
    Malformed = {k3}
    MaxConditions = 2
    Plans <- SomePlans
    Parallel = 2
    RunIds = {1, 2}
    OutDirs <- OneReused
    NoRun = NoRun  Before = Before
    Signals = {r1}
INVARIANTS HarvestIsOwn NothingLeftBehind
PROPERTY RunsEnd
CHECK_DEADLOCK FALSE
