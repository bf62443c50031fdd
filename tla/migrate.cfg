SPECIFICATION Spec
CONSTANTS
    Migrators = {m1, m2}
    Sessions = {s1, s2}
    Rows = {r1, r2}
    Thresholds = {low, high}
    Absent = Absent
    Null = Null
    MaxRuns = 3
SYMMETRY Symmetry
INVARIANTS
    TypeOK
    RowsKept
    OpenedStays
    MigratedIsCurrent
CHECK_DEADLOCK FALSE
