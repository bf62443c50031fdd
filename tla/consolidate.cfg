SPECIFICATION Spec
CONSTANTS
    MaxRows = 1
    Absent = Absent  Null = Null  Repo = Repo
    Versions = {1, 7}
    MaxMigrations = 2
    f1 = f1  f2 = f2
    Folders = {f1, f2}
    Children <- OneChild
    MaxKids = 1
    MaxNative = 1
    LiveSource = FALSE
    FoldsMayDie = TRUE
SYMMETRY FoldersAlike
INVARIANTS StatusSurvives NoOrphans RightParent FoldedOnce
CHECK_DEADLOCK FALSE
