SPECIFICATION FairSpec
CONSTANTS
    s1 = s1  s2 = s2  h1 = h1  h2 = h2  r1 = r1  r2 = r2
    Sessions = {s1}
    Hooks = {h1}
    Owner <- Solo
    Rows = {r1, r2}
    NoRow = NoRow
    ScoreSessions = {}
    InitTrigger <- TwoSessionStart
    Faults = {"batch", "readback", "decisions"}
    Verbs = {"retire", "set_trigger"}
    MaxFirings = 2
    NColdStart = 1
    NUnratedPause = 9
INVARIANTS WindowMatchesLog LabelsNameTheirFiring
PROPERTIES LoggedReachesWindow
