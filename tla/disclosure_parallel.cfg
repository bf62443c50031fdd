SPECIFICATION Spec
CONSTANTS
    s1 = s1  s2 = s2  h1 = h1  h2 = h2  r1 = r1  r2 = r2
    Sessions = {s1}
    Hooks = {h1, h2}
    Owner <- SharedSession
    Rows = {r1}
    NoRow = NoRow
    ScoreSessions = {s1}
    InitTrigger <- OneOnDemand
    Faults = {"abort", "readback"}
    Verbs = {"rate"}
    MaxFirings = 2
    NColdStart = 1
    NUnratedPause = 1
INVARIANTS FireVerdictHasFiring PauseOverrunBounded ObserverNeverAhead
PROPERTIES OnlyRatingsLiftSuppression
