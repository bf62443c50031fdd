SPECIFICATION Spec
CONSTANTS
    s1 = s1  s2 = s2  h1 = h1  h2 = h2  r1 = r1  r2 = r2
    Sessions = {s1, s2}
    Hooks = {h1, h2}
    Owner <- OwnSession
    Rows = {r1}
    NoRow = NoRow
    ScoreSessions = {}
    InitTrigger <- OneSessionStart
    Faults = {"abort", "readback", "marker", "torn", "expire"}
    Verbs = {}
    MaxFirings = 2
    NColdStart = 1
    NUnratedPause = 4
INVARIANTS TypeOK AtMostOncePerWindow DisclosedIsLogged
PROPERTIES ImplementsLifecycle
