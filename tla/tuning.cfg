SPECIFICATION TuningSpec
CONSTANTS
    r1 = r1  r2 = r2  ka = ka  kb = kb  kc = kc  q1 = q1  q2 = q2  q3 = q3  s1 = s1  s2 = s2
    NoWord = NoWord
    Rows = {r1, r2}
    Keywords = {ka, kb, kc}
    Queries = {q1, q2, q3}
    Sessions = {s1, s2}
    Words <- Said
    Stripped <- Quoting
    Sim <- Near
    Rounded <- ToEven
    NColdStart = 1
    NUnratedPause = 1
    Missed <- Violated
    Alike <- Twins
    FirstSpec <- Given
    SimThreshold = 4
    MaxSim = 8
    TopK = 1
    MinSoloNoise = 1
    MinViolations = 1
    MinHelpfulSemantic = 1
    MinCofireSessions = 1
    GraduateMinRated = 1
    MinRatings = 2
    MaxPrompts = 2
SYMMETRY Asking
INVARIANTS HelpfulKept
PROPERTIES ThresholdsNeverFall
CHECK_DEADLOCK FALSE
