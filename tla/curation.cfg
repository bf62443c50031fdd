SPECIFICATION Spec
CONSTANTS
    c1 = c1  c2 = c2  m1 = m1  m2 = m2  d1 = d1  s1 = s1
    Malformed = Malformed
    Clients = {c1, c2}
    Lessons = {m1, m2}
    Details = {d1}
    SameLine <- EqualLines
    SameText <- LikeTexts
    File <- OneLesson
    Sessions = {s1}
    FirstRows <- OneOrTwoRows
    MaxRows = 3
    MaxCalls = 2
    MaxFirings = 2
    NColdStart = 1
    NUnratedPause = 2
    Kills = TRUE
SYMMETRY ClientsAlike
INVARIANTS NoUnnoticedTwin OneViolationEach MergesKept
CHECK_DEADLOCK FALSE
