SPECIFICATION FairSpec
CONSTANTS
    c1 = c1  c2 = c2  hub = hub  copy = copy  p1 = p1  p2 = p2  NoPid = NoPid
    Clients = {c1, c2}
    Paths <- Either
    Enabled = {c1, c2}
    Wire = {c1, c2}
    Stores = {hub, copy}
    Pids = {p1, p2}
    Unreadable = {p2}
    Copies <- CopiedHub
    ServerFaults = {"die", "reuse", "kill"}
    MaxCalls <- TwoAndOne
    Stopped = {hub}
INVARIANTS RunsInItsStore ToldTheTruth NoHerd
PROPERTY HandsOver
CHECK_DEADLOCK FALSE
