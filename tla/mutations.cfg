SPECIFICATION Spec
CONSTANTS
    c1 = c1  c2 = c2  t1 = t1  t2 = t2
    keyword = keyword  glob = glob  needle = needle  high = high  null = null
    Clients = {c1, c2}
    Rows = {t1}
    Kinds = {"on_demand", "tool_call"}
    TextSpecs = {keyword}
    ToolSpecs = {needle}
    NoSpec = null
    Thresholds = {high}
    NoThreshold = null
    InitRows <- Created
    Crashes = TRUE
    MaxMutations = 2
INVARIANTS TypeOK Reconstructs SpecFitsKind NothingUnexplained
SYMMETRY SameClients
