SPECIFICATION InstrumentSpec
CONSTANTS
    v1 = v1  v2 = v2  pre = pre  bash = bash  edit = edit  skill = skill
    t1 = t1  t2 = t2  hub = hub  p1 = p1  p2 = p2 
    Processes = {p1, p2}
    Versions = {v1, v2}
    Events = {pre}
    Matchers = {bash, edit}
    Command <- SameCommand
    Matcher <- WiderMatcher
    Managed <- OneSkill
    Stores = {hub}
    NoStore = NoStore
    Theirs = {t1, t2}
    FirstDisk <- Before
    MaxRuns = 2
SYMMETRY Alike
INVARIANTS TheirsKept OneHookEach
CHECK_DEADLOCK FALSE
