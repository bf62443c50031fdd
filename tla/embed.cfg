SPECIFICATION FairSpec
CONSTANTS
    h1 = h1  h2 = h2  x1 = x1  x2 = x2  d1 = d1  d2 = d2  d3 = d3
    Hooks = {h1, h2}
    Texts = {x1}
    Daemons = {d1, d2, d3}
    NoDaemon = NoDaemon
    Torn = Torn
    Kills = TRUE
INVARIANT OneDaemon
PROPERTIES UnreachableLeaves HooksServed
