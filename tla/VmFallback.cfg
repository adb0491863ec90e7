SPECIFICATION FallbackSpec
CONSTANTS
    Pairs = {p1, p2}
    Nodes = {n1}
    NoNode = none
    Shells = {s1, s2}
    Enabled = TRUE
    MaxCommands = 3
    MaxEvents = 1
INVARIANT FallbackSafety
PROPERTIES ServiceComesBack
CHECK_DEADLOCK FALSE
SYMMETRY Symmetry
CONSTRAINT ThirdAlone
