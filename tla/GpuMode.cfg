SPECIFICATION PartsSpec
CONSTANTS
    o1 = o1  o2 = o2  q1 = q1  p1 = p1
    Sessions = {s1}
    Operators <- TwoOperators
    Students <- OneStudent
    Pages <- OnePage
    Failures = 2
    MaxWarmups = 2
    MaxWrites = 4
    MaxFaults = 1
CONSTRAINT Bounds
INVARIANT ModeSafety
PROPERTIES FailbackIsJustified ClosesOnlyTheUnused DeadGpuIsLeft
