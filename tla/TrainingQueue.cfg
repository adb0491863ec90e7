CONSTANTS
    h1 = h1  h2 = h2  before = before  after = after
    Handlers <- TwoHandlers
    Digests <- TwoDigests
    NumRuns = 2
    MaxClaims = 2
SPECIFICATION Spec
SYMMETRY Interchangeable
CONSTRAINT NotYetOvertaken
CHECK_DEADLOCK FALSE
INVARIANTS QueueSafety
PROPERTY EndsAreFinal
