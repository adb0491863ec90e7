CONSTANTS
    h1 = h1  h2 = h2
    c1 = c1  c2 = c2  p1 = p1  p2 = p2  p3 = p3  r1 = r1  r2 = r2
    Handlers <- TwoHandlers
    NumVersions = 3
    MaxVersions = 2
    MaxRedeliveries = 1
    Courses <- TwoCourses
    Promotions <- ThreePromotions
    NumJobs = 2
    Limits <- TheLimits
    MinLeft = 2
    DefaultLeft = 3
    Requests <- TwoRequests
    MaxLoadedAdapters = 1
    MaxAsks = 2
SPECIFICATION PublishedSpec
SYMMETRY Interchangeable
CONSTRAINT Bounds
INVARIANTS RegistrySafety ServingSafety AnswersWithOwnAdapter
PROPERTY AnswersMoveTogether
