SPECIFICATION Spec
CONSTANTS
    a = a  b = b  h1 = h1  h2 = h2  admin = admin  q1 = q1
    Courses <- MCCourses
    Jobs <- MCJobs
    Clients <- MCClients
    Examples <- MCExamples
    Open <- MCOpen
    Target = 1
    MaxVersion <- MCMaxVersion
    MaxFaults = 1
INVARIANTS StarterSafety AnsweredForOwnChunks NobodyAwaitsNothing
