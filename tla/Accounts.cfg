SPECIFICATION PeopleSpec
CONSTANTS
    Users = {u1, u2}
    Founder = u1
    Invitations = {i}
    r1 = r1
    r2 = r2
    Requests <- TwoRequests
    MaxPasswords = 1
    MaxSessions = 2
    t1 = t1
    t2 = t2
    Tabs <- TwoTabs
    Courses = {"here", "there"}
    Here = "here"
    MaxJoined = 2
    MaxParticipants = 2
    Approaches = {"base", "rag"}
    NoRun = NoRun
    MaxComparisons = 2
    MaxCalls = 2
SYMMETRY Interchangeable
CONSTRAINT Bounds
INVARIANTS AccountsSafety SessionsFollowPassword ClassroomSafety
PROPERTIES JoinedStays
CHECK_DEADLOCK FALSE
