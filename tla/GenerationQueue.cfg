CONSTANTS
    a1 = a1  a2 = a2  b1 = b1  s1 = s1  A = A  B = B  none = none
    Interactive <- ThreeStudents
    Background <- OneStarter
    Comparisons <- TwoComparisons
    ComparisonOf <- CompareIds
    NoComparison = none
    MaxConcurrency = 1
    MaxWaiting = 2
    QueueTimeout = 1
    ComparisonTTL = 1
    LastArrival = 1
    Horizon = 2
SPECIFICATION HangingSpec
CHECK_DEADLOCK FALSE
INVARIANTS SlotsConserved NoIdleSlotWhileWaiting WaitersAreQueued
PROPERTIES ImplementsPool WaitEnds ServedInOrder GoneNeverRuns
