SPECIFICATION ContentSpec
CONSTANTS
    Uploads = {u1, u2}
    Reviewers = {r1, r2}
    Admins = {a1}
    MaxText = 2
    MaxSplits = 2
    MaxExports = 2
    MaxFaults = 1
INVARIANTS ContentSafety TrainsOnOneSplit OnlyApprovedIsTrained
SYMMETRY InterchangeableStaff
CONSTRAINTS OneExcuse OneTextOnceExcused
CHECK_DEADLOCK FALSE
