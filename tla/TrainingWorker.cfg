SPECIFICATION FairSpec
CONSTANT MaxJobs = 2
INVARIANTS WorkerSafety ReportKept
PROPERTY SpoolDrains
