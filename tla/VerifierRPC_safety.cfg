CONSTANTS
    j1 = j1
    Jobs = {j1}
    Sessions = {s1, s2, s3}
    JobOf <- MCJobOf
    None = None
    Slots = 2
    MaxFaults = 1
SPECIFICATION FairVerifierSpec
INVARIANTS OneRunPerJob CompletedByItsRun
PROPERTIES SlotFreed RemoteRunnerKept
CHECK_DEADLOCK FALSE
