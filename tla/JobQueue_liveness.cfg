CONSTANTS
    Jobs = {j1, j2}
    Workers = {w1}
    Relays = {r1}
    MaxAttempts = 1
    BatchSize = 2
    MaxFaults = 1
    MaxLosses = 1
SPECIFICATION FairSpec
INVARIANT NoLostJob
PROPERTY EventuallyOver
