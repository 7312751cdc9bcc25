CONSTANTS
    Jobs = {j1, j2}
    Publishers = {p1, p2}
    BatchSize = 2
    MaxFaults = 2
    MaxDrops = 1
    MaxPushes = 1
    MaxRefusals = 1
SPECIFICATION FairSpec
INVARIANT CommentsTrue
PROPERTIES DecisionStands EveryJobDecided
