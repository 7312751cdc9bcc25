CONSTANTS
    Jobs = {j1, j2}
    Publishers = {p1}
    BatchSize = 2
    MaxFaults = 0
    MaxDrops = 0
    MaxPushes = 0
    MaxRefusals = 1
SPECIFICATION FairSpec
PROPERTY AnsweringJobsDecided
