SPECIFICATION Spec
CONSTANTS
    e1 = e1
    e2 = e2
    d1 = d1
    d2 = d2
    f1 = f1
    f2 = f2
    f3 = f3
    Runs = {e1, e2}
    Workers = 2
    Deadline = 1
    OrphanAge = 1
    MaxClock = 3
    MaxEdits = 1
    MaxFaults = 1
    Seeds = {d1, d2}
    Batches = 2
    Times = {0, 10, 12, 15, 30}
    Calibrate = 2
    Rounds = 1
    Files = {f1, f2, f3}
    MaxSeedings = 1
    MaxBenches = 1
SYMMETRY Symmetry
INVARIANTS
    ToolsTypeOK
    OneReportPerOverlap
    ReportLeavesNothing
    ReportSound
    StatsSound
    ReportsFair
PROPERTY NeverSweptAlive
CHECK_DEADLOCK FALSE
