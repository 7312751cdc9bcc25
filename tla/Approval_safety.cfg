CONSTANTS
    j1 = j1
    c1 = c1
    c2 = c2
    c3 = c3
    r1 = r1
    r2 = r2
    s1 = s1
    s2 = s2
    None = None
    Jobs = {j1}
    Clients = {c1, c2, c3}
    Admins = {}
    Creator <- MCCreator
    Reports = {r1, r2}
    ReadyReports = {r1}
    SpecOf <- MCSpecOf
    Deliveries = {d1}
    MaxFaults = 1
SPECIFICATION Spec
SYMMETRY ReviewerSymmetry
INVARIANTS ApprovalIsCurrent DecisionsKept BenchmarksApproved
