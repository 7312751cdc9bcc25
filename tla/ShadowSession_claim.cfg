CONSTANTS
    indexing = indexing
    rewriting = rewriting
    s1 = s1
    s2 = s2
    Jobs = {indexing, rewriting}
    Sessions = {s1, s2}
    JobOf <- MCJobOf
    None = None
    Rewrites = {rewriting}
    Benchmarks = {indexing}
    Conns = {k1, k2}
    MaxEdits = 1
    MaxFaults = 1
SPECIFICATION ShadowSpec
INVARIANTS StoredClaimOnSnapshot
CHECK_DEADLOCK FALSE
