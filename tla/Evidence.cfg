SPECIFICATION Spec
CONSTANTS
    r1 = r1
    r2 = r2
    d1 = d1
    s1 = s1
    s2 = s2
    i1 = i1
    q1 = q1
    q2 = q2
    q3 = q3
    a1 = a1
    a2 = a2
    j1 = j1
    j2 = j2
    l1 = l1
    l2 = l2
    t1 = t1
    t2 = t2
    Reviews = {r1, r2}
    Directories = {d1}
    Diffs <- SomeDiffs
    MaxConcurrent = 2
    MaxWriteFaults = 1
    PlanPairs <- SomePlanPairs
    Snapshots = {s1, s2}
    Indexes = {i1}
    MaxCommands = 5
    Requests = {q1, q2, q3}
    Scopes = {a1, a2}
    DocumentIds = {1, 2}
    Contents <- SomeContents
    MaxRunes = 4
    Overlap = 3
    Capacity = 5
    MaxChunks = 4
    TopK = 2
    Strays <- SomeStrays
    MaxErrors = 1
    PriorJobs = {j1, j2}
    Relays = {l1, l2}
    Tables = {t1, t2}
    TablesOf <- SomeTables
    Retention = 1
    MaxAttempts = 1
    MaxVersion = 2
    MaxTime = 2
    MaxLosses = 1
SYMMETRY Symmetry
INVARIANTS
    EvidenceTypeOK
    AnswersOnDisk
    SummaryTrue
    ProposalTraceable
    HypothesesSound
    BoundTogether
    StoreAgrees
    AnswersCited
    PriorsSound
PROPERTY NeverRewritten
CHECK_DEADLOCK FALSE
