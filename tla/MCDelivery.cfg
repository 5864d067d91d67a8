CONSTANTS
    p1 = p1
    p2 = p2
    w1 = w1
    w2 = w2
    j1 = j1
    r1 = r1
    r2 = r2
    a1 = a1
    a2 = a2
    i1 = i1
    i2 = i2
    e1 = e1
    o1 = o1
    o2 = o2
    Proc = {p1, p2}
    MaxRows = 2
    BatchSize = 2
    MaxAttempts = 2
    MaxTrouble = 1
    Job = {j1}
    Runner = {w1, w2}
    JobAttempts = 2
    DlqAt = 2
    MaxStalls = 2
    MaxRedis = 1
    Promotion = {r1, r2}
    Attach = {a1}
    Image = {i1, i2}
    Edit = {e1}
    MaxBreaks = 1
    Op = {o1, o2}
    PendingFor = 1
    ActiveFor = 1
    ImageFor = 3
    MaxSession = 2
    IdleLimit = 1
    MaxOps = 2
    MaxCuts = 1
    m1 = m1
    m2 = m2
    z1 = z1
    Turn = {m1, m2}
    Incident = {m1, m2}
    Closing = {z1}
    SummarizeAt = 2
    Threshold = 2
    Resends = 1
    ToolTries = 2
    TurnRuns = 2
    MaxLapses = 1
SPECIFICATION DeliverySpec
INVARIANTS DeliveryTypeOK  BudgetNotCutShort RepeatsHaveCause HandledOnce NoSilentDrop UndisturbedIsWhole TurnsAccounted MemoryComplete SessionsBounded
PROPERTIES WorkEnds
CHECK_DEADLOCK FALSE
