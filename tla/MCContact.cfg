CONSTANTS
    s1 = s1
    s2 = s2
    s3 = s3
    k1 = k1
    k2 = k2
    k3 = k3
    g1 = g1
    g2 = g2
    t1 = t1
    t2 = t2
    h1 = h1
    h2 = h2
    nc = nc
    e1 = e1
    e2 = e2
    r1 = r1
    r2 = r2
    p1 = p1
    p2 = p2
    np = np
    x1 = x1
    x2 = x2
    b1 = b1
    b2 = b2
    q1 = q1
    q2 = q2
    v1 = v1
    v2 = v2
    pz = pz
    no = no
    x = x
    Process = {q1, q2}
    Tab = {b1, b2}
    Home <- MCHome
    Ticket <- MCTicket
    Conv = {v1, v2}
    None = no
    MessageId = {x}
    ProjectId = {p1, pz}
    Unverified = pz
    Task = {x1}
    MaxInputs = 2
    MaxReplies = 1
    MaxMishaps = 1
    Event = {e1, e2}
    Request = {r1, r2}
    MaxRequests = 2
    MaxTrouble = 1
    Project = {p1, p2}
    Enabled = {p1, p2}
    NoProject = np
    Code = {p1}
    ProjectOf <- MCProjectOf
    Smart = FALSE
    Tx = {x1, x2}
    MaxEvents = 3
    MaxChanges = 1
    Sender = {s1, s2, s3}
    Notice = {k1, k2, k3}
    Acks = {k1, k2}
    MaxLosses = 1
    DayLen = 2
    Horizon = 16
    Engine = {g1, g2}
    CreatedAt = {6, 11}
    Interval <- MCIntervals
    Grace = 1
    MaxFaults = 1
    NudgeDays = 1
    CloseDays = 2
    DeliveredAt = {7}
    MaxWaits = 3
    MaxUpsets = 1
    Case = {t1, t2}
    NoCase = nc
    Reader = {h1, h2}
    BornAs = {"RESOLVED"}
    MaxTexts = 2
    MaxStirs = 1
SPECIFICATION ContactSpec
INVARIANTS ContactTypeOK AcceptedIsKept InOneTurn OnboardedOnce EveryTabOnce OneAckPerBurst ThreadTellsAll   OneNudgePerWait ClosesOnlySilence  AmbiguityAsks
PROPERTIES ImplementsOnce
CHECK_DEADLOCK FALSE
