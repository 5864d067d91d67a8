CONSTANTS
    m1 = m1
    m2 = m2
    f1 = f1
    f2 = f2
    c1 = c1
    c2 = c2
    c3 = c3
    u1 = u1
    u2 = u2
    z1 = z1
    nt = nt
    Message = {m1, m2}
    Poller = Poller
    MaxTries = 2
    MaxEdits = 1
    MaxSaves = 1
    MaxOverwrites = 1
    MaxFaults = 1
    MaxEvents = 1
    TicketId = {f1, f2}
    Caller = {c1, c2, c3}
    Report = {u1, u2}
    Topic <- MCTopic
    Title <- MCTitle
    Matter <- MCMatter
    Detail = {z1}
    NoTicket = nt
    BornStatus = {"NEW"}
    MaxSlips = 1
SPECIFICATION TicketsSpec
SYMMETRY MCSymmetry
INVARIANTS TicketsTypeOK MirrorsWhenDrained  CasesAccounted HistoryKept
PROPERTIES MovesLegal
CHECK_DEADLOCK FALSE
