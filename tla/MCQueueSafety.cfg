CONSTANTS
    e1 = e1
    e2 = e2
    c1 = c1
    p1 = p1
    p2 = p2
    Event = {e1, e2}
    Conv = {c1}
    ConvOf <- MCOneConv
    Proc = {p1, p2}
    MaxAttempts = 2
    MaxExits = 0
    DbFaults = FALSE
    Caller = {"watchdog"}
    NoEvent = NoEvent
SPECIFICATION Spec
SYMMETRY MCSymmetry
INVARIANTS OneLiveLease ExclusiveTurn
PROPERTIES OnlyHolderSettles
CHECK_DEADLOCK FALSE
