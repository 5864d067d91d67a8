CONSTANTS
    m1 = m1
    m2 = m2
    Message = {m1}
    Poller = Poller
    MaxTries = 2
    MaxEdits = 0
    MaxSaves = 0
    MaxOverwrites = 0
    MaxFaults = 1
    MaxEvents = 2
SPECIFICATION Spec
INVARIANT ClosedShownInPlane
CHECK_DEADLOCK FALSE
