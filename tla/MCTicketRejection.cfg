CONSTANTS
    m1 = m1
    m2 = m2
    Message = {m1}
    Poller = Poller
    MaxTries = 2
    MaxEdits = 1
    MaxSaves = 0
    MaxOverwrites = 0
    MaxFaults = 0
    MaxEvents = 2
SPECIFICATION Spec
PROPERTIES RejectionHeard
CHECK_DEADLOCK FALSE
