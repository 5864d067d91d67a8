CONSTANTS
    m1 = m1
    m2 = m2
    Message = {m1}
    Poller = Poller
    MaxTries = 2
    MaxEdits = 0
    MaxSaves = 1
    MaxOverwrites = 0
    MaxFaults = 0
    MaxEvents = 2
SPECIFICATION Spec
PROPERTIES SanctionedOnly
CHECK_DEADLOCK FALSE
