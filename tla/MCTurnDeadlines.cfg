\* server.ts: leaseDurationMs 120000, turnCompletionTimeoutMs 90000; a tick is 5 s.
CONSTANTS
    LeaseDuration = 24
    Configured = 18
    Margin = 1
    AtLeast = 2
SPECIFICATION Spec
INVARIANT NotRecoveredInFlight
CHECK_DEADLOCK FALSE
