SPECIFICATION FairSpec
CONSTANTS
    c1 = c1
    c2 = c2
    Clients <- MCClients
    Settle = 1
    Retry = 1
    Verify = 1
    Throttle = 1
    Buffer = 1
    MaxDrain = 2
CHECK_DEADLOCK FALSE
INVARIANTS TypeOK StartedStays FailedForAReason StoppedStays UninstalledStays
PROPERTIES CommandsEnd
