SPECIFICATION FairSpec
CONSTANTS
    MaxSessionReconnects = 1
    ThrottleReconnects = TRUE
    MaxTrips = 3
    MaxEdits = 2
    MaxFaults = 3
INVARIANTS TypeOK NoLostWakeup StopIsPrompt LoginBudget NoLoginReplay StoppedForAReason
PROPERTIES EditsAreSynced
