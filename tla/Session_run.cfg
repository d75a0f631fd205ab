SPECIFICATION FairSpec
CONSTANTS
    a = a
    d = d
    Attended <- MCAttended
    Unattended <- MCUnattended
    Torn = Torn
    MaxCodes = 2
    Max2sa = 1
CHECK_DEADLOCK FALSE
INVARIANTS TypeOK AttemptsBounded StatusIsHonest
PROPERTIES TrustKept UnattendedEnds
