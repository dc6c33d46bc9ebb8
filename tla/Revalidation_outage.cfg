\* A check of a GitHub user while GitHub cannot be reached.
SPECIFICATION RevSpec
CONSTANTS
    RevRequests = {r1}
    Interval = 1
    Jitter = 0
    Grace = 1
    FailOpen = FALSE
    MaxEntryAge = 1
    MaxTime = 1
    MaxCred = 1
    MaxChecks = 2
    MaxIdpChanges = 0
    Nil = Nil
CHECK_DEADLOCK FALSE
PROPERTY UnreachableKeepsAccount
