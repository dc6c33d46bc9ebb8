\* Two supervisors that sweep one version on stores of their own: the version
\* is collected once it is quiet.
SPECIFICATION FairSpec
CONSTANTS
    Requests = {r1}
    Supervisors = {s1, s2}
    Entry = {s1}
    MaxReplicas = 1
    MaxSessions = 1
    Retention = TRUE
    MaxFaults = 1
    Nil = Nil
CHECK_DEADLOCK FALSE
INVARIANT TypeOK
PROPERTIES GcSparesHeld IdleCollected
