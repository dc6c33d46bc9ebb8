\* Two replicas: which pod a scale-down takes.
SPECIFICATION Spec
CONSTANTS
    Requests = {r1, r2}
    Supervisors = {s1}
    Entry = {s1}
    MaxReplicas = 2
    MaxSessions = 1
    Retention = TRUE
    MaxFaults = 0
    Nil = Nil
CHECK_DEADLOCK FALSE
SYMMETRY GoroutineSymmetry
PROPERTY SweepSparesPinned
