\* Two pods, immediate failure and sweep: a restart, a change of leader or a
\* registration that fails.
SPECIFICATION FairSpec
CONSTANTS
    Pods = {p1, p2}
    Certs = {c1}
    t1 = t1
    Traces = {t1}
    Tunnels = {n1}
    TraceOf <- MCTraceOf
    Grace = FALSE
    SweepEnabled = TRUE
    MaxFaults = 1
    Nil = Nil
CHECK_DEADLOCK FALSE
PROPERTIES SweepSparesLocal RunningResolved
