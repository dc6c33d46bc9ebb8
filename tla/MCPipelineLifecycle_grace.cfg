\* Two pods, grace timers, no sweep: a restart, a change of leader or a
\* registration that fails and may still be committed.
SPECIFICATION FairSpec
CONSTANTS
    Pods = {p1, p2}
    Certs = {c1}
    t1 = t1
    Traces = {t1}
    Tunnels = {n1, n2}
    TraceOf <- MCTraceOf
    Grace = TRUE
    SweepEnabled = FALSE
    MaxFaults = 1
    Nil = Nil
CHECK_DEADLOCK FALSE
INVARIANTS TypeOK InFlightExact PendingArmed
PROPERTIES FiringIsLatest DisconnectResolved
