\* Requests that write the record overlap.
SPECIFICATION SessSpec
CONSTANTS
    Handlers = {h1, h2}
    Passwords = {a, b}
    MaxBumps = 2
    MaxSessions = 2
    Nil = Nil
SYMMETRY RequestSymmetry
CHECK_DEADLOCK FALSE
INVARIANT RevokedStaysRevoked
