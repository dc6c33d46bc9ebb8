\* A change of leader or a crash and the JWT secret.
SPECIFICATION BootSpec
CONSTANTS
    BootPods = {p1, p2}
    Values = {1, 2, 3, 4, 5, 6}
    MaxBootFaults = 1
    Nil = Nil
CHECK_DEADLOCK FALSE
PROPERTY SecretStable
