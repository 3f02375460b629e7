CONSTANTS
    n1 = n1
    n2 = n2
    n3 = n3
    Nodes = {n1, n2, n3}
    Role <- MCRole
    Authorities <- MCAuthorities
    Skew <- MCSkew
    Senders = {s1}
    SlotDuration = 2
    MinimumPeriod = 1
    Drift = 5
    MaxClock = 5
    MaxRelay = 3
    None = None
SPECIFICATION Spec
INVARIANTS InherentsAgree NotLockedOut
CHECK_DEADLOCK FALSE
