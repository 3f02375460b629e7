CONSTANTS
    a = a
    b = b
    Accounts = {a, b}
    Genesis = {a}
    WithKeys = {a, b}
    MaxCandidates = 1
    MinCandidates = 0
    MaxInvulnerables = 1
    KickThreshold = 2
    Period = 1
    InvulnerableSets <- MCInvulnerableSets
    DesiredFigures = {1}
    Bonds = {1}
    PotGenesis = 6
    Endowment = 6
    ED = 2
    MaxBlock = 3
    MaxRootCalls = 1
    FeeHandler = "DealWithFees"
    FeeAmounts = {0, 1, 2}
    MaxCharged = 4
SPECIFICATION FeesSpec
INVARIANT FeesReachPot
CHECK_DEADLOCK FALSE
