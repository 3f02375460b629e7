CONSTANTS
    a = a
    b = b
    c = c
    Accounts = {a, b, c}
    Genesis = {a}
    WithKeys = {a, b, c}
    MaxCandidates = 2
    MinCandidates = 0
    MaxInvulnerables = 1
    KickThreshold = 2
    Period = 2
    InvulnerableSets <- MCInvulnerableSets
    DesiredFigures = {1, 3}
    Bonds = {1, 2, 3}
    PotGenesis = 6
    Endowment = 2
    ED = 2
    MaxBlock = 8
    MaxRootCalls = 0
SYMMETRY MCSymmetry
SPECIFICATION Spec
PROPERTY KickedHadItsTurn
CHECK_DEADLOCK FALSE
