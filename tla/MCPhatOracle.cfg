CONSTANTS
    Names <- MCNames
    Accounts = {k1, k2}
    SubmitKeys = {k1, k2}
    UserKeys = {}
    HeadKey = HeadKey
    TailKey = TailKey
    Payloads = {}
    ReplyData = {r1}
    None = None
    Txs = {}
    QueueCapacity = 0
    MaxIndex = 0
    Users = {u1, u2}
    Factory = Factory
    FactoryOwner = u1
    Codes = {c1}
    MaxDeployed = 1
    Runs = {p1, p2}
SPECIFICATION PhatSpec
INVARIANTS VerdictsHold
PROPERTIES ConfiguredGetsClaimed
