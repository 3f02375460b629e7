CONSTANTS
    Names = {n1, n2}
    Accounts = {a1, a2}
    UserKeys = {k1}
    k1 = k1
    v1 = v1
    HeadKey = HeadKey
    TailKey = TailKey
    Payloads = {v1, v2}
    ReplyData = {r1}
    None = None
    Txs <- MCTxs
    QueueCapacity = 2
    MaxIndex = 3
SPECIFICATION Spec
INVARIANTS TypeOK QueueIntact QueueNeverTraps
PROPERTIES ImplementsQueue
