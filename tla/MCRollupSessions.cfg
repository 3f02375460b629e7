CONSTANTS
    Names = {n1}
    Accounts = {a1}
    Submitter = a1
    k1 = k1
    k1_ver = k1_ver
    UserKeys = {k1, k1_ver}
    DataKeys = {k1}
    VersionOf <- MCVersionOf
    HeadKey = HeadKey
    TailKey = TailKey
    Payloads = {v1, v2}
    ReplyData = {r1}
    Reply = r1
    None = None
    Txs = {}
    QueueCapacity = 2
    MaxIndex = 2
    Sessions = {s1, s2}
SYMMETRY MCSymmetry
SPECIFICATION SessionsSpec
INVARIANTS TakenAgainOnlyByOverlap ConsumedByReply
PROPERTY ReadsStillHold
CHECK_DEADLOCK FALSE
