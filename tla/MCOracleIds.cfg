CONSTANTS
    n1 = n1
    n2 = n2
    Names = {n1, n2}
    Accounts = {a1}
    UserKeys = {}
    HeadKey = HeadKey
    TailKey = TailKey
    src1 = src1
    src2 = src2
    m01 = m01
    m02 = m02
    m11 = m11
    m12 = m12
    m21 = m21
    m22 = m22
    Payloads = {m01, m02, m11, m12, m21, m22}
    d1 = d1
    Garbage = Garbage
    ReplyData <- MCReplyData
    None = None
    Txs <- MCTxs
    QueueCapacity = 2
    MaxIndex = 2
    Users = {u1, u2}
    FeedKeys = {fk1}
    Sources = {src1, src2}
    Absent = Absent
    MaxBlock = 2
    Responses = {d1}
    Nonces = {1}
    Encoding <- MCEncoding
    KeyRank <- MCKeyRank
SPECIFICATION OracleSpec
INVARIANT IdIdentifiesRequest
