CONSTANTS
    Accounts = {a1, a2}
    Paras = {p1}
    LocalAccounts = {a1}
    Keys = {k1}
    Prices = {1, 2, 3}
    None = None
    MinimumCount = 2
    ExpiresIn = 2
    MaxHasDispatchedSize = 2
    MaxTime = 3
    MaxPool = 1
SPECIFICATION Spec
INVARIANTS FeedersBounded AnswersBacked
PROPERTIES OneFeedPerBlock WithinMajorities CombinedIsFresh
CHECK_DEADLOCK FALSE
