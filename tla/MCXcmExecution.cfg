CONSTANTS
    x = x
    y = y
    Assets = {x, y}
    Rank <- MCRank
    Matched = {x, y}
    MinBalance <- MCMinBalance
    Weights = {1, 3, 4, 5}
    WeightToFee <- MCWeightToFee
    ToAssetBalance <- MCToAssetBalance
    NoPrice = NoPrice
    NoReceipt = NoReceipt
    Supply <- MCSupply
    HasReceiver = TRUE
    Messages <- MCMessages
    NoMessage = NoMessage
SPECIFICATION XcmSpec
INVARIANTS ValueConserved RevenueDelivered PaidOrTrusted NoTopLevelReserveToRelay RoutedToDestination
PROPERTIES NeverOverRefunded
