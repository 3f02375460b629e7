---------------------------- MODULE AssetTrader ----------------------------
(***************************************************************************)
(* TakeFirstAssetTrader (primitives/utility/src/lib.rs): buys the weight   *)
(* of an XCM message with the first asset offered, refunds weight that was *)
(* not used, and on drop hands what it kept to XcmFeesTo32ByteAccount,     *)
(* which deposits it. The executor that calls it is external: it moves     *)
(* assets between the sender and the holding register and drops the trader *)
(* at the end of the message. Prices come from                             *)
(* AssetFeeAsExistentialDepositMultiplier (common/src/xcm_config.rs).      *)
(***************************************************************************)
EXTENDS Integers, FiniteSets

CONSTANTS
    Assets,         \* ids of fungible assets
    Rank,           \* asset -> its place in the order of a MultiAssets
    Matched,        \* the assets the Matcher knows
    MinBalance,     \* asset -> ConcreteAssets::minimum_balance
    Weights,        \* weights of messages
    WeightToFee,    \* weight -> its fee in the native currency
    ToAssetBalance, \* asset, fee -> what it is in the asset, or NoPrice
    NoPrice,        \* the balance conversion failed
    NoReceipt,      \* the trader's None
    Supply,         \* asset -> how much of it there is
    HasReceiver     \* ReceiverAccount::get() is Some

Fees == {WeightToFee[w] : w \in Weights}

ASSUME TraderAssumption ==
    /\ Rank \in [Assets -> Nat]
    /\ \A a, b \in Assets : Rank[a] = Rank[b] => a = b
    /\ Matched \subseteq Assets
    /\ MinBalance \in [Assets -> Nat]
    /\ NoPrice \notin Nat
    /\ Weights \subseteq Nat
    /\ WeightToFee \in [Weights -> Nat]
    /\ ToAssetBalance \in [Assets -> [Fees -> Nat \cup {NoPrice}]]
    /\ NoReceipt \notin [weight : Nat, asset : Assets, amount : Nat]
    /\ Supply \in [Assets -> Nat]
    /\ HasReceiver \in BOOLEAN

VARIABLES
    running,    \* a message is being executed
    wallet,     \* asset -> what is outside the message and the receiver
    holding,    \* asset -> the holding register
    trader,     \* the AssetTraderRefunder, or NoReceipt
    receiver,   \* asset -> balance of the fee receiver
    burnt,      \* asset -> revenue that reached nobody
    lost        \* asset -> what a failed instruction had taken out of the holding register

vars == <<running, wallet, holding, trader, receiver, burnt, lost>>

AssetTraderRefunder == [weight : Nat, asset : Assets, amount : Nat]

\* charge_weight_in_fungibles: the price of a weight in an asset, or NoPrice.
Price(a, weight) == ToAssetBalance[a][WeightToFee[weight]]

Larger(x, y) == IF x < y THEN y ELSE x

\* saturating_sub
Minus(x, y) == IF x < y THEN 0 ELSE x - y

\* What the trader keeps of an asset.
Outstanding(a) == IF trader # NoReceipt /\ trader.asset = a THEN trader.amount ELSE 0
-----------------------------------------------------------------------------
Init ==
    /\ running = FALSE
    /\ wallet = Supply
    /\ holding = [a \in Assets |-> 0]
    /\ trader = NoReceipt
    /\ receiver = [a \in Assets |-> 0]
    /\ burnt = [a \in Assets |-> 0]
    /\ lost = [a \in Assets |-> 0]

\* A message starts with a trader from new().
Start ==
    /\ ~ running
    /\ running' = TRUE
    /\ trader' = NoReceipt
    /\ UNCHANGED <<wallet, holding, receiver, burnt, lost>>

\* WithdrawAsset puts assets into the holding register.
Withdraw(amounts) ==
    /\ running
    /\ \A a \in Assets : amounts[a] <= wallet[a]
    /\ holding' = [a \in Assets |-> holding[a] + amounts[a]]
    /\ wallet' = [a \in Assets |-> wallet[a] - amounts[a]]
    /\ UNCHANGED <<running, trader, receiver, burnt, lost>>

\* An instruction that moves what is held on to somewhere else.
Spend ==
    /\ running
    /\ wallet' = [a \in Assets |-> wallet[a] + holding[a]]
    /\ holding' = [a \in Assets |-> 0]
    /\ UNCHANGED <<running, trader, receiver, burnt, lost>>

\* An instruction that fails after it has taken what is held.
Forfeit ==
    /\ running
    /\ lost' = [a \in Assets |-> lost[a] + holding[a]]
    /\ holding' = [a \in Assets |-> 0]
    /\ UNCHANGED <<running, wallet, trader, receiver, burnt>>

\* The first asset of a payment.
IsFirst(a, payment) ==
    /\ payment[a] > 0
    /\ \A b \in Assets : payment[b] > 0 => Rank[a] <= Rank[b]

\* The charge of buy_weight: at least the minimum balance.
Required(a, weight) == Larger(Price(a, weight), MinBalance[a])

\* buy_weight takes the payment in asset a.
Buys(a, payment, weight) ==
    /\ a \in Matched
    /\ IsFirst(a, payment)
    /\ Price(a, weight) # NoPrice
    /\ Required(a, weight) <= payment[a]

\* BuyExecution takes the payment out of the holding register and hands it to
\* buy_weight, which keeps the charge and returns the rest.
BuyWeight(payment, weight) ==
    /\ running
    /\ \A a \in Assets : payment[a] <= holding[a]
    /\ trader = NoReceipt
    /\ \E a \in Assets :
          /\ Buys(a, payment, weight)
          /\ trader' = [weight |-> weight, asset |-> a, amount |-> Required(a, weight)]
          /\ holding' = [holding EXCEPT ![a] = @ - Required(a, weight)]
    /\ UNCHANGED <<running, wallet, receiver, burnt, lost>>

\* buy_weight returns an error when weight was bought before (NotWithdrawable), nothing
\* is offered or the first asset is unknown (AssetNotFound), it has no price or the
\* payment is too small (TooExpensive). The payment was moved into the call and is
\* dropped with it.
BuyWeightFails(payment, weight) ==
    /\ running
    /\ \A a \in Assets : payment[a] <= holding[a]
    /\ trader # NoReceipt \/ \A a \in Assets : ~ Buys(a, payment, weight)
    /\ holding' = [a \in Assets |-> holding[a] - payment[a]]
    /\ lost' = [a \in Assets |-> lost[a] + payment[a]]
    /\ UNCHANGED <<running, wallet, trader, receiver, burnt>>

\* Mutant of Refund: everything that is left when the price would go below the minimum.
RefundOfRest(price, outstanding, min) ==
    IF Minus(outstanding, price) > min THEN price ELSE outstanding

\* The amount of a refund: the price of the weight, or what leaves exactly the
\* minimum balance outstanding.
Refund(price, outstanding, min) ==
    IF Minus(outstanding, price) > min THEN price ELSE Minus(outstanding, min)

\* Mutant of Remaining: the minimum is not kept.
RemainingWithoutMinimum(price, outstanding, min) == Minus(outstanding, price)

\* What stays outstanding after it.
Remaining(price, outstanding, min) ==
    IF Minus(outstanding, price) > min THEN Minus(outstanding, price) ELSE min

\* RefundSurplus with refund_weight; without a receipt or a price it does nothing.
RefundWeight(weight) ==
    /\ running
    /\ trader # NoReceipt
    /\ LET a     == trader.asset
           price == Price(a, weight)
       IN  /\ price # NoPrice
           /\ trader' = [weight |-> Minus(trader.weight, weight), asset |-> a,
                         amount |-> Remaining(price, trader.amount, MinBalance[a])]
           /\ holding' = [holding EXCEPT
                 ![a] = @ + Refund(price, trader.amount, MinBalance[a])]
    /\ UNCHANGED <<running, wallet, receiver, burnt, lost>>

\* deposit_asset: an account cannot be created with less than the minimum balance.
Deposits(a, amount) == receiver[a] + amount >= MinBalance[a]

\* The end of the message: the holding register goes to its beneficiary, and drop
\* hands the outstanding amount to take_revenue. Without a receiver, or when the
\* deposit fails, the revenue is lost.
DropTrader ==
    /\ running
    /\ running' = FALSE
    /\ wallet' = [a \in Assets |-> wallet[a] + holding[a]]
    /\ holding' = [a \in Assets |-> 0]
    /\ LET kept(a) == HasReceiver /\ Deposits(a, Outstanding(a))
       IN  /\ receiver' = [a \in Assets |->
                 IF kept(a) THEN receiver[a] + Outstanding(a) ELSE receiver[a]]
           /\ burnt' = [a \in Assets |->
                 IF kept(a) THEN burnt[a] ELSE burnt[a] + Outstanding(a)]
    /\ trader' = NoReceipt
    /\ UNCHANGED lost

Amounts == {f \in [Assets -> UNION {0 .. Supply[a] : a \in Assets}] :
              \A a \in Assets : f[a] <= Supply[a]}

Next ==
    \/ Start
    \/ \E amounts \in Amounts : Withdraw(amounts)
    \/ Spend
    \/ Forfeit
    \/ \E payment \in Amounts, weight \in Weights :
          BuyWeight(payment, weight) \/ BuyWeightFails(payment, weight)
    \/ \E weight \in Weights : RefundWeight(weight)
    \/ DropTrader

Spec == Init /\ [][Next]_vars
-----------------------------------------------------------------------------
\* Balances are natural numbers and the trader holds a receipt of a known asset.
TypeOK ==
    /\ running \in BOOLEAN
    /\ wallet \in [Assets -> Nat]
    /\ holding \in [Assets -> Nat]
    /\ trader \in AssetTraderRefunder \cup {NoReceipt}
    /\ receiver \in [Assets -> Nat]
    /\ burnt \in [Assets -> Nat]
    /\ lost \in [Assets -> Nat]

\* No sequence of purchases, refunds and drops creates a unit of an asset, and what
\* refund_weight pays out it takes from what drop will hand over: the only units missing
\* from everybody's balance are those of payments that buy_weight refused, of sends that
\* failed, and of revenue that could not be deposited.
ValueConserved ==
    \A a \in Assets :
        wallet[a] + holding[a] + Outstanding(a) + receiver[a] + burnt[a] + lost[a] = Supply[a]

\* "Require at least a drop of minimum_balance": however often weight is refunded, the
\* trader keeps what the deposit needs.
KeepsMinimum == trader # NoReceipt => trader.amount >= MinBalance[trader.asset]

\* "`deposit_asset` cannot generally fail; qed": with a receiver, no revenue is lost.
RevenueDelivered == HasReceiver => \A a \in Assets : burnt[a] = 0

\* A refund never pays more than the weight's price, so weight cannot be bought and
\* given back at a profit.
NeverOverRefunded ==
    [][\A weight \in Weights : RefundWeight(weight) =>
          holding'[trader.asset] - holding[trader.asset] <= Price(trader.asset, weight)]_vars
=============================================================================
