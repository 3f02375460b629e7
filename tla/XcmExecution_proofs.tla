------------------------ MODULE XcmExecution_proofs ------------------------
(***************************************************************************)
(* Proofs about AssetTrader and XcmExecution, for every set of messages,   *)
(* assets, price function and minimum balance. The trader: every unit is   *)
(* accounted for, no revenue is lost, and no refund exceeds the price of   *)
(* the weight refunded. The executor: executing messages implements the    *)
(* trader's specification, so that these carry over; the barrier's two     *)
(* promises; and the router's.                                             *)
(***************************************************************************)
EXTENDS XcmExecution, TLAPS

\* The inductive invariant: between messages the trader holds nothing.
Inv ==
    /\ TypeOK
    /\ ValueConserved
    /\ KeepsMinimum
    /\ RevenueDelivered
    /\ ~ running => trader = NoReceipt /\ \A a \in Assets : holding[a] = 0

\* What a refund pays and what remains add up to what was outstanding, the minimum
\* remains, and no more than the price is paid.
LEMMA RefundFacts ==
    ASSUME NEW price \in Nat, NEW outstanding \in Nat, NEW min \in Nat,
           outstanding >= min
    PROVE  /\ Refund(price, outstanding, min) \in Nat
           /\ Remaining(price, outstanding, min) \in Nat
           /\ Refund(price, outstanding, min) + Remaining(price, outstanding, min)
                = outstanding
           /\ Remaining(price, outstanding, min) >= min
           /\ Refund(price, outstanding, min) <= price
BY DEF Refund, Remaining, Minus

\* A price is a natural number or none.
LEMMA PriceType ==
    ASSUME NEW a \in Assets, NEW weight \in Weights
    PROVE  Price(a, weight) \in Nat \cup {NoPrice}
<1>1. WeightToFee[weight] \in Fees
  BY DEF Fees
<1>2. ToAssetBalance[a] \in [Fees -> Nat \cup {NoPrice}]
  BY TraderAssumption
<1> QED BY <1>1, <1>2 DEF Price

\* A receipt is a record of a known asset.
LEMMA ReceiptFacts ==
    ASSUME TypeOK, trader # NoReceipt
    PROVE  /\ trader \in AssetTraderRefunder
           /\ trader.asset \in Assets /\ trader.amount \in Nat /\ trader.weight \in Nat
BY DEF TypeOK, AssetTraderRefunder

\* Outstanding amounts are natural numbers.
LEMMA OutstandingType ==
    ASSUME TypeOK, NEW a \in Assets
    PROVE  Outstanding(a) \in Nat
BY ReceiptFacts DEF Outstanding

\* The initial state satisfies the invariant.
LEMMA InitInv == Init => Inv
<1> SUFFICES ASSUME Init PROVE Inv
  OBVIOUS
<1>1. TypeOK
  BY TraderAssumption DEF Init, TypeOK
<1>2. ValueConserved
  BY TraderAssumption DEF Init, ValueConserved, Outstanding
<1> QED BY <1>1, <1>2 DEF Init, Inv, KeepsMinimum, RevenueDelivered

\* Starting a message keeps the invariant: there was no receipt before.
LEMMA StartKeepsInv ==
    ASSUME Inv, Start
    PROVE  Inv'
<1>1. /\ trader = NoReceipt /\ trader' = NoReceipt
      /\ wallet' = wallet /\ holding' = holding /\ receiver' = receiver /\ burnt' = burnt
      /\ lost' = lost /\ running' = TRUE
  BY DEF Inv, Start
<1>2. TypeOK'
  BY <1>1 DEF Inv, TypeOK
<1>3. ValueConserved'
  BY <1>1 DEF Inv, ValueConserved, Outstanding
<1> QED BY <1>1, <1>2, <1>3 DEF Inv, KeepsMinimum, RevenueDelivered

\* Three parts of a sum may change if their own sum does not.
LEMMA SumKept ==
    ASSUME NEW w \in Nat, NEW h \in Nat, NEW l \in Nat,
           NEW u \in Nat, NEW g \in Nat, NEW k \in Nat,
           NEW o \in Nat, NEW r \in Nat, NEW b \in Nat, NEW total,
           w + h + o + r + b + l = total, u + g + k = w + h + l
    PROVE  u + g + o + r + b + k = total
OBVIOUS

\* Moving assets into or out of the holding register keeps the invariant.
LEMMA MoveKeepsInv ==
    ASSUME Inv, running, UNCHANGED <<running, trader, receiver, burnt>>,
           wallet' \in [Assets -> Nat], holding' \in [Assets -> Nat],
           lost' \in [Assets -> Nat],
           \A a \in Assets : wallet'[a] + holding'[a] + lost'[a]
                               = wallet[a] + holding[a] + lost[a]
    PROVE  Inv'
<1>1. TypeOK'
  BY DEF Inv, TypeOK
<1>2. ASSUME NEW a \in Assets
      PROVE  wallet'[a] + holding'[a] + Outstanding(a)' + receiver'[a] + burnt'[a] + lost'[a]
               = Supply[a]
  <2>1. wallet[a] + holding[a] + Outstanding(a) + receiver[a] + burnt[a] + lost[a] = Supply[a]
    BY DEF Inv, ValueConserved
  <2>2. Outstanding(a)' = Outstanding(a) /\ receiver'[a] = receiver[a] /\ burnt'[a] = burnt[a]
    BY DEF Outstanding
  <2>3. wallet'[a] + holding'[a] + lost'[a] = wallet[a] + holding[a] + lost[a]
    OBVIOUS
  <2>4. /\ wallet[a] \in Nat /\ holding[a] \in Nat /\ lost[a] \in Nat
        /\ wallet'[a] \in Nat /\ holding'[a] \in Nat /\ lost'[a] \in Nat
        /\ receiver[a] \in Nat /\ burnt[a] \in Nat /\ Outstanding(a) \in Nat
    BY OutstandingType DEF Inv, TypeOK
  <2>5. wallet'[a] + holding'[a] + Outstanding(a) + receiver[a] + burnt[a] + lost'[a]
          = Supply[a]
    BY ONLY <2>1, <2>3, <2>4, SumKept
  <2> QED BY <2>2, <2>5
<1>3. ValueConserved'
  BY <1>2 DEF ValueConserved
<1> QED BY <1>1, <1>3 DEF Inv, KeepsMinimum, RevenueDelivered

\* Withdrawing keeps the invariant.
LEMMA WithdrawKeepsInv ==
    ASSUME Inv, NEW amounts \in Amounts, Withdraw(amounts)
    PROVE  Inv'
<1>1. /\ amounts \in [Assets -> Nat]
      /\ \A a \in Assets : amounts[a] <= wallet[a]
      /\ \A a \in Assets : wallet[a] \in Nat /\ holding[a] \in Nat /\ lost[a] \in Nat
  BY TraderAssumption DEF Amounts, Withdraw, Inv, TypeOK
<1>2. /\ wallet' = [a \in Assets |-> wallet[a] - amounts[a]]
      /\ holding' = [a \in Assets |-> holding[a] + amounts[a]]
      /\ running /\ UNCHANGED <<running, trader, receiver, burnt, lost>>
  BY DEF Withdraw
<1>3. /\ wallet' \in [Assets -> Nat] /\ holding' \in [Assets -> Nat]
      /\ lost' \in [Assets -> Nat]
      /\ \A a \in Assets : wallet'[a] + holding'[a] + lost'[a]
                            = wallet[a] + holding[a] + lost[a]
  BY <1>1, <1>2 DEF Inv, TypeOK
<1> QED BY <1>2, <1>3, MoveKeepsInv

\* Spending keeps the invariant.
LEMMA SpendKeepsInv ==
    ASSUME Inv, Spend
    PROVE  Inv'
<1>1. /\ wallet' = [a \in Assets |-> wallet[a] + holding[a]]
      /\ holding' = [a \in Assets |-> 0]
      /\ running /\ UNCHANGED <<running, trader, receiver, burnt, lost>>
  BY DEF Spend
<1>2. \A a \in Assets : wallet[a] \in Nat /\ holding[a] \in Nat /\ lost[a] \in Nat
  BY DEF Inv, TypeOK
<1>3. /\ wallet' \in [Assets -> Nat] /\ holding' \in [Assets -> Nat]
      /\ lost' \in [Assets -> Nat]
      /\ \A a \in Assets : wallet'[a] + holding'[a] + lost'[a]
                            = wallet[a] + holding[a] + lost[a]
  BY <1>1, <1>2 DEF Inv, TypeOK
<1> QED BY <1>1, <1>3, MoveKeepsInv

\* So does losing what is held.
LEMMA ForfeitKeepsInv ==
    ASSUME Inv, Forfeit
    PROVE  Inv'
<1>1. /\ lost' = [a \in Assets |-> lost[a] + holding[a]]
      /\ holding' = [a \in Assets |-> 0]
      /\ running /\ UNCHANGED <<running, wallet, trader, receiver, burnt>>
  BY DEF Forfeit
<1>2. \A a \in Assets : wallet[a] \in Nat /\ holding[a] \in Nat /\ lost[a] \in Nat
  BY DEF Inv, TypeOK
<1>3. /\ wallet' \in [Assets -> Nat] /\ holding' \in [Assets -> Nat]
      /\ lost' \in [Assets -> Nat]
      /\ \A a \in Assets : wallet'[a] + holding'[a] + lost'[a]
                            = wallet[a] + holding[a] + lost[a]
  BY <1>1, <1>2 DEF Inv, TypeOK
<1> QED BY <1>1, <1>3, MoveKeepsInv

\* And losing a payment that buy_weight refuses.
LEMMA BuyFailsKeepsInv ==
    ASSUME Inv, NEW payment \in Amounts, NEW weight \in Weights,
           BuyWeightFails(payment, weight)
    PROVE  Inv'
<1>1. /\ payment \in [Assets -> Nat]
      /\ \A a \in Assets : payment[a] <= holding[a]
      /\ \A a \in Assets : wallet[a] \in Nat /\ holding[a] \in Nat /\ lost[a] \in Nat
  BY TraderAssumption DEF Amounts, BuyWeightFails, Inv, TypeOK
<1>2. /\ lost' = [a \in Assets |-> lost[a] + payment[a]]
      /\ holding' = [a \in Assets |-> holding[a] - payment[a]]
      /\ running /\ UNCHANGED <<running, wallet, trader, receiver, burnt>>
  BY DEF BuyWeightFails
<1>3. /\ wallet' \in [Assets -> Nat] /\ holding' \in [Assets -> Nat]
      /\ lost' \in [Assets -> Nat]
      /\ \A a \in Assets : wallet'[a] + holding'[a] + lost'[a]
                            = wallet[a] + holding[a] + lost[a]
  BY <1>1, <1>2 DEF Inv, TypeOK
<1> QED BY <1>2, <1>3, MoveKeepsInv

\* Buying weight keeps the invariant.
LEMMA BuyKeepsInv ==
    ASSUME Inv, NEW payment \in Amounts, NEW weight \in Weights,
           BuyWeight(payment, weight)
    PROVE  Inv'
<1>1. PICK a \in Matched :
        /\ Price(a, weight) # NoPrice
        /\ Required(a, weight) <= payment[a]
        /\ trader' = [weight |-> weight, asset |-> a, amount |-> Required(a, weight)]
        /\ holding' = [holding EXCEPT ![a] = @ - Required(a, weight)]
  BY DEF BuyWeight, Buys
<1> DEFINE r == Required(a, weight)
<1>2. a \in Assets /\ weight \in Nat /\ MinBalance[a] \in Nat
  BY TraderAssumption
<1>3. Price(a, weight) \in Nat
  BY <1>1, <1>2, PriceType
<1>4. r \in Nat /\ r >= MinBalance[a]
  BY <1>2, <1>3 DEF Required, Larger
<1>5. payment[a] \in Nat /\ payment[a] <= holding[a] /\ holding[a] \in Nat
  BY <1>2, TraderAssumption DEF Amounts, BuyWeight, Inv, TypeOK
<1>6. holding[a] - r \in Nat
  BY <1>1, <1>4, <1>5
<1>7. trader' \in AssetTraderRefunder
  BY <1>1, <1>2, <1>4 DEF AssetTraderRefunder
<1>8. /\ running' = running /\ running
      /\ wallet' = wallet /\ receiver' = receiver /\ burnt' = burnt /\ lost' = lost
      /\ trader = NoReceipt
  BY DEF BuyWeight
<1>9. trader' # NoReceipt
  BY <1>7, TraderAssumption DEF AssetTraderRefunder
<1>10. TypeOK'
  BY <1>1, <1>6, <1>7, <1>8 DEF Inv, TypeOK
<1>11. KeepsMinimum'
  BY <1>1, <1>4 DEF KeepsMinimum
<1>12. ASSUME NEW b \in Assets
       PROVE  wallet'[b] + holding'[b] + Outstanding(b)' + receiver'[b] + burnt'[b] + lost'[b]
                = Supply[b]
  <2>1. wallet[b] + holding[b] + 0 + receiver[b] + burnt[b] + lost[b] = Supply[b]
    BY <1>8 DEF Inv, ValueConserved, Outstanding
  <2>2. /\ wallet[b] \in Nat /\ holding[b] \in Nat /\ receiver[b] \in Nat
        /\ burnt[b] \in Nat /\ lost[b] \in Nat
    BY DEF Inv, TypeOK
  <2>3. CASE b = a
    <3>1. holding'[b] = holding[b] - r
      BY <1>1, <2>3 DEF Inv, TypeOK
    <3>2. Outstanding(b)' = r
      BY <1>1, <1>9, <2>3 DEF Outstanding
    <3> HIDE DEF r
    <3> QED BY <1>4, <1>8, <2>1, <2>2, <3>1, <3>2
  <2>4. CASE b # a
    <3>1. holding'[b] = holding[b]
      BY <1>1, <2>4 DEF Inv, TypeOK
    <3>2. Outstanding(b)' = 0
      BY <1>1, <2>4 DEF Outstanding
    <3> QED BY <1>8, <2>1, <2>2, <3>1, <3>2
  <2> QED BY <2>3, <2>4
<1>13. ValueConserved'
  BY <1>12 DEF ValueConserved
<1> QED BY <1>8, <1>10, <1>11, <1>13 DEF Inv, RevenueDelivered

\* What refund_weight does to the trader and the holding register.
LEMMA RefundStep ==
    ASSUME Inv, NEW weight \in Weights, RefundWeight(weight)
    PROVE  \E paid \in Nat, left \in Nat :
             /\ paid <= Price(trader.asset, weight)
             /\ paid + left = trader.amount
             /\ left >= MinBalance[trader.asset]
             /\ trader' = [weight |-> Minus(trader.weight, weight),
                           asset |-> trader.asset, amount |-> left]
             /\ holding' = [holding EXCEPT ![trader.asset] = @ + paid]
<1> DEFINE a     == trader.asset
           price == Price(a, weight)
<1>1. trader # NoReceipt /\ price # NoPrice
  BY DEF RefundWeight
<1>2. a \in Assets /\ trader.amount \in Nat
  BY <1>1, ReceiptFacts DEF Inv
<1>3. price \in Nat /\ MinBalance[a] \in Nat
  BY <1>1, <1>2, PriceType, TraderAssumption
<1>4. trader.amount >= MinBalance[a]
  BY <1>1 DEF Inv, KeepsMinimum
<1> DEFINE paid == Refund(price, trader.amount, MinBalance[a])
           left == Remaining(price, trader.amount, MinBalance[a])
<1>5. /\ trader' = [weight |-> Minus(trader.weight, weight), asset |-> a, amount |-> left]
      /\ holding' = [holding EXCEPT ![a] = @ + paid]
  BY DEF RefundWeight
<1>6. /\ paid \in Nat /\ left \in Nat
      /\ paid + left = trader.amount /\ left >= MinBalance[a] /\ paid <= price
  BY <1>2, <1>3, <1>4, RefundFacts
<1> HIDE DEF paid, left
<1> QED BY <1>5, <1>6

\* Refunding weight keeps the invariant.
LEMMA RefundKeepsInv ==
    ASSUME Inv, NEW weight \in Weights, RefundWeight(weight)
    PROVE  Inv'
<1>1. PICK paid \in Nat, left \in Nat :
        /\ paid + left = trader.amount
        /\ left >= MinBalance[trader.asset]
        /\ trader' = [weight |-> Minus(trader.weight, weight),
                      asset |-> trader.asset, amount |-> left]
        /\ holding' = [holding EXCEPT ![trader.asset] = @ + paid]
  BY RefundStep
<1>2. /\ trader # NoReceipt /\ running' = running /\ running
      /\ wallet' = wallet /\ receiver' = receiver /\ burnt' = burnt /\ lost' = lost
  BY DEF RefundWeight
<1>3. /\ trader.asset \in Assets /\ trader.amount \in Nat /\ trader.weight \in Nat
      /\ weight \in Nat
  BY <1>2, ReceiptFacts, TraderAssumption DEF Inv
<1>4. Minus(trader.weight, weight) \in Nat
  BY <1>3 DEF Minus
<1>5. trader' \in AssetTraderRefunder /\ trader' # NoReceipt
  BY <1>1, <1>3, <1>4, TraderAssumption DEF AssetTraderRefunder
<1>6. TypeOK'
  BY <1>1, <1>2, <1>3, <1>5 DEF Inv, TypeOK
<1>7. KeepsMinimum'
  BY <1>1 DEF KeepsMinimum
<1>8. ASSUME NEW b \in Assets
      PROVE  wallet'[b] + holding'[b] + Outstanding(b)' + receiver'[b] + burnt'[b] + lost'[b]
               = Supply[b]
  <2>1. wallet[b] + holding[b] + Outstanding(b) + receiver[b] + burnt[b] + lost[b] = Supply[b]
    BY DEF Inv, ValueConserved
  <2>2. /\ wallet[b] \in Nat /\ holding[b] \in Nat /\ receiver[b] \in Nat
        /\ burnt[b] \in Nat /\ lost[b] \in Nat
    BY DEF Inv, TypeOK
  <2>3. CASE b = trader.asset
    <3>1. holding'[b] = holding[b] + paid
      BY <1>1, <2>3 DEF Inv, TypeOK
    <3>2. Outstanding(b)' = left /\ Outstanding(b) = paid + left
      BY <1>1, <1>2, <1>5, <2>3 DEF Outstanding
    <3> QED BY <1>2, <2>1, <2>2, <3>1, <3>2
  <2>4. CASE b # trader.asset
    <3>1. holding'[b] = holding[b]
      BY <1>1, <2>4 DEF Inv, TypeOK
    <3>2. Outstanding(b)' = 0 /\ Outstanding(b) = 0
      BY <1>1, <2>4 DEF Outstanding
    <3> QED BY <1>2, <2>1, <2>2, <3>1, <3>2
  <2> QED BY <2>3, <2>4
<1>9. ValueConserved'
  BY <1>8 DEF ValueConserved
<1> QED BY <1>2, <1>6, <1>7, <1>9 DEF Inv, RevenueDelivered

\* The end of a message keeps the invariant.
LEMMA DropKeepsInv ==
    ASSUME Inv, DropTrader
    PROVE  Inv'
<1> DEFINE kept(a) == HasReceiver /\ Deposits(a, Outstanding(a))
<1>1. /\ running' = FALSE /\ trader' = NoReceipt
      /\ wallet' = [a \in Assets |-> wallet[a] + holding[a]]
      /\ holding' = [a \in Assets |-> 0]
      /\ receiver' = [a \in Assets |->
            IF kept(a) THEN receiver[a] + Outstanding(a) ELSE receiver[a]]
      /\ burnt' = [a \in Assets |->
            IF kept(a) THEN burnt[a] ELSE burnt[a] + Outstanding(a)]
      /\ lost' = lost
  BY DEF DropTrader
<1>2. \A a \in Assets :
        /\ wallet[a] \in Nat /\ holding[a] \in Nat /\ receiver[a] \in Nat
        /\ burnt[a] \in Nat /\ Outstanding(a) \in Nat /\ MinBalance[a] \in Nat
        /\ lost[a] \in Nat
  BY OutstandingType, TraderAssumption DEF Inv, TypeOK
<1>3. ASSUME NEW a \in Assets, HasReceiver
      PROVE  burnt'[a] = 0
  <2>1. burnt[a] = 0
    BY <1>3 DEF Inv, RevenueDelivered
  <2>2. CASE trader # NoReceipt /\ trader.asset = a
    <3>1. Outstanding(a) >= MinBalance[a]
      BY <2>2 DEF Inv, KeepsMinimum, Outstanding
    <3>2. kept(a)
      BY <1>2, <1>3, <3>1 DEF Deposits
    <3> QED BY <1>1, <2>1, <3>2
  <2>3. CASE ~(trader # NoReceipt /\ trader.asset = a)
    <3>1. Outstanding(a) = 0
      BY <2>3 DEF Outstanding
    <3>2. burnt'[a] = burnt[a] \/ burnt'[a] = burnt[a] + 0
      BY <1>1, <3>1
    <3> QED BY <2>1, <3>2
  <2> QED BY <2>2, <2>3
<1>4. ASSUME NEW a \in Assets
      PROVE  wallet'[a] + holding'[a] + Outstanding(a)' + receiver'[a] + burnt'[a] + lost'[a]
               = Supply[a]
  <2>1. wallet[a] + holding[a] + Outstanding(a) + receiver[a] + burnt[a] + lost[a] = Supply[a]
    BY DEF Inv, ValueConserved
  <2>2. /\ wallet'[a] = wallet[a] + holding[a] /\ holding'[a] = 0
        /\ Outstanding(a)' = 0 /\ lost'[a] = lost[a]
    BY <1>1 DEF Outstanding
  <2>3. \/ receiver'[a] = receiver[a] + Outstanding(a) /\ burnt'[a] = burnt[a]
        \/ receiver'[a] = receiver[a] /\ burnt'[a] = burnt[a] + Outstanding(a)
    BY <1>1
  <2> QED BY <1>2, <2>1, <2>2, <2>3
<1>5. receiver' \in [Assets -> Nat] /\ burnt' \in [Assets -> Nat]
  <2> HIDE DEF kept
  <2> QED BY <1>1, <1>2
<1>6. TypeOK'
  <2>1. wallet' \in [Assets -> Nat] /\ holding' \in [Assets -> Nat]
    <3> HIDE DEF kept
    <3> QED BY <1>1, <1>2
  <2>2. running' \in BOOLEAN /\ trader' \in AssetTraderRefunder \cup {NoReceipt}
    BY <1>1
  <2>3. lost' \in [Assets -> Nat]
    BY <1>1 DEF Inv, TypeOK
  <2> QED BY <2>1, <2>2, <2>3, <1>5 DEF TypeOK
<1>7. ValueConserved'
  BY <1>4 DEF ValueConserved
<1> QED BY <1>1, <1>3, <1>6, <1>7 DEF Inv, KeepsMinimum, RevenueDelivered

\* Every step keeps the invariant.
LEMMA NextKeepsInv == Inv /\ [Next]_vars => Inv'
<1> SUFFICES ASSUME Inv, [Next]_vars PROVE Inv'
  OBVIOUS
<1>1. CASE UNCHANGED vars
  BY <1>1 DEF vars, Inv, TypeOK, ValueConserved, Outstanding, KeepsMinimum, RevenueDelivered
<1> QED
  BY <1>1, StartKeepsInv, WithdrawKeepsInv, SpendKeepsInv, ForfeitKeepsInv, BuyKeepsInv,
     BuyFailsKeepsInv, RefundKeepsInv, DropKeepsInv DEF Next

\* The invariant holds of every behaviour.
THEOREM Invariance == Spec => []Inv
BY InitInv, NextKeepsInv, PTL DEF Spec

\* Buying, refunding and dropping create no unit of an asset, and lose none but those of
\* payments that buy_weight refused, sends that failed and revenue not deposited.
THEOREM TraderConserves == Spec => []ValueConserved
<1>1. Inv => ValueConserved
  BY DEF Inv
<1> QED BY Invariance, <1>1, PTL

\* With a fee receiver, the deposit of the revenue never fails for lack of the
\* minimum balance.
THEOREM TraderDelivers == Spec => []RevenueDelivered
<1>1. Inv => RevenueDelivered
  BY DEF Inv
<1> QED BY Invariance, <1>1, PTL

\* A refund is never more than the price of the weight given back.
THEOREM RefundsBounded == Spec => NeverOverRefunded
<1>1. ASSUME Inv, NEW weight \in Weights, RefundWeight(weight)
      PROVE  holding'[trader.asset] - holding[trader.asset] <= Price(trader.asset, weight)
  <2>1. PICK paid \in Nat, left \in Nat :
          /\ paid <= Price(trader.asset, weight)
          /\ holding' = [holding EXCEPT ![trader.asset] = @ + paid]
    BY <1>1, RefundStep
  <2>2. trader.asset \in Assets
    BY <1>1, ReceiptFacts DEF Inv, RefundWeight
  <2>3. /\ holding[trader.asset] \in Nat
        /\ holding'[trader.asset] = holding[trader.asset] + paid
    BY <1>1, <2>1, <2>2 DEF Inv, TypeOK
  <2>4. holding'[trader.asset] - holding[trader.asset] = paid
    BY <2>3
  <2> QED BY <2>1, <2>4
<1>2. Inv /\ [Next]_vars =>
        [\A weight \in Weights : RefundWeight(weight) =>
            holding'[trader.asset] - holding[trader.asset]
              <= Price(trader.asset, weight)]_vars
  BY <1>1
<1> QED BY Invariance, <1>2, PTL DEF Spec, NeverOverRefunded
-----------------------------------------------------------------------------
(* The executor.                                                           *)

\* The message being executed has passed the barrier, and what is executed is its own
\* program or one it carried.
Admitted ==
    /\ pc \in Nat \ {0}
    /\ message # NoMessage => message \in Messages /\ Barrier(message)
    /\ message # NoMessage /\ ~ nested => program = message.program
    /\ program \in Seq(Instruction)
    /\ handler \in Seq(Instruction)
    /\ appendix \in Seq(Instruction)

\* Where another chain's message has got past the payment, it was made: in the program
\* itself, in a register it has filled and in what is executed out of one.
PaidBeyondPayment ==
    message # NoMessage /\ message.origin = "Sibling" =>
        /\ handler # <<>> \/ appendix # <<>> => trader # NoReceipt
        /\ nested /\ program # <<>> => trader # NoReceipt
        /\ ~ nested /\ pc > 2 /\ pc <= Len(program) => trader # NoReceipt

\* The inductive invariant, on top of the trader's.
XcmInv == Admitted /\ PaidBeyondPayment /\ NoTopLevelReserveToRelay /\ RoutedToDestination

\* What an instruction does with the holding register is a step of the trader.
LEMMA MoveIsTraderStep ==
    ASSUME NEW op, NEW ok, MoveOnSend(op, ok)
    PROVE  [Next]_vars /\ trader' = trader
BY DEF MoveOnSend, Next, Spend, Forfeit, vars

\* Every step of the executor is a step of the trader or leaves it alone.
LEMMA XcmStepIsTraderStep ==
    ASSUME [XcmNext]_xcmVars
    PROVE  [Next]_vars
<1>1. CASE XcmNext
  <2>1. ASSUME NEW m \in Messages, Receive(m) PROVE [Next]_vars
    BY <2>1 DEF Receive, Next
  <2>2. ASSUME NEW amounts \in Amounts, ExecuteWithdraw(amounts) PROVE [Next]_vars
    BY <2>2 DEF ExecuteWithdraw, Next
  <2>3. ASSUME NEW payment \in Amounts, NEW weight \in Weights,
               ExecuteBuy(payment, weight)
        PROVE  [Next]_vars
    BY <2>3 DEF ExecuteBuy, Next
  <2>4. ASSUME NEW weight \in Weights, ExecuteRefund(weight) PROVE [Next]_vars
    BY <2>4 DEF ExecuteRefund, Next
  <2>5. CASE ExecuteTransact \/ ExecuteSet \/ ExecuteFails \/ RunAppendix
    BY <2>5 DEF ExecuteTransact, ExecuteSet, ExecuteFails, RunAppendix
  <2>6. ASSUME NEW wraps \in BOOLEAN, NEW transport \in Transport,
               ExecuteSend(wraps, transport)
        PROVE  [Next]_vars
    BY <2>6, MoveIsTraderStep DEF ExecuteSend
  <2>7. CASE Finish
    BY <2>7 DEF Finish, Next
  <2> QED BY <1>1, <2>1, <2>2, <2>3, <2>4, <2>5, <2>6, <2>7 DEF XcmNext
<1>2. CASE UNCHANGED xcmVars
  BY <1>2 DEF xcmVars, vars
<1> QED BY <1>1, <1>2

\* Executing messages one instruction at a time, error handlers and appendices included,
\* implements the trader's specification: whatever the barrier lets in, the trader is
\* created, used and dropped in its order.
THEOREM XcmImplementsTrader == XcmSpec => Spec
<1>1. XcmInit => Init
  BY DEF XcmInit
<1>2. [XcmNext]_xcmVars => [Next]_vars
  BY XcmStepIsTraderStep
<1> QED BY <1>1, <1>2, PTL DEF XcmSpec, Spec

\* No execution of messages creates a unit of an asset, or loses one that no refused
\* payment, failed send or undeposited revenue accounts for.
THEOREM XcmConserves == XcmSpec => []ValueConserved
BY XcmImplementsTrader, TraderConserves, PTL

\* The revenue of every message can be deposited.
THEOREM XcmDelivers == XcmSpec => []RevenueDelivered
BY XcmImplementsTrader, TraderDelivers, PTL

\* No refund in any message pays more than the price of the weight.
THEOREM XcmRefundsBounded == XcmSpec => NeverOverRefunded
BY XcmImplementsTrader, RefundsBounded, PTL
-----------------------------------------------------------------------------
\* A sibling's message that the barrier admits starts with its payment, if it has any
\* instruction at all.
LEMMA SiblingPaysFirst ==
    ASSUME NEW m \in Messages, Barrier(m), m.origin = "Sibling", Len(m.program) > 0
    PROVE  m.program[1].op = "WithdrawAsset" /\ m.program[2].op = "BuyExecution"
<1>1. ~ TakeWeightCredit(m)
  BY DEF TakeWeightCredit
<1>2. m.origin \notin ParentOrParentsExecutivePlurality
  BY DEF ParentOrParentsExecutivePlurality
<1> QED BY <1>1, <1>2 DEF Barrier, Allow, AllowTopLevelPaidExecution

\* Whether a message is let in depends on the message alone.
LEMMA BarrierOfMessage ==
    ASSUME message' = message, Barrier(message)
    PROVE  Barrier(message)'
BY DEF Barrier, DenyReserveTransferToRelayChain, Allow, TakeWeightCredit,
       AllowTopLevelPaidExecution

\* buy_weight leaves a receipt.
LEMMA BuyLeavesReceipt ==
    ASSUME Inv, NEW payment \in Amounts, NEW weight \in Weights,
           BuyWeight(payment, weight)
    PROVE  trader' # NoReceipt
<1>1. PICK a \in Matched :
        /\ Price(a, weight) # NoPrice
        /\ trader' = [weight |-> weight, asset |-> a, amount |-> Required(a, weight)]
  BY DEF BuyWeight, Buys
<1>2. a \in Assets /\ weight \in Nat /\ MinBalance[a] \in Nat
  BY TraderAssumption
<1>3. Required(a, weight) \in Nat
  BY <1>1, <1>2, PriceType DEF Required, Larger
<1>4. trader' \in [weight : Nat, asset : Assets, amount : Nat]
  BY <1>1, <1>2, <1>3
<1> QED BY <1>4, TraderAssumption

\* So does refund_weight.
LEMMA RefundLeavesReceipt ==
    ASSUME Inv, NEW weight \in Weights, RefundWeight(weight)
    PROVE  trader' # NoReceipt
<1>1. PICK left \in Nat : trader' = [weight |-> Minus(trader.weight, weight),
                                     asset |-> trader.asset, amount |-> left]
  BY RefundStep
<1>2. trader.asset \in Assets /\ trader.weight \in Nat /\ weight \in Nat
  BY ReceiptFacts, TraderAssumption DEF Inv, RefundWeight
<1>3. Minus(trader.weight, weight) \in Nat
  BY <1>2 DEF Minus
<1>4. trader' \in [weight : Nat, asset : Assets, amount : Nat]
  BY <1>1, <1>2, <1>3
<1> QED BY <1>4, TraderAssumption

\* What the router returns for each destination.
LEMMA RouterFacts ==
    ASSUME NEW dest \in Dest, NEW wraps \in BOOLEAN, NEW transport \in Transport
    PROVE  LET via == XcmRouter(dest, wraps, transport) IN
           /\ dest = "Parent"  => via \in {"ump", "DestinationUnsupported",
                                           "ExceedsMaxMessageSize", "Transport"}
           /\ dest = "Sibling" => via \in {"xcmp", "Transport"}
           /\ dest = "Far"     => via = "NotApplicable"
BY DEF XcmRouter, ParentAsUmp, XcmpQueue, DeliverUp, Dest

\* A plain instruction is an instruction, so what a register is given are instructions.
LEMMA CarriedType ==
    ASSUME NEW inst \in Instruction, inst.op \in SetOp
    PROVE  inst.program \in Seq(Instruction)
<1>1. inst \in [op : SetOp, program : Seq(Plain)]
  BY DEF Instruction, Plain, SetOp, SendOp, ReserveOp, PayOp
<1>2. inst.program \in Seq(Plain) /\ Plain \subseteq Instruction
  BY <1>1 DEF Instruction
<1> QED BY <1>2

\* The next instruction of the program is one.
LEMMA AtOpFacts ==
    ASSUME Admitted, NEW ops, AtOp(ops)
    PROVE  /\ message # NoMessage /\ pc \in DOMAIN program /\ program # <<>>
           /\ Len(program) \in Nat
           /\ program[pc] \in Instruction /\ program[pc].op \in ops
BY DEF Admitted, AtOp

\* An instruction other than the payment is due only when another chain has paid.
LEMMA PaidHere ==
    ASSUME Admitted, PaidBeyondPayment, NEW ops, AtOp(ops),
           message.origin = "Sibling", program[pc].op # "BuyExecution",
           nested \/ pc > 1
    PROVE  trader # NoReceipt
<1>1. /\ message \in Messages /\ Barrier(message) /\ pc \in Nat \ {0}
      /\ pc <= Len(program) /\ Len(program) \in Nat /\ program # <<>>
  BY AtOpFacts DEF Admitted, AtOp
<1>2. CASE nested
  BY <1>1, <1>2 DEF PaidBeyondPayment, AtOp
<1>3. CASE ~ nested
  <2>1. program = message.program /\ pc > 1
    BY <1>3 DEF Admitted, AtOp
  <2>2. pc # 2
    BY <1>1, <2>1, SiblingPaysFirst
  <2> QED BY <1>1, <1>3, <2>1, <2>2 DEF PaidBeyondPayment, AtOp
<1> QED BY <1>2, <1>3

\* A step past an instruction of the program.
LEMMA AdvanceKeeps ==
    ASSUME Admitted, PaidBeyondPayment, NEW ops, AtOp(ops), Advance,
           trader # NoReceipt => trader' # NoReceipt,
           program[pc].op # "BuyExecution" \/ trader' # NoReceipt
    PROVE  Admitted' /\ PaidBeyondPayment'
<1>1. /\ pc' = pc + 1 /\ message' = message /\ program' = program /\ nested' = nested
      /\ handler' = handler /\ appendix' = appendix
  BY DEF Advance
<1>2. Admitted'
  BY <1>1, BarrierOfMessage DEF Admitted
<1>3. ASSUME message # NoMessage, message.origin = "Sibling", trader' = NoReceipt
      PROVE  /\ handler = <<>> /\ appendix = <<>> /\ ~ (nested /\ program # <<>>)
             /\ ~ (~ nested /\ pc + 1 > 2 /\ pc + 1 <= Len(program))
  <2>1. trader = NoReceipt /\ program[pc].op # "BuyExecution"
    BY <1>3
  <2>2. ~ (nested \/ pc > 1)
    BY <1>3, <2>1, PaidHere
  <2>3. pc \in Nat
    BY DEF Admitted
  <2> QED BY <1>3, <2>1, <2>2, <2>3 DEF PaidBeyondPayment
<1>4. PaidBeyondPayment'
  BY <1>1, <1>3 DEF PaidBeyondPayment
<1> QED BY <1>2, <1>4

\* A failed instruction.
LEMMA AbortKeeps ==
    ASSUME Admitted, PaidBeyondPayment, Abort,
           trader # NoReceipt => trader' # NoReceipt
    PROVE  Admitted' /\ PaidBeyondPayment'
<1>1. Admitted'
  BY BarrierOfMessage DEF Admitted, Abort
<1>2. PaidBeyondPayment'
  BY DEF Abort, PaidBeyondPayment
<1> QED BY <1>1, <1>2

\* The initial state satisfies the invariant.
LEMMA XcmInitInv == XcmInit => XcmInv
BY DEF XcmInit, XcmInv, Admitted, PaidBeyondPayment, NoTopLevelReserveToRelay,
       RoutedToDestination

\* Every step keeps the invariant.
LEMMA XcmNextKeepsInv == Inv /\ XcmInv /\ [XcmNext]_xcmVars => XcmInv'
<1> SUFFICES ASSUME Inv, XcmInv, [XcmNext]_xcmVars PROVE XcmInv'
  OBVIOUS
<1>0. /\ Admitted /\ PaidBeyondPayment
      /\ NoTopLevelReserveToRelay /\ RoutedToDestination
  BY DEF XcmInv
<1>1. ASSUME sent' = sent PROVE NoTopLevelReserveToRelay' /\ RoutedToDestination'
  BY <1>0, <1>1 DEF NoTopLevelReserveToRelay, RoutedToDestination
<1>2. ASSUME NEW m \in Messages, Receive(m) PROVE XcmInv'
  <2>1. /\ message' = m /\ program' = m.program /\ pc' = 1 /\ nested' = FALSE
        /\ handler' = <<>> /\ appendix' = <<>> /\ sent' = sent /\ Barrier(m)
    BY <1>2 DEF Receive
  <2>2. m.program \in Seq(Instruction)
    BY XcmAssumption
  <2>3. Barrier(message')
    BY <2>1
  <2>4. Barrier(message)'
    BY <2>1 DEF Barrier, DenyReserveTransferToRelayChain, Allow, TakeWeightCredit,
                AllowTopLevelPaidExecution
  <2>5. Admitted'
    BY <2>1, <2>2, <2>4 DEF Admitted
  <2>6. PaidBeyondPayment'
    BY <2>1 DEF PaidBeyondPayment
  <2> QED BY <1>1, <2>1, <2>5, <2>6 DEF XcmInv
<1>3. ASSUME NEW amounts \in Amounts, ExecuteWithdraw(amounts) PROVE XcmInv'
  <2>1. /\ AtOp({"WithdrawAsset"}) /\ Advance /\ sent' = sent /\ trader' = trader
    BY <1>3 DEF ExecuteWithdraw, Withdraw
  <2>2. program[pc].op # "BuyExecution"
    BY <2>1 DEF AtOp
  <2> QED BY <1>0, <1>1, <2>1, <2>2, AdvanceKeeps DEF XcmInv
<1>4. ASSUME NEW payment \in Amounts, NEW weight \in Weights,
             ExecuteBuy(payment, weight)
      PROVE  XcmInv'
  <2>1. AtOp({"BuyExecution"}) /\ sent' = sent
    BY <1>4 DEF ExecuteBuy
  <2>2. CASE BuyWeight(payment, weight) /\ Advance
    BY <1>0, <1>1, <2>1, <2>2, BuyLeavesReceipt, AdvanceKeeps DEF XcmInv
  <2>3. CASE BuyWeightFails(payment, weight) /\ Abort
    <3>1. trader' = trader
      BY <2>3 DEF BuyWeightFails
    <3> QED BY <1>0, <1>1, <2>1, <2>3, <3>1, AbortKeeps DEF XcmInv
  <2> QED BY <1>4, <2>2, <2>3 DEF ExecuteBuy
<1>5. ASSUME NEW weight \in Weights, ExecuteRefund(weight) PROVE XcmInv'
  <2>1. sent' = sent /\ (RefundWeight(weight) \/ trader' = trader)
    BY <1>5 DEF ExecuteRefund, vars
  <2>2. trader # NoReceipt => trader' # NoReceipt
    BY <2>1, RefundLeavesReceipt
  <2>3. CASE AtOp({"RefundSurplus"}) /\ Advance
    <3>1. program[pc].op # "BuyExecution"
      BY <2>3 DEF AtOp
    <3> QED BY <1>0, <1>1, <2>1, <2>2, <2>3, <3>1, AdvanceKeeps DEF XcmInv
  <2>4. CASE UNCHANGED vmVars
    <3>1. Admitted'
      BY <1>0, <2>4, BarrierOfMessage DEF vmVars, Admitted
    <3>2. PaidBeyondPayment'
      BY <1>0, <2>2, <2>4 DEF vmVars, PaidBeyondPayment
    <3> QED BY <1>1, <2>1, <3>1, <3>2 DEF XcmInv
  <2> QED BY <1>5, <2>3, <2>4 DEF ExecuteRefund
<1>6. CASE ExecuteTransact
  <2>1. /\ AtOp({"Transact"}) /\ Advance /\ sent' = sent /\ trader' = trader
    BY <1>6 DEF ExecuteTransact, vars
  <2>2. program[pc].op # "BuyExecution"
    BY <2>1 DEF AtOp
  <2> QED BY <1>0, <1>1, <2>1, <2>2, AdvanceKeeps DEF XcmInv
<1>7. CASE ExecuteSet
  <2>1. /\ AtOp(SetOp) /\ pc' = pc + 1 /\ sent' = sent /\ trader' = trader
        /\ message' = message /\ program' = program /\ nested' = nested
        /\ \/ handler' = program[pc].program /\ appendix' = appendix
           \/ appendix' = program[pc].program /\ handler' = handler
    BY <1>7 DEF ExecuteSet, vars
  <2>2. /\ message # NoMessage /\ program[pc] \in Instruction /\ program[pc].op \in SetOp
        /\ pc \in Nat \ {0}
    BY <1>0, <2>1, AtOpFacts DEF Admitted
  <2>3. program[pc].program \in Seq(Instruction)
    BY <2>2, CarriedType
  <2>4. Admitted'
    BY <1>0, <2>1, <2>3, BarrierOfMessage DEF Admitted
  <2>5. ASSUME message.origin = "Sibling" PROVE trader # NoReceipt
    <3>1. program[pc].op \notin PayOp
      BY <2>2 DEF SetOp, PayOp
    <3>2. CASE nested \/ pc > 1
      BY <1>0, <2>1, <2>5, <3>1, <3>2, PaidHere DEF PayOp
    <3>3. CASE ~ nested /\ pc = 1
      <4>1. /\ message \in Messages /\ Barrier(message) /\ Len(message.program) > 0
            /\ program = message.program
        BY <1>0, <2>1, <2>2, <3>3 DEF Admitted, AtOp
      <4> QED BY <2>5, <3>1, <3>3, <4>1, SiblingPaysFirst DEF PayOp
    <3> QED BY <2>2, <3>2, <3>3
  <2>6. PaidBeyondPayment'
    BY <2>1, <2>5 DEF PaidBeyondPayment
  <2> QED BY <1>1, <2>1, <2>4, <2>6 DEF XcmInv
<1>8. ASSUME NEW wraps \in BOOLEAN, NEW transport \in Transport,
             ExecuteSend(wraps, transport)
      PROVE  XcmInv'
  <2> DEFINE inst == program[pc]
             via  == XcmRouter(inst.dest, wraps, transport)
             ok   == via \in {"ump", "xcmp"}
  <2>1. /\ AtOp(SendOp) /\ (Advance \/ Abort)
        /\ sent' = {[op |-> inst.op, dest |-> inst.dest, via |-> via, nested |-> nested]}
    BY <1>8 DEF ExecuteSend
  <2>2. trader' = trader
    BY <1>8, MoveIsTraderStep DEF ExecuteSend
  <2>3. /\ message # NoMessage /\ inst \in Instruction /\ inst.op \in SendOp
        /\ pc \in DOMAIN program
    BY <1>0, <2>1, AtOpFacts
  <2>4. inst.dest \in Dest
    BY <2>3 DEF Instruction, Plain, SendOp, ReserveOp, PayOp, SetOp
  <2>5. inst.op # "BuyExecution"
    BY <2>3 DEF SendOp, ReserveOp
  <2>6. Admitted' /\ PaidBeyondPayment'
    BY <1>0, <2>1, <2>2, <2>5, AdvanceKeeps, AbortKeeps
  <2> HIDE DEF via
  <2>7. NoTopLevelReserveToRelay'
    <3>1. ~ nested /\ inst.op \in ReserveOp => inst.dest # "Parent"
      BY <1>0, <2>3 DEF Admitted, Barrier, DenyReserveTransferToRelayChain
    <3> QED BY <2>1, <3>1 DEF NoTopLevelReserveToRelay
  <2>8. RoutedToDestination'
    BY <2>1, <2>4, RouterFacts DEF RoutedToDestination, via
  <2> QED BY <2>6, <2>7, <2>8 DEF XcmInv
<1>9. CASE ExecuteFails
  <2>1. Abort /\ sent' = sent /\ trader' = trader
    BY <1>9 DEF ExecuteFails, vars
  <2> QED BY <1>0, <1>1, <2>1, AbortKeeps DEF XcmInv
<1>10. CASE RunAppendix
  <2>1. /\ program' = appendix /\ appendix # <<>> /\ pc' = 1 /\ nested' = TRUE
        /\ handler' = <<>> /\ appendix' = <<>> /\ message' = message
        /\ sent' = sent /\ trader' = trader
    BY <1>10 DEF RunAppendix, vars
  <2>2. Admitted'
    BY <1>0, <2>1, BarrierOfMessage DEF Admitted
  <2>3. PaidBeyondPayment'
    BY <1>0, <2>1 DEF PaidBeyondPayment
  <2> QED BY <1>1, <2>1, <2>2, <2>3 DEF XcmInv
<1>11. CASE Finish
  <2>1. /\ message' = NoMessage /\ program' = <<>> /\ pc' = 1 /\ handler' = <<>>
        /\ appendix' = appendix /\ sent' = {}
    BY <1>11 DEF Finish
  <2>2. Admitted' /\ PaidBeyondPayment'
    BY <1>0, <2>1 DEF Admitted, PaidBeyondPayment
  <2> QED BY <2>1, <2>2 DEF XcmInv, NoTopLevelReserveToRelay, RoutedToDestination
<1>12. CASE UNCHANGED xcmVars
  <2>1. /\ message' = message /\ program' = program /\ pc' = pc /\ nested' = nested
        /\ handler' = handler /\ appendix' = appendix /\ sent' = sent /\ trader' = trader
    BY <1>12 DEF xcmVars
  <2>2. Admitted'
    BY <1>0, <2>1, BarrierOfMessage DEF Admitted
  <2>3. PaidBeyondPayment'
    BY <1>0, <2>1 DEF PaidBeyondPayment
  <2> QED BY <1>1, <2>1, <2>2, <2>3 DEF XcmInv
<1> QED
  BY <1>2, <1>3, <1>4, <1>5, <1>6, <1>7, <1>8, <1>9, <1>10, <1>11, <1>12 DEF XcmNext

\* Both invariants hold of every behaviour.
THEOREM XcmInvariance == XcmSpec => [](Inv /\ XcmInv)
<1>1. XcmInit => Inv /\ XcmInv
  BY InitInv, XcmInitInv DEF XcmInit
<1>2. Inv /\ XcmInv /\ [XcmNext]_xcmVars => (Inv /\ XcmInv)'
  BY XcmStepIsTraderStep, NextKeepsInv, XcmNextKeepsInv
<1> QED BY <1>1, <1>2, PTL DEF XcmSpec

\* Another chain's instructions, those of its error handlers and appendices included, are
\* executed only after it has paid, and the payment can still be deposited.
THEOREM XcmPaid == XcmSpec => []PaidOrTrusted
<1>1. ASSUME Inv, XcmInv PROVE PaidOrTrusted
  <2> DEFINE due == SendOp \cup SetOp \cup {"RefundSurplus", "Transact"}
  <2> SUFFICES ASSUME message # NoMessage, message.origin = "Sibling", AtOp(due)
               PROVE  trader # NoReceipt /\ trader.amount >= MinBalance[trader.asset]
    BY DEF PaidOrTrusted
  <2>1. /\ Admitted /\ PaidBeyondPayment /\ pc \in Nat \ {0}
        /\ program[pc].op \notin PayOp
    BY <1>1 DEF XcmInv, Admitted, AtOp, SendOp, ReserveOp, SetOp, PayOp
  <2> HIDE DEF due
  <2>2. CASE nested \/ pc > 1
    BY <1>1, <2>1, <2>2, PaidHere DEF PayOp, Inv, KeepsMinimum
  <2>3. CASE ~ nested /\ pc = 1
    <3>1. /\ message \in Messages /\ Barrier(message) /\ Len(message.program) > 0
          /\ program = message.program
      BY <2>1, <2>3 DEF Admitted, AtOp
    <3> QED BY <2>1, <2>3, <3>1, SiblingPaysFirst DEF PayOp
  <2> QED BY <2>1, <2>2, <2>3
<1> QED BY XcmInvariance, <1>1, PTL

\* No instruction of a message's own program, whoever sent it, makes this chain send a
\* reserve to the relay chain.
THEOREM XcmNoTopLevelReserve == XcmSpec => []NoTopLevelReserveToRelay
<1>1. XcmInv => NoTopLevelReserveToRelay
  BY DEF XcmInv
<1> QED BY XcmInvariance, <1>1, PTL

\* Every message that is sent meets the router of its destination.
THEOREM XcmRouted == XcmSpec => []RoutedToDestination
<1>1. XcmInv => RoutedToDestination
  BY DEF XcmInv
<1> QED BY XcmInvariance, <1>1, PTL
=============================================================================
