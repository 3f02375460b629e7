-------------------------------- MODULE Fees --------------------------------
(***************************************************************************)
(* What becomes of transaction fees (common/src/impls.rs): DealWithFees    *)
(* merges fee and tip and passes them to ToStakingPot. The deployed        *)
(* runtime does not even use it: its CurrencyAdapter has the handler ().   *)
(* Composed with CollatorSelection, whose note_author pays the authors     *)
(* from the pot.                                                           *)
(***************************************************************************)
EXTENDS CollatorSelection

CONSTANTS
    FeeHandler,     \* of the CurrencyAdapter: "DealWithFees", or "()" as deployed
    FeeAmounts,     \* fees and tips
    MaxCharged      \* bound on what is charged in total

VARIABLES
    charged,        \* history: the fees and tips paid so far
    rewards         \* history: what the pot has paid to authors so far

feeVars == <<charged, rewards>>

\* ToStakingPot::on_nonzero_unbalanced: the body is commented out, so the imbalance is
\* dropped, which burns it.
ToStakingPot(amount) == pot' = pot

\* DealWithFees::on_unbalanceds: the fee, with the tip merged into it if there is one.
DealWithFees(fee, tip) == ToStakingPot(fee + tip)

\* The OnUnbalanced handler of the CurrencyAdapter; that of () drops the imbalance.
OnUnbalanced(fee, tip) ==
    IF FeeHandler = "DealWithFees" THEN DealWithFees(fee, tip) ELSE pot' = pot

FeesInit == Init /\ charged = 0 /\ rewards = 0

\* The transaction payment pallet withdraws fee and tip and hands them over.
ChargeTransaction(who, fee, tip) ==
    /\ block > 0
    /\ charged + fee + tip <= MaxCharged
    /\ free[who] - (fee + tip) >= ED
    /\ free' = [free EXCEPT ![who] = @ - (fee + tip)]
    /\ OnUnbalanced(fee, tip)
    /\ charged' = charged + fee + tip
    /\ UNCHANGED <<palletVars, reserved, validators, queued, block, rootCalls, authored,
                   hadTurn, rewards>>

\* A step of the collator selection pallet: only note_author takes from the pot.
CollatorStep ==
    /\ Next
    /\ charged' = charged
    /\ rewards' = rewards + (pot - pot')

FeesNext ==
    \/ CollatorStep
    \/ \E who \in Accounts, fee \in FeeAmounts, tip \in FeeAmounts :
          ChargeTransaction(who, fee, tip)

FeesSpec == FeesInit /\ [][FeesNext]_<<vars, feeVars>>
-----------------------------------------------------------------------------
\* "Implementation of `OnUnbalanced` that deposits the fees into a staking pot for later
\* payout": every fee and tip charged is in the pot, or was paid to an author from it.
FeesReachPot == pot + rewards = PotGenesis + charged
=============================================================================
