--------------------------- MODULE MCXcmExecution ---------------------------
(* An instance of XcmExecution for TLC.                                    *)
EXTENDS XcmExecution, TLC

CONSTANTS x, y

\* A price that rounds to zero, a price below and one above the minimum balance, and
\* an asset whose conversion fails for large fees.
MCWeightToFee == [w \in Weights |-> 2 * w]
MCToAssetBalance ==
    (x :> [fee \in Fees |-> fee \div 4])
    @@ (y :> [fee \in Fees |-> IF fee > 8 THEN NoPrice ELSE (3 * fee) \div 8])
MCRank       == (x :> 1) @@ (y :> 2)
MCMinBalance == (x :> 1) @@ (y :> 2)
MCSupply     == (x :> 4) @@ (y :> 3)

Op(op)         == [op |-> op]
Send(op, dest) == [op |-> op, dest |-> dest]

Pay == <<Op("WithdrawAsset"), Op("BuyExecution")>>

Carry(op, carried) == [op |-> op, program |-> carried]

\* Paid and unpaid programs, with refunds, a second purchase, everything that sends, and
\* error handlers and appendices that send, refund and buy.
MCPrograms ==
    {Pay \o <<Op("RefundSurplus"), Op("RefundSurplus")>>,
     Pay \o <<Op("BuyExecution")>>,
     Pay \o <<Op("WithdrawAsset"), Op("RefundSurplus")>>,
     Pay \o <<Carry("SetErrorHandler", <<Op("RefundSurplus")>>), Op("BuyExecution")>>,
     Pay \o <<Carry("SetAppendix", <<Op("BuyExecution")>>), Op("Transact")>>,
     <<Carry("SetAppendix", <<Op("Transact")>>), Op("WithdrawAsset"),
       Carry("SetErrorHandler", Pay), Send("DepositReserveAsset", "Far")>>,
     <<Op("Transact")>>}
    \cup {Pay \o <<Send(op, dest), Op("RefundSurplus")>> : op \in ReserveOp, dest \in Dest}
    \cup {Pay \o <<Carry("SetAppendix", <<Send(op, "Parent")>>)>> : op \in ReserveOp}
    \cup {<<Send("ReportHolding", dest)>> : dest \in Dest}
    \cup {Pay \o <<Send("ReportHolding", dest)>> : dest \in Dest}

MCMessages == [origin : Origin, program : MCPrograms]
=============================================================================
