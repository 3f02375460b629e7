---------------------------- MODULE XcmExecution ----------------------------
(***************************************************************************)
(* Incoming XCM (common/src/xcm_config.rs, runtime/paraxiom/src/           *)
(* xcm_config.rs, primitives/utility): the Barrier decides whether a       *)
(* message is executed at all, the executor runs its instructions one by   *)
(* one against the trader of AssetTrader, and XcmRouter takes what they    *)
(* send. The executor, the barriers of xcm-builder and XcmpQueue are       *)
(* external. The runtime puts UsingComponents, also external, in the place *)
(* of the repository's own trader.                                         *)
(***************************************************************************)
EXTENDS AssetTrader, Sequences

CONSTANTS
    Messages,   \* messages that may arrive: [origin, program]
    NoMessage

Origin    == {"Parent", "Executive", "Sibling", "Local"}
Dest      == {"Parent", "Sibling", "Far"}
PayOp     == {"WithdrawAsset", "BuyExecution"}
ReserveOp == {"InitiateReserveWithdraw", "DepositReserveAsset", "TransferReserveAsset"}
SendOp    == ReserveOp \cup {"ReportHolding"}
SetOp     == {"SetErrorHandler", "SetAppendix"}

\* Instructions. Which assets and weights they name is chosen when they are executed.
Plain == [op : PayOp \cup {"RefundSurplus", "Transact"}] \cup [op : SendOp, dest : Dest]

\* SetErrorHandler and SetAppendix carry programs. Those of plain instructions are
\* modelled: nesting one level deep is a bound.
Instruction == Plain \cup [op : SetOp, program : Seq(Plain)]

ASSUME XcmAssumption ==
    /\ Messages \subseteq [origin : Origin, program : Seq(Instruction)]
    /\ NoMessage \notin Messages

VARIABLES
    message,    \* the message being executed, or NoMessage
    program,    \* what is executed: the message's own instructions or nested ones
    pc,         \* its next instruction
    nested,     \* program is a register's
    handler,    \* the error handler register
    appendix,   \* the appendix register
    sent        \* what XcmRouter was handed last for the message, and what it returned:
                \* at most one [op, dest, via, nested]

vmVars  == <<message, program, pc, nested, handler, appendix>>
xcmVars == <<running, wallet, holding, trader, receiver, burnt, lost,
             message, program, pc, nested, handler, appendix, sent>>

XcmInit ==
    /\ Init
    /\ message = NoMessage
    /\ program = <<>>
    /\ pc = 1
    /\ nested = FALSE
    /\ handler = <<>>
    /\ appendix = <<>>
    /\ sent = {}
-----------------------------------------------------------------------------
(* The barrier.                                                            *)

\* FixedWeightBounds: every instruction costs UnitWeightCost, here one unit, and a
\* program it carries costs what its instructions do.
UnitWeight(inst) == IF inst.op \in SetOp THEN 1 + Len(inst.program) ELSE 1

MaxWeight(m) ==
    LET upTo[n \in 0 .. Len(m.program)] ==
          IF n = 0 THEN 0 ELSE upTo[n - 1] + UnitWeight(m.program[n])
    IN  upTo[Len(m.program)]

\* Mutant of DenyReserveTransferToRelayChain: only the first instruction is looked at.
DenyFirstReserveTransfer(m) ==
    LET inst == m.program[1] IN inst.op \in ReserveOp => inst.dest # "Parent"

\* Ok unless some instruction of the message moves a reserve to the relay chain. What
\* SetErrorHandler and SetAppendix carry is not looked into.
DenyReserveTransferToRelayChain(m) ==
    \A i \in DOMAIN m.program :
        m.program[i].op \in ReserveOp => m.program[i].dest # "Parent"

\* What the XCM pallet executes for a local account comes with credit for its weight,
\* anything else with none: it suffices for an empty program only.
TakeWeightCredit(m) == m.origin = "Local" \/ m.program = <<>>

\* AllowTopLevelPaidExecutionFrom<Everything>
AllowTopLevelPaidExecution(m) ==
    /\ Len(m.program) >= 2
    /\ m.program[1].op = "WithdrawAsset"
    /\ m.program[2].op = "BuyExecution"

ParentOrParentsExecutivePlurality == {"Parent", "Executive"}

\* Mutant of Allow: everybody gets free execution.
AllowEverything(m) == TRUE

Allow(m) ==
    \/ TakeWeightCredit(m)
    \/ AllowTopLevelPaidExecution(m)
    \/ m.origin \in ParentOrParentsExecutivePlurality

\* DenyThenTry
Barrier(m) == DenyReserveTransferToRelayChain(m) /\ Allow(m)
-----------------------------------------------------------------------------
(* The router.                                                             *)

MessageSendError == {"QueueFull", "NoChannel", "TooBig", "Other"}

\* What becomes of a message that is handed to a transport.
Transport == MessageSendError \cup {"sent"}

\* Mutant of ParentAsUmp: the destination is taken and not put back.
ParentAsUmpConsuming(dest, wraps) ==
    IF dest = "Parent" THEN [result |-> "ump", dest |-> "taken"]
    ELSE [result |-> "NotApplicable", dest |-> "taken"]

\* ParentAsUmp::validate: what it returns and what it leaves in dest. The message may
\* have no form in the version the relay chain understands.
ParentAsUmp(dest, wraps) ==
    IF dest = "Parent"
    THEN [result |-> IF wraps THEN "ump" ELSE "DestinationUnsupported", dest |-> "taken"]
    ELSE [result |-> "NotApplicable", dest |-> dest]

\* ParentAsUmp::deliver
DeliverUp(transport) ==
    IF transport = "sent" THEN "ump"
    ELSE IF transport = "TooBig" THEN "ExceedsMaxMessageSize" ELSE "Transport"

\* XcmpQueue: validate on what the router before it left, and deliver.
XcmpQueue(dest, transport) ==
    IF dest = "Sibling" THEN IF transport = "sent" THEN "xcmp" ELSE "Transport"
    ELSE IF dest = "taken" THEN "MissingArgument" ELSE "NotApplicable"

\* The routers are tried in order until one applies.
XcmRouter(dest, wraps, transport) ==
    LET ump == ParentAsUmp(dest, wraps) IN
    IF ump.result = "NotApplicable" THEN XcmpQueue(ump.dest, transport)
    ELSE IF ump.result = "ump" THEN DeliverUp(transport) ELSE ump.result
-----------------------------------------------------------------------------
(* The executor.                                                           *)

\* A message the barrier refuses leaves no trace.
Receive(m) ==
    /\ message = NoMessage
    /\ Barrier(m)
    /\ Start
    /\ message' = m
    /\ program' = m.program
    /\ pc' = 1
    /\ nested' = FALSE
    /\ handler' = <<>>
    /\ appendix' = <<>>
    /\ UNCHANGED sent

AtOp(ops) ==
    /\ message # NoMessage
    /\ pc <= Len(program)
    /\ program[pc].op \in ops

Advance == pc' = pc + 1 /\ UNCHANGED <<message, program, nested, handler, appendix>>

\* An instruction fails: the rest of the program is skipped, and the error handler is
\* executed or, if there is none, the appendix.
Abort ==
    /\ program' = IF handler # <<>> THEN handler ELSE appendix
    /\ pc' = 1
    /\ nested' = TRUE
    /\ handler' = <<>>
    /\ appendix' = IF handler # <<>> THEN appendix ELSE <<>>
    /\ UNCHANGED message

ExecuteWithdraw(amounts) ==
    AtOp({"WithdrawAsset"}) /\ Withdraw(amounts) /\ Advance /\ UNCHANGED sent

\* BuyExecution. Of a message that is to pay, the barrier requires a limit of at least
\* its weight.
ExecuteBuy(payment, weight) ==
    /\ AtOp({"BuyExecution"})
    /\ message.origin = "Sibling" => weight >= MaxWeight(message)
    /\ \/ BuyWeight(payment, weight) /\ Advance
       \/ BuyWeightFails(payment, weight) /\ Abort
    /\ UNCHANGED sent

\* The program is at its end and there is no other to execute.
AtEnd == message # NoMessage /\ pc > Len(program) /\ appendix = <<>>

\* RefundSurplus; without a receipt refund_weight returns nothing. The executor refunds
\* once more at the end of the message.
ExecuteRefund(weight) ==
    /\ \/ AtOp({"RefundSurplus"}) /\ Advance
       \/ AtEnd /\ UNCHANGED vmVars
    /\ RefundWeight(weight) \/ (trader = NoReceipt /\ UNCHANGED vars)
    /\ UNCHANGED sent

ExecuteTransact ==
    AtOp({"Transact"}) /\ Advance /\ UNCHANGED <<vars, sent>>

\* SetErrorHandler and SetAppendix.
ExecuteSet ==
    /\ AtOp(SetOp)
    /\ pc' = pc + 1
    /\ IF program[pc].op = "SetErrorHandler"
       THEN handler' = program[pc].program /\ UNCHANGED appendix
       ELSE appendix' = program[pc].program /\ UNCHANGED handler
    /\ UNCHANGED <<vars, message, program, nested, sent>>

\* What an instruction that sends does with the holding register: a deposit is made
\* before the message is sent, what is to be withdrawn elsewhere is gone if it is not.
MoveOnSend(op, ok) ==
    IF op = "DepositReserveAsset" \/ (op = "InitiateReserveWithdraw" /\ ok) THEN Spend
    ELSE IF op = "InitiateReserveWithdraw" THEN Forfeit ELSE UNCHANGED vars

\* An instruction that sends; it fails when the router returns an error.
ExecuteSend(wraps, transport) ==
    /\ AtOp(SendOp)
    /\ LET inst == program[pc]
           via  == XcmRouter(inst.dest, wraps, transport)
           ok   == via \in {"ump", "xcmp"}
       IN  /\ sent' = {[op |-> inst.op, dest |-> inst.dest, via |-> via, nested |-> nested]}
           /\ MoveOnSend(inst.op, ok)
           /\ IF ok THEN Advance ELSE Abort

\* Another failure: assets that are not there, a call that does not decode.
ExecuteFails ==
    /\ AtOp(PayOp \cup {"Transact"})
    /\ Abort
    /\ UNCHANGED <<vars, sent>>

\* The program succeeded: the error handler is dropped and the appendix executed.
RunAppendix ==
    /\ message # NoMessage
    /\ pc > Len(program)
    /\ appendix # <<>>
    /\ program' = appendix
    /\ pc' = 1
    /\ nested' = TRUE
    /\ handler' = <<>>
    /\ appendix' = <<>>
    /\ UNCHANGED <<vars, message, sent>>

\* The end of the message.
Finish ==
    /\ AtEnd
    /\ DropTrader
    /\ message' = NoMessage
    /\ program' = <<>>
    /\ pc' = 1
    /\ nested' = FALSE
    /\ handler' = <<>>
    /\ sent' = {}
    /\ UNCHANGED appendix

XcmNext ==
    \/ \E m \in Messages : Receive(m)
    \/ \E amounts \in Amounts : ExecuteWithdraw(amounts)
    \/ \E payment \in Amounts, weight \in Weights : ExecuteBuy(payment, weight)
    \/ \E weight \in Weights : ExecuteRefund(weight)
    \/ ExecuteTransact
    \/ ExecuteSet
    \/ \E wraps \in BOOLEAN, transport \in Transport : ExecuteSend(wraps, transport)
    \/ ExecuteFails
    \/ RunAppendix
    \/ Finish

XcmSpec == XcmInit /\ [][XcmNext]_xcmVars
-----------------------------------------------------------------------------
(* Properties.                                                             *)

\* Free execution is for the relay chain, its executive body and local accounts:
\* whenever anything but the payment itself is due in another chain's message, in its
\* error handler or in its appendix, the trader has been paid, and still keeps at least
\* the minimum balance.
PaidOrTrusted ==
    /\ message # NoMessage /\ message.origin = "Sibling"
    /\ AtOp(SendOp \cup SetOp \cup {"RefundSurplus", "Transact"})
    => trader # NoReceipt /\ trader.amount >= MinBalance[trader.asset]

\* "Deny executing the XCM if it matches any of the Deny filter regardless of anything
\* else": not even the relay chain's own message sends a reserve to the relay chain, as
\* far as the filter looks; only a program in a register may.
NoTopLevelReserveToRelay ==
    \A s \in sent : (s.op \in ReserveOp /\ s.dest = "Parent") => s.nested

\* "We need to make sure that dest/msg is not consumed here": a message for a sibling
\* gets through ParentAsUmp to XcmpQueue, only the relay chain's go up, and no router
\* reports its own destination as unknown: an error is one of version or of transport.
RoutedToDestination ==
    \A s \in sent :
        /\ s.dest = "Parent"  => s.via \in {"ump", "DestinationUnsupported",
                                            "ExceedsMaxMessageSize", "Transport"}
        /\ s.dest = "Sibling" => s.via \in {"xcmp", "Transport"}
        /\ s.dest = "Far"     => s.via = "NotApplicable"
=============================================================================
