----------------------------- MODULE RollupQueue -----------------------------
(***************************************************************************)
(* What the anchor pallet promises the pallets that push messages and the  *)
(* Phat contract that consumes them: per name, a store of user keys and a  *)
(* bounded FIFO of messages with consecutive ids. A rollup transaction     *)
(* changes the store and takes a prefix of the queue in one step.          *)
(***************************************************************************)
EXTENDS Integers, Sequences

CONSTANTS Names, Accounts, UserKeys, Values, Messages, None, Capacity

VARIABLES
    owner,   \* name -> the account that claimed it, or None
    kv,      \* name -> user key -> value, or None
    queue,   \* name -> sequence of the unprocessed messages
    first    \* name -> id of the first unprocessed message

vars == <<owner, kv, queue, first>>

Init ==
    /\ owner = [n \in Names |-> None]
    /\ kv    = [n \in Names |-> [k \in UserKeys |-> None]]
    /\ queue = [n \in Names |-> <<>>]
    /\ first = [n \in Names |-> 0]

Claim(n, a) ==
    /\ owner[n] = None
    /\ owner' = [owner EXCEPT ![n] = a]
    /\ UNCHANGED <<kv, queue, first>>

Push(n, m) ==
    /\ owner[n] # None
    /\ Len(queue[n]) < Capacity
    /\ queue' = [queue EXCEPT ![n] = Append(@, m)]
    /\ UNCHANGED <<owner, kv, first>>

\* The user keys get new values and the first `taken` messages leave the queue.
Commit(n, new, taken) ==
    /\ owner[n] # None
    /\ kv'    = [kv EXCEPT ![n] = new]
    /\ queue' = [queue EXCEPT ![n] = SubSeq(@, taken + 1, Len(@))]
    /\ first' = [first EXCEPT ![n] = @ + taken]
    /\ UNCHANGED owner

Next ==
    \E n \in Names :
        \/ \E a \in Accounts : Claim(n, a)
        \/ \E m \in Messages : Push(n, m)
        \/ \E new \in [UserKeys -> Values \cup {None}] :
           \E taken \in 0 .. Len(queue[n]) : Commit(n, new, taken)

Spec == Init /\ [][Next]_vars
=============================================================================
