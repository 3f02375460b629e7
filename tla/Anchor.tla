------------------------------- MODULE Anchor -------------------------------
(***************************************************************************)
(* The off-chain rollup anchor pallet (pallets/offchain-rollup/src/        *)
(* anchor.rs): names claimed by submitter accounts, one key-value store    *)
(* per name, and an outbound message queue per name that lives in the SAME *)
(* key-value store, under keys that carry the queue prefix.                *)
(*                                                                         *)
(* Every extrinsic runs alone and is #[transactional]: an error leaves the *)
(* storage as it was, so a failing call is a stuttering step here and the  *)
(* code's ensure!s are the guards of the actions.                          *)
(***************************************************************************)
EXTENDS Integers, Sequences, FiniteSets

CONSTANTS
    Names,          \* H256 names of the rollup instances
    Accounts,       \* submitter accounts
    UserKeys,       \* keys of the kv-store without the queue prefix
    HeadKey,        \* queue_key(b"_head")
    TailKey,        \* queue_key(b"_tail")
    Payloads,       \* other bytes than an encoded u32, too short to decode as one
    ReplyData,      \* what Action::Reply may carry
    None,           \* Option::None, and an absent storage entry
    Txs,            \* the RollupTx values that may be submitted
    QueueCapacity,  \* T::QueueCapacity
    MaxIndex        \* u32::MAX: the largest message index

Slots     == 0 .. MaxIndex                 \* queue_key(&index), one per u32
QueueKeys == Slots \cup {HeadKey, TailKey}
Keys      == UserKeys \cup QueueKeys
Value     == Payloads \cup Slots           \* bytes: an encoded u32, or not
Store     == [Keys -> Value \cup {None}]

Action == [type : {"Reply"}, data : ReplyData]
          \cup [type : {"SetQueueHead"}, head : Slots]
          \cup [type : {"Undecodable"}]

\* The loops over conds and updates see a set of equalities and, per key, the
\* last value written to it (None removes the key).
RollupTx ==
    [conds   : SUBSET (Keys \X (Value \cup {None})),
     updates : UNION {[K -> Value \cup {None}] : K \in SUBSET Keys},
     actions : Seq(Action)]

ASSUME ConstantsAssumption ==
    /\ MaxIndex \in Nat
    /\ QueueCapacity \in Nat
    /\ None \notin Accounts \cup Value
    /\ HeadKey # TailKey
    /\ {HeadKey, TailKey} \cap (UserKeys \cup Slots) = {}
    /\ UserKeys \cap Slots = {}
    /\ Payloads \cap Slots = {}
    /\ Txs \subseteq RollupTx

VARIABLES
    submitterByNames,   \* SubmitterByNames: name -> owner or None
    states,             \* States: name -> key -> value or None
    trapped             \* an expect("BUG: ...") of the pallet panicked

anchorVars == <<submitterByNames, states, trapped>>
-----------------------------------------------------------------------------
(* The queue inside one store.                                             *)

\* queue_get_u32: an absent key reads as 0.
QueueGetU32(st, key) == IF st[key] = None THEN 0 ELSE st[key]

QueueHead(st) == QueueGetU32(st, HeadKey)
QueueTail(st) == QueueGetU32(st, TailKey)

\* What queue_head and queue_tail expect of the stored bytes.
QueueDecodes(st) == st[HeadKey] \notin Payloads /\ st[TailKey] \notin Payloads

\* saturating_sub
QueueLen(st) ==
    IF QueueTail(st) >= QueueHead(st) THEN QueueTail(st) - QueueHead(st) ELSE 0

\* end + 1 on u32; the release profile does not check overflow.
Succ32(i) == IF i = MaxIndex THEN 0 ELSE i + 1

\* Mutant of Enqueued: the two values written under each other's key.
EnqueuedSwapped(st, data) ==
    [st EXCEPT ![QueueTail(st)] = Succ32(QueueTail(st)), ![TailKey] = data]

\* queue_set(end, data), then queue_tail_set(end + 1).
Enqueued(st, data) ==
    [st EXCEPT ![QueueTail(st)] = data, ![TailKey] = Succ32(QueueTail(st))]

\* Mutant of Popped: the head is taken for the last processed message.
PoppedPastIndex(st, index) ==
    [k \in Keys |->
        IF k = HeadKey THEN index + 1
        ELSE IF k \in Slots /\ QueueHead(st) <= k /\ k <= index THEN None
        ELSE st[k]]

\* Mutant of Popped: the processed messages are not removed.
PoppedKeepingSlots(st, index) == [st EXCEPT ![HeadKey] = index]

\* queue_head_set(index): every slot in head..index is removed.
Popped(st, index) ==
    [k \in Keys |->
        IF k = HeadKey THEN index
        ELSE IF k \in Slots /\ QueueHead(st) <= k /\ k < index THEN None
        ELSE st[k]]
-----------------------------------------------------------------------------
(* Rollup transactions.                                                    *)

\* Mutant of CondsMet: a condition that a key is absent is not checked.
CondsMetIgnoringNone(st, conds) == \A c \in conds : c[2] = None \/ st[c[1]] = c[2]

\* Each cond's value, None for an absent key, is the stored one.
CondsMet(st, conds) == \A c \in conds : st[c[1]] = c[2]

Updated(st, updates) ==
    [k \in Keys |-> IF k \in DOMAIN updates THEN updates[k] ELSE st[k]]

HeadSets(actions) == {i \in DOMAIN actions : actions[i].type = "SetQueueHead"}

\* Mutant of ActionsAccepted: queue_head_set does not compare with the tail.
ActionsAcceptedPastTail(st, actions) ==
    /\ \A i \in DOMAIN actions : actions[i].type # "Undecodable"
    /\ \A i \in HeadSets(actions) : QueueHead(st) <= actions[i].head
    /\ \A i, j \in HeadSets(actions) :
          i <= j => actions[i].head <= actions[j].head

\* Mutant of ActionsAccepted: queue_head_set does not compare with the head.
ActionsAcceptedBackwards(st, actions) ==
    /\ \A i \in DOMAIN actions : actions[i].type # "Undecodable"
    /\ \A i \in HeadSets(actions) : actions[i].head <= QueueTail(st)

\* The loop over actions succeeds: each one decodes, and each SetQueueHead finds
\* its index between the head the previous one left and the tail.
ActionsAccepted(st, actions) ==
    /\ \A i \in DOMAIN actions : actions[i].type # "Undecodable"
    /\ \A i \in HeadSets(actions) :
          /\ QueueHead(st) <= actions[i].head
          /\ actions[i].head <= QueueTail(st)
    /\ \A i, j \in HeadSets(actions) :
          i <= j => actions[i].head <= actions[j].head

\* A SetQueueHead is reached over a head or tail that does not decode.
ActionsTrap(st, actions) ==
    /\ ~QueueDecodes(st)
    /\ \E i \in HeadSets(actions) : \A j \in 1 .. i-1 : actions[j].type = "Reply"

-----------------------------------------------------------------------------
Init ==
    /\ submitterByNames = [n \in Names |-> None]
    /\ states = [n \in Names |-> [k \in Keys |-> None]]
    /\ trapped = FALSE

\* Mutant of ClaimName: a claimed name can be claimed again.
ClaimNameAgain(who, name) ==
    /\ submitterByNames' = [submitterByNames EXCEPT ![name] = who]
    /\ UNCHANGED <<states, trapped>>

\* claim_name
ClaimName(who, name) ==
    /\ submitterByNames[name] = None
    /\ submitterByNames' = [submitterByNames EXCEPT ![name] = who]
    /\ UNCHANGED <<states, trapped>>

\* push_message, called by other pallets.
PushMessage(name, data) ==
    LET st == states[name] IN
    /\ submitterByNames[name] # None
    /\ IF QueueDecodes(st)
       THEN /\ QueueLen(st) < QueueCapacity
            /\ states' = [states EXCEPT ![name] = Enqueued(st, data)]
            /\ UNCHANGED trapped
       ELSE trapped' = TRUE /\ UNCHANGED states
    /\ UNCHANGED submitterByNames

\* rollup: conditions, then updates, then actions, or nothing at all.
Rollup(who, name, tx) ==
    LET st == Updated(states[name], tx.updates) IN
    /\ submitterByNames[name] = who
    /\ CondsMet(states[name], tx.conds)
    /\ IF ActionsTrap(st, tx.actions)
       THEN trapped' = TRUE /\ UNCHANGED states
       ELSE /\ ActionsAccepted(st, tx.actions)
            /\ \/ /\ HeadSets(tx.actions) = {}
                  /\ states' = [states EXCEPT ![name] = st]
               \/ \E i \in HeadSets(tx.actions) :
                     /\ \A j \in HeadSets(tx.actions) : j <= i
                     /\ states' = [states EXCEPT ![name] =
                                     Popped(st, tx.actions[i].head)]
            /\ UNCHANGED trapped
    /\ UNCHANGED submitterByNames

\* A bound: the behaviours of a queue that has issued fewer than u32::MAX ids.
BelowWrap(name) == QueueTail(states[name]) # MaxIndex

Next ==
    \/ \E who \in Accounts, name \in Names : ClaimName(who, name)
    \/ \E name \in Names, data \in Payloads :
          BelowWrap(name) /\ PushMessage(name, data)
    \/ \E who \in Accounts, name \in Names, tx \in Txs : Rollup(who, name, tx)

Spec == Init /\ [][Next]_anchorVars
-----------------------------------------------------------------------------
(* Properties.                                                             *)

\* The clients' half of the bargain: a transaction writes the queue's keys through
\* SetQueueHead only, never through its updates. rollup itself does not check it.
RespectsQueue(tx) == DOMAIN tx.updates \cap QueueKeys = {}

\* SubmitterByNames maps names to accounts, States maps keys to values.
TypeOK ==
    /\ submitterByNames \in [Names -> Accounts \cup {None}]
    /\ states \in [Names -> Store]
    /\ trapped \in BOOLEAN

\* queue_head and queue_tail hold encoded indices, the head does not pass the
\* tail, and the queue is not longer than its capacity.
QueueBounded(st) ==
    /\ QueueDecodes(st)
    /\ QueueHead(st) <= QueueTail(st)
    /\ QueueTail(st) - QueueHead(st) <= QueueCapacity

\* The messages present are exactly those with an index from head up to tail: none
\* lost, none left behind by queue_head_set, none stored past the tail.
QueueContiguous(st) ==
    \A i \in Slots :
        (st[i] # None) <=> (QueueHead(st) <= i /\ i < QueueTail(st))

\* Whatever calls come in whatever order, the queue that push_message and
\* SetQueueHead share in the kv-store is bounded, contiguous, and belongs to a
\* claimed name.
QueueIntact ==
    \A n \in Names :
        /\ QueueBounded(states[n])
        /\ QueueContiguous(states[n])
        /\ submitterByNames[n] = None => QueueTail(states[n]) = 0

\* The panics the code marks "BUG: Failed to decode queue head" (and tail) never
\* happen.
QueueNeverTraps == ~trapped

Queue == INSTANCE RollupQueue WITH
    owner    <- submitterByNames,
    kv       <- [n \in Names |-> [k \in UserKeys |-> states[n][k]]],
    queue    <- [n \in Names |-> [i \in 1 .. QueueLen(states[n]) |->
                                    states[n][QueueHead(states[n]) + i - 1]]],
    first    <- [n \in Names |-> QueueHead(states[n])],
    Values   <- Value,
    Messages <- Payloads,
    Capacity <- QueueCapacity

\* The head, tail and slot keys of the store implement a FIFO with consecutive ids
\* beside the user keys: push_message appends, rollup changes the user keys and
\* takes a prefix in the same step, and nothing else touches either.
ImplementsQueue == Queue!Spec
=============================================================================
