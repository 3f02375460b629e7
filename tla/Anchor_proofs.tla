---------------------------- MODULE Anchor_proofs ----------------------------
(***************************************************************************)
(* Proofs about the anchor pallet, for every set of names, accounts, keys  *)
(* and transactions, every queue capacity and every width of the index.    *)
(***************************************************************************)
EXTENDS Anchor, SequenceTheorems, TLAPS

\* Slot, head and tail keys are distinct keys, and indices are not payloads.
LEMMA KeyFacts ==
    /\ HeadKey \in Keys /\ TailKey \in Keys
    /\ \A i \in Slots : i \in Keys /\ i # HeadKey /\ i # TailKey /\ i \notin Payloads
    /\ HeadKey # TailKey
    /\ HeadKey \notin Slots /\ TailKey \notin Slots
    /\ 0 \in Slots
    /\ None \notin Value
    /\ None \notin Payloads
    /\ None \notin Slots
  BY ConstantsAssumption DEF Keys, QueueKeys, Slots, Value

\* A store whose queue keys decode has a head and a tail that are u32 indices.
LEMMA QueueIndices ==
    ASSUME NEW st \in Store, QueueDecodes(st)
    PROVE  QueueHead(st) \in Slots /\ QueueTail(st) \in Slots
  BY KeyFacts DEF Store, Value, QueueDecodes, QueueHead, QueueTail, QueueGetU32

\* Applying a transaction's updates to a store gives a store.
LEMMA UpdatedStore ==
    ASSUME NEW st \in Store, NEW tx \in RollupTx
    PROVE  Updated(st, tx.updates) \in Store
<1>1. PICK K \in SUBSET Keys : tx.updates \in [K -> Value \cup {None}]
  BY DEF RollupTx
<1> QED
  BY <1>1 DEF Updated, Store

\* Moving the head gives a store.
LEMMA PoppedStore ==
    ASSUME NEW st \in Store, NEW h \in Slots
    PROVE  Popped(st, h) \in Store
  BY DEF Popped, Store, Value

\* Enqueueing a message gives a store.
LEMMA EnqueuedStore ==
    ASSUME NEW st \in Store, NEW data \in Payloads, QueueDecodes(st)
    PROVE  Enqueued(st, data) \in Store
<1>1. Succ32(QueueTail(st)) \in Slots
  BY QueueIndices, ConstantsAssumption DEF Succ32, Slots
<1> QED
  BY <1>1, QueueIndices, KeyFacts DEF Enqueued, Store, Value

\* The SetQueueHead actions of a transaction carry indices.
LEMMA HeadSetIndex ==
    ASSUME NEW tx \in RollupTx, NEW i \in HeadSets(tx.actions)
    PROVE  tx.actions[i].head \in Slots
<1>1. tx.actions \in Seq(Action) /\ i \in DOMAIN tx.actions
  BY DEF RollupTx, HeadSets
<1>2. tx.actions[i] \in Action
  BY <1>1
<1> QED
  BY <1>2 DEF Action, HeadSets
-----------------------------------------------------------------------------
(* Type correctness.                                                       *)

\* A transaction of rollup leaves every store well typed.
LEMMA RollupType ==
    ASSUME TypeOK, NEW who \in Accounts, NEW name \in Names, NEW tx \in RollupTx,
           Rollup(who, name, tx)
    PROVE  TypeOK'
<1> DEFINE st == Updated(states[name], tx.updates)
<1>2. st \in Store
  BY UpdatedStore DEF TypeOK
<1> HIDE DEF st
<1>3. states' \in [Names -> Store]
  <2>1. CASE UNCHANGED states
    BY <2>1 DEF TypeOK
  <2>2. CASE states' = [states EXCEPT ![name] = st]
    BY <2>2, <1>2 DEF TypeOK
  <2>3. ASSUME NEW i \in HeadSets(tx.actions),
               states' = [states EXCEPT ![name] = Popped(st, tx.actions[i].head)]
        PROVE  states' \in [Names -> Store]
    <3>1. Popped(st, tx.actions[i].head) \in Store
      BY <1>2, HeadSetIndex, PoppedStore
    <3> QED
      BY <3>1, <2>3 DEF TypeOK
  <2> QED
    BY <2>1, <2>2, <2>3 DEF Rollup, st
<1>4. UNCHANGED submitterByNames /\ trapped' \in BOOLEAN
  BY DEF Rollup, TypeOK
<1> QED
  BY <1>3, <1>4 DEF TypeOK

\* Every step of the pallet preserves TypeOK.
LEMMA TypeStep == TypeOK /\ [Next]_anchorVars => TypeOK'
<1> SUFFICES ASSUME TypeOK, [Next]_anchorVars PROVE TypeOK'
  OBVIOUS
<1>1. ASSUME NEW who \in Accounts, NEW name \in Names, ClaimName(who, name)
      PROVE  TypeOK'
  BY <1>1 DEF ClaimName, TypeOK
<1>2. ASSUME NEW name \in Names, NEW data \in Payloads, PushMessage(name, data)
      PROVE  TypeOK'
  <2>1. CASE QueueDecodes(states[name])
    <3>1. Enqueued(states[name], data) \in Store
      BY <2>1, EnqueuedStore DEF TypeOK
    <3> QED
      BY <1>2, <2>1, <3>1 DEF PushMessage, TypeOK
  <2>2. CASE ~QueueDecodes(states[name])
    BY <1>2, <2>2 DEF PushMessage, TypeOK
  <2> QED
    BY <2>1, <2>2
<1>3. ASSUME NEW who \in Accounts, NEW name \in Names, NEW tx \in Txs,
             Rollup(who, name, tx)
      PROVE  TypeOK'
  BY <1>3, RollupType, ConstantsAssumption
<1>4. CASE UNCHANGED anchorVars
  BY <1>4 DEF anchorVars, TypeOK
<1> QED
  BY <1>1, <1>2, <1>3, <1>4 DEF Next

\* TypeOK holds initially and is preserved by every step of the pallet.
THEOREM TypeCorrect == Spec => []TypeOK
<1>1. Init => TypeOK
  BY DEF Init, TypeOK, Store
<1> QED
  BY <1>1, TypeStep, PTL DEF Spec
-----------------------------------------------------------------------------
(* The queue.                                                              *)

\* A queue that is bounded and contiguous.
GoodQueue(st) == QueueBounded(st) /\ QueueContiguous(st)

\* Updates of user keys leave the queue as it is.
LEMMA UpdatedQueue ==
    ASSUME NEW st \in Store, NEW tx \in RollupTx, RespectsQueue(tx), GoodQueue(st)
    PROVE  /\ GoodQueue(Updated(st, tx.updates))
           /\ QueueHead(Updated(st, tx.updates)) = QueueHead(st)
           /\ QueueTail(Updated(st, tx.updates)) = QueueTail(st)
<1> DEFINE new == Updated(st, tx.updates)
<1>1. \A k \in QueueKeys : new[k] = st[k]
  BY DEF Updated, RespectsQueue, Keys
<1> HIDE DEF new
<1>2. new[HeadKey] = st[HeadKey] /\ new[TailKey] = st[TailKey]
  BY <1>1 DEF QueueKeys
<1>3. \A i \in Slots : new[i] = st[i]
  BY <1>1 DEF QueueKeys
<1>4. QueueHead(new) = QueueHead(st) /\ QueueTail(new) = QueueTail(st)
  BY <1>2 DEF QueueHead, QueueTail, QueueGetU32
<1>5. QueueBounded(new)
  BY <1>2, <1>4 DEF GoodQueue, QueueBounded, QueueDecodes
<1>6. QueueContiguous(new)
  BY <1>3, <1>4 DEF GoodQueue, QueueContiguous
<1> QED
  BY <1>4, <1>5, <1>6 DEF GoodQueue, new

\* queue_head_set to an index between head and tail keeps the queue good: it removes
\* exactly the messages it passes.
LEMMA PoppedQueue ==
    ASSUME NEW st \in Store, GoodQueue(st), NEW h \in Slots,
           QueueHead(st) <= h, h <= QueueTail(st)
    PROVE  /\ GoodQueue(Popped(st, h))
           /\ QueueHead(Popped(st, h)) = h
           /\ QueueTail(Popped(st, h)) = QueueTail(st)
<1> DEFINE new == Popped(st, h)
<1>1. QueueHead(st) \in Int /\ QueueTail(st) \in Int /\ h \in Int /\ QueueCapacity \in Int
  BY QueueIndices, ConstantsAssumption DEF GoodQueue, QueueBounded, Slots
<1>2. new[HeadKey] = h /\ new[TailKey] = st[TailKey]
  BY KeyFacts DEF Popped
<1>3. \A i \in Slots :
         new[i] = IF QueueHead(st) <= i /\ i < h THEN None ELSE st[i]
  BY KeyFacts DEF Popped
<1> HIDE DEF new
<1>4. QueueHead(new) = h /\ QueueTail(new) = QueueTail(st)
  BY <1>2, KeyFacts DEF QueueHead, QueueTail, QueueGetU32
<1>5. QueueBounded(new)
  <2>1. QueueDecodes(new)
    BY <1>2, KeyFacts DEF QueueDecodes, GoodQueue, QueueBounded
  <2> QED
    BY <2>1, <1>1, <1>4 DEF QueueBounded, GoodQueue
<1>6. QueueContiguous(new)
  <2> SUFFICES ASSUME NEW i \in Slots
               PROVE  (new[i] # None) <=> (h <= i /\ i < QueueTail(st))
    BY <1>4 DEF QueueContiguous
  <2>1. i \in Int
    BY ConstantsAssumption DEF Slots
  <2>2. (st[i] # None) <=> (QueueHead(st) <= i /\ i < QueueTail(st))
    BY DEF GoodQueue, QueueContiguous
  <2> QED
    BY <1>1, <1>3, <2>1, <2>2
<1> QED
  BY <1>4, <1>5, <1>6 DEF GoodQueue, new

\* push_message below the capacity and below the last index keeps the queue good.
LEMMA EnqueuedQueue ==
    ASSUME NEW st \in Store, GoodQueue(st), NEW data \in Payloads,
           QueueLen(st) < QueueCapacity, QueueTail(st) # MaxIndex
    PROVE  /\ GoodQueue(Enqueued(st, data))
           /\ QueueHead(Enqueued(st, data)) = QueueHead(st)
           /\ QueueTail(Enqueued(st, data)) = QueueTail(st) + 1
<1> DEFINE new == Enqueued(st, data)
           t   == QueueTail(st)
<1>1. QueueHead(st) \in Slots /\ t \in Slots
  BY QueueIndices DEF GoodQueue, QueueBounded
<1>2. QueueHead(st) \in Int /\ t \in Int /\ QueueCapacity \in Int /\ MaxIndex \in Int
  BY <1>1, ConstantsAssumption DEF Slots
<1>3. t + 1 \in Slots /\ Succ32(t) = t + 1
  BY <1>1, ConstantsAssumption DEF Slots, Succ32
<1>4. new = [st EXCEPT ![t] = data, ![TailKey] = t + 1]
  BY <1>3 DEF Enqueued
<1> HIDE DEF new, t
<1>5. new[TailKey] = t + 1 /\ new[HeadKey] = st[HeadKey]
  BY <1>1, <1>4, KeyFacts DEF Store
<1>6. \A i \in Slots : new[i] = IF i = t THEN data ELSE st[i]
  BY <1>1, <1>4, KeyFacts DEF Store
<1>7. QueueHead(new) = QueueHead(st) /\ QueueTail(new) = t + 1
  BY <1>5, <1>3, KeyFacts DEF QueueHead, QueueTail, QueueGetU32
<1>8. QueueBounded(new)
  <2>1. QueueDecodes(new)
    BY <1>5, <1>3, KeyFacts DEF QueueDecodes, GoodQueue, QueueBounded
  <2>2. QueueHead(st) <= t /\ t - QueueHead(st) < QueueCapacity
    BY <1>2 DEF GoodQueue, QueueBounded, QueueLen, t
  <2> QED
    BY <2>1, <2>2, <1>2, <1>7 DEF QueueBounded
<1>9. QueueContiguous(new)
  <2> SUFFICES ASSUME NEW i \in Slots
               PROVE  (new[i] # None) <=> (QueueHead(st) <= i /\ i < t + 1)
    BY <1>7 DEF QueueContiguous
  <2>1. i \in Int
    BY ConstantsAssumption DEF Slots
  <2>2. (st[i] # None) <=> (QueueHead(st) <= i /\ i < t)
    BY DEF GoodQueue, QueueContiguous, t
  <2>3. QueueHead(st) <= t /\ data # None
    BY KeyFacts DEF GoodQueue, QueueBounded, t
  <2> QED
    BY <1>2, <1>6, <2>1, <2>2, <2>3
<1> QED
  BY <1>7, <1>8, <1>9 DEF GoodQueue, new, t

\* What is inductive about the pallet when its clients respect the queue's keys.
AnchorInv == TypeOK /\ QueueIntact /\ QueueNeverTraps

\* A transaction of rollup that respects the queue's keys preserves the invariant.
LEMMA RollupQueueIntact ==
    ASSUME AnchorInv, NEW who \in Accounts, NEW name \in Names,
           NEW tx \in RollupTx, RespectsQueue(tx), Rollup(who, name, tx)
    PROVE  QueueIntact' /\ QueueNeverTraps'
<1> DEFINE st == Updated(states[name], tx.updates)
<1>1. states[name] \in Store /\ states \in [Names -> Store]
  BY DEF AnchorInv, TypeOK
<1>2. GoodQueue(states[name])
  BY DEF AnchorInv, QueueIntact, GoodQueue
<1>3. st \in Store /\ GoodQueue(st)
  BY <1>1, <1>2, UpdatedStore, UpdatedQueue
<1>4. ~ActionsTrap(st, tx.actions)
  BY <1>3 DEF ActionsTrap, GoodQueue, QueueBounded
<1>5. submitterByNames[name] # None /\ UNCHANGED submitterByNames
  BY ConstantsAssumption DEF Rollup
<1>6. ActionsAccepted(st, tx.actions) /\ UNCHANGED trapped
  BY <1>4 DEF Rollup
<1>7. \/ states' = [states EXCEPT ![name] = st]
      \/ \E i \in HeadSets(tx.actions) :
            states' = [states EXCEPT ![name] = Popped(st, tx.actions[i].head)]
  BY <1>4 DEF Rollup
<1> HIDE DEF st
<1>8. GoodQueue(states'[name]) /\ states' = [states EXCEPT ![name] = states'[name]]
  <2>1. CASE states' = [states EXCEPT ![name] = st]
    BY <2>1, <1>1, <1>3
  <2>2. ASSUME NEW i \in HeadSets(tx.actions),
               states' = [states EXCEPT ![name] = Popped(st, tx.actions[i].head)]
        PROVE  GoodQueue(states'[name])
               /\ states' = [states EXCEPT ![name] = states'[name]]
    <3>1. tx.actions[i].head \in Slots
      BY <1>1, HeadSetIndex
    <3>2. QueueHead(st) <= tx.actions[i].head /\ tx.actions[i].head <= QueueTail(st)
      BY <1>6 DEF ActionsAccepted
    <3>3. GoodQueue(Popped(st, tx.actions[i].head))
      BY <1>3, <3>1, <3>2, PoppedQueue
    <3> QED
      BY <2>2, <3>3, <1>1
  <2> QED
    BY <1>7, <2>1, <2>2
<1>9. ASSUME NEW n \in Names
      PROVE  /\ GoodQueue(states'[n])
             /\ submitterByNames'[n] = None => QueueTail(states'[n]) = 0
  <2>1. CASE n = name
    BY <2>1, <1>5, <1>8
  <2>2. CASE n # name
    <3>1. states'[n] = states[n]
      BY <2>2, <1>1, <1>8
    <3> QED
      BY <3>1, <1>5 DEF AnchorInv, QueueIntact, GoodQueue
  <2> QED
    BY <2>1, <2>2
<1> QED
  BY <1>6, <1>9 DEF QueueIntact, QueueNeverTraps, AnchorInv, GoodQueue

\* push_message preserves the invariant.
LEMMA PushQueueIntact ==
    ASSUME AnchorInv, NEW name \in Names, NEW data \in Payloads,
           BelowWrap(name), PushMessage(name, data)
    PROVE  QueueIntact' /\ QueueNeverTraps'
<1>1. states[name] \in Store /\ states \in [Names -> Store]
  BY DEF AnchorInv, TypeOK
<1>2. GoodQueue(states[name])
  BY DEF AnchorInv, QueueIntact, GoodQueue
<1>3. /\ submitterByNames[name] # None
      /\ QueueLen(states[name]) < QueueCapacity
      /\ states' = [states EXCEPT ![name] = Enqueued(states[name], data)]
      /\ UNCHANGED <<submitterByNames, trapped>>
  BY <1>2 DEF PushMessage, GoodQueue, QueueBounded
<1>4. GoodQueue(Enqueued(states[name], data))
  BY <1>1, <1>2, <1>3, EnqueuedQueue DEF BelowWrap
<1>5. ASSUME NEW n \in Names
      PROVE  /\ GoodQueue(states'[n])
             /\ submitterByNames'[n] = None => QueueTail(states'[n]) = 0
  <2>1. CASE n = name
    BY <2>1, <1>1, <1>3, <1>4
  <2>2. CASE n # name
    <3>1. states'[n] = states[n]
      BY <2>2, <1>1, <1>3
    <3> QED
      BY <3>1, <1>3 DEF AnchorInv, QueueIntact, GoodQueue
  <2> QED
    BY <2>1, <2>2
<1> QED
  BY <1>3, <1>5 DEF QueueIntact, QueueNeverTraps, AnchorInv, GoodQueue

\* claim_name preserves the invariant.
LEMMA ClaimQueueIntact ==
    ASSUME AnchorInv, NEW who \in Accounts, NEW name \in Names, ClaimName(who, name)
    PROVE  QueueIntact' /\ QueueNeverTraps'
<1>1. UNCHANGED <<states, trapped>>
  BY DEF ClaimName
<1>2. \A n \in Names : submitterByNames'[n] = None => submitterByNames[n] = None
  BY ConstantsAssumption DEF ClaimName, AnchorInv, TypeOK
<1> QED
  BY <1>1, <1>2 DEF AnchorInv, QueueIntact, QueueNeverTraps

\* Every step of the pallet preserves the invariant if its clients respect the
\* queue's keys.
LEMMA AnchorInvStep ==
    ASSUME \A tx \in Txs : RespectsQueue(tx), AnchorInv, TypeOK', [Next]_anchorVars
    PROVE  AnchorInv'
<1>1. CASE UNCHANGED anchorVars
  BY <1>1 DEF anchorVars, AnchorInv, QueueIntact, QueueNeverTraps
<1> QED
  BY <1>1, ClaimQueueIntact, PushQueueIntact, RollupQueueIntact, ConstantsAssumption
  DEF Next, AnchorInv

\* Every queue is empty at first.
LEMMA AnchorInitInv == Init => AnchorInv
<1> SUFFICES ASSUME Init PROVE AnchorInv
  OBVIOUS
<1>1. TypeOK
  BY DEF Init, TypeOK, Store
<1>2. ASSUME NEW n \in Names
      PROVE  GoodQueue(states[n]) /\ QueueTail(states[n]) = 0
  <2>1. \A k \in Keys : states[n][k] = None
    BY DEF Init
  <2>2. QueueHead(states[n]) = 0 /\ QueueTail(states[n]) = 0
    BY <2>1, KeyFacts DEF QueueHead, QueueTail, QueueGetU32
  <2>3. QueueBounded(states[n])
    BY <2>1, <2>2, KeyFacts, ConstantsAssumption DEF QueueBounded, QueueDecodes
  <2>4. QueueContiguous(states[n])
    BY <2>1, <2>2, KeyFacts, ConstantsAssumption DEF QueueContiguous, Slots
  <2> QED
    BY <2>2, <2>3, <2>4 DEF GoodQueue
<1> QED
  BY <1>1, <1>2 DEF Init, AnchorInv, QueueIntact, QueueNeverTraps, GoodQueue

\* The invariant holds throughout, with clients that write the queue's keys through
\* SetQueueHead only.
LEMMA AnchorInvariant ==
    ASSUME \A tx \in Txs : RespectsQueue(tx)
    PROVE  Spec => []AnchorInv
<1>1. AnchorInv /\ TypeOK' /\ [Next]_anchorVars => AnchorInv'
  BY AnchorInvStep
<1> QED
  BY AnchorInitInv, <1>1, TypeCorrect, PTL DEF Spec

\* With such clients the queue is bounded, contiguous and owned.
THEOREM QueueSafe ==
    ASSUME \A tx \in Txs : RespectsQueue(tx)
    PROVE  Spec => []QueueIntact
<1>1. AnchorInv => QueueIntact
  BY DEF AnchorInv
<1> QED
  BY AnchorInvariant, <1>1, PTL

\* With such clients the expect("BUG: Failed to decode ...") of queue_head and
\* queue_tail are unreachable, from push_message as from rollup's SetQueueHead.
THEOREM DecodeNeverPanics ==
    ASSUME \A tx \in Txs : RespectsQueue(tx)
    PROVE  Spec => []QueueNeverTraps
<1>1. AnchorInv => QueueNeverTraps
  BY DEF AnchorInv
<1> QED
  BY AnchorInvariant, <1>1, PTL
-----------------------------------------------------------------------------
(* The refinement of RollupQueue.                                          *)

\* The messages from head up to tail, as a sequence.
Contents(st) == [i \in 1 .. QueueLen(st) |-> st[QueueHead(st) + i - 1]]

\* The variables of RollupQueue as Anchor's state gives them.
KvBar    == [n \in Names |-> [k \in UserKeys |-> states[n][k]]]
QueueBar == [n \in Names |-> Contents(states[n])]
FirstBar == [n \in Names |-> QueueHead(states[n])]

\* The contents of a good queue are a sequence of its length.
LEMMA ContentsFacts ==
    ASSUME NEW st \in Store, GoodQueue(st)
    PROVE  /\ QueueHead(st) \in Nat /\ QueueTail(st) \in Nat
           /\ QueueLen(st) = QueueTail(st) - QueueHead(st) /\ QueueLen(st) \in Nat
           /\ \A i \in 1 .. QueueLen(st) : QueueHead(st) + i - 1 \in Slots
           /\ Contents(st) \in Seq(Value \cup {None})
           /\ Len(Contents(st)) = QueueLen(st)
<1>1. QueueHead(st) \in Slots /\ QueueTail(st) \in Slots
  BY QueueIndices DEF GoodQueue, QueueBounded
<1>2. QueueHead(st) \in Nat /\ QueueTail(st) \in Nat
  BY <1>1, ConstantsAssumption DEF Slots
<1>3. QueueLen(st) = QueueTail(st) - QueueHead(st) /\ QueueLen(st) \in Nat
  BY <1>2 DEF QueueLen, GoodQueue, QueueBounded
<1>4. \A i \in 1 .. QueueLen(st) : QueueHead(st) + i - 1 \in Slots
  BY <1>1, <1>2, <1>3, ConstantsAssumption DEF Slots
<1>5. \A i \in 1 .. QueueLen(st) :
         st[QueueHead(st) + i - 1] \in Value \cup {None}
  BY <1>4, KeyFacts DEF Store
<1>6. Contents(st) \in [1 .. QueueLen(st) -> Value \cup {None}]
  BY <1>5 DEF Contents
<1>7. Contents(st) \in Seq(Value \cup {None})
  BY <1>3, <1>6, SeqDef
<1>8. Len(Contents(st)) = QueueLen(st)
  BY <1>3, <1>6, <1>7, LenProperties
<1> QED
  BY <1>2, <1>3, <1>4, <1>7, <1>8

\* Updates of user keys leave the contents of the queue as they are.
LEMMA UpdatedContents ==
    ASSUME NEW st \in Store, NEW tx \in RollupTx, RespectsQueue(tx), GoodQueue(st)
    PROVE  Contents(Updated(st, tx.updates)) = Contents(st)
<1> DEFINE new == Updated(st, tx.updates)
<1>1. QueueHead(new) = QueueHead(st) /\ QueueTail(new) = QueueTail(st)
  BY UpdatedQueue
<1>2. QueueLen(new) = QueueLen(st)
  BY <1>1 DEF QueueLen
<1>3. \A i \in Slots : new[i] = st[i]
  BY DEF Updated, RespectsQueue, Keys, QueueKeys
<1> HIDE DEF new
<1> QED
  BY <1>1, <1>2, <1>3, ContentsFacts DEF Contents, new

\* Moving the head drops the messages it passes from the front of the contents.
LEMMA PoppedContents ==
    ASSUME NEW st \in Store, GoodQueue(st), NEW h \in Slots,
           QueueHead(st) <= h, h <= QueueTail(st)
    PROVE  Contents(Popped(st, h)) =
               SubSeq(Contents(st), h - QueueHead(st) + 1, Len(Contents(st)))
<1> DEFINE new == Popped(st, h)
           V   == Value \cup {None}
           d   == h - QueueHead(st)
           sub == SubSeq(Contents(st), d + 1, Len(Contents(st)))
<1>1. new \in Store /\ GoodQueue(new) /\ QueueHead(new) = h
      /\ QueueTail(new) = QueueTail(st)
  BY PoppedStore, PoppedQueue
<1>2. \A i \in Slots : h <= i => new[i] = st[i]
  BY KeyFacts, ConstantsAssumption DEF Popped, Slots
<1> HIDE DEF new
<1>3. /\ QueueHead(st) \in Nat /\ QueueTail(st) \in Nat
      /\ QueueLen(st) = QueueTail(st) - QueueHead(st) /\ QueueLen(st) \in Nat
      /\ \A i \in 1 .. QueueLen(st) : QueueHead(st) + i - 1 \in Slots
      /\ Contents(st) \in Seq(V) /\ Len(Contents(st)) = QueueLen(st)
  BY ContentsFacts
<1>4. /\ QueueLen(new) = QueueTail(st) - h /\ QueueLen(new) \in Nat
      /\ \A i \in 1 .. QueueLen(new) : h + i - 1 \in Slots
      /\ Contents(new) \in Seq(V) /\ Len(Contents(new)) = QueueLen(new)
  BY <1>1, ContentsFacts
<1>5. d \in Nat /\ d + 1 \in Int
  BY <1>3, ConstantsAssumption DEF Slots
<1>6. \A i \in d + 1 .. Len(Contents(st)) : Contents(st)[i] \in V
  BY <1>3, <1>5, ElementOfSeq
<1> HIDE DEF V
<1>7. /\ sub \in Seq(V)
      /\ Len(sub) = IF d + 1 <= QueueLen(st) THEN QueueLen(st) - (d + 1) + 1 ELSE 0
      /\ \A i \in 1 .. QueueLen(st) - (d + 1) + 1 :
            sub[i] = Contents(st)[d + 1 + i - 1]
  <2> HIDE DEF d
  <2> QED
    BY <1>3, <1>5, <1>6, SubSeqProperties
<1>8. Len(sub) = QueueLen(new) /\ QueueLen(st) - (d + 1) + 1 = QueueLen(new)
  BY <1>3, <1>4, <1>7, ConstantsAssumption DEF Slots
<1>9. ASSUME NEW i \in 1 .. QueueLen(new)
      PROVE  Contents(new)[i] = sub[i]
  <2>1. Contents(new)[i] = new[h + i - 1]
    BY <1>1 DEF Contents
  <2>2. h + i - 1 \in Slots /\ h <= h + i - 1
    BY <1>4, ConstantsAssumption DEF Slots
  <2>3. sub[i] = Contents(st)[d + 1 + i - 1]
    BY <1>7, <1>8
  <2>4. d + 1 + i - 1 \in 1 .. QueueLen(st)
        /\ QueueHead(st) + (d + 1 + i - 1) - 1 = h + i - 1
    BY <1>3, <1>4, ConstantsAssumption DEF Slots
  <2>5. Contents(st)[d + 1 + i - 1] = st[h + i - 1]
    <3> DEFINE j == d + 1 + i - 1
    <3>1. j \in 1 .. QueueLen(st) /\ QueueHead(st) + j - 1 = h + i - 1
      BY <2>4
    <3> HIDE DEF j
    <3>2. Contents(st)[j] = st[QueueHead(st) + j - 1]
      BY <3>1 DEF Contents
    <3> QED
      BY <3>1, <3>2 DEF j
  <2> QED
    BY <1>2, <2>1, <2>2, <2>3, <2>5
<1> QED
  <2> HIDE DEF sub
  <2>1. Contents(new) = sub
    BY <1>4, <1>7, <1>8, <1>9, SeqEqual
  <2> QED
    BY <2>1 DEF new, sub

\* push_message appends to the contents.
LEMMA EnqueuedContents ==
    ASSUME NEW st \in Store, GoodQueue(st), NEW data \in Payloads,
           QueueLen(st) < QueueCapacity, QueueTail(st) # MaxIndex
    PROVE  Contents(Enqueued(st, data)) = Append(Contents(st), data)
<1> DEFINE new == Enqueued(st, data)
           V   == Value \cup {None}
           app == Append(Contents(st), data)
<1>1. new \in Store /\ GoodQueue(new) /\ QueueHead(new) = QueueHead(st)
      /\ QueueTail(new) = QueueTail(st) + 1
  BY EnqueuedStore, EnqueuedQueue DEF GoodQueue, QueueBounded
<1>2. QueueTail(st) \in Slots
  BY QueueIndices DEF GoodQueue, QueueBounded
<1>3. \A i \in Slots : new[i] = IF i = QueueTail(st) THEN data ELSE st[i]
  BY <1>2, KeyFacts DEF Enqueued, Store
<1> HIDE DEF new
<1>4. /\ QueueHead(st) \in Nat /\ QueueTail(st) \in Nat
      /\ QueueLen(st) = QueueTail(st) - QueueHead(st) /\ QueueLen(st) \in Nat
      /\ \A i \in 1 .. QueueLen(st) : QueueHead(st) + i - 1 \in Slots
      /\ Contents(st) \in Seq(V) /\ Len(Contents(st)) = QueueLen(st)
  BY ContentsFacts
<1>5. QueueLen(new) = QueueLen(st) + 1
      /\ Contents(new) \in Seq(V) /\ Len(Contents(new)) = QueueLen(new)
  BY <1>1, <1>4, ContentsFacts
<1>6. /\ app \in Seq(V) /\ Len(app) = QueueLen(st) + 1
      /\ \A i \in 1 .. QueueLen(st) : app[i] = Contents(st)[i]
      /\ app[QueueLen(st) + 1] = data
  <2>1. data \in V
    BY DEF Value
  <2> HIDE DEF V
  <2> QED
    BY <1>4, <2>1, AppendProperties
<1>7. ASSUME NEW i \in 1 .. QueueLen(new)
      PROVE  Contents(new)[i] = app[i]
  <2>1. Contents(new)[i] = new[QueueHead(st) + i - 1]
    BY <1>1 DEF Contents
  <2>2. CASE i = QueueLen(st) + 1
    <3>1. QueueHead(st) + i - 1 = QueueTail(st)
      BY <2>2, <1>4
    <3> QED
      BY <2>1, <2>2, <3>1, <1>2, <1>3, <1>6
  <2>3. CASE i \in 1 .. QueueLen(st)
    <3>1. QueueHead(st) + i - 1 \in Slots /\ QueueHead(st) + i - 1 # QueueTail(st)
      BY <2>3, <1>4
    <3>2. Contents(st)[i] = st[QueueHead(st) + i - 1]
      BY <2>3 DEF Contents
    <3> QED
      BY <2>1, <2>3, <3>1, <3>2, <1>3, <1>6
  <2> QED
    BY <2>2, <2>3, <1>4, <1>5
<1> QED
  <2> HIDE DEF app, V
  <2>1. Contents(new) = app
    BY <1>4, <1>5, <1>6, <1>7, SeqEqual
  <2> QED
    BY <2>1 DEF new, app

\* Replacing one name's store replaces what the abstract variables say of it.
LEMMA BarStep ==
    ASSUME TypeOK, NEW name \in Names, NEW new,
           states' = [states EXCEPT ![name] = new]
    PROVE  /\ KvBar' = [KvBar EXCEPT ![name] = [k \in UserKeys |-> new[k]]]
           /\ QueueBar' = [QueueBar EXCEPT ![name] = Contents(new)]
           /\ FirstBar' = [FirstBar EXCEPT ![name] = QueueHead(new)]
<1>1. \A n \in Names : states'[n] = IF n = name THEN new ELSE states[n]
  BY DEF TypeOK
<1>2. KvBar' = [KvBar EXCEPT ![name] = [k \in UserKeys |-> new[k]]]
  <2> DEFINE User(st) == [k \in UserKeys |-> st[k]]
  <2>1. KvBar = [n \in Names |-> User(states[n])]
        /\ KvBar' = [n \in Names |-> User(states'[n])]
    BY DEF KvBar
  <2> HIDE DEF User
  <2>2. KvBar' = [KvBar EXCEPT ![name] = User(new)]
    BY <1>1, <2>1
  <2> QED
    BY <2>2 DEF User
<1>3. ASSUME NEW n \in Names
      PROVE  /\ Contents(states[n])' = Contents(states'[n])
             /\ QueueHead(states[n])' = QueueHead(states'[n])
  BY DEF Contents, QueueLen, QueueHead, QueueTail, QueueGetU32
<1>4. QueueBar' = [QueueBar EXCEPT ![name] = Contents(new)]
  <2>1. QueueBar' = [n \in Names |-> Contents(states'[n])]
    BY <1>3 DEF QueueBar
  <2>2. QueueBar = [n \in Names |-> Contents(states[n])]
    BY DEF QueueBar
  <2> QED
    BY <1>1, <2>1, <2>2
<1>5. FirstBar' = [FirstBar EXCEPT ![name] = QueueHead(new)]
  <2>1. FirstBar' = [n \in Names |-> QueueHead(states'[n])]
    BY <1>3 DEF FirstBar
  <2>2. FirstBar = [n \in Names |-> QueueHead(states[n])]
    BY DEF FirstBar
  <2> QED
    BY <1>1, <2>1, <2>2
<1> QED
  BY <1>2, <1>4, <1>5

\* claim_name is Claim.
LEMMA ClaimRefines ==
    ASSUME TypeOK, NEW who \in Accounts, NEW name \in Names, ClaimName(who, name)
    PROVE  Queue!Next
<1>1. Queue!Claim(name, who)
  BY DEF ClaimName, Queue!Claim
<1> QED
  BY <1>1 DEF Queue!Next

\* push_message is Push.
LEMMA PushRefines ==
    ASSUME AnchorInv, NEW name \in Names, NEW data \in Payloads,
           BelowWrap(name), PushMessage(name, data)
    PROVE  Queue!Next
<1> DEFINE st  == states[name]
           new == Enqueued(st, data)
<1>1. TypeOK /\ st \in Store /\ GoodQueue(st)
  BY DEF AnchorInv, TypeOK, QueueIntact, GoodQueue
<1>2. /\ submitterByNames[name] # None
      /\ QueueLen(st) < QueueCapacity
      /\ states' = [states EXCEPT ![name] = new]
      /\ UNCHANGED submitterByNames
  BY <1>1 DEF PushMessage, GoodQueue, QueueBounded
<1>3. QueueTail(st) # MaxIndex
  BY DEF BelowWrap
<1>4. Contents(new) = Append(QueueBar[name], data)
  BY <1>1, <1>2, <1>3, EnqueuedContents DEF QueueBar
<1>5. QueueHead(new) = FirstBar[name]
  BY <1>1, <1>2, <1>3, EnqueuedQueue DEF FirstBar
<1>6. [k \in UserKeys |-> new[k]] = KvBar[name]
  <2>1. QueueTail(st) \in Slots
    BY <1>1, QueueIndices DEF GoodQueue, QueueBounded
  <2>2. \A k \in UserKeys : new[k] = st[k]
    BY <2>1, <1>1, ConstantsAssumption DEF Enqueued, Store, Keys
  <2> QED
    BY <2>2 DEF KvBar
<1>7. Len(QueueBar[name]) < QueueCapacity
  BY <1>1, <1>2, ContentsFacts DEF QueueBar
<1> HIDE DEF new
<1>8. /\ KvBar' = [KvBar EXCEPT ![name] = [k \in UserKeys |-> new[k]]]
      /\ QueueBar' = [QueueBar EXCEPT ![name] = Contents(new)]
      /\ FirstBar' = [FirstBar EXCEPT ![name] = QueueHead(new)]
  BY <1>1, <1>2, BarStep
<1>9. KvBar' = KvBar /\ FirstBar' = FirstBar
  BY <1>5, <1>6, <1>8 DEF KvBar, FirstBar
<1>10. QueueBar' = [QueueBar EXCEPT ![name] = Append(QueueBar[name], data)]
  BY <1>4, <1>8
<1>11. Queue!Push(name, data)
  BY <1>2, <1>7, <1>9, <1>10
  DEF Queue!Push, KvBar, QueueBar, FirstBar, Contents
<1> QED
  BY <1>11 DEF Queue!Next

\* A transaction of rollup that respects the queue's keys is Commit: it sets the user
\* keys and takes as many messages as its last SetQueueHead passes.
LEMMA RollupRefines ==
    ASSUME AnchorInv, NEW who \in Accounts, NEW name \in Names,
           NEW tx \in RollupTx, RespectsQueue(tx), Rollup(who, name, tx)
    PROVE  Queue!Next
<1> DEFINE old == states[name]
           st  == Updated(old, tx.updates)
<1>1. TypeOK /\ old \in Store /\ GoodQueue(old)
  BY DEF AnchorInv, TypeOK, QueueIntact, GoodQueue
<1>2. st \in Store /\ GoodQueue(st)
      /\ QueueHead(st) = QueueHead(old) /\ QueueTail(st) = QueueTail(old)
  BY <1>1, UpdatedStore, UpdatedQueue
<1>3. Contents(st) = Contents(old)
  BY <1>1, UpdatedContents
<1>4. ~ActionsTrap(st, tx.actions)
  BY <1>2 DEF ActionsTrap, GoodQueue, QueueBounded
<1>5. submitterByNames[name] # None /\ UNCHANGED submitterByNames
  BY ConstantsAssumption DEF Rollup
<1>6. ActionsAccepted(st, tx.actions)
  BY <1>4 DEF Rollup
<1>7. \/ states' = [states EXCEPT ![name] = st]
      \/ \E i \in HeadSets(tx.actions) :
            states' = [states EXCEPT ![name] = Popped(st, tx.actions[i].head)]
  BY <1>4 DEF Rollup
<1> HIDE DEF st
<1>8. \E new \in Store, taken \in 0 .. QueueLen(old) :
         /\ states' = [states EXCEPT ![name] = new]
         /\ Contents(new) = SubSeq(Contents(old), taken + 1, Len(Contents(old)))
         /\ QueueHead(new) = QueueHead(old) + taken
  <2>1. CASE states' = [states EXCEPT ![name] = st]
    <3>1. Contents(st) = SubSeq(Contents(old), 0 + 1, Len(Contents(old)))
      BY <1>1, <1>3, ContentsFacts, SubSeqFull
    <3>2. 0 \in 0 .. QueueLen(old) /\ QueueHead(st) = QueueHead(old) + 0
      BY <1>1, <1>2, ContentsFacts
    <3> QED
      BY <2>1, <3>1, <3>2, <1>2
  <2>2. ASSUME NEW i \in HeadSets(tx.actions),
               states' = [states EXCEPT ![name] = Popped(st, tx.actions[i].head)]
        PROVE  <1>8
    <3> DEFINE h == tx.actions[i].head
    <3>1. h \in Slots /\ QueueHead(st) <= h /\ h <= QueueTail(st)
      BY HeadSetIndex, <1>6 DEF ActionsAccepted
    <3> HIDE DEF h
    <3>2. Popped(st, h) \in Store /\ QueueHead(Popped(st, h)) = h
      BY <3>1, <1>2, PoppedStore, PoppedQueue
    <3>3. Contents(Popped(st, h)) =
             SubSeq(Contents(old), h - QueueHead(old) + 1, Len(Contents(old)))
      BY <3>1, <1>2, <1>3, PoppedContents
    <3>4. /\ h - QueueHead(old) \in 0 .. QueueLen(old)
          /\ h = QueueHead(old) + (h - QueueHead(old))
      BY <3>1, <1>1, <1>2, ContentsFacts, ConstantsAssumption DEF Slots
    <3> QED
      BY <2>2, <3>2, <3>3, <3>4 DEF h
  <2> QED
    BY <1>7, <2>1, <2>2
<1>9. PICK new \in Store, taken \in 0 .. QueueLen(old) : <1>8!(new, taken)
  BY <1>8
<1>10. /\ KvBar' = [KvBar EXCEPT ![name] = [k \in UserKeys |-> new[k]]]
       /\ QueueBar' = [QueueBar EXCEPT ![name] = Contents(new)]
       /\ FirstBar' = [FirstBar EXCEPT ![name] = QueueHead(new)]
  BY <1>1, <1>9, BarStep
<1>11. /\ QueueBar[name] = Contents(old) /\ FirstBar[name] = QueueHead(old)
       /\ Len(QueueBar[name]) = QueueLen(old)
  BY <1>1, ContentsFacts DEF QueueBar, FirstBar
<1>12. /\ QueueBar' = [QueueBar EXCEPT ![name] =
                         SubSeq(QueueBar[name], taken + 1, Len(QueueBar[name]))]
       /\ FirstBar' = [FirstBar EXCEPT ![name] = FirstBar[name] + taken]
  BY <1>9, <1>10, <1>11
<1>13. Queue!Commit(name, [k \in UserKeys |-> new[k]], taken)
  BY <1>5, <1>10, <1>12
  DEF Queue!Commit, KvBar, QueueBar, FirstBar, Contents
<1>14. /\ [k \in UserKeys |-> new[k]] \in [UserKeys -> Value \cup {None}]
       /\ taken \in 0 .. Len(QueueBar[name])
  BY <1>11 DEF Store, Keys
<1> QED
  BY <1>13, <1>14 DEF Queue!Next, QueueBar, Contents

\* Every step of the pallet is a step of the queue or leaves it alone.
LEMMA AnchorRefines ==
    ASSUME \A tx \in Txs : RespectsQueue(tx), AnchorInv, [Next]_anchorVars
    PROVE  [Queue!Next]_(Queue!vars)
<1>1. CASE UNCHANGED anchorVars
  BY <1>1 DEF anchorVars, Queue!vars
<1>2. TypeOK
  BY DEF AnchorInv
<1> QED
  BY <1>1, <1>2, ClaimRefines, PushRefines, RollupRefines, ConstantsAssumption
  DEF Next

\* The empty stores are empty queues.
LEMMA InitRefines == Init => Queue!Init
<1> SUFFICES ASSUME Init PROVE Queue!Init
  OBVIOUS
<1>1. ASSUME NEW n \in Names
      PROVE  QueueHead(states[n]) = 0 /\ QueueLen(states[n]) = 0
  BY KeyFacts DEF Init, QueueLen, QueueHead, QueueTail, QueueGetU32
<1>2. \A n \in Names : Contents(states[n]) = <<>>
  BY <1>1 DEF Contents
<1>3. QueueBar = [n \in Names |-> <<>>] /\ FirstBar = [n \in Names |-> 0]
  BY <1>1, <1>2 DEF QueueBar, FirstBar
<1>4. KvBar = [n \in Names |-> [k \in UserKeys |-> None]]
  BY DEF Init, KvBar, Keys
<1> QED
  BY <1>3, <1>4 DEF Init, Queue!Init, KvBar, QueueBar, FirstBar, Contents

\* With such clients the pallet implements the FIFO of RollupQueue: push_message
\* appends, rollup sets user keys and takes a prefix in one step, and ids advance by
\* the number of messages taken.
THEOREM AnchorImplementsQueue ==
    ASSUME \A tx \in Txs : RespectsQueue(tx)
    PROVE  Spec => ImplementsQueue
<1>1. AnchorInv /\ [Next]_anchorVars => [Queue!Next]_(Queue!vars)
  BY AnchorRefines
<1> QED
  BY AnchorInvariant, InitRefines, <1>1, PTL
  DEF Spec, ImplementsQueue, Queue!Spec
=============================================================================
