------------------------ MODULE RollupSessions_proofs ------------------------
(***************************************************************************)
(* Proofs about the rollup sessions, for every number of sessions, names,  *)
(* keys and messages: sessions keep to the queue's keys, so the pallet's   *)
(* guarantees hold for them; a transaction that executes finds what its    *)
(* session read; the accepted transactions account for every message, and  *)
(* a session that starts after one was accepted does not take it again.    *)
(***************************************************************************)
EXTENDS RollupSessions, Anchor_proofs

\* What a version key holds.
Version == {None} \cup 1 .. MaxIndex
Rank(v) == IF v = None THEN 0 ELSE v

\* A store the chain may have at some block.
Chained(st) ==
    /\ st \in Store
    /\ GoodQueue(st)
    /\ \A k \in DataKeys : st[VersionOf[k]] \in Version

\* new is as old or comes later: the queue only moves on, versions only grow, and as
\* long as a key's version is the same the key is.
Later(old, new) ==
    /\ QueueHead(old) <= QueueHead(new)
    /\ QueueTail(old) <= QueueTail(new)
    /\ \A k \in DataKeys :
          /\ Rank(old[VersionOf[k]]) <= Rank(new[VersionOf[k]])
          /\ old[VersionOf[k]] = new[VersionOf[k]] => old[k] = new[k]

\* What RunSession submits when it finds the store st.
Submitted(name, st, reads, writes, pops, past) ==
    [name |-> name,
     tx   |-> RolledUp(st, reads, writes, pops),
     saw  |-> [k \in reads |-> st[k]],
     from |-> QueueHead(st),
     to   |-> QueueHead(st) + pops,
     past |-> past]

\* The arguments of a session over the store st.
Arguments(st, reads, writes, pops) ==
    /\ reads \in SUBSET DataKeys
    /\ DOMAIN writes \in SUBSET reads
    /\ writes \in [DOMAIN writes -> Payloads]
    /\ pops \in 0 .. QueueLen(st)
    /\ \A k \in DOMAIN writes : st[VersionOf[k]] # MaxIndex

\* t was computed from an earlier state of the stores.
SnapshotIn(t, stores) ==
    \E name \in Names, st \in Store : \E reads, writes, pops : \E past \in Nat :
        /\ Chained(st)
        /\ Later(st, stores[name])
        /\ Arguments(st, reads, writes, pops)
        /\ t = Submitted(name, st, reads, writes, pops, past)

FromSnapshot(t) == SnapshotIn(t, states)

Entry ==
    [name : Names, tx : RollupTx,
     saw : UNION {[reads -> Value \cup {None}] : reads \in SUBSET DataKeys},
     from : Nat, to : Nat, past : Nat]

\* The chain's part of the invariant.
ChainInv == AnchorInv /\ \A name \in Names : Chained(states[name])

\* The sessions' part.
PendingInv ==
    /\ inFlight = [s \in Sessions |-> inFlight[s]]
    /\ \A s \in Sessions : Pending(s) => FromSnapshot(inFlight[s])

\* Data and version keys are user keys, and a version key is no data key.
LEMMA SessionKeys ==
    ASSUME NEW k \in DataKeys
    PROVE  /\ k \in UserKeys /\ VersionOf[k] \in UserKeys
           /\ k \in Keys /\ VersionOf[k] \in Keys
           /\ k \notin QueueKeys /\ VersionOf[k] \notin QueueKeys
           /\ VersionOf[k] \notin DataKeys
           /\ \A j \in DataKeys : VersionOf[j] = VersionOf[k] => j = k
<1>1. k \in UserKeys /\ VersionOf[k] \in UserKeys \ DataKeys
  BY SessionsAssumption
<1>2. \A x \in UserKeys : x \in Keys /\ x \notin QueueKeys
  BY ConstantsAssumption DEF Keys, QueueKeys
<1>3. \A j \in DataKeys : VersionOf[j] = VersionOf[k] => j = k
  BY SessionsAssumption
<1> QED
  BY <1>1, <1>2, <1>3

\* Versions are ordered by their rank.
LEMMA RankFacts ==
    /\ \A v \in Version : Rank(v) \in Nat
    /\ \A v, w \in Version : Rank(v) = Rank(w) => v = w
    /\ \A v \in Version : v # MaxIndex =>
          BumpVersion(v) \in 1 .. MaxIndex /\ Rank(BumpVersion(v)) = Rank(v) + 1
  BY KeyFacts, ConstantsAssumption, SessionsAssumption
  DEF Version, Rank, BumpVersion, Slots

\* Every store is as late as itself.
LEMMA LaterReflexive ==
    ASSUME NEW st, Chained(st) PROVE Later(st, st)
<1>1. QueueHead(st) \in Nat /\ QueueTail(st) \in Nat
  BY ContentsFacts DEF Chained
<1>2. \A k \in DataKeys : Rank(st[VersionOf[k]]) \in Nat
  BY RankFacts DEF Chained
<1> QED
  BY <1>1, <1>2 DEF Later

\* Later is transitive: if a version is the same again, it was never another one.
LEMMA LaterTransitive ==
    ASSUME NEW a, NEW b, NEW c, Chained(a), Chained(b), Chained(c),
           Later(a, b), Later(b, c)
    PROVE  Later(a, c)
<1>1. /\ QueueHead(a) \in Nat /\ QueueHead(b) \in Nat /\ QueueHead(c) \in Nat
      /\ QueueTail(a) \in Nat /\ QueueTail(b) \in Nat /\ QueueTail(c) \in Nat
  BY ContentsFacts DEF Chained
<1>2. ASSUME NEW k \in DataKeys
      PROVE  /\ Rank(a[VersionOf[k]]) <= Rank(c[VersionOf[k]])
             /\ a[VersionOf[k]] = c[VersionOf[k]] => a[k] = c[k]
  <2> DEFINE va == a[VersionOf[k]]
             vb == b[VersionOf[k]]
             vc == c[VersionOf[k]]
  <2>1. va \in Version /\ vb \in Version /\ vc \in Version
    BY DEF Chained
  <2>2. /\ Rank(va) \in Nat /\ Rank(vb) \in Nat /\ Rank(vc) \in Nat
        /\ Rank(va) = Rank(vb) => va = vb
    BY <2>1, RankFacts
  <2>3. /\ Rank(va) <= Rank(vb) /\ Rank(vb) <= Rank(vc)
        /\ va = vb => a[k] = b[k]
        /\ vb = vc => b[k] = c[k]
    BY DEF Later
  <2> HIDE DEF va, vb, vc
  <2>4. Rank(va) <= Rank(vc)
    BY <2>2, <2>3
  <2>5. ASSUME va = vc PROVE a[k] = c[k]
    <3>1. Rank(va) = Rank(vb)
      BY <2>2, <2>3, <2>5
    <3> QED
      BY <2>2, <2>3, <2>5, <3>1
  <2> QED
    BY <2>4, <2>5 DEF va, vc
<1> QED
  BY <1>1, <1>2 DEF Later
-----------------------------------------------------------------------------
(* What a session submits.                                                 *)

\* Its actions: replies, and a last SetQueueHead past the messages it popped, if any.
LEMMA RolledUpActions ==
    ASSUME NEW st, Chained(st), NEW reads, NEW writes, NEW pops \in 0 .. QueueLen(st)
    PROVE  /\ RolledUp(st, reads, writes, pops).actions \in Seq(Action)
           /\ pops = 0 => HeadSets(RolledUp(st, reads, writes, pops).actions) = {}
           /\ pops > 0 =>
                /\ HeadSets(RolledUp(st, reads, writes, pops).actions) = {pops + 1}
                /\ RolledUp(st, reads, writes, pops).actions[pops + 1].head
                      = QueueHead(st) + pops
           /\ QueueHead(st) + pops \in Slots
<1> DEFINE reply == [type |-> "Reply", data |-> Reply]
           set   == [type |-> "SetQueueHead", head |-> QueueHead(st) + pops]
           replies == [i \in 1 .. pops |-> reply]
           last  == IF pops > 0 THEN <<set>> ELSE <<>>
           actions == RolledUp(st, reads, writes, pops).actions
<1>1. /\ QueueHead(st) \in Nat /\ QueueTail(st) \in Nat /\ QueueLen(st) \in Nat
      /\ QueueLen(st) = QueueTail(st) - QueueHead(st)
      /\ QueueTail(st) \in Slots
  BY ContentsFacts, QueueIndices DEF Chained, GoodQueue, QueueBounded
<1>2. pops \in Nat /\ QueueHead(st) + pops \in Slots
  BY <1>1, ConstantsAssumption DEF Slots
<1>3. reply \in Action /\ set \in Action
  BY <1>2, SessionsAssumption DEF Action
<1>4. actions = replies \o last
  BY DEF RolledUp
<1>5. reply.type # "SetQueueHead" /\ set.type = "SetQueueHead"
      /\ set.head = QueueHead(st) + pops
  OBVIOUS
<1> HIDE DEF reply, set, actions
<1>6. replies \in Seq(Action) /\ Len(replies) = pops
  <2>1. replies \in [1 .. pops -> Action]
    BY <1>3
  <2>2. replies \in Seq(Action)
    BY <1>2, <2>1, SeqDef
  <2> QED
    BY <1>2, <2>1, <2>2, LenProperties
<1>7. CASE pops = 0
  <2>1. last = <<>> /\ last \in Seq(Action) /\ Len(last) = 0
    BY <1>7
  <2>2. actions \in Seq(Action) /\ Len(actions) = 0
    BY <1>4, <1>6, <1>7, <2>1, ConcatProperties
  <2>3. HeadSets(actions) = {}
    BY <2>2, LenProperties DEF HeadSets
  <2> QED
    BY <1>2, <1>7, <2>2, <2>3 DEF actions
<1>8. CASE pops > 0
  <2>1. last = <<set>> /\ last \in Seq(Action) /\ Len(last) = 1 /\ last[1] = set
    BY <1>3, <1>8
  <2> HIDE DEF replies, last
  <2>2. /\ actions \in Seq(Action) /\ Len(actions) = pops + 1
        /\ \A i \in 1 .. pops + 1 :
              actions[i] = IF i <= pops THEN replies[i] ELSE last[i - pops]
    BY <1>2, <1>4, <1>6, <2>1, ConcatProperties
  <2>3. DOMAIN actions = 1 .. pops + 1
    BY <2>2, LenProperties
  <2>4. actions[pops + 1] = set
    BY <1>2, <2>1, <2>2
  <2>5. \A i \in 1 .. pops : actions[i] = reply
    BY <1>2, <2>2 DEF replies
  <2>6. HeadSets(actions) = {pops + 1}
    BY <1>2, <1>5, <2>3, <2>4, <2>5 DEF HeadSets
  <2> QED
    BY <1>2, <1>5, <1>8, <2>2, <2>4, <2>6 DEF actions
<1> QED
  BY <1>2, <1>7, <1>8

\* The version keys of a set of data keys.
VersionKeys(W) == {VersionOf[k] : k \in W}

\* A key written gets its new value and the next version.
LEMMA RolledUpWrites ==
    ASSUME NEW st, Chained(st), NEW reads, NEW writes, NEW pops,
           Arguments(st, reads, writes, pops),
           NEW tx, tx = RolledUp(st, reads, writes, pops), NEW k \in DOMAIN writes
    PROVE  /\ tx.updates[k] = writes[k]
           /\ tx.updates[VersionOf[k]] = BumpVersion(st[VersionOf[k]])
<1>1. DOMAIN writes \subseteq DataKeys
  BY DEF Arguments
<1>2. VersionOf[k] \notin DOMAIN writes /\ VersionOf[k] \in VersionKeys(DOMAIN writes)
  BY <1>1, SessionKeys DEF VersionKeys
<1> QED
  BY <1>2 DEF RolledUp, VersionKeys

\* Its conditions and updates.
LEMMA RolledUpUpdates ==
    ASSUME NEW st, Chained(st), NEW reads, NEW writes, NEW pops,
           Arguments(st, reads, writes, pops),
           NEW tx, tx = RolledUp(st, reads, writes, pops)
    PROVE  /\ tx.conds \subseteq Keys \X (Value \cup {None})
           /\ \A k \in reads : <<VersionOf[k], st[VersionOf[k]]>> \in tx.conds
           /\ tx.updates \in
                 [DOMAIN writes \cup VersionKeys(DOMAIN writes) -> Value \cup {None}]
<1> DEFINE W  == DOMAIN writes
           VW == VersionKeys(W)
<1>1. /\ st \in [Keys -> Value \cup {None}]
      /\ reads \subseteq DataKeys /\ W \subseteq reads /\ W \subseteq DataKeys
      /\ \A k \in W : writes[k] \in Payloads
      /\ \A k \in W : st[VersionOf[k]] # MaxIndex
      /\ \A k \in DataKeys : st[VersionOf[k]] \in Version
  BY DEF Chained, Store, Arguments
<1>2. /\ tx.conds = {<<VersionOf[k], st[VersionOf[k]]>> : k \in reads}
      /\ tx.updates = [k \in W \cup VW |->
                         IF k \in W THEN writes[k] ELSE BumpVersion(st[k])]
  BY DEF RolledUp, VersionKeys
<1>3. tx.conds \subseteq Keys \X (Value \cup {None})
  <2>1. \A k \in reads : VersionOf[k] \in Keys
    BY <1>1, SessionKeys
  <2> QED
    BY <1>1, <1>2, <2>1, KeyFacts
<1>4. \A k \in W : /\ VersionOf[k] \notin W
                   /\ BumpVersion(st[VersionOf[k]]) \in Value
  <2> TAKE k \in W
  <2>1. k \in DataKeys /\ st[VersionOf[k]] \in Version /\ st[VersionOf[k]] # MaxIndex
    BY <1>1
  <2>2. BumpVersion(st[VersionOf[k]]) \in 1 .. MaxIndex
    BY <2>1, RankFacts
  <2>3. VersionOf[k] \notin DataKeys
    BY <2>1, SessionKeys
  <2> QED
    BY <1>1, <2>2, <2>3, ConstantsAssumption DEF Value, Slots
<1>5. \A k \in W : /\ tx.updates[k] = writes[k]
                   /\ tx.updates[VersionOf[k]] = BumpVersion(st[VersionOf[k]])
  BY RolledUpWrites
<1>6. \A k \in W \cup VW : tx.updates[k] \in Value \cup {None}
  BY <1>1, <1>4, <1>5 DEF Value, VersionKeys
<1>7. tx.updates \in [W \cup VW -> Value \cup {None}]
  BY <1>2, <1>6
<1> QED
  BY <1>2, <1>3, <1>7

\* A session submits a transaction that leaves the queue's keys to SetQueueHead.
LEMMA RolledUpTx ==
    ASSUME NEW st, Chained(st), NEW reads, NEW writes, NEW pops,
           Arguments(st, reads, writes, pops),
           NEW tx, tx = RolledUp(st, reads, writes, pops)
    PROVE  tx \in RollupTx /\ RespectsQueue(tx)
<1> DEFINE W == DOMAIN writes
<1>1. /\ tx.conds \subseteq Keys \X (Value \cup {None})
      /\ tx.updates \in [W \cup VersionKeys(W) -> Value \cup {None}]
  BY RolledUpUpdates
<1>2. tx.actions \in Seq(Action)
  BY RolledUpActions DEF Arguments
<1>3. tx = [conds |-> tx.conds, updates |-> tx.updates, actions |-> tx.actions]
  BY DEF RolledUp
<1>4. W \subseteq DataKeys
  BY DEF Arguments
<1>5. \A k \in W \cup VersionKeys(W) : k \in Keys /\ k \notin QueueKeys
  BY <1>4, SessionKeys DEF VersionKeys
<1>6. tx.updates \in UNION {[K -> Value \cup {None}] : K \in SUBSET Keys}
  BY <1>1, <1>5
<1>7. tx \in RollupTx
  BY <1>1, <1>2, <1>3, <1>6 DEF RollupTx
<1>8. RespectsQueue(tx)
  BY <1>1, <1>5 DEF RespectsQueue
<1> QED
  BY <1>7, <1>8
-----------------------------------------------------------------------------
(* The stores.                                                             *)

\* What a store's data keys and their versions become when only user keys matter.
SameUserKeys(a, b) == \A k \in UserKeys : a[k] = b[k]

\* A step that leaves the user keys alone and moves the queue on gives a later store.
LEMMA QueueMovesOn ==
    ASSUME NEW old, NEW new, Chained(old), new \in Store, GoodQueue(new),
           SameUserKeys(new, old),
           QueueHead(old) <= QueueHead(new), QueueTail(old) <= QueueTail(new)
    PROVE  Chained(new) /\ Later(old, new)
<1>1. \A k \in DataKeys : /\ new[k] = old[k]
                          /\ new[VersionOf[k]] = old[VersionOf[k]]
  BY SessionKeys DEF SameUserKeys
<1>2. \A k \in DataKeys : Rank(old[VersionOf[k]]) \in Nat
  BY RankFacts DEF Chained
<1> QED
  BY <1>1, <1>2 DEF Chained, Later

\* The conditions of a transaction hold its session's snapshot against the store: a
\* key read is as it was.
LEMMA SnapshotHolds ==
    ASSUME NEW st, NEW cur, Chained(st), Chained(cur), Later(st, cur),
           NEW reads, NEW writes, NEW pops, Arguments(st, reads, writes, pops),
           NEW tx, tx = RolledUp(st, reads, writes, pops), CondsMet(cur, tx.conds)
    PROVE  \A k \in reads : /\ cur[VersionOf[k]] = st[VersionOf[k]]
                            /\ cur[k] = st[k]
<1>1. \A k \in reads : <<VersionOf[k], st[VersionOf[k]]>> \in tx.conds
  BY RolledUpUpdates
<1>2. \A k \in reads : cur[VersionOf[k]] = st[VersionOf[k]]
  BY <1>1 DEF CondsMet
<1>3. \A k \in reads : cur[k] = st[k]
  BY <1>2 DEF Arguments, Later
<1> QED
  BY <1>2, <1>3

\* Its updates give a later store.
LEMMA UpdatesMoveOn ==
    ASSUME NEW st, NEW cur, Chained(st), Chained(cur), Later(st, cur),
           NEW reads, NEW writes, NEW pops, Arguments(st, reads, writes, pops),
           NEW tx, tx = RolledUp(st, reads, writes, pops), CondsMet(cur, tx.conds)
    PROVE  /\ Chained(Updated(cur, tx.updates))
           /\ Later(cur, Updated(cur, tx.updates))
           /\ QueueHead(Updated(cur, tx.updates)) = QueueHead(cur)
           /\ QueueTail(Updated(cur, tx.updates)) = QueueTail(cur)
<1> DEFINE new == Updated(cur, tx.updates)
           W   == DOMAIN writes
<1>1. tx \in RollupTx /\ RespectsQueue(tx)
  BY RolledUpTx
<1>2. cur \in Store /\ GoodQueue(cur)
  BY DEF Chained
<1>3. /\ new \in Store /\ GoodQueue(new)
      /\ QueueHead(new) = QueueHead(cur) /\ QueueTail(new) = QueueTail(cur)
  BY <1>1, <1>2, UpdatedStore, UpdatedQueue
<1>4. W \subseteq reads /\ W \subseteq DataKeys
  BY DEF Arguments
<1>5. /\ DOMAIN tx.updates = W \cup VersionKeys(W)
      /\ \A k \in W : /\ tx.updates[k] = writes[k]
                      /\ tx.updates[VersionOf[k]] = BumpVersion(st[VersionOf[k]])
  <2>1. tx.updates \in [W \cup VersionKeys(W) -> Value \cup {None}]
    BY RolledUpUpdates
  <2>2. ASSUME NEW k \in W
        PROVE  /\ tx.updates[k] = writes[k]
               /\ tx.updates[VersionOf[k]] = BumpVersion(st[VersionOf[k]])
    BY <1>4, RolledUpWrites
  <2> QED
    BY <2>1, <2>2
<1>6. \A k \in DataKeys : k \in Keys /\ VersionOf[k] \in Keys
  BY SessionKeys
<1>7. \A k \in Keys : new[k] = IF k \in W \cup VersionKeys(W) THEN tx.updates[k] ELSE cur[k]
  BY <1>5 DEF Updated
<1> HIDE DEF new
<1>8. ASSUME NEW k \in W
      PROVE  new[VersionOf[k]] = BumpVersion(cur[VersionOf[k]])
             /\ cur[VersionOf[k]] # MaxIndex
  <2>1. cur[VersionOf[k]] = st[VersionOf[k]] /\ st[VersionOf[k]] # MaxIndex
    BY <1>4, SnapshotHolds DEF Arguments
  <2>2. VersionOf[k] \in VersionKeys(W) /\ VersionOf[k] \in Keys
    BY <1>4, <1>6 DEF VersionKeys
  <2> QED
    BY <1>5, <1>7, <2>1, <2>2
<1>9. ASSUME NEW k \in DataKeys, k \notin W
      PROVE  new[VersionOf[k]] = cur[VersionOf[k]] /\ new[k] = cur[k]
  <2>1. \A j \in W : VersionOf[j] # VersionOf[k] /\ VersionOf[j] # k
    BY <1>4, <1>9, SessionKeys
  <2>2. k \notin VersionKeys(W) /\ VersionOf[k] \notin VersionKeys(W)
    BY <2>1 DEF VersionKeys
  <2>3. VersionOf[k] \notin W
    BY <1>4, SessionKeys
  <2> QED
    BY <1>6, <1>7, <1>9, <2>2, <2>3
<1>10. ASSUME NEW k \in DataKeys
       PROVE  /\ new[VersionOf[k]] \in Version
              /\ Rank(cur[VersionOf[k]]) <= Rank(new[VersionOf[k]])
              /\ cur[VersionOf[k]] = new[VersionOf[k]] => cur[k] = new[k]
  <2> DEFINE v == cur[VersionOf[k]]
             w == new[VersionOf[k]]
  <2>1. v \in Version
    BY DEF Chained
  <2>2. CASE k \in W
    <3>1. v # MaxIndex /\ w = BumpVersion(v)
      BY <1>8, <2>2
    <3> HIDE DEF v, w
    <3>2. w \in 1 .. MaxIndex /\ Rank(w) = Rank(v) + 1 /\ Rank(v) \in Nat
      BY <2>1, <3>1, RankFacts
    <3>3. w \in Version /\ Rank(v) <= Rank(w) /\ v # w
      BY <3>2 DEF Version
    <3> QED
      BY <3>3 DEF v, w
  <2>3. CASE k \notin W
    <3>1. w = v /\ new[k] = cur[k]
      BY <1>9, <2>3
    <3> HIDE DEF v, w
    <3>2. Rank(v) <= Rank(w)
      BY <2>1, <3>1, RankFacts
    <3> QED
      BY <2>1, <3>1, <3>2 DEF v, w
  <2> QED
    BY <2>2, <2>3
<1>11. QueueHead(cur) <= QueueHead(new) /\ QueueTail(cur) <= QueueTail(new)
  BY <1>2, <1>3, ContentsFacts
<1>12. Chained(new) /\ Later(cur, new)
  BY <1>3, <1>10, <1>11 DEF Chained, Later
<1> QED
  BY <1>3, <1>12 DEF new

\* A store of the chain that a step replaces by a later one.
MovesOn(name, new) ==
    /\ Chained(new)
    /\ Later(states[name], new)
    /\ states' = [states EXCEPT ![name] = new]

\* Replacing one store by a later one leaves every store as late or later.
LEMMA AllMoveOn ==
    ASSUME ChainInv, NEW name \in Names, NEW new, MovesOn(name, new)
    PROVE  \A n \in Names : Chained(states'[n]) /\ Later(states[n], states'[n])
<1> TAKE n \in Names
<1>1. states'[n] = IF n = name THEN new ELSE states[n]
  BY DEF MovesOn, ChainInv, AnchorInv, TypeOK
<1>2. Chained(states[n])
  BY DEF ChainInv
<1>3. Later(states[n], states[n])
  BY <1>2, LaterReflexive
<1> QED
  BY <1>1, <1>2, <1>3 DEF MovesOn

\* push_message gives a later store.
LEMMA PushMovesOn ==
    ASSUME ChainInv, NEW name \in Names, NEW data \in Payloads,
           BelowWrap(name), PushMessage(name, data)
    PROVE  /\ MovesOn(name, Enqueued(states[name], data))
           /\ QueueHead(Enqueued(states[name], data)) = QueueHead(states[name])
<1> DEFINE st  == states[name]
           new == Enqueued(st, data)
<1>1. Chained(st) /\ st \in Store /\ GoodQueue(st) /\ QueueDecodes(st)
  BY DEF ChainInv, Chained, GoodQueue, QueueBounded
<1>2. /\ QueueLen(st) < QueueCapacity /\ QueueTail(st) # MaxIndex
      /\ states' = [states EXCEPT ![name] = new]
  BY <1>1 DEF PushMessage, BelowWrap
<1>3. /\ new \in Store /\ GoodQueue(new)
      /\ QueueHead(new) = QueueHead(st) /\ QueueTail(new) = QueueTail(st) + 1
  BY <1>1, <1>2, EnqueuedStore, EnqueuedQueue
<1>4. SameUserKeys(new, st)
  <2>1. QueueTail(st) \in Slots
    BY <1>1, QueueIndices
  <2> QED
    BY <2>1, <1>1, ConstantsAssumption DEF Enqueued, Store, Keys, SameUserKeys
<1>5. QueueHead(st) \in Nat /\ QueueTail(st) \in Nat
  BY <1>1, ContentsFacts
<1> HIDE DEF new, st
<1>6. QueueHead(st) <= QueueHead(new) /\ QueueTail(st) <= QueueTail(new)
  BY <1>3, <1>5
<1>7. Chained(new) /\ Later(st, new)
  BY <1>1, <1>3, <1>4, <1>6, QueueMovesOn
<1> QED
  BY <1>2, <1>3, <1>7 DEF MovesOn, new, st

\* A session's transaction that executes finds its snapshot and gives a later store,
\* whose head is past the messages it popped.
LEMMA ExecuteMovesOn ==
    ASSUME ChainInv, NEW name \in Names, NEW st, Chained(st), Later(st, states[name]),
           NEW reads, NEW writes, NEW pops, Arguments(st, reads, writes, pops),
           NEW tx, tx = RolledUp(st, reads, writes, pops),
           Rollup(Submitter, name, tx)
    PROVE  /\ \A k \in reads : states[name][k] = st[k]
           /\ \E new : /\ MovesOn(name, new)
                       /\ QueueHead(new) = IF pops = 0 THEN QueueHead(states[name])
                                           ELSE QueueHead(st) + pops
<1> DEFINE cur == states[name]
           mid == Updated(cur, tx.updates)
           h   == QueueHead(st) + pops
<1>1. Chained(cur) /\ CondsMet(cur, tx.conds)
  BY DEF ChainInv, Rollup
<1>2. \A k \in reads : cur[k] = st[k]
  BY <1>1, SnapshotHolds
<1>3. /\ Chained(mid) /\ Later(cur, mid)
      /\ QueueHead(mid) = QueueHead(cur) /\ QueueTail(mid) = QueueTail(cur)
  BY <1>1, UpdatesMoveOn
<1>4. mid \in Store /\ GoodQueue(mid) /\ QueueDecodes(mid)
  BY <1>3 DEF Chained, GoodQueue, QueueBounded
<1>5. ~ActionsTrap(mid, tx.actions)
  BY <1>4 DEF ActionsTrap
<1>6. /\ ActionsAccepted(mid, tx.actions)
      /\ \/ /\ HeadSets(tx.actions) = {}
            /\ states' = [states EXCEPT ![name] = mid]
         \/ \E i \in HeadSets(tx.actions) :
               states' = [states EXCEPT ![name] = Popped(mid, tx.actions[i].head)]
  BY <1>5 DEF Rollup
<1>7. /\ pops \in 0 .. QueueLen(st)
      /\ QueueLen(st) \in Nat
  BY ContentsFacts DEF Arguments, Chained
<1>8. /\ pops = 0 => HeadSets(tx.actions) = {}
      /\ pops > 0 => /\ HeadSets(tx.actions) = {pops + 1}
                     /\ tx.actions[pops + 1].head = h
      /\ h \in Slots
  BY <1>7, RolledUpActions
<1> HIDE DEF cur, mid, h
<1>9. CASE pops = 0
  <2>1. states' = [states EXCEPT ![name] = mid]
    BY <1>6, <1>8, <1>9
  <2>2. MovesOn(name, mid)
    BY <1>3, <2>1 DEF MovesOn, cur
  <2> QED
    BY <1>2, <1>3, <1>9, <2>2 DEF cur
<1>10. CASE pops > 0
  <2> DEFINE new == Popped(mid, h)
  <2>1. states' = [states EXCEPT ![name] = new]
    BY <1>6, <1>8, <1>10
  <2>2. QueueHead(mid) <= h /\ h <= QueueTail(mid)
    BY <1>6, <1>8, <1>10 DEF ActionsAccepted
  <2>3. /\ new \in Store /\ GoodQueue(new)
        /\ QueueHead(new) = h /\ QueueTail(new) = QueueTail(mid)
    BY <1>4, <1>8, <2>2, PoppedStore, PoppedQueue
  <2>4. SameUserKeys(new, mid)
    BY ConstantsAssumption DEF Popped, SameUserKeys, Keys
  <2>5. QueueTail(mid) \in Nat
    BY <1>4, ContentsFacts
  <2> HIDE DEF new
  <2>6. Chained(new) /\ Later(mid, new)
    BY <1>3, <2>2, <2>3, <2>4, <2>5, QueueMovesOn
  <2>7. Later(cur, new)
    BY <1>1, <1>3, <2>6, LaterTransitive
  <2>8. MovesOn(name, new)
    BY <2>1, <2>6, <2>7 DEF MovesOn, cur
  <2>9. QueueHead(new) = QueueHead(st) + pops
    BY <2>3 DEF h
  <2> QED
    BY <1>2, <1>7, <1>10, <2>8, <2>9 DEF cur
<1> QED
  BY <1>7, <1>9, <1>10
-----------------------------------------------------------------------------
(* The invariant.                                                          *)

\* What is accepted was consumed.
AcceptedInv ==
    /\ accepted \in Seq(Entry)
    /\ \A i \in DOMAIN accepted :
          accepted[i].to <= QueueHead(states[accepted[i].name])

SessionsInv == ChainInv /\ PendingInv /\ AcceptedInv

\* The operators on stores read them alone.
LEMMA StorePrimes ==
    ASSUME NEW n \in Names
    PROVE  /\ Chained(states[n])' <=> Chained(states'[n])
           /\ QueueHead(states[n])' = QueueHead(states'[n])
  BY DEF Chained, GoodQueue, QueueBounded, QueueContiguous, QueueDecodes,
         QueueHead, QueueTail, QueueGetU32

\* So does what a session submits.
LEMMA SnapshotPrimes ==
    ASSUME NEW s \in Sessions
    PROVE  FromSnapshot(inFlight[s])' <=> SnapshotIn(inFlight'[s], states')
  BY DEF FromSnapshot, SnapshotIn, Chained, GoodQueue, QueueBounded, QueueContiguous,
         QueueDecodes, QueueHead, QueueTail, QueueGetU32, Later, Rank

\* A snapshot stays one as the stores move on.
LEMMA SnapshotKept ==
    ASSUME ChainInv, NEW t, SnapshotIn(t, states),
           \A n \in Names : Chained(states'[n]) /\ Later(states[n], states'[n])
    PROVE  SnapshotIn(t, states')
<1>1. PICK name, st, reads, writes, pops, past :
         /\ name \in Names /\ st \in Store /\ past \in Nat
         /\ Chained(st)
         /\ Later(st, states[name])
         /\ Arguments(st, reads, writes, pops)
         /\ t = Submitted(name, st, reads, writes, pops, past)
  BY DEF SnapshotIn
<1>2. Chained(states[name])
  BY <1>1 DEF ChainInv
<1>3. Later(st, states'[name])
  BY <1>1, <1>2, LaterTransitive
<1> QED
  BY <1>1, <1>3 DEF SnapshotIn

\* What RunSession submits comes from the store it finds.
LEMMA RunSnapshot ==
    ASSUME ChainInv, accepted \in Seq(Entry), NEW s \in Sessions, NEW name \in Names,
           NEW reads \in SUBSET DataKeys, NEW written \in SUBSET reads, NEW pops \in 0 .. QueueCapacity,
           NEW writes \in [written -> Payloads],
           RunSession(s, name, reads, writes, pops)
    PROVE  \E t : SnapshotIn(t, states) /\ inFlight' = [inFlight EXCEPT ![s] = t]
<1> DEFINE st == states[name]
           t  == Submitted(name, st, reads, writes, pops, Len(accepted))
<1>1. Chained(st) /\ st \in Store /\ Later(st, st)
  BY LaterReflexive DEF ChainInv, Chained
<1>2. QueueLen(st) \in Nat
  BY <1>1, ContentsFacts DEF Chained
<1>3. Arguments(st, reads, writes, pops)
  BY <1>2 DEF RunSession, Arguments, Storage
<1>4. SnapshotIn(t, states)
  BY <1>1, <1>3, LenProperties DEF SnapshotIn
<1>5. inFlight' = [inFlight EXCEPT ![s] = t]
  BY DEF RunSession, Submitted, Storage
<1> QED
  BY <1>4, <1>5

\* What a session submits is an entry of the history.
LEMMA SubmittedEntry ==
    ASSUME NEW name \in Names, NEW st, Chained(st), NEW reads, NEW writes, NEW pops,
           NEW past \in Nat, Arguments(st, reads, writes, pops)
    PROVE  Submitted(name, st, reads, writes, pops, past) \in Entry
<1>1. RolledUp(st, reads, writes, pops) \in RollupTx
  BY RolledUpTx
<1>2. /\ QueueHead(st) \in Nat /\ QueueLen(st) \in Nat /\ pops \in 0 .. QueueLen(st)
      /\ reads \in SUBSET DataKeys /\ st \in [Keys -> Value \cup {None}]
  BY ContentsFacts DEF Chained, Arguments, Store
<1>3. QueueHead(st) + pops \in Nat
  BY <1>2
<1>4. [k \in reads |-> st[k]] \in [reads -> Value \cup {None}]
  <2>1. \A k \in reads : k \in Keys
    BY <1>2, SessionKeys
  <2> QED
    BY <1>2, <2>1
<1> QED
  BY <1>1, <1>2, <1>3, <1>4 DEF Submitted, Entry

\* A transaction that executes, seen from its snapshot.
LEMMA ExecuteSnapshot ==
    ASSUME SessionsInv, NEW s \in Sessions, Execute(s)
    PROVE  \E name \in Names, st \in Store : \E reads, writes, pops, past, new :
              /\ past \in Nat
              /\ Chained(st) /\ Later(st, states[name])
              /\ Arguments(st, reads, writes, pops)
              /\ inFlight[s] = Submitted(name, st, reads, writes, pops, past)
              /\ Rollup(Submitter, name, RolledUp(st, reads, writes, pops))
              /\ \A k \in reads : states[name][k] = st[k]
              /\ MovesOn(name, new)
              /\ QueueHead(new) = IF pops = 0 THEN QueueHead(states[name])
                                  ELSE QueueHead(st) + pops
<1>1. FromSnapshot(inFlight[s])
  BY DEF Execute, SessionsInv, PendingInv
<1>2. PICK name, st, reads, writes, pops, past :
         /\ name \in Names /\ st \in Store /\ past \in Nat
         /\ Chained(st)
         /\ Later(st, states[name])
         /\ Arguments(st, reads, writes, pops)
         /\ inFlight[s] = Submitted(name, st, reads, writes, pops, past)
  BY <1>1 DEF FromSnapshot, SnapshotIn
<1>3. /\ inFlight[s].name = name
      /\ inFlight[s].tx = RolledUp(st, reads, writes, pops)
  BY <1>2 DEF Submitted
<1>4. Rollup(Submitter, name, RolledUp(st, reads, writes, pops))
  BY <1>3 DEF Execute
<1>5. /\ \A k \in reads : states[name][k] = st[k]
      /\ \E new : /\ MovesOn(name, new)
                  /\ QueueHead(new) = IF pops = 0 THEN QueueHead(states[name])
                                      ELSE QueueHead(st) + pops
  BY <1>2, <1>4, ExecuteMovesOn DEF SessionsInv
<1> QED
  BY <1>2, <1>4, <1>5

\* The stores move on and the queues stay intact at every step.
LEMMA ChainStep ==
    ASSUME SessionsInv, [SessionsNext]_vars
    PROVE  /\ AnchorInv'
           /\ \A n \in Names : Chained(states'[n]) /\ Later(states[n], states'[n])
<1> DEFINE Goal == /\ AnchorInv'
                   /\ \A n \in Names : Chained(states'[n]) /\ Later(states[n], states'[n])
<1>1. ChainInv /\ AnchorInv /\ TypeOK
  BY DEF SessionsInv, ChainInv, AnchorInv
<1>2. \A n \in Names : Chained(states[n]) /\ Later(states[n], states[n])
  BY <1>1, LaterReflexive DEF ChainInv
<1>3. Submitter \in Accounts
  BY SessionsAssumption
<1>4. ASSUME UNCHANGED anchorVars PROVE Goal
  <2>1. AnchorInv'
    BY <1>1, <1>4 DEF anchorVars, AnchorInv, TypeOK, QueueIntact, QueueNeverTraps
  <2> QED
    BY <1>2, <1>4, <2>1 DEF anchorVars
<1>5. ASSUME NEW name \in Names, Claim(name) PROVE Goal
  <2>1. ClaimName(Submitter, name) /\ UNCHANGED states
    BY <1>5 DEF Claim, ClaimName
  <2>2. TypeOK'
    BY <1>1, <1>3, <2>1, TypeStep DEF Next
  <2>3. QueueIntact' /\ QueueNeverTraps'
    BY <1>1, <1>3, <2>1, ClaimQueueIntact
  <2>4. AnchorInv'
    BY <2>2, <2>3 DEF AnchorInv
  <2> QED
    BY <1>2, <2>1, <2>4
<1>6. ASSUME NEW name \in Names, NEW data \in Payloads, Push(name, data) PROVE Goal
  <2>1. BelowWrap(name) /\ PushMessage(name, data)
    BY <1>6 DEF Push
  <2>2. TypeOK'
    BY <1>1, <2>1, TypeStep DEF Next
  <2>3. QueueIntact' /\ QueueNeverTraps'
    BY <1>1, <2>1, PushQueueIntact
  <2>4. AnchorInv'
    BY <2>2, <2>3 DEF AnchorInv
  <2>5. \A n \in Names : Chained(states'[n]) /\ Later(states[n], states'[n])
    BY <1>1, <2>1, PushMovesOn, AllMoveOn
  <2> QED
    BY <2>4, <2>5
<1>7. ASSUME NEW s \in Sessions, Execute(s) PROVE Goal
  <2>1. PICK name, st, reads, writes, pops, new :
           /\ name \in Names /\ st \in Store
           /\ Chained(st)
           /\ Arguments(st, reads, writes, pops)
           /\ Rollup(Submitter, name, RolledUp(st, reads, writes, pops))
           /\ MovesOn(name, new)
    BY <1>7, ExecuteSnapshot
  <2> DEFINE tx == RolledUp(st, reads, writes, pops)
  <2>2. tx \in RollupTx /\ RespectsQueue(tx)
    BY <2>1, RolledUpTx
  <2>3. Rollup(Submitter, name, tx)
    BY <2>1
  <2> HIDE DEF tx
  <2>4. TypeOK'
    BY <1>1, <1>3, <2>1, <2>2, <2>3, RollupType
  <2>5. QueueIntact' /\ QueueNeverTraps'
    BY <1>1, <1>3, <2>1, <2>2, <2>3, RollupQueueIntact
  <2>6. AnchorInv'
    BY <2>4, <2>5 DEF AnchorInv
  <2>7. \A n \in Names : Chained(states'[n]) /\ Later(states[n], states'[n])
    BY <1>1, <2>1, AllMoveOn
  <2> QED
    BY <2>6, <2>7
<1>8. ASSUME NEW s \in Sessions, Drop(s) PROVE Goal
  BY <1>4, <1>8 DEF Drop
<1>9. ASSUME NEW s, NEW name, NEW reads, NEW writes, NEW pops,
             RunSession(s, name, reads, writes, pops)
      PROVE  Goal
  BY <1>4, <1>9 DEF RunSession
<1>10. ASSUME UNCHANGED vars PROVE Goal
  BY <1>4, <1>10 DEF vars, anchorVars
<1> HIDE DEF Goal
<1>11. Goal
  BY <1>5, <1>6, <1>7, <1>8, <1>9, <1>10 DEF SessionsNext
<1> QED
  BY <1>11 DEF Goal

\* Every transaction in flight still comes from a snapshot.
LEMMA PendingStep ==
    ASSUME SessionsInv, [SessionsNext]_vars,
           \A n \in Names : Chained(states'[n]) /\ Later(states[n], states'[n])
    PROVE  PendingInv'
<1>1. /\ ChainInv /\ inFlight = [s \in Sessions |-> inFlight[s]]
      /\ accepted \in Seq(Entry)
  BY DEF SessionsInv, PendingInv, AcceptedInv
<1>2. ASSUME NEW s \in Sessions, inFlight[s] # None
      PROVE  SnapshotIn(inFlight[s], states')
  <2>1. SnapshotIn(inFlight[s], states)
    BY <1>2 DEF SessionsInv, PendingInv, Pending, FromSnapshot
  <2> QED
    BY <1>1, <2>1, SnapshotKept
<1> DEFINE Good == /\ inFlight' = [s \in Sessions |-> inFlight'[s]]
                   /\ \A s \in Sessions : inFlight'[s] # None
                                             => SnapshotIn(inFlight'[s], states')
<1>3. ASSUME UNCHANGED inFlight PROVE Good
  BY <1>1, <1>2, <1>3
<1>4. ASSUME NEW s \in Sessions, NEW t, inFlight' = [inFlight EXCEPT ![s] = t],
             t # None => SnapshotIn(t, states')
      PROVE  Good
  <2>1. \A r \in Sessions : inFlight'[r] = IF r = s THEN t ELSE inFlight[r]
    BY <1>1, <1>4
  <2>2. inFlight' = [r \in Sessions |-> inFlight'[r]]
    BY <1>1, <1>4
  <2> QED
    BY <1>2, <1>4, <2>1, <2>2
<1> HIDE DEF Good
<1>5. ASSUME NEW s \in Sessions, NEW name \in Names, NEW reads \in SUBSET DataKeys,
             NEW written \in SUBSET reads, NEW pops \in 0 .. QueueCapacity,
             NEW writes \in [written -> Payloads],
             RunSession(s, name, reads, writes, pops)
      PROVE  Good
  <2>1. PICK t : SnapshotIn(t, states) /\ inFlight' = [inFlight EXCEPT ![s] = t]
    BY <1>1, <1>5, RunSnapshot
  <2>2. SnapshotIn(t, states')
    BY <1>1, <2>1, SnapshotKept
  <2> QED
    BY <1>4, <2>1, <2>2
<1>6. ASSUME NEW s \in Sessions, Execute(s) \/ Drop(s) PROVE Good
  BY <1>4, <1>6 DEF Execute, Drop
<1>7. ASSUME NEW name, NEW data, Claim(name) \/ Push(name, data) PROVE Good
  BY <1>3, <1>7 DEF Claim, Push
<1>8. ASSUME UNCHANGED vars PROVE Good
  BY <1>3, <1>8 DEF vars
<1>9. Good
  BY <1>5, <1>6, <1>7, <1>8 DEF SessionsNext
<1> QED
  BY <1>9, SnapshotPrimes DEF Good, PendingInv, Pending

\* A transaction that executes: it joins the history, it found what its session
\* saw, it was computed when the head was not further than now, and it leaves the head
\* past what it popped.
Executed(t) ==
    /\ t \in Entry
    /\ accepted' = Append(accepted, t)
    /\ \A k \in DOMAIN t.saw : states[t.name][k] = t.saw[k]
    /\ t.from <= QueueHead(states[t.name])
    /\ t.to <= QueueHead(states'[t.name])
    /\ \/ QueueHead(states'[t.name]) = t.to
       \/ QueueHead(states'[t.name]) = QueueHead(states[t.name])
    /\ \A n \in Names \ {t.name} : states'[n] = states[n]

\* That is what Execute does.
LEMMA ExecuteExecutes ==
    ASSUME SessionsInv, NEW s \in Sessions, Execute(s)
    PROVE  Executed(inFlight[s])
<1> DEFINE t == inFlight[s]
<1>1. PICK name, st, reads, writes, pops, past, new :
         /\ name \in Names /\ st \in Store /\ past \in Nat
         /\ Chained(st) /\ Later(st, states[name])
         /\ Arguments(st, reads, writes, pops)
         /\ t = Submitted(name, st, reads, writes, pops, past)
         /\ \A k \in reads : states[name][k] = st[k]
         /\ MovesOn(name, new)
         /\ QueueHead(new) = IF pops = 0 THEN QueueHead(states[name])
                             ELSE QueueHead(st) + pops
  BY ExecuteSnapshot
<1>2. t \in Entry
  BY <1>1, SubmittedEntry
<1>3. accepted' = Append(accepted, t)
  BY DEF Execute
<1>4. /\ t.name = name /\ t.saw = [k \in reads |-> st[k]]
      /\ t.from = QueueHead(st) /\ t.to = QueueHead(st) + pops
  BY <1>1 DEF Submitted
<1>5. \A n \in Names : states'[n] = IF n = name THEN new ELSE states[n]
  BY <1>1 DEF SessionsInv, ChainInv, AnchorInv, TypeOK, MovesOn
<1>6. Chained(states[name])
  BY <1>1 DEF SessionsInv, ChainInv
<1>7. /\ QueueHead(st) \in Nat /\ QueueLen(st) \in Nat /\ pops \in 0 .. QueueLen(st)
      /\ QueueHead(states[name]) \in Nat /\ QueueHead(st) <= QueueHead(states[name])
  BY <1>1, <1>6, ContentsFacts DEF Chained, Arguments, Later
<1>8. /\ t.to <= QueueHead(new)
      /\ QueueHead(new) = t.to \/ QueueHead(new) = QueueHead(states[name])
      /\ t.from <= QueueHead(states[name])
  BY <1>1, <1>4, <1>7
<1>9. \A k \in DOMAIN t.saw : states[t.name][k] = t.saw[k]
  BY <1>1, <1>4
<1>10. states'[t.name] = new /\ \A n \in Names \ {t.name} : states'[n] = states[n]
  BY <1>1, <1>4, <1>5
<1> HIDE DEF t
<1> QED
  BY <1>2, <1>3, <1>4, <1>8, <1>9, <1>10 DEF Executed, t

\* Every other step leaves the history and the heads alone.
LEMMA OthersKeepHistory ==
    ASSUME SessionsInv, [SessionsNext]_vars, ~ \E s \in Sessions : Execute(s)
    PROVE  /\ accepted' = accepted
           /\ \A n \in Names : QueueHead(states'[n]) = QueueHead(states[n])
<1> DEFINE Kept == /\ accepted' = accepted
                   /\ \A n \in Names : QueueHead(states'[n]) = QueueHead(states[n])
<1>1. ASSUME NEW name \in Names, NEW data \in Payloads, Push(name, data) PROVE Kept
  <2> DEFINE new == Enqueued(states[name], data)
  <2>1. MovesOn(name, new) /\ QueueHead(new) = QueueHead(states[name])
    BY <1>1, PushMovesOn DEF SessionsInv, Push
  <2> HIDE DEF new
  <2>2. \A n \in Names : states'[n] = IF n = name THEN new ELSE states[n]
    BY <2>1 DEF SessionsInv, ChainInv, AnchorInv, TypeOK, MovesOn
  <2> QED
    BY <1>1, <2>1, <2>2 DEF Push
<1>2. ASSUME NEW name \in Names, Claim(name) PROVE Kept
  BY <1>2 DEF Claim, ClaimName
<1>3. ASSUME NEW s, NEW name, NEW reads, NEW writes, NEW pops,
             RunSession(s, name, reads, writes, pops)
      PROVE  Kept
  BY <1>3 DEF RunSession, anchorVars
<1>4. ASSUME NEW s, Drop(s) PROVE Kept
  BY <1>4 DEF Drop, anchorVars
<1>5. ASSUME UNCHANGED vars PROVE Kept
  BY <1>5 DEF vars
<1> HIDE DEF Kept
<1>6. Kept
  BY <1>1, <1>2, <1>3, <1>4, <1>5 DEF SessionsNext
<1> QED
  BY <1>6 DEF Kept

\* The history with one entry more.
LEMMA HistoryGrows ==
    ASSUME AcceptedInv, NEW t, Executed(t)
    PROVE  /\ accepted' \in Seq(Entry)
           /\ Len(accepted) \in Nat
           /\ Len(accepted') = Len(accepted) + 1
           /\ DOMAIN accepted = 1 .. Len(accepted)
           /\ DOMAIN accepted' = 1 .. Len(accepted) + 1
           /\ \A i \in DOMAIN accepted : accepted'[i] = accepted[i]
           /\ accepted'[Len(accepted) + 1] = t
<1>1. accepted \in Seq(Entry) /\ t \in Entry /\ accepted' = Append(accepted, t)
  BY DEF AcceptedInv, Executed
<1>2. /\ Len(accepted) \in Nat /\ DOMAIN accepted = 1 .. Len(accepted)
  BY <1>1, LenProperties
<1>3. /\ Append(accepted, t) \in Seq(Entry)
      /\ Len(Append(accepted, t)) = Len(accepted) + 1
      /\ \A i \in 1 .. Len(accepted) : Append(accepted, t)[i] = accepted[i]
      /\ Append(accepted, t)[Len(accepted) + 1] = t
  BY <1>1, AppendProperties
<1>4. DOMAIN Append(accepted, t) = 1 .. Len(accepted) + 1
  BY <1>3, LenProperties
<1> QED
  BY <1>1, <1>2, <1>3, <1>4

\* Every entry stays behind the head.
LEMMA AcceptedStep ==
    ASSUME SessionsInv, [SessionsNext]_vars,
           \A n \in Names : Chained(states'[n]) /\ Later(states[n], states'[n])
    PROVE  AcceptedInv'
<1>1. \A n \in Names : /\ QueueHead(states[n]) <= QueueHead(states'[n])
                       /\ QueueHead(states[n]) \in Nat /\ QueueHead(states'[n]) \in Nat
  BY ContentsFacts DEF Later, Chained, SessionsInv, ChainInv
<1>2. /\ AcceptedInv /\ accepted \in Seq(Entry)
      /\ \A i \in DOMAIN accepted : /\ accepted[i] \in Entry
                                    /\ accepted[i].to <= QueueHead(states[accepted[i].name])
  BY DEF SessionsInv, AcceptedInv
<1>3. ASSUME NEW i \in DOMAIN accepted
      PROVE  accepted[i].to <= QueueHead(states'[accepted[i].name])
  <2>1. /\ accepted[i].name \in Names /\ accepted[i].to \in Nat
        /\ accepted[i].to <= QueueHead(states[accepted[i].name])
    BY <1>2 DEF Entry
  <2> QED
    BY <1>1, <2>1
<1>4. /\ accepted' \in Seq(Entry)
      /\ \A i \in DOMAIN accepted' :
            /\ accepted'[i].name \in Names
            /\ accepted'[i].to <= QueueHead(states'[accepted'[i].name])
  <2>1. CASE \E s \in Sessions : Execute(s)
    <3>1. PICK t : Executed(t)
      BY <2>1, ExecuteExecutes
    <3>2. /\ accepted' \in Seq(Entry)
          /\ DOMAIN accepted' = 1 .. Len(accepted) + 1 /\ Len(accepted) \in Nat
          /\ DOMAIN accepted = 1 .. Len(accepted)
          /\ \A i \in DOMAIN accepted : accepted'[i] = accepted[i]
          /\ accepted'[Len(accepted) + 1] = t
      BY <1>2, <3>1, HistoryGrows
    <3>3. t.name \in Names /\ t.to <= QueueHead(states'[t.name])
      BY <3>1 DEF Executed, Entry
    <3>4. ASSUME NEW i \in DOMAIN accepted'
          PROVE  /\ accepted'[i].name \in Names
                 /\ accepted'[i].to <= QueueHead(states'[accepted'[i].name])
      <4>1. CASE i \in DOMAIN accepted
        BY <1>2, <1>3, <3>2, <4>1 DEF Entry
      <4>2. CASE i = Len(accepted) + 1
        BY <3>2, <3>3, <4>2
      <4> QED
        BY <3>2, <4>1, <4>2
    <3> QED
      BY <3>2, <3>4
  <2>2. CASE ~ \E s \in Sessions : Execute(s)
    <3>1. accepted' = accepted
      BY <2>2, OthersKeepHistory
    <3> QED
      BY <1>2, <1>3, <3>1 DEF Entry
  <2> QED
    BY <2>1, <2>2
<1>5. ASSUME NEW i \in DOMAIN accepted'
      PROVE  (QueueHead(states[accepted[i].name]))' = QueueHead(states'[accepted'[i].name])
  BY DEF QueueHead, QueueGetU32
<1> QED
  BY <1>4, <1>5 DEF AcceptedInv

\* Sessions start with an empty chain, nothing in flight and no history.
LEMMA SessionsInitInv == SessionsInit => SessionsInv
<1> SUFFICES ASSUME SessionsInit PROVE SessionsInv
  OBVIOUS
<1>1. AnchorInv
  BY AnchorInitInv DEF SessionsInit
<1>2. ASSUME NEW n \in Names PROVE Chained(states[n])
  <2>1. states[n] \in Store /\ GoodQueue(states[n])
    BY <1>1 DEF AnchorInv, TypeOK, QueueIntact, GoodQueue
  <2>2. \A k \in Keys : states[n][k] = None
    BY DEF SessionsInit, Init
  <2>3. \A k \in DataKeys : states[n][VersionOf[k]] = None
    BY <2>2, SessionKeys
  <2> QED
    BY <2>1, <2>3 DEF Chained, Version
<1>3. PendingInv
  BY DEF SessionsInit, PendingInv, Pending
<1>4. AcceptedInv
  BY DEF SessionsInit, AcceptedInv
<1> QED
  BY <1>1, <1>2, <1>3, <1>4 DEF SessionsInv, ChainInv

\* Every step preserves the invariant.
LEMMA SessionsInvStep == SessionsInv /\ [SessionsNext]_vars => SessionsInv'
<1> SUFFICES ASSUME SessionsInv, [SessionsNext]_vars PROVE SessionsInv'
  OBVIOUS
<1>1. /\ AnchorInv'
      /\ \A n \in Names : Chained(states'[n]) /\ Later(states[n], states'[n])
  BY ChainStep
<1>2. PendingInv'
  BY <1>1, PendingStep
<1>3. AcceptedInv'
  BY <1>1, AcceptedStep
<1>4. ChainInv'
  BY <1>1, StorePrimes DEF ChainInv
<1> QED
  BY <1>2, <1>3, <1>4 DEF SessionsInv

\* The invariant holds throughout.
LEMMA SessionsInvariant == SessionsSpec => []SessionsInv
  BY SessionsInitInv, SessionsInvStep, PTL DEF SessionsSpec
-----------------------------------------------------------------------------
(* The theorems.                                                           *)

\* Sessions never corrupt the queue they share with push_message: the anchor's
\* guarantee, without its hypothesis on the clients.
THEOREM SessionsKeepQueue == SessionsSpec => [](QueueIntact /\ QueueNeverTraps)
<1>1. SessionsInv => QueueIntact /\ QueueNeverTraps
  BY DEF SessionsInv, ChainInv, AnchorInv
<1> QED
  BY SessionsInvariant, <1>1, PTL

\* The pallet with its rollup clients implements the FIFO of RollupQueue, whatever
\* transactions are delayed, refused or lost.
THEOREM SessionsImplementQueue == SessionsSpec => ImplementsQueue
<1>1. SessionsInv /\ [SessionsNext]_vars => [Queue!Next]_(Queue!vars)
  <2> SUFFICES ASSUME SessionsInv, [SessionsNext]_vars
               PROVE  [Queue!Next]_(Queue!vars)
    OBVIOUS
  <2>1. AnchorInv /\ TypeOK /\ Submitter \in Accounts
    BY SessionsAssumption DEF SessionsInv, ChainInv, AnchorInv
  <2>2. ASSUME UNCHANGED anchorVars PROVE [Queue!Next]_(Queue!vars)
    BY <2>2 DEF anchorVars, Queue!vars
  <2>3. ASSUME NEW name \in Names, Claim(name) PROVE Queue!Next
    BY <2>1, <2>3, ClaimRefines DEF Claim
  <2>4. ASSUME NEW name \in Names, NEW data \in Payloads, Push(name, data)
        PROVE  Queue!Next
    BY <2>1, <2>4, PushRefines DEF Push
  <2>5. ASSUME NEW s \in Sessions, Execute(s) PROVE Queue!Next
    <3>1. PICK name, st, reads, writes, pops :
             /\ name \in Names /\ st \in Store
             /\ Chained(st)
             /\ Arguments(st, reads, writes, pops)
             /\ Rollup(Submitter, name, RolledUp(st, reads, writes, pops))
      BY <2>5, ExecuteSnapshot
    <3> DEFINE tx == RolledUp(st, reads, writes, pops)
    <3>2. tx \in RollupTx /\ RespectsQueue(tx) /\ Rollup(Submitter, name, tx)
      BY <3>1, RolledUpTx
    <3> HIDE DEF tx
    <3> QED
      BY <2>1, <3>1, <3>2, RollupRefines
  <2>6. ASSUME NEW s, Drop(s) PROVE [Queue!Next]_(Queue!vars)
    BY <2>2, <2>6 DEF Drop
  <2>7. ASSUME NEW s, NEW name, NEW reads, NEW writes, NEW pops,
               RunSession(s, name, reads, writes, pops)
        PROVE  [Queue!Next]_(Queue!vars)
    BY <2>2, <2>7 DEF RunSession
  <2>8. ASSUME UNCHANGED vars PROVE [Queue!Next]_(Queue!vars)
    BY <2>2, <2>8 DEF vars, anchorVars
  <2> QED
    BY <2>3, <2>4, <2>5, <2>6, <2>7, <2>8 DEF SessionsNext
<1>2. SessionsInit => Queue!Init
  BY InitRefines DEF SessionsInit
<1> QED
  BY SessionsInvariant, <1>1, <1>2, PTL DEF SessionsSpec, ImplementsQueue, Queue!Spec

\* "No conflicting transactions will be accepted", however many sessions run over
\* however many keys: versions only grow, so an equal version means an equal value.
THEOREM NoConflicts == SessionsSpec => ReadsStillHold
<1> DEFINE Holds == accepted' # accepted =>
                      LET t == accepted'[Len(accepted')] IN
                      \A k \in DOMAIN t.saw : Storage(t.name)[k] = t.saw[k]
<1>1. SessionsInv /\ [SessionsNext]_vars => [Holds]_vars
  <2> SUFFICES ASSUME SessionsInv, [SessionsNext]_vars, accepted' # accepted
               PROVE  LET t == accepted'[Len(accepted')] IN
                      \A k \in DOMAIN t.saw : Storage(t.name)[k] = t.saw[k]
    OBVIOUS
  <2>1. PICK t : Executed(t)
    BY OthersKeepHistory, ExecuteExecutes
  <2>2. accepted'[Len(accepted')] = t
    BY <2>1, HistoryGrows DEF SessionsInv
  <2> QED
    BY <2>1, <2>2 DEF Executed, Storage
<1> QED
  BY SessionsInvariant, <1>1, PTL DEF SessionsSpec, ReadsStillHold

\* The accepted transactions account for every message that left the queue: a head
\* moves only by a transaction that was computed at or before it.
THEOREM EveryPopAnswered == SessionsSpec => []ConsumedByReply
<1>1. SessionsInit => ConsumedByReply
  <2> SUFFICES ASSUME SessionsInit PROVE ConsumedByReply
    OBVIOUS
  <2>1. \A name \in Names : QueueHead(states[name]) = 0
    BY KeyFacts DEF SessionsInit, Init, QueueHead, QueueGetU32
  <2> QED
    BY <2>1 DEF ConsumedByReply, Storage
<1>2. SessionsInv /\ ConsumedByReply /\ [SessionsNext]_vars => ConsumedByReply'
  <2> SUFFICES ASSUME SessionsInv, ConsumedByReply, [SessionsNext]_vars,
                      NEW name \in Names, NEW i \in 0 .. QueueHead(states'[name]) - 1
               PROVE  \E j \in DOMAIN accepted' :
                         /\ accepted'[j].name = name
                         /\ i \in accepted'[j].from .. accepted'[j].to - 1
    BY StorePrimes DEF ConsumedByReply, Storage
  <2>1. ASSUME i < QueueHead(states[name])
        PROVE  \E j \in DOMAIN accepted : /\ accepted[j].name = name
                                          /\ i \in accepted[j].from .. accepted[j].to - 1
    <3>1. QueueHead(states[name]) \in Nat
      BY ContentsFacts DEF SessionsInv, ChainInv, Chained
    <3>2. i \in 0 .. QueueHead(states[name]) - 1
      BY <2>1, <3>1
    <3> QED
      BY <3>2 DEF ConsumedByReply, Storage
  <2>2. CASE \E s \in Sessions : Execute(s)
    <3>1. PICK t : Executed(t)
      BY <2>2, ExecuteExecutes
    <3>2. /\ DOMAIN accepted' = 1 .. Len(accepted) + 1 /\ Len(accepted) \in Nat
          /\ DOMAIN accepted = 1 .. Len(accepted)
          /\ \A j \in DOMAIN accepted : accepted'[j] = accepted[j]
          /\ accepted'[Len(accepted) + 1] = t
      BY <3>1, HistoryGrows DEF SessionsInv
    <3>3. CASE i < QueueHead(states[name])
      BY <2>1, <3>2, <3>3
    <3>4. CASE ~(i < QueueHead(states[name]))
      <4>1. i \in Int /\ 0 <= i /\ i <= QueueHead(states'[name]) - 1
        OBVIOUS
      <4>2. QueueHead(states[name]) \in Nat
        BY ContentsFacts DEF SessionsInv, ChainInv, Chained
      <4>3. t.name = name
        BY <3>1, <3>4, <4>1, <4>2 DEF Executed
      <4>4. t.from \in Nat /\ t.to \in Nat /\ t.from <= QueueHead(states[name])
        BY <3>1, <4>3 DEF Executed, Entry
      <4>5. QueueHead(states'[name]) = t.to
        BY <3>1, <3>4, <4>1, <4>2, <4>3 DEF Executed
      <4>6. i \in t.from .. t.to - 1
        BY <3>4, <4>1, <4>2, <4>4, <4>5
      <4> QED
        BY <3>2, <4>3, <4>6
    <3> QED
      BY <3>3, <3>4
  <2>3. CASE ~ \E s \in Sessions : Execute(s)
    <3>1. accepted' = accepted /\ QueueHead(states'[name]) = QueueHead(states[name])
      BY <2>3, OthersKeepHistory
    <3>2. QueueHead(states[name]) \in Nat
      BY ContentsFacts DEF SessionsInv, ChainInv, Chained
    <3> QED
      BY <2>1, <3>1, <3>2
  <2> QED
    BY <2>2, <2>3
<1> QED
  BY SessionsInvariant, <1>1, <1>2, PTL DEF SessionsSpec

\* What a session took is past all that was accepted when it started.
Done(t, history) ==
    /\ t.past <= Len(history)
    /\ \A i \in DOMAIN history :
          (history[i].name = t.name /\ i <= t.past) => history[i].to <= t.from

\* So it is for the transactions in flight and for those accepted.
OverlapInv ==
    /\ \A s \in Sessions : inFlight[s] # None => Done(inFlight[s], accepted)
    /\ \A j \in DOMAIN accepted : Done(accepted[j], accepted)

\* What is accepted later does not count.
LEMMA DoneKept ==
    ASSUME AcceptedInv, NEW t, t.past \in Nat, Done(t, accepted),
           NEW u, Executed(u)
    PROVE  Done(t, accepted')
<1>1. /\ Len(accepted) \in Nat /\ Len(accepted') = Len(accepted) + 1
      /\ DOMAIN accepted = 1 .. Len(accepted)
      /\ DOMAIN accepted' = 1 .. Len(accepted) + 1
      /\ \A i \in DOMAIN accepted : accepted'[i] = accepted[i]
  BY HistoryGrows
<1>2. t.past <= Len(accepted) /\ t.past <= Len(accepted')
  BY <1>1 DEF Done
<1>3. ASSUME NEW i \in DOMAIN accepted', accepted'[i].name = t.name, i <= t.past
      PROVE  accepted'[i].to <= t.from
  <2>1. i \in DOMAIN accepted
    BY <1>1, <1>2, <1>3
  <2> QED
    BY <1>1, <1>3, <2>1 DEF Done
<1> QED
  BY <1>2, <1>3 DEF Done

\* A transaction in flight is an entry.
LEMMA PendingEntry ==
    ASSUME SessionsInv, NEW s \in Sessions, inFlight[s] # None
    PROVE  inFlight[s] \in Entry
<1>1. SnapshotIn(inFlight[s], states)
  BY DEF SessionsInv, PendingInv, Pending, FromSnapshot
<1>2. PICK name, st, reads, writes, pops, past :
         /\ name \in Names /\ past \in Nat
         /\ Chained(st)
         /\ Arguments(st, reads, writes, pops)
         /\ inFlight[s] = Submitted(name, st, reads, writes, pops, past)
  BY <1>1 DEF SnapshotIn
<1> QED
  BY <1>2, SubmittedEntry

\* A session takes what is at the head or past it, where all that was accepted is over.
LEMMA RunDone ==
    ASSUME SessionsInv, NEW s \in Sessions, NEW name \in Names, NEW reads, NEW writes,
           NEW pops, RunSession(s, name, reads, writes, pops)
    PROVE  \E t : Done(t, accepted) /\ inFlight' = [inFlight EXCEPT ![s] = t]
<1> DEFINE t == Submitted(name, states[name], reads, writes, pops, Len(accepted))
<1>1. inFlight' = [inFlight EXCEPT ![s] = t]
  BY DEF RunSession, Submitted, Storage
<1>2. t.name = name /\ t.from = QueueHead(states[name]) /\ t.past = Len(accepted)
  BY DEF Submitted
<1>3. /\ Len(accepted) \in Nat
      /\ \A i \in DOMAIN accepted : accepted[i].to <= QueueHead(states[accepted[i].name])
  BY LenProperties DEF SessionsInv, AcceptedInv
<1> HIDE DEF t
<1>4. Done(t, accepted)
  BY <1>2, <1>3 DEF Done
<1> QED
  BY <1>1, <1>4

\* Every step preserves it.
LEMMA OverlapStep ==
    ASSUME SessionsInv, OverlapInv, [SessionsNext]_vars
    PROVE  OverlapInv'
<1> DEFINE Good == /\ \A s \in Sessions : inFlight'[s] # None => Done(inFlight'[s], accepted')
                   /\ \A j \in DOMAIN accepted' : Done(accepted'[j], accepted')
<1>1. /\ inFlight = [s \in Sessions |-> inFlight[s]] /\ AcceptedInv
      /\ accepted \in Seq(Entry)
      /\ \A j \in DOMAIN accepted : accepted[j] \in Entry
      /\ \A s \in Sessions : inFlight[s] # None => Done(inFlight[s], accepted)
      /\ \A j \in DOMAIN accepted : Done(accepted[j], accepted)
  BY DEF SessionsInv, PendingInv, AcceptedInv, OverlapInv
<1>2. ASSUME accepted' = accepted, NEW s \in Sessions, NEW t,
             inFlight' = [inFlight EXCEPT ![s] = t], t # None => Done(t, accepted)
      PROVE  Good
  <2>1. \A q \in Sessions : inFlight'[q] = IF q = s THEN t ELSE inFlight[q]
    BY <1>1, <1>2
  <2> QED
    BY <1>1, <1>2, <2>1
<1>3. ASSUME UNCHANGED <<inFlight, accepted>> PROVE Good
  BY <1>1, <1>3
<1>4. ASSUME NEW s \in Sessions, Execute(s) PROVE Good
  <2> DEFINE u == inFlight[s]
  <2>1. Executed(u) /\ u # None /\ inFlight' = [inFlight EXCEPT ![s] = None]
    BY <1>4, ExecuteExecutes DEF Execute, Pending
  <2>2. Done(u, accepted) /\ u \in Entry
    BY <1>1, <2>1, PendingEntry
  <2> HIDE DEF u
  <2>3. /\ DOMAIN accepted' = 1 .. Len(accepted) + 1 /\ Len(accepted) \in Nat
        /\ DOMAIN accepted = 1 .. Len(accepted)
        /\ \A i \in DOMAIN accepted : accepted'[i] = accepted[i]
        /\ accepted'[Len(accepted) + 1] = u
    BY <1>1, <2>1, HistoryGrows
  <2>4. \A t \in Entry : Done(t, accepted) => Done(t, accepted')
    <3> SUFFICES ASSUME NEW t \in Entry, Done(t, accepted) PROVE Done(t, accepted')
      OBVIOUS
    <3>1. t.past \in Nat
      BY DEF Entry
    <3> QED
      BY <1>1, <2>1, <3>1, DoneKept
  <2>5. ASSUME NEW q \in Sessions, inFlight'[q] # None PROVE Done(inFlight'[q], accepted')
    <3>1. inFlight'[q] = inFlight[q]
      BY <1>1, <2>1, <2>5
    <3>2. inFlight[q] \in Entry /\ Done(inFlight[q], accepted)
      BY <1>1, <2>5, <3>1, PendingEntry
    <3> QED
      BY <2>4, <3>1, <3>2
  <2>6. ASSUME NEW j \in DOMAIN accepted' PROVE Done(accepted'[j], accepted')
    <3>1. CASE j \in DOMAIN accepted
      BY <1>1, <2>3, <2>4, <3>1
    <3>2. CASE j = Len(accepted) + 1
      BY <2>2, <2>3, <2>4, <3>2
    <3> QED
      BY <2>3, <3>1, <3>2
  <2> QED
    BY <2>5, <2>6
<1>5. ASSUME NEW s \in Sessions, NEW name \in Names, NEW reads, NEW writes, NEW pops,
             RunSession(s, name, reads, writes, pops)
      PROVE  Good
  <2>1. accepted' = accepted
    BY <1>5 DEF RunSession
  <2>2. PICK t : Done(t, accepted) /\ inFlight' = [inFlight EXCEPT ![s] = t]
    BY <1>5, RunDone
  <2> HIDE DEF Good
  <2> QED
    BY <1>2, <2>1, <2>2
<1> HIDE DEF Good
<1>6. ASSUME NEW s \in Sessions, Drop(s) PROVE Good
  BY <1>2, <1>6 DEF Drop
<1>7. ASSUME NEW name, NEW data, Claim(name) \/ Push(name, data) PROVE Good
  BY <1>3, <1>7 DEF Claim, Push
<1>8. ASSUME UNCHANGED vars PROVE Good
  BY <1>3, <1>8 DEF vars
<1>9. Good
  BY <1>4, <1>5, <1>6, <1>7, <1>8 DEF SessionsNext
<1>10. OverlapInv' <=> Good
  BY DEF OverlapInv, Good, Done
<1> QED
  BY <1>9, <1>10

\* A message is taken again only by a session that was under way when it was taken:
\* the heads never move back, so what is accepted is over for every later session.
THEOREM TakenOnceInOrder == SessionsSpec => []TakenAgainOnlyByOverlap
<1>1. SessionsInit => OverlapInv
  BY DEF SessionsInit, OverlapInv
<1>2. SessionsInv /\ OverlapInv /\ [SessionsNext]_vars => OverlapInv'
  BY OverlapStep
<1>3. SessionsInv /\ OverlapInv => TakenAgainOnlyByOverlap
  <2> SUFFICES ASSUME SessionsInv, OverlapInv,
                      NEW i \in DOMAIN accepted, NEW j \in DOMAIN accepted,
                      accepted[i].name = accepted[j].name, i <= accepted[j].past
               PROVE  (accepted[i].from .. accepted[i].to - 1)
                      \cap (accepted[j].from .. accepted[j].to - 1) = {}
    BY DEF TakenAgainOnlyByOverlap
  <2>1. accepted[i] \in Entry /\ accepted[j] \in Entry
    BY DEF SessionsInv, AcceptedInv
  <2>2. /\ accepted[i].from \in Nat /\ accepted[i].to \in Nat
        /\ accepted[j].from \in Nat /\ accepted[j].to \in Nat
    BY <2>1 DEF Entry
  <2>3. accepted[i].to <= accepted[j].from
    BY DEF OverlapInv, Done
  <2> QED
    BY <2>2, <2>3
<1> QED
  BY SessionsInvariant, <1>1, <1>2, <1>3, PTL DEF SessionsSpec
=============================================================================
