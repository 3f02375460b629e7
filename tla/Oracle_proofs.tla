---------------------------- MODULE Oracle_proofs ----------------------------
(***************************************************************************)
(* Proofs about Oracle, for every set of users, names, feeds, sources and  *)
(* transactions, and every capacity: the requests the oracle records, the  *)
(* messages the anchor queues and the answers in FeedData stay tied to     *)
(* each other, and the three pallets implement the anchor's queue.         *)
(***************************************************************************)
EXTENDS Oracle, Anchor_proofs

\* The registry's and the oracle's storage.
OracleTypeOK ==
    /\ apiFeeds \in [Users -> [FeedKeys -> ApiFeed \cup {Absent}]]
    /\ block \in Blocks
    /\ feedRequests \in [Blocks -> Request \cup {Absent}]
    /\ DOMAIN feedData = Accounts
    /\ pushed \in [Names -> Seq(Payloads)]

\* The bytes of a message that asks for some request.
Requested == {Encoding[x] : x \in Blocks \X Sources}

\* The queue holds the end of what was pushed, each message in the slot of its number.
QueueIsPushed ==
    \A n \in Names :
        /\ QueueTail(states[n]) = Len(pushed[n])
        /\ \A i \in Slots :
              QueueHead(states[n]) <= i /\ i < QueueTail(states[n])
                  => states[n][i] = pushed[n][i + 1]

\* Every message asks for a request that is recorded.
PushedRecorded ==
    \A n \in Names : \A i \in DOMAIN pushed[n] :
        /\ pushed[n][i] \in Requested
        /\ feedRequests[IdOf(pushed[n][i])] # Absent

\* A recorded request holds its own id.
RequestsKnowId ==
    \A id \in Blocks :
        feedRequests[id] # Absent => IdOf(feedRequests[id].data) = id

\* The inductive invariant.
OracleInv ==
    /\ AnchorInv
    /\ OracleTypeOK
    /\ QueueIsPushed
    /\ PushedRecorded
    /\ RequestsKnowId
    /\ NoOrphanRequest
    /\ TakenMeansAnswered

\* The bytes of a message determine its id.
LEMMA IdOfEncoding ==
    ASSUME NEW id \in Blocks, NEW source \in Sources
    PROVE  /\ Encoding[<<id, source>>] \in Requested
           /\ Encoding[<<id, source>>] \in Payloads
           /\ IdOf(Encoding[<<id, source>>]) = id
<1> DEFINE data == Encoding[<<id, source>>]
<1>1. <<id, source>> \in Blocks \X Sources
  OBVIOUS
<1>2. data \in Requested /\ data \in Payloads
  BY <1>1, OracleAssumption DEF Requested
<1>3. \E s \in Sources : Encoding[<<id, s>>] = data
  OBVIOUS
<1>4. ASSUME NEW j \in Blocks, NEW s \in Sources, Encoding[<<j, s>>] = data
      PROVE  j = id
  <2>1. <<j, s>> \in Blocks \X Sources
    OBVIOUS
  <2>2. <<j, s>> = <<id, source>>
    BY <1>1, <1>4, <2>1, OracleAssumption
  <2> QED BY <2>2
<1>5. IdOf(data) = id
  BY <1>3, <1>4 DEF IdOf
<1> QED BY <1>2, <1>5

\* So every message has one.
LEMMA IdOfRequested ==
    ASSUME NEW data \in Requested
    PROVE  IdOf(data) \in Blocks
<1>1. PICK id \in Blocks, s \in Sources : data = Encoding[<<id, s>>]
  BY DEF Requested
<1> QED BY <1>1, IdOfEncoding

\* Heads, tails and lengths of the queues.
LEMMA QueueFacts ==
    ASSUME AnchorInv, NEW n \in Names
    PROVE  /\ states[n] \in Store /\ GoodQueue(states[n])
           /\ QueueHead(states[n]) \in Slots /\ QueueTail(states[n]) \in Slots
           /\ QueueHead(states[n]) \in Nat /\ QueueTail(states[n]) \in Nat
           /\ QueueHead(states[n]) <= QueueTail(states[n])
           /\ submitterByNames[n] = None => QueueHead(states[n]) = 0
<1>1. states[n] \in Store /\ GoodQueue(states[n])
  BY DEF AnchorInv, TypeOK, QueueIntact, GoodQueue
<1>2. QueueHead(states[n]) \in Slots /\ QueueTail(states[n]) \in Slots
  BY <1>1, QueueIndices DEF GoodQueue, QueueBounded
<1>3. QueueHead(states[n]) \in Nat /\ QueueTail(states[n]) \in Nat
  BY <1>2, ConstantsAssumption DEF Slots
<1>4. QueueHead(states[n]) <= QueueTail(states[n])
  BY <1>1 DEF GoodQueue, QueueBounded
<1>5. submitterByNames[n] = None => QueueTail(states[n]) = 0
  BY DEF AnchorInv, QueueIntact
<1> QED BY <1>1, <1>2, <1>3, <1>4, <1>5

\* A queued message is one that was pushed.
LEMMA QueuedWasPushed ==
    ASSUME OracleInv, NEW n \in Names, NEW data \in QueuedMessages(n)
    PROVE  \E i \in DOMAIN pushed[n] : data = pushed[n][i]
<1>1. PICK i \in QueueHead(states[n]) .. QueueTail(states[n]) - 1 : data = states[n][i]
  BY DEF QueuedMessages
<1>2. /\ QueueHead(states[n]) \in Nat /\ QueueTail(states[n]) \in Slots
      /\ QueueTail(states[n]) \in Nat
  BY QueueFacts DEF OracleInv
<1>3. i \in Slots /\ i \in Nat /\ i < QueueTail(states[n]) /\ QueueHead(states[n]) <= i
  BY <1>2, ConstantsAssumption DEF Slots
<1>4. data = pushed[n][i + 1] /\ QueueTail(states[n]) = Len(pushed[n])
  BY <1>1, <1>3 DEF OracleInv, QueueIsPushed
<1>5. i + 1 \in DOMAIN pushed[n]
  BY <1>2, <1>3, <1>4 DEF OracleInv, OracleTypeOK
<1> QED BY <1>4, <1>5

\* The initial state satisfies the invariant.
LEMMA OracleInitInv == OracleInit => OracleInv
<1> SUFFICES ASSUME OracleInit PROVE OracleInv
  OBVIOUS
<1>1. AnchorInv
  BY AnchorInitInv DEF OracleInit
<1>2. OracleTypeOK
  BY RegistryAssumption DEF OracleInit, RegistryInit, OracleTypeOK, Blocks
<1>3. ASSUME NEW n \in Names
      PROVE  QueueHead(states[n]) = 0 /\ QueueTail(states[n]) = 0
  BY KeyFacts DEF OracleInit, Init, QueueHead, QueueTail, QueueGetU32
<1>4. QueueIsPushed
  BY <1>3, ConstantsAssumption DEF OracleInit, QueueIsPushed, Slots
<1>5. PushedRecorded /\ RequestsKnowId /\ NoOrphanRequest
  BY DEF OracleInit, PushedRecorded, RequestsKnowId, NoOrphanRequest
<1>6. TakenMeansAnswered
  BY <1>3 DEF TakenMeansAnswered
<1> QED BY <1>1, <1>2, <1>4, <1>5, <1>6 DEF OracleInv
-----------------------------------------------------------------------------
(* The steps.                                                              *)

\* A step that leaves the anchor and the oracle alone.
LEMMA RegistryKeepsInv ==
    ASSUME OracleInv, apiFeeds' \in [Users -> [FeedKeys -> ApiFeed \cup {Absent}]],
           block' \in Blocks, UNCHANGED <<anchorVars, oracleVars>>
    PROVE  OracleInv'
<1>1. /\ submitterByNames' = submitterByNames /\ states' = states /\ trapped' = trapped
      /\ feedRequests' = feedRequests /\ feedData' = feedData /\ pushed' = pushed
  BY DEF anchorVars, oracleVars
<1>2. AnchorInv'
  BY <1>1 DEF OracleInv, AnchorInv, TypeOK, QueueIntact, QueueNeverTraps
<1>3. OracleTypeOK'
  BY <1>1 DEF OracleInv, OracleTypeOK
<1>4. QueueIsPushed' /\ PushedRecorded' /\ RequestsKnowId' /\ NoOrphanRequest'
  BY <1>1 DEF OracleInv, QueueIsPushed, PushedRecorded, RequestsKnowId, NoOrphanRequest
<1>5. TakenMeansAnswered'
  BY <1>1 DEF OracleInv, TakenMeansAnswered
<1> QED BY <1>2, <1>3, <1>4, <1>5 DEF OracleInv

\* claim_name: the new owner's queue is empty.
LEMMA ClaimKeepsInv ==
    ASSUME OracleInv, NEW who \in Accounts, NEW name \in Names, Claim(who, name)
    PROVE  OracleInv'
<1>1. /\ ClaimName(who, name) /\ submitterByNames[name] = None
      /\ submitterByNames' = [submitterByNames EXCEPT ![name] = who] /\ states' = states
      /\ feedRequests' = feedRequests /\ feedData' = feedData /\ pushed' = pushed
      /\ apiFeeds' = apiFeeds /\ block' = block
  BY DEF Claim, ClaimName, oracleVars
<1>2. AnchorInv'
  <2>1. [Next]_anchorVars
    BY <1>1 DEF Next
  <2>2. TypeOK'
    BY <2>1, TypeStep DEF OracleInv, AnchorInv
  <2> QED BY <2>1, <2>2, AnchorInvStep, OracleAssumption DEF OracleInv
<1>3. OracleTypeOK'
  BY <1>1 DEF OracleInv, OracleTypeOK
<1>4. QueueIsPushed' /\ PushedRecorded' /\ RequestsKnowId' /\ NoOrphanRequest'
  BY <1>1 DEF OracleInv, QueueIsPushed, PushedRecorded, RequestsKnowId, NoOrphanRequest
<1>5. TakenMeansAnswered'
  <2> SUFFICES ASSUME NEW n \in Names, NEW i \in 1 .. QueueHead(states[n])
               PROVE  \E r \in DOMAIN feedData[submitterByNames'[n]] :
                        IdOf(r.data) = IdOf(pushed[n][i])
    BY <1>1 DEF TakenMeansAnswered
  <2>1. submitterByNames[n] # None
    BY QueueFacts DEF OracleInv
  <2>2. submitterByNames'[n] = submitterByNames[n]
    BY <1>1, <2>1 DEF OracleInv, AnchorInv, TypeOK
  <2> QED BY <2>2 DEF OracleInv, TakenMeansAnswered
<1> QED BY <1>2, <1>3, <1>4, <1>5 DEF OracleInv

\* What push_message does to the queues.
LEMMA PushStep ==
    ASSUME AnchorInv, NEW name \in Names, NEW data \in Payloads, BelowWrap(name),
           PushMessage(name, data)
    PROVE  /\ submitterByNames' = submitterByNames
           /\ \A n \in Names : QueueHead(states'[n]) = QueueHead(states[n])
           /\ \A n \in Names : n # name => states'[n] = states[n]
           /\ QueueTail(states'[name]) = QueueTail(states[name]) + 1
           /\ \A i \in Slots :
                 states'[name][i] = IF i = QueueTail(states[name]) THEN data
                                    ELSE states[name][i]
<1> DEFINE st == states[name]
<1>1. st \in Store /\ GoodQueue(st) /\ QueueTail(st) \in Slots
  BY QueueFacts
<1>2. QueueDecodes(st)
  BY <1>1 DEF GoodQueue, QueueBounded
<1>3. /\ QueueLen(st) < QueueCapacity
      /\ states' = [states EXCEPT ![name] = Enqueued(st, data)]
      /\ submitterByNames' = submitterByNames
  BY <1>2 DEF PushMessage
<1>4. states'[name] = Enqueued(st, data) /\ \A n \in Names : n # name => states'[n] = states[n]
  BY <1>3 DEF AnchorInv, TypeOK
<1>5. /\ QueueHead(Enqueued(st, data)) = QueueHead(st)
      /\ QueueTail(Enqueued(st, data)) = QueueTail(st) + 1
  BY <1>1, <1>3, EnqueuedQueue DEF BelowWrap
<1>6. \A i \in Slots : Enqueued(st, data)[i] = IF i = QueueTail(st) THEN data ELSE st[i]
  BY <1>1, KeyFacts DEF Enqueued, Store
<1> QED BY <1>3, <1>4, <1>5, <1>6

\* request: the message that is pushed asks for the request that is recorded.
LEMMA RequestKeepsInv ==
    ASSUME OracleInv, NEW who \in Users, NEW key \in FeedKeys, NEW nonce \in Nonces,
           MakeRequest(who, key, nonce)
    PROVE  OracleInv'
<1> DEFINE source == apiFeeds[who][key].source
           data   == Encoding[<<block, source>>]
           new    == [key |-> key, caller |-> who, nonce |-> nonce, data |-> data]
<1>1. PICK name \in Names :
        /\ IsActive(who, key) /\ BelowWrap(name) /\ PushMessage(name, data)
        /\ feedRequests' = [feedRequests EXCEPT ![block] = new]
        /\ pushed' = [pushed EXCEPT ![name] = Append(@, data)]
        /\ apiFeeds' = apiFeeds /\ block' = block /\ feedData' = feedData
  BY DEF MakeRequest, RequestId, Recorded
<1>2. block \in Blocks /\ source \in Sources
  <2>1. apiFeeds[who][key] \in ApiFeed
    BY <1>1 DEF OracleInv, OracleTypeOK, IsActive
  <2> QED BY <2>1 DEF OracleInv, OracleTypeOK, ApiFeed
<1>3. data \in Requested /\ data \in Payloads /\ IdOf(data) = block
  BY <1>2, IdOfEncoding
<1> HIDE DEF data, source
<1>4. new \in Request /\ new.data = data
  BY <1>3 DEF Request
<1> HIDE DEF new
<1>5. AnchorInv'
  <2>1. [Next]_anchorVars
    BY <1>1, <1>3 DEF Next
  <2>2. TypeOK'
    BY <2>1, TypeStep DEF OracleInv, AnchorInv
  <2> QED BY <2>1, <2>2, AnchorInvStep, OracleAssumption DEF OracleInv
<1>6. /\ submitterByNames' = submitterByNames
      /\ \A n \in Names : QueueHead(states'[n]) = QueueHead(states[n])
      /\ \A n \in Names : n # name => states'[n] = states[n]
      /\ QueueTail(states'[name]) = QueueTail(states[name]) + 1
      /\ \A i \in Slots :
            states'[name][i] = IF i = QueueTail(states[name]) THEN data ELSE states[name][i]
  BY <1>1, <1>3, PushStep DEF OracleInv
<1>7. /\ pushed \in [Names -> Seq(Payloads)] /\ pushed' \in [Names -> Seq(Payloads)]
      /\ \A n \in Names : n # name => pushed'[n] = pushed[n]
      /\ Len(pushed'[name]) = Len(pushed[name]) + 1
      /\ \A i \in DOMAIN pushed[name] : pushed'[name][i] = pushed[name][i]
      /\ pushed'[name][Len(pushed[name]) + 1] = data
      /\ DOMAIN pushed'[name] = 1 .. Len(pushed[name]) + 1
      /\ DOMAIN pushed[name] = 1 .. Len(pushed[name]) /\ Len(pushed[name]) \in Nat
  <2>1. pushed \in [Names -> Seq(Payloads)]
    BY DEF OracleInv, OracleTypeOK
  <2>2. pushed'[name] = Append(pushed[name], data) /\ pushed[name] \in Seq(Payloads)
    BY <1>1, <2>1
  <2>3. Append(pushed[name], data) \in Seq(Payloads)
    BY <1>3, <2>2
  <2> QED BY <1>1, <1>3, <2>1, <2>2, <2>3
<1>8. feedRequests \in [Blocks -> Request \cup {Absent}]
  BY DEF OracleInv, OracleTypeOK
<1>9. \A id \in Blocks : feedRequests'[id] = IF id = block THEN new ELSE feedRequests[id]
  BY <1>1, <1>2, <1>8
<1>10. OracleTypeOK'
  BY <1>1, <1>2, <1>4, <1>7, <1>8 DEF OracleInv, OracleTypeOK
<1>11. QueueIsPushed'
  <2> SUFFICES ASSUME NEW n \in Names
               PROVE  /\ QueueTail(states'[n]) = Len(pushed'[n])
                      /\ \A i \in Slots :
                           QueueHead(states'[n]) <= i /\ i < QueueTail(states'[n])
                             => states'[n][i] = pushed'[n][i + 1]
    BY DEF QueueIsPushed
  <2>1. /\ QueueTail(states[n]) = Len(pushed[n])
        /\ \A i \in Slots : QueueHead(states[n]) <= i /\ i < QueueTail(states[n])
               => states[n][i] = pushed[n][i + 1]
    BY DEF OracleInv, QueueIsPushed
  <2>2. CASE n # name
    BY <1>6, <1>7, <2>1, <2>2
  <2>3. CASE n = name
    <3>0. /\ QueueHead(states'[n]) = QueueHead(states[n])
          /\ QueueTail(states[n]) = Len(pushed[n]) /\ Len(pushed[n]) \in Nat
          /\ QueueTail(states'[n]) = Len(pushed[n]) + 1
      BY <1>6, <1>7, <2>1, <2>3
    <3>1. QueueTail(states'[n]) = Len(pushed'[n])
      BY <1>7, <2>3, <3>0
    <3>2. ASSUME NEW i \in Slots, QueueHead(states'[n]) <= i, i < QueueTail(states'[n])
          PROVE  states'[n][i] = pushed'[n][i + 1]
      <4>1. i \in Nat
        BY ConstantsAssumption DEF Slots
      <4>2. CASE i = Len(pushed[n])
        BY <1>6, <1>7, <2>1, <2>3, <4>2
      <4>3. CASE i < Len(pushed[n])
        <5>1. QueueHead(states[n]) <= i /\ i < QueueTail(states[n]) /\ i # QueueTail(states[n])
          BY <3>0, <3>2, <4>1, <4>3
        <5>2. states'[n][i] = pushed[n][i + 1]
          BY <1>6, <2>1, <2>3, <5>1
        <5>3. i + 1 \in DOMAIN pushed[n]
          BY <1>7, <2>3, <4>1, <4>3
        <5> QED BY <1>7, <2>3, <5>2, <5>3
      <4>4. i = Len(pushed[n]) \/ i < Len(pushed[n])
        BY <3>0, <3>2, <4>1
      <4> QED BY <4>2, <4>3, <4>4
    <3> QED BY <3>1, <3>2
  <2> QED BY <2>2, <2>3
<1>12. new # Absent
  BY <1>4, OracleAssumption
<1>13. PushedRecorded'
  <2> SUFFICES ASSUME NEW n \in Names, NEW i \in DOMAIN pushed'[n]
               PROVE  /\ pushed'[n][i] \in Requested
                      /\ feedRequests'[IdOf(pushed'[n][i])] # Absent
    BY DEF PushedRecorded
  <2>1. CASE i \in DOMAIN pushed[n]
    <3>1. pushed'[n][i] = pushed[n][i]
      BY <1>7, <2>1
    <3>2. pushed[n][i] \in Requested /\ feedRequests[IdOf(pushed[n][i])] # Absent
      BY <2>1 DEF OracleInv, PushedRecorded
    <3>3. IdOf(pushed[n][i]) \in Blocks
      BY <3>2, IdOfRequested
    <3> QED BY <1>9, <1>12, <3>1, <3>2, <3>3
  <2>2. CASE i \notin DOMAIN pushed[n]
    <3>1. n = name /\ i = Len(pushed[n]) + 1
      BY <1>7, <2>2
    <3> QED BY <1>2, <1>3, <1>7, <1>9, <1>12, <3>1
  <2> QED BY <2>1, <2>2
<1>14. RequestsKnowId'
  BY <1>3, <1>4, <1>9 DEF OracleInv, RequestsKnowId
<1>15. NoOrphanRequest'
  <2> SUFFICES ASSUME NEW id \in Blocks, feedRequests'[id] # Absent
               PROVE  \E n \in Names : \E i \in DOMAIN pushed'[n] :
                        pushed'[n][i] = feedRequests'[id].data
    BY DEF NoOrphanRequest
  <2>1. CASE id = block
    <3>1. /\ Len(pushed[name]) + 1 \in DOMAIN pushed'[name]
          /\ pushed'[name][Len(pushed[name]) + 1] = feedRequests'[id].data
      BY <1>4, <1>7, <1>9, <2>1
    <3> QED BY <3>1
  <2>2. CASE id # block
    <3>1. PICK n \in Names : \E i \in DOMAIN pushed[n] :
            pushed[n][i] = feedRequests[id].data
      BY <1>9, <2>2 DEF OracleInv, NoOrphanRequest
    <3>2. PICK i \in DOMAIN pushed[n] : pushed[n][i] = feedRequests[id].data
      BY <3>1
    <3>3. i \in DOMAIN pushed'[n] /\ pushed'[n][i] = pushed[n][i]
      <4>1. CASE n = name
        BY <1>7, <4>1
      <4>2. CASE n # name
        BY <1>7, <4>2
      <4> QED BY <4>1, <4>2
    <3> QED BY <1>9, <2>2, <3>2, <3>3
  <2> QED BY <2>1, <2>2
<1>16. TakenMeansAnswered'
  <2> SUFFICES ASSUME NEW n \in Names, NEW i \in 1 .. QueueHead(states[n])
               PROVE  \E r \in DOMAIN feedData[submitterByNames[n]] :
                        IdOf(r.data) = IdOf(pushed'[n][i])
    BY <1>1, <1>6 DEF TakenMeansAnswered
  <2>1. i \in DOMAIN pushed[n]
    <3>1. /\ QueueHead(states[n]) \in Nat /\ QueueTail(states[n]) \in Nat
          /\ QueueHead(states[n]) <= QueueTail(states[n])
      BY QueueFacts DEF OracleInv
    <3>2. QueueTail(states[n]) = Len(pushed[n])
      BY DEF OracleInv, QueueIsPushed
    <3> QED BY <1>7, <3>1, <3>2
  <2>2. pushed'[n][i] = pushed[n][i]
    BY <1>7, <2>1
  <2> QED BY <2>2 DEF OracleInv, TakenMeansAnswered
<1> QED BY <1>5, <1>10, <1>11, <1>13, <1>14, <1>15, <1>16 DEF OracleInv

\* What a rollup does to the queue of its name: it takes messages from the front, up to
\* one of the heads it sets.
LEMMA RollupStep ==
    ASSUME AnchorInv, NEW who \in Accounts, NEW name \in Names, NEW tx \in Txs,
           Rollup(who, name, tx)
    PROVE  /\ submitterByNames' = submitterByNames /\ submitterByNames[name] = who
           /\ \A n \in Names : n # name => states'[n] = states[n]
           /\ QueueTail(states'[name]) = QueueTail(states[name])
           /\ QueueHead(states[name]) <= QueueHead(states'[name])
           /\ \A i \in Slots : QueueHead(states'[name]) <= i
                                => states'[name][i] = states[name][i]
           /\ \/ QueueHead(states'[name]) = QueueHead(states[name])
              \/ \E h \in HeadSets(tx.actions) : QueueHead(states'[name]) = tx.actions[h].head
<1> DEFINE old == states[name]
           st  == Updated(old, tx.updates)
<1>1. /\ tx \in RollupTx /\ RespectsQueue(tx) /\ old \in Store /\ GoodQueue(old)
      /\ states \in [Names -> Store]
  BY QueueFacts, ConstantsAssumption, OracleAssumption DEF AnchorInv, TypeOK
<1>2. st \in Store
  BY <1>1, UpdatedStore
<1>3. GoodQueue(st) /\ QueueHead(st) = QueueHead(old) /\ QueueTail(st) = QueueTail(old)
  BY <1>1, UpdatedQueue
<1>4. \A i \in Slots : st[i] = old[i]
  BY <1>1 DEF RespectsQueue, Updated, QueueKeys, Keys
<1>5. /\ submitterByNames' = submitterByNames /\ submitterByNames[name] = who
  BY DEF Rollup
<1>6. ~ ActionsTrap(st, tx.actions)
  BY <1>3 DEF ActionsTrap, GoodQueue, QueueBounded
<1>7. /\ ActionsAccepted(st, tx.actions)
      /\ \/ states' = [states EXCEPT ![name] = st]
         \/ \E i \in HeadSets(tx.actions) :
               states' = [states EXCEPT ![name] = Popped(st, tx.actions[i].head)]
  BY <1>6 DEF Rollup
<1>8. QueueHead(old) \in Int /\ QueueTail(old) \in Int
  BY QueueFacts
<1> HIDE DEF st
<1>9. CASE states' = [states EXCEPT ![name] = st]
  <2>1. states'[name] = st /\ \A n \in Names : n # name => states'[n] = states[n]
    BY <1>1, <1>9
  <2> QED BY <1>3, <1>4, <1>5, <1>8, <2>1
<1>10. ASSUME NEW h \in HeadSets(tx.actions),
              states' = [states EXCEPT ![name] = Popped(st, tx.actions[h].head)]
       PROVE  /\ \A n \in Names : n # name => states'[n] = states[n]
              /\ QueueTail(states'[name]) = QueueTail(old)
              /\ QueueHead(old) <= QueueHead(states'[name])
              /\ \A i \in Slots : QueueHead(states'[name]) <= i => states'[name][i] = old[i]
              /\ QueueHead(states'[name]) = tx.actions[h].head
  <2> DEFINE x == tx.actions[h].head
  <2>1. x \in Slots /\ QueueHead(st) <= x /\ x <= QueueTail(st)
    BY <1>1, <1>7, HeadSetIndex DEF ActionsAccepted
  <2> HIDE DEF x
  <2>2. QueueHead(Popped(st, x)) = x /\ QueueTail(Popped(st, x)) = QueueTail(st)
    BY <1>2, <1>3, <2>1, PoppedQueue
  <2>3. ASSUME NEW i \in Slots, x <= i PROVE Popped(st, x)[i] = st[i]
    <3>1. i \in Int /\ x \in Int /\ ~ (i < x)
      BY <2>1, <2>3, ConstantsAssumption DEF Slots
    <3> QED BY <3>1, KeyFacts DEF Popped
  <2>4. states'[name] = Popped(st, x) /\ \A n \in Names : n # name => states'[n] = states[n]
    BY <1>1, <1>10 DEF x
  <2> QED BY <1>3, <1>4, <2>1, <2>2, <2>3, <2>4 DEF x
<1> QED BY <1>5, <1>7, <1>9, <1>10

\* The answers of a rollup are stored under the requests they name, beside the old ones.
LEMMA AnsweredDomain ==
    ASSUME NEW old, NEW actions, NEW j \in ReplySet(actions)
    PROVE  /\ feedRequests[actions[j].data.id] \in DOMAIN Answered(old, actions)
           /\ DOMAIN old \subseteq DOMAIN Answered(old, actions)
BY DEF Answered

\* Without replies the old answers stay.
LEMMA AnsweredKeeps ==
    ASSUME NEW old, NEW actions
    PROVE  DOMAIN old \subseteq DOMAIN Answered(old, actions)
BY DEF Answered

\* rollup: what leaves the queue is answered in the same step.
LEMMA ResponsesKeepInv ==
    ASSUME OracleInv, NEW who \in Accounts, NEW name \in Names, NEW tx \in Txs,
           AnswersWhatItTakes(name, tx), RollupResponses(who, name, tx)
    PROVE  OracleInv'
<1>1. /\ Rollup(who, name, tx)
      /\ \A i \in ReplySet(tx.actions) : ResponseAccepted(name, tx.actions[i].data)
      /\ feedData' = [feedData EXCEPT ![who] = Answered(@, tx.actions)]
      /\ apiFeeds' = apiFeeds /\ block' = block /\ feedRequests' = feedRequests
      /\ pushed' = pushed
  BY DEF RollupResponses
<1>2. AnchorInv'
  <2>1. [Next]_anchorVars
    BY <1>1 DEF Next
  <2>2. TypeOK'
    BY <2>1, TypeStep DEF OracleInv, AnchorInv
  <2> QED BY <2>1, <2>2, AnchorInvStep, OracleAssumption DEF OracleInv
<1>3. /\ submitterByNames' = submitterByNames /\ submitterByNames[name] = who
      /\ \A n \in Names : n # name => states'[n] = states[n]
      /\ QueueTail(states'[name]) = QueueTail(states[name])
      /\ QueueHead(states[name]) <= QueueHead(states'[name])
      /\ \A i \in Slots : QueueHead(states'[name]) <= i
                           => states'[name][i] = states[name][i]
      /\ \/ QueueHead(states'[name]) = QueueHead(states[name])
         \/ \E h \in HeadSets(tx.actions) : QueueHead(states'[name]) = tx.actions[h].head
  BY <1>1, RollupStep DEF OracleInv
<1>4. /\ QueueHead(states[name]) \in Nat /\ QueueTail(states[name]) \in Nat
      /\ QueueTail(states[name]) \in Slots
      /\ QueueHead(states'[name]) \in Nat
      /\ QueueHead(states'[name]) <= QueueTail(states[name])
  <2>1. QueueHead(states'[name]) \in Nat /\ QueueHead(states'[name]) <= QueueTail(states'[name])
    <3>1. states'[name] \in Store /\ QueueBounded(states'[name])
      BY <1>2 DEF AnchorInv, TypeOK, QueueIntact
    <3>2. QueueHead(states'[name]) \in Slots
      BY <3>1, QueueIndices DEF QueueBounded
    <3> QED BY <3>1, <3>2, ConstantsAssumption DEF QueueBounded, Slots
  <2>2. /\ QueueHead(states[name]) \in Nat /\ QueueTail(states[name]) \in Nat
        /\ QueueTail(states[name]) \in Slots
    BY QueueFacts DEF OracleInv
  <2> QED BY <1>3, <2>1, <2>2
<1>5. OracleTypeOK'
  BY <1>1 DEF OracleInv, OracleTypeOK
<1>6. QueueIsPushed'
  <2> SUFFICES ASSUME NEW n \in Names
               PROVE  /\ QueueTail(states'[n]) = Len(pushed[n])
                      /\ \A i \in Slots :
                           QueueHead(states'[n]) <= i /\ i < QueueTail(states'[n])
                             => states'[n][i] = pushed[n][i + 1]
    BY <1>1 DEF QueueIsPushed
  <2>1. /\ QueueTail(states[n]) = Len(pushed[n])
        /\ \A i \in Slots : QueueHead(states[n]) <= i /\ i < QueueTail(states[n])
               => states[n][i] = pushed[n][i + 1]
    BY DEF OracleInv, QueueIsPushed
  <2>2. CASE n # name
    BY <1>3, <2>1, <2>2
  <2>3. CASE n = name
    <3>1. ASSUME NEW i \in Slots, QueueHead(states'[n]) <= i, i < QueueTail(states'[n])
          PROVE  states'[n][i] = pushed[n][i + 1]
      <4>1. i \in Int
        BY ConstantsAssumption DEF Slots
      <4>2. QueueHead(states[n]) <= i /\ i < QueueTail(states[n])
        BY <1>3, <1>4, <2>3, <3>1, <4>1
      <4> QED BY <1>3, <2>1, <2>3, <3>1, <4>2
    <3> QED BY <1>3, <2>1, <2>3, <3>1
  <2> QED BY <2>2, <2>3
<1>7. PushedRecorded' /\ RequestsKnowId' /\ NoOrphanRequest'
  BY <1>1 DEF OracleInv, PushedRecorded, RequestsKnowId, NoOrphanRequest
<1>8. \A a \in Accounts : DOMAIN feedData[a] \subseteq DOMAIN feedData'[a]
  <2>1. /\ DOMAIN feedData = Accounts
        /\ \A a \in Accounts : a # who => feedData'[a] = feedData[a]
        /\ feedData'[who] = Answered(feedData[who], tx.actions)
    BY <1>1 DEF OracleInv, OracleTypeOK
  <2>2. DOMAIN feedData[who] \subseteq DOMAIN Answered(feedData[who], tx.actions)
    BY AnsweredKeeps
  <2> QED BY <2>1, <2>2
<1>9. TakenMeansAnswered'
  <2> SUFFICES ASSUME NEW n \in Names, NEW i \in 1 .. QueueHead(states'[n])
               PROVE  \E r \in DOMAIN feedData'[submitterByNames[n]] :
                        IdOf(r.data) = IdOf(pushed[n][i])
    BY <1>1, <1>3 DEF TakenMeansAnswered
  <2>1. CASE i \in 1 .. QueueHead(states[n])
    <3>1. PICK r \in DOMAIN feedData[submitterByNames[n]] :
            IdOf(r.data) = IdOf(pushed[n][i])
      BY <2>1 DEF OracleInv, TakenMeansAnswered
    <3>2. submitterByNames[n] # None
      BY <2>1, QueueFacts DEF OracleInv
    <3>3. submitterByNames[n] \in Accounts
      BY <3>2 DEF OracleInv, AnchorInv, TypeOK
    <3> QED BY <1>8, <3>1, <3>3
  <2>2. CASE i \notin 1 .. QueueHead(states[n])
    <3>1. n = name
      BY <1>3, <2>2
    <3>2. /\ i \in Nat /\ i - 1 \in Nat /\ QueueHead(states[name]) <= i - 1
          /\ i - 1 < QueueHead(states'[name]) /\ i - 1 < QueueTail(states[name])
      BY <1>4, <2>2, <3>1
    <3>3. i - 1 \in Slots
      BY <1>4, <3>2, ConstantsAssumption DEF Slots
    <3> DEFINE m == states[name][i - 1]
    <3>4. m = pushed[name][i]
      BY <3>2, <3>3 DEF OracleInv, QueueIsPushed
    <3>5. m # None
      <4>1. QueueContiguous(states[name])
        BY DEF OracleInv, AnchorInv, QueueIntact
      <4> QED BY <3>2, <3>3, <4>1 DEF QueueContiguous
    <3>6. PICK h \in HeadSets(tx.actions) : QueueHead(states'[name]) = tx.actions[h].head
      BY <1>3, <1>4, <3>2
    <3>7. PICK j \in ReplySet(tx.actions) :
            tx.actions[j].data \in
              {Garbage} \cup [contract : Names, id : {IdOf(m)}, data : Responses]
      BY <3>2, <3>3, <3>5, <3>6 DEF AnswersWhatItTakes
    <3> HIDE DEF m
    <3>8. /\ tx.actions[j].data \in Response
          /\ feedRequests[tx.actions[j].data.id] # Absent
      BY <1>1 DEF ResponseAccepted
    <3>9. tx.actions[j].data.id = IdOf(m)
      BY <3>7, <3>8, OracleAssumption
    <3>10. IdOf(m) \in Blocks
      BY <3>8, <3>9 DEF Response
    <3> DEFINE r == feedRequests[IdOf(m)]
    <3>11. IdOf(r.data) = IdOf(m)
      BY <3>8, <3>9, <3>10 DEF OracleInv, RequestsKnowId
    <3>12. feedData'[who] = Answered(feedData[who], tx.actions)
      BY <1>1 DEF OracleInv, OracleTypeOK
    <3>13. r \in DOMAIN feedData'[submitterByNames[n]]
      BY <1>3, <3>1, <3>9, <3>12, AnsweredDomain
    <3> QED BY <3>1, <3>4, <3>11, <3>13
  <2> QED BY <2>1, <2>2
<1> QED BY <1>2, <1>5, <1>6, <1>7, <1>9 DEF OracleInv

\* Every step keeps the invariant.
LEMMA OracleNextKeepsInv == OracleInv /\ [OracleNext]_vars => OracleInv'
<1> SUFFICES ASSUME OracleInv, [OracleNext]_vars PROVE OracleInv'
  OBVIOUS
<1>0. apiFeeds \in [Users -> [FeedKeys -> ApiFeed \cup {Absent}]] /\ block \in Blocks
  BY DEF OracleInv, OracleTypeOK
<1>1. ASSUME NEW who \in Users, NEW key \in FeedKeys, NEW source \in Sources,
             Register(who, key, source)
      PROVE  OracleInv'
  <2>1. [started_at |-> block, source |-> source, status |-> "Registered"] \in ApiFeed
    BY <1>0 DEF ApiFeed, Status
  <2> QED BY <1>0, <1>1, <2>1, RegistryKeepsInv DEF Register, RegisterFeed
<1>2. ASSUME NEW who \in Users, NEW key \in FeedKeys, Unregister(who, key)
      PROVE  OracleInv'
  BY <1>0, <1>2, RegistryKeepsInv DEF Unregister, UnregisterFeed
<1>3. ASSUME NEW who \in Users, NEW key \in FeedKeys, NEW status \in RootStatus,
             RootSetsStatus(who, key, status)
      PROVE  OracleInv'
  <2>1. apiFeeds[who][key] \in ApiFeed /\ status \in Status
    BY <1>0, <1>3 DEF RootSetsStatus, SetFeedStatus, RootStatus, Status
  <2>2. [apiFeeds[who][key] EXCEPT !.status = status] \in ApiFeed
    BY <2>1 DEF ApiFeed
  <2>3. apiFeeds' \in [Users -> [FeedKeys -> ApiFeed \cup {Absent}]]
    BY <1>0, <1>3, <2>2 DEF RootSetsStatus, SetFeedStatus
  <2> QED BY <1>0, <1>3, <2>3, RegistryKeepsInv DEF RootSetsStatus, SetFeedStatus
<1>4. CASE NextBlock
  BY <1>0, <1>4, RegistryKeepsInv, RegistryAssumption DEF NextBlock, Blocks
<1>5. CASE UNCHANGED vars
  BY <1>0, <1>5, RegistryKeepsInv DEF vars, anchorVars, oracleVars
<1> QED
  BY <1>1, <1>2, <1>3, <1>4, <1>5, ClaimKeepsInv, RequestKeepsInv, ResponsesKeepInv
  DEF OracleNext

\* The invariant holds of every behaviour.
THEOREM OracleInvariance == OracleSpec => []OracleInv
BY OracleInitInv, OracleNextKeepsInv, PTL DEF OracleSpec

\* A request is recorded only together with a message that was pushed.
THEOREM OracleNoOrphan == OracleSpec => []NoOrphanRequest
<1>1. OracleInv => NoOrphanRequest
  BY DEF OracleInv
<1> QED BY OracleInvariance, <1>1, PTL

\* The request of every queued message is recorded.
THEOREM OracleQueuedRecorded == OracleSpec => []QueuedRequestRecorded
<1>1. ASSUME OracleInv PROVE QueuedRequestRecorded
  BY <1>1, QueuedWasPushed DEF OracleInv, PushedRecorded, QueuedRequestRecorded
<1> QED BY OracleInvariance, <1>1, PTL

\* A message that left the queue was answered, and the answer is kept.
THEOREM OracleTakenAnswered == OracleSpec => []TakenMeansAnswered
<1>1. OracleInv => TakenMeansAnswered
  BY DEF OracleInv
<1> QED BY OracleInvariance, <1>1, PTL

\* Request messages and the oracle's replies use the anchor as the FIFO it promises:
\* the three pallets together still implement RollupQueue.
THEOREM OracleImplementsQueue == OracleSpec => ImplementsQueue
<1>1. OracleInv /\ [OracleNext]_vars => [Queue!Next]_(Queue!vars)
  <2> SUFFICES ASSUME OracleInv, [OracleNext]_vars PROVE [Queue!Next]_(Queue!vars)
    OBVIOUS
  <2>1. AnchorInv /\ TypeOK /\ \A tx \in Txs : tx \in RollupTx /\ RespectsQueue(tx)
    BY ConstantsAssumption, OracleAssumption DEF OracleInv, AnchorInv
  <2>2. ASSUME UNCHANGED anchorVars PROVE [Queue!Next]_(Queue!vars)
    BY <2>2 DEF anchorVars, Queue!vars
  <2>3. ASSUME NEW who \in Accounts, NEW name \in Names, Claim(who, name)
        PROVE  Queue!Next
    BY <2>1, <2>3, ClaimRefines DEF Claim
  <2>4. ASSUME NEW who \in Users, NEW key \in FeedKeys, NEW nonce \in Nonces,
               MakeRequest(who, key, nonce)
        PROVE  Queue!Next
    <3> DEFINE data == Encoding[<<block, apiFeeds[who][key].source>>]
    <3>1. PICK name \in Names :
             IsActive(who, key) /\ BelowWrap(name) /\ PushMessage(name, data)
      BY <2>4 DEF MakeRequest, RequestId
    <3>2. block \in Blocks /\ apiFeeds[who][key].source \in Sources
      <4>1. apiFeeds[who][key] \in ApiFeed
        BY <3>1 DEF OracleInv, OracleTypeOK, IsActive
      <4> QED BY <4>1 DEF OracleInv, OracleTypeOK, ApiFeed
    <3>3. data \in Payloads
      BY <3>2, IdOfEncoding
    <3> HIDE DEF data
    <3> QED BY <2>1, <3>1, <3>3, PushRefines
  <2>5. ASSUME NEW who \in Accounts, NEW name \in Names, NEW tx \in Txs,
               RollupResponses(who, name, tx)
        PROVE  Queue!Next
    BY <2>1, <2>5, RollupRefines DEF RollupResponses
  <2>6. ASSUME NEW who, NEW key, NEW x,
               \/ Register(who, key, x)
               \/ Unregister(who, key)
               \/ RootSetsStatus(who, key, x)
               \/ NextBlock
        PROVE  [Queue!Next]_(Queue!vars)
    BY <2>2, <2>6 DEF Register, Unregister, RootSetsStatus, NextBlock
  <2>7. ASSUME UNCHANGED vars PROVE [Queue!Next]_(Queue!vars)
    BY <2>2, <2>7 DEF vars, anchorVars
  <2> QED
    BY <2>3, <2>4, <2>5, <2>6, <2>7 DEF OracleNext
<1>2. OracleInit => Queue!Init
  BY InitRefines DEF OracleInit
<1> QED BY OracleInvariance, <1>1, <1>2, PTL DEF OracleSpec, ImplementsQueue, Queue!Spec
==============================================================================
