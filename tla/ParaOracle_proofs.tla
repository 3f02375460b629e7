-------------------------- MODULE ParaOracle_proofs --------------------------
(***************************************************************************)
(* Proofs about ParaOracle: its types, at most MaxHasDispatchedSize        *)
(* creators feeding in a block, one feed per creator and block, the median *)
(* within what every majority of the feeders reports and fresh, and every  *)
(* answered query backed by enough feeders.                                *)
(***************************************************************************)
EXTENDS ParaOracle, FiniteSetTheorems, TLAPS

Entry == TimestampedValue \cup {None}

\* The inductive invariant.
Inv == TypeOK /\ FedIsDispatched /\ DispatchedBounded

\* What makes AnswersBacked inductive: every combined value has enough feeders.
ValuesBacked ==
    \A k \in Keys : values[k] # None => Cardinality(Feeders(k)) >= MinimumCount

\* There are finitely many creators.
LEMMA CreatorsFinite == IsFiniteSet(Creators)
BY ParaOracleAssumption, FS_Union DEF Creators

\* The entries of RawValues after a feed.
LEMMA StampedFacts ==
    ASSUME TypeOK, NEW cid \in Creators, NEW list \in FeedLists
    PROVE  /\ Stamped(cid, list) \in [Creators -> [Keys -> Entry]]
           /\ \A c \in Creators, k \in Keys :
                \/ Stamped(cid, list)[c][k] = rawValues[c][k]
                \/ /\ c = cid
                   /\ Stamped(cid, list)[c][k] \in TimestampedValue
                   /\ Stamped(cid, list)[c][k].timestamp = now
<1>1. /\ DOMAIN list \subseteq Keys
      /\ \A k \in DOMAIN list : list[k] \in Prices
  BY DEF FeedLists
<1>2. \A k \in DOMAIN list :
        [value |-> list[k], timestamp |-> now] \in TimestampedValue
  BY <1>1 DEF TypeOK, TimestampedValue
<1> DEFINE row == [k \in Keys |-> IF k \in DOMAIN list
                                  THEN [value |-> list[k], timestamp |-> now]
                                  ELSE rawValues[cid][k]]
<1>3. Stamped(cid, list) = [rawValues EXCEPT ![cid] = row]
  BY DEF Stamped
<1>4. row \in [Keys -> Entry]
  BY <1>2 DEF TypeOK, Entry
<1> HIDE DEF row
<1>5. Stamped(cid, list) \in [Creators -> [Keys -> Entry]]
  BY <1>3, <1>4 DEF TypeOK, Entry
<1>6. \A c \in Creators : c # cid => Stamped(cid, list)[c] = rawValues[c]
  BY <1>3 DEF TypeOK
<1>7. Stamped(cid, list)[cid] = row
  BY <1>3 DEF TypeOK
<1>8. \A k \in Keys : \/ row[k] = rawValues[cid][k]
                      \/ row[k] \in TimestampedValue /\ row[k].timestamp = now
  <2> TAKE k \in Keys
  <2>1. CASE k \in DOMAIN list
    <3>1. row[k] = [value |-> list[k], timestamp |-> now]
      BY <2>1 DEF row
    <3> QED BY <1>2, <2>1, <3>1
  <2>2. CASE k \notin DOMAIN list
    BY <2>2 DEF row
  <2> QED BY <2>1, <2>2
<1> QED BY <1>5, <1>6, <1>7, <1>8

\* A feed keeps the invariant.
LEMMA FeedKeepsInv ==
    ASSUME Inv, NEW cid \in Creators, NEW list \in FeedLists, Feed(cid, list),
           pool' \in [LocalAccounts -> Seq(FeedLists)]
    PROVE  Inv'
<1>1. TypeOK'
  BY StampedFacts DEF Inv, TypeOK, Feed, Entry
<1>2. \A c \in Creators, k \in Keys :
        \/ rawValues'[c][k] = rawValues[c][k]
        \/ c = cid /\ rawValues'[c][k].timestamp = now
  BY StampedFacts DEF Inv, Feed
<1>3. FedIsDispatched'
  <2>1. FedNow' \subseteq hasDispatched'
    BY <1>2 DEF Inv, FedIsDispatched, FedNow, Feed
  <2>2. ASSUME NEW c \in Creators, NEW k \in Keys, rawValues'[c][k] # None
        PROVE  rawValues'[c][k].timestamp <= now'
    <3>1. now' = now /\ now \in Int
      BY DEF Inv, TypeOK, Feed, Times
    <3>2. CASE rawValues'[c][k] = rawValues[c][k]
      BY <3>1, <3>2, <2>2 DEF Inv, FedIsDispatched
    <3>3. CASE rawValues'[c][k].timestamp = now
      BY <3>1, <3>3
    <3> QED BY <1>2, <3>2, <3>3
  <2> QED BY <2>1, <2>2 DEF FedIsDispatched
<1>4. DispatchedBounded'
  <2>1. IsFiniteSet(hasDispatched)
    BY CreatorsFinite, FS_Subset DEF Inv, TypeOK
  <2>2. Cardinality(hasDispatched \cup {cid}) = Cardinality(hasDispatched) + 1
    BY <2>1, FS_AddElement DEF Feed, Inserts
  <2> QED
    BY <2>1, <2>2, FS_CardinalityType, ParaOracleAssumption
       DEF Feed, Inserts, DispatchedBounded
<1> QED BY <1>1, <1>3, <1>4 DEF Inv

\* Every step keeps the invariant.
LEMMA NextKeepsInv == Inv /\ [Next]_vars => Inv'
<1> SUFFICES ASSUME Inv, [Next]_vars PROVE Inv'
  OBVIOUS
<1> USE DEF Inv
<1>1. ASSUME NEW cid \in Creators, NEW key \in Keys,
             DoSubmitApi(cid, key) \/ DoRemoveApi(cid, key)
      PROVE  Inv'
  <2>1. apiFeeds' \subseteq Creators \X Keys
    BY <1>1 DEF DoSubmitApi, DoRemoveApi, TypeOK
  <2> QED
    BY <2>1, <1>1 DEF DoSubmitApi, DoRemoveApi, TypeOK, FedIsDispatched, FedNow,
                      DispatchedBounded
<1>2. ASSUME NEW cid \in Creators, NEW list \in FeedLists,
             Feed(cid, list), pool' = pool
      PROVE  Inv'
  BY <1>2, FeedKeepsInv DEF TypeOK
<1>3. ASSUME NEW a \in LocalAccounts, IncludeFeed(a)
      PROVE  Inv'
  <2>1. /\ Tail(pool[a]) \in Seq(FeedLists)
        /\ Head(pool[a]) \in FeedLists
    BY <1>3 DEF IncludeFeed, TypeOK
  <2>2. pool' \in [LocalAccounts -> Seq(FeedLists)]
    BY <1>3, <2>1 DEF IncludeFeed, TypeOK
  <2>3. a \in Creators
    BY ParaOracleAssumption DEF Creators
  <2>4. CASE Feed(a, Head(pool[a]))
    BY <2>1, <2>2, <2>3, <2>4, FeedKeepsInv
  <2>5. CASE UNCHANGED <<apiFeeds, rawValues, values, hasDispatched, now, answered>>
    BY <2>2, <2>5 DEF TypeOK, FedIsDispatched, FedNow, DispatchedBounded
  <2> QED BY <1>3, <2>4, <2>5 DEF IncludeFeed
<1>4. ASSUME NEW a \in LocalAccounts, DropPool(a)
      PROVE  Inv'
  <2>1. pool' \in [LocalAccounts -> Seq(FeedLists)]
    BY <1>4 DEF DropPool, TypeOK
  <2> QED
    BY <2>1, <1>4 DEF DropPool, TypeOK, FedIsDispatched, FedNow, DispatchedBounded
<1>5. ASSUME NEW list \in FeedLists, NEW submitted \in SUBSET LocalAccounts,
             OffchainWorker(list, submitted)
      PROVE  Inv'
  <2>1. pool' \in [LocalAccounts -> Seq(FeedLists)]
    BY <1>5 DEF OffchainWorker, TypeOK
  <2> QED
    BY <2>1, <1>5 DEF OffchainWorker, TypeOK, FedIsDispatched, FedNow, DispatchedBounded
<1>6. CASE NextBlock
  <2>1. now' \in Times /\ now' > now /\ now \in Times
    BY <1>6 DEF NextBlock, TypeOK
  <2>2. TypeOK'
    BY <1>6, <2>1 DEF NextBlock, TypeOK
  <2>3. ASSUME NEW c \in Creators, NEW k \in Keys, rawValues[c][k] # None
        PROVE  rawValues[c][k].timestamp < now'
    <3>1. rawValues[c][k] \in TimestampedValue
      BY <2>3 DEF TypeOK
    <3>2. rawValues[c][k].timestamp \in Int
      BY <3>1 DEF TimestampedValue, Times
    <3>3. rawValues[c][k].timestamp <= now
      BY <2>3 DEF FedIsDispatched
    <3> QED BY <2>1, <3>2, <3>3 DEF Times
  <2>4. rawValues' = rawValues
    BY <1>6 DEF NextBlock
  <2>5. ASSUME NEW c \in Creators, NEW k \in Keys, rawValues[c][k] # None
        PROVE  /\ rawValues'[c][k].timestamp # now'
               /\ rawValues'[c][k].timestamp <= now'
    <3>1. rawValues[c][k].timestamp \in Int
      BY <2>5 DEF TypeOK, TimestampedValue, Times
    <3> QED BY <3>1, <2>1, <2>3, <2>4, <2>5 DEF Times
  <2>6. FedIsDispatched'
    BY <2>4, <2>5 DEF FedIsDispatched, FedNow
  <2>7. DispatchedBounded'
    BY <1>6, FS_EmptySet, ParaOracleAssumption DEF NextBlock, DispatchedBounded
  <2> QED BY <2>2, <2>6, <2>7
<1>7. ASSUME NEW q \in Paras, NEW key \in Keys, XcmQueryData(q, key)
      PROVE  Inv'
  BY <1>7 DEF XcmQueryData, SendQretToParachain, TypeOK, FedIsDispatched, FedNow, DispatchedBounded
<1>8. CASE UNCHANGED vars
  BY <1>8 DEF vars, TypeOK, FedIsDispatched, FedNow, DispatchedBounded
<1> QED BY <1>1, <1>2, <1>3, <1>4, <1>5, <1>6, <1>7, <1>8
       DEF Next, Creators, SubmitApi, RemoveApi, XcmSubmitApi, XcmRemoveApi, FeedData,
           XcmFeedData

\* The first block satisfies the invariant.
LEMMA InitInv == Init => Inv
<1> SUFFICES ASSUME Init PROVE Inv
  OBVIOUS
<1>1. TypeOK
  BY ParaOracleAssumption DEF Init, TypeOK, Times
<1>2. FedIsDispatched
  BY DEF Init, FedIsDispatched, FedNow
<1>3. DispatchedBounded
  BY FS_EmptySet, ParaOracleAssumption DEF Init, DispatchedBounded
<1> QED BY <1>1, <1>2, <1>3 DEF Inv

\* The invariant holds of every behaviour.
THEOREM Invariance == Spec => []Inv
BY InitInv, NextKeepsInv, PTL DEF Spec

\* The storage of the pallet is well typed in every behaviour.
THEOREM ParaOracleTypes == Spec => []TypeOK
<1>1. Inv => TypeOK
  BY DEF Inv
<1> QED BY Invariance, <1>1, PTL

\* However direct calls, XCM calls and worker transactions interleave, no block
\* takes values of more than MaxHasDispatchedSize creators.
THEOREM FeedersSafe == Spec => []FeedersBounded
<1>1. Inv => FeedersBounded
  <2> SUFFICES ASSUME Inv PROVE FeedersBounded
    OBVIOUS
  <2>1. IsFiniteSet(hasDispatched)
    BY CreatorsFinite, FS_Subset DEF Inv, TypeOK
  <2>2. FedNow \subseteq hasDispatched
    BY DEF Inv, FedIsDispatched
  <2>3. IsFiniteSet(FedNow) /\ Cardinality(FedNow) <= Cardinality(hasDispatched)
    BY <2>1, <2>2, FS_Subset
  <2> QED
    BY <2>1, <2>3, FS_CardinalityType, ParaOracleAssumption
       DEF Inv, DispatchedBounded, FeedersBounded
<1> QED BY Invariance, <1>1, PTL

\* Within a block a creator's value is never replaced.
THEOREM FeedsAreFinal == Spec => OneFeedPerBlock
<1>1. ASSUME Inv, [Next]_vars, NEW c \in Creators, NEW k \in Keys,
             rawValues[c][k] # None, rawValues[c][k].timestamp = now
      PROVE  rawValues'[c][k] = rawValues[c][k]
  <2>1. c \in hasDispatched
    BY <1>1 DEF Inv, FedIsDispatched, FedNow
  <2>2. ASSUME NEW cid \in Creators, NEW list \in FeedLists, Feed(cid, list)
        PROVE  rawValues'[c][k] = rawValues[c][k]
    <3>1. c # cid
      BY <2>1, <2>2 DEF Feed, Inserts
    <3> QED BY <1>1, <2>2, <3>1, StampedFacts DEF Inv, Feed
  <2>3. ASSUME NEW a \in LocalAccounts, IncludeFeed(a)
        PROVE  rawValues'[c][k] = rawValues[c][k]
    <3>1. a \in Creators
      BY ParaOracleAssumption DEF Creators
    <3>2. Head(pool[a]) \in FeedLists
      BY <1>1, <2>3 DEF IncludeFeed, Inv, TypeOK
    <3> QED BY <2>2, <2>3, <3>1, <3>2 DEF IncludeFeed
  <2> QED
    BY <1>1, <2>2, <2>3 DEF Next, Creators, SubmitApi, RemoveApi, XcmSubmitApi,
       XcmRemoveApi, DoSubmitApi, DoRemoveApi, FeedData, XcmFeedData, DropPool,
       OffchainWorker, NextBlock, XcmQueryData, vars
<1>2. Inv /\ [Next]_vars =>
        [\A c \in Creators, k \in Keys :
            /\ rawValues[c][k] # None
            /\ rawValues[c][k].timestamp = now
            => rawValues'[c][k] = rawValues[c][k]]_vars
  BY <1>1
<1> QED BY Invariance, <1>2, PTL DEF Spec, OneFeedPerBlock

\* What select_nth at the middle index returns lies within the range of every
\* majority of the values.
LEMMA MedianWithinMajority ==
    ASSUME NEW raw, NEW k, NEW live, IsFiniteSet(live),
           \A c \in live : raw[c][k].value \in Int,
           NEW x \in Nth(raw, k, live, Cardinality(live) \div 2),
           NEW m \in SUBSET live, 2 * Cardinality(m) > Cardinality(live)
    PROVE  /\ \E c \in m : raw[c][k].value <= x.value
           /\ \E c \in m : raw[c][k].value >= x.value
<1> DEFINE below == {d \in live : raw[d][k].value < x.value}
           upTo  == {d \in live : raw[d][k].value <= x.value}
           n     == Cardinality(live)
<1>1. /\ x.value \in Int
      /\ Cardinality(below) <= n \div 2
      /\ n \div 2 < Cardinality(upTo)
  BY DEF Nth
<1>2. /\ IsFiniteSet(m) /\ IsFiniteSet(below) /\ IsFiniteSet(upTo)
      /\ n \in Nat /\ Cardinality(m) \in Nat
      /\ Cardinality(below) \in Nat /\ Cardinality(upTo) \in Nat
  <2>1. IsFiniteSet(m) /\ IsFiniteSet(below) /\ IsFiniteSet(upTo)
    BY FS_Subset
  <2> QED BY <2>1, FS_CardinalityType
<1>3. \E c \in m : raw[c][k].value <= x.value
  <2> SUFFICES ASSUME \A c \in m : ~(raw[c][k].value <= x.value) PROVE FALSE
    OBVIOUS
  <2>1. m \cap upTo = {} /\ m \cup upTo \subseteq live
    OBVIOUS
  <2>2. Cardinality(m \cup upTo) = Cardinality(m) + Cardinality(upTo)
    <3>1. Cardinality(m \cup upTo) =
            Cardinality(m) + Cardinality(upTo) - Cardinality(m \cap upTo)
      BY <1>2, FS_Union
    <3>2. Cardinality(m \cap upTo) = 0
      BY <2>1, FS_EmptySet
    <3> HIDE DEF upTo
    <3> QED BY <3>1, <3>2, <1>2
  <2>3. Cardinality(m \cup upTo) <= n
    BY <2>1, FS_Subset
  <2> HIDE DEF upTo, n
  <2> QED BY <1>1, <1>2, <2>2, <2>3 DEF n
<1>4. \E c \in m : raw[c][k].value >= x.value
  <2> SUFFICES ASSUME \A c \in m : ~(raw[c][k].value >= x.value) PROVE FALSE
    OBVIOUS
  <2>1. m \subseteq below
    BY <1>1
  <2>2. Cardinality(m) <= Cardinality(below)
    BY <2>1, <1>2, FS_Subset
  <2> HIDE DEF below, n
  <2> QED BY <1>1, <1>2, <2>2 DEF n
<1> QED BY <1>3, <1>4

\* Every new combined value is the median of enough unexpired feeds: it lies in the
\* range of every majority of them, whatever MinimumCount and ExpiresIn are.
THEOREM MedianSafe == Spec => WithinMajorities
<1> DEFINE Good(k) ==
        LET live == Live(rawValues', k)
        IN  /\ Cardinality(live) >= MinimumCount
            /\ \A m \in SUBSET live : 2 * Cardinality(m) > Cardinality(live) =>
                  /\ \E c \in m : rawValues'[c][k].value <= values'[k].value
                  /\ \E c \in m : rawValues'[c][k].value >= values'[k].value
<1>1. ASSUME Inv, NEW cid \in Creators, NEW list \in FeedLists, Feed(cid, list),
             NEW k \in Keys, values'[k] # values[k]
      PROVE  Good(k)
  <2> DEFINE live == Live(rawValues', k)
  <2>1. rawValues' = Stamped(cid, list)
    BY <1>1 DEF Feed
  <2>2. rawValues' \in [Creators -> [Keys -> Entry]]
    BY <1>1, <2>1, StampedFacts DEF Inv
  <2>3. IsFiniteSet(live)
    BY CreatorsFinite, FS_Subset DEF Live
  <2>4. \A c \in live : rawValues'[c][k].value \in Int
    BY <2>2, ParaOracleAssumption DEF Live, Entry, TimestampedValue
  <2>5. values'[k] \in CombineData(rawValues', k, values[k])
    BY <1>1, <2>1 DEF Feed
  <2>6. /\ ~(Cardinality(live) < MinimumCount)
        /\ values'[k] \in Nth(rawValues', k, live, Cardinality(live) \div 2)
    BY <1>1, <2>5 DEF CombineData
  <2>7. Cardinality(live) >= MinimumCount
    BY <2>3, <2>6, FS_CardinalityType, ParaOracleAssumption
  <2> HIDE DEF live
  <2>8. ASSUME NEW m \in SUBSET live, 2 * Cardinality(m) > Cardinality(live)
        PROVE  /\ \E c \in m : rawValues'[c][k].value <= values'[k].value
               /\ \E c \in m : rawValues'[c][k].value >= values'[k].value
    BY <2>3, <2>4, <2>6, <2>8, MedianWithinMajority
  <2> QED BY <2>7, <2>8 DEF live
<1> HIDE DEF Good
<1>2. ASSUME Inv, [Next]_vars, NEW k \in Keys, values'[k] # values[k]
      PROVE  Good(k)
  <2>1. ASSUME NEW a \in LocalAccounts, IncludeFeed(a)
        PROVE  Good(k)
    <3>1. a \in Creators
      BY ParaOracleAssumption DEF Creators
    <3>2. Head(pool[a]) \in FeedLists
      BY <1>2, <2>1 DEF IncludeFeed, Inv, TypeOK
    <3> QED BY <1>1, <1>2, <2>1, <3>1, <3>2 DEF IncludeFeed
  <2> QED
    BY <1>1, <1>2, <2>1 DEF Next, Creators, SubmitApi, RemoveApi, XcmSubmitApi,
       XcmRemoveApi, DoSubmitApi, DoRemoveApi, FeedData, XcmFeedData, DropPool,
       OffchainWorker, NextBlock, XcmQueryData, vars
<1>3. Inv /\ [Next]_vars => [\A k \in Keys : values'[k] # values[k] => Good(k)]_vars
  BY <1>2
<1> QED BY Invariance, <1>3, PTL DEF Spec, WithinMajorities, Good

\* A step that changes a combined value is somebody's feed.
LEMMA OnlyFeedsCombine ==
    ASSUME Inv, [Next]_vars
    PROVE  \/ rawValues' = rawValues /\ values' = values
           \/ \E cid \in Creators, list \in FeedLists : Feed(cid, list)
<1>1. ASSUME NEW a \in LocalAccounts, IncludeFeed(a)
      PROVE  \/ rawValues' = rawValues /\ values' = values
             \/ \E cid \in Creators, list \in FeedLists : Feed(cid, list)
  <2>1. a \in Creators
    BY ParaOracleAssumption DEF Creators
  <2>2. Head(pool[a]) \in FeedLists
    BY <1>1 DEF IncludeFeed, Inv, TypeOK
  <2> QED BY <1>1, <2>1, <2>2 DEF IncludeFeed
<1> QED
  BY <1>1 DEF Next, Creators, SubmitApi, RemoveApi, XcmSubmitApi, XcmRemoveApi,
     DoSubmitApi, DoRemoveApi, FeedData, XcmFeedData, DropPool, OffchainWorker,
     NextBlock, XcmQueryData, vars

\* What a feed combines is an unexpired value, and enough creators have one.
LEMMA CombinedFacts ==
    ASSUME Inv, NEW cid \in Creators, NEW list \in FeedLists, Feed(cid, list),
           NEW k \in Keys, values'[k] # values[k]
    PROVE  /\ Cardinality(Live(rawValues', k)) >= MinimumCount
           /\ \E c \in Live(rawValues', k) : values'[k] = rawValues'[c][k]
<1> DEFINE live == Live(rawValues', k)
<1>1. rawValues' = Stamped(cid, list)
  BY DEF Feed
<1>2. values'[k] \in CombineData(rawValues', k, values[k])
  BY <1>1 DEF Feed
<1>3. /\ ~(Cardinality(live) < MinimumCount)
      /\ values'[k] \in Nth(rawValues', k, live, Cardinality(live) \div 2)
  BY <1>2 DEF CombineData
<1>4. IsFiniteSet(live)
  BY CreatorsFinite, FS_Subset DEF Live
<1>5. Cardinality(live) >= MinimumCount
  BY <1>3, <1>4, FS_CardinalityType, ParaOracleAssumption
<1> HIDE DEF live
<1> QED BY <1>3, <1>5 DEF Nth, live

\* A combined value is unexpired when it is installed, whosever feed installs it and
\* whatever ExpiresIn is.
THEOREM FreshSafe == Spec => CombinedIsFresh
<1>1. ASSUME Inv, [Next]_vars, NEW k \in Keys, values'[k] # values[k]
      PROVE  now < values'[k].timestamp + ExpiresIn
  <2>1. PICK cid \in Creators, list \in FeedLists : Feed(cid, list)
    BY <1>1, OnlyFeedsCombine
  <2>2. PICK c \in Live(rawValues', k) : values'[k] = rawValues'[c][k]
    BY <1>1, <2>1, CombinedFacts
  <2>3. c \in Creators /\ rawValues'[c][k] # None
        /\ rawValues'[c][k].timestamp + ExpiresIn > now
    BY <2>2 DEF Live
  <2>4. rawValues' \in [Creators -> [Keys -> Entry]]
    BY <1>1, <2>1, StampedFacts DEF Inv, Feed
  <2>5. rawValues'[c][k].timestamp \in Int /\ now \in Int
    BY <1>1, <2>3, <2>4 DEF Entry, TimestampedValue, Times, Inv, TypeOK
  <2> QED BY <2>2, <2>3, <2>5, ParaOracleAssumption
<1>2. Inv /\ [Next]_vars =>
        [\A k \in Keys : values'[k] # values[k] =>
            now < values'[k].timestamp + ExpiresIn]_vars
  BY <1>1
<1> QED BY Invariance, <1>2, PTL DEF Spec, CombinedIsFresh

\* Feeders are never lost.
LEMMA FeedersGrow ==
    ASSUME Inv, [Next]_vars, NEW k \in Keys
    PROVE  /\ Feeders(k) \subseteq Feeders(k)'
           /\ IsFiniteSet(Feeders(k)')
           /\ Cardinality(Feeders(k)) <= Cardinality(Feeders(k)')
           /\ Cardinality(Feeders(k)) \in Nat /\ Cardinality(Feeders(k)') \in Nat
<1>1. Feeders(k) \subseteq Feeders(k)'
  <2>1. CASE rawValues' = rawValues
    BY <2>1 DEF Feeders
  <2>2. ASSUME NEW cid \in Creators, NEW list \in FeedLists, Feed(cid, list)
        PROVE  Feeders(k) \subseteq Feeders(k)'
    <3>1. \A c \in Creators : \/ rawValues'[c][k] = rawValues[c][k]
                              \/ rawValues'[c][k] \in TimestampedValue
      BY <2>2, StampedFacts DEF Inv, Feed
    <3> QED BY <3>1, ParaOracleAssumption DEF Feeders
  <2> QED BY <2>1, <2>2, OnlyFeedsCombine
<1>2. IsFiniteSet(Feeders(k)) /\ IsFiniteSet(Feeders(k)')
  BY CreatorsFinite, FS_Subset DEF Feeders
<1> QED BY <1>1, <1>2, FS_Subset, FS_CardinalityType

\* Every step leaves each combined value with enough feeders, and none is taken away.
LEMMA StepKeepsBacked ==
    ASSUME Inv, ValuesBacked, [Next]_vars
    PROVE  /\ ValuesBacked'
           /\ \A k \in Keys : values[k] # None => values'[k] # None
<1>1. ASSUME NEW k \in Keys, values'[k] # values[k]
      PROVE  values'[k] # None /\ Cardinality(Feeders(k)') >= MinimumCount
  <2>1. PICK cid \in Creators, list \in FeedLists : Feed(cid, list)
    BY <1>1, OnlyFeedsCombine
  <2>2. PICK c \in Live(rawValues', k) : values'[k] = rawValues'[c][k]
    BY <1>1, <2>1, CombinedFacts
  <2>3. values'[k] # None
    BY <2>2 DEF Live
  <2>4. Live(rawValues', k) \subseteq Feeders(k)'
    BY DEF Live, Feeders
  <2>5. /\ Cardinality(Live(rawValues', k)) <= Cardinality(Feeders(k)')
        /\ Cardinality(Live(rawValues', k)) \in Nat
    BY <2>4, FeedersGrow, FS_Subset, FS_CardinalityType
  <2> QED
    BY <1>1, <2>1, <2>3, <2>5, CombinedFacts, FeedersGrow, ParaOracleAssumption
<1>2. ASSUME NEW k \in Keys, values'[k] = values[k], values[k] # None
      PROVE  Cardinality(Feeders(k)') >= MinimumCount
  BY <1>2, FeedersGrow, ParaOracleAssumption DEF ValuesBacked
<1> QED BY <1>1, <1>2 DEF ValuesBacked

\* Whatever expires or is removed, a query that was answered has been answered with a
\* value of at least MinimumCount creators, and the next one will be answered too.
THEOREM AnswersSafe == Spec => []AnswersBacked
<1> DEFINE J == Inv /\ ValuesBacked /\ AnswersBacked
<1>1. Init => J
  BY InitInv DEF Init, ValuesBacked, AnswersBacked
<1>2. J /\ [Next]_vars => J'
  <2> SUFFICES ASSUME J, [Next]_vars PROVE J'
    OBVIOUS
  <2>1. Inv' /\ ValuesBacked' /\ \A k \in Keys : values[k] # None => values'[k] # None
    BY NextKeepsInv, StepKeepsBacked
  <2>2. \A q \in answered' : q[2] \in Keys /\ values[q[2]] # None
    <3>1. \A q \in answered : q[2] \in Keys /\ values[q[2]] # None
      BY DEF Inv, TypeOK, AnswersBacked
    <3>2. ASSUME NEW p \in Paras, NEW key \in Keys, XcmQueryData(p, key)
          PROVE  \A q \in answered' : q[2] \in Keys /\ values[q[2]] # None
      BY <3>1, <3>2 DEF XcmQueryData, SendQretToParachain
    <3>3. CASE answered' = answered
      BY <3>1, <3>3
    <3> QED
      BY <3>2, <3>3 DEF Next, SubmitApi, RemoveApi, XcmSubmitApi, XcmRemoveApi,
         DoSubmitApi, DoRemoveApi, FeedData, XcmFeedData, Feed, IncludeFeed, DropPool,
         OffchainWorker, NextBlock, vars
  <2>3. AnswersBacked'
    BY <2>1, <2>2 DEF ValuesBacked, AnswersBacked
  <2> QED BY <2>1, <2>3
<1>3. J => AnswersBacked
  OBVIOUS
<1> QED BY <1>1, <1>2, <1>3, PTL DEF Spec
=============================================================================
