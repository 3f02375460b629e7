----------------------------- MODULE ParaOracle -----------------------------
(***************************************************************************)
(* The para-oracle pallet (pallets/para-oracle/src/lib.rs) with its        *)
(* default aggregation (default_combine_data.rs). Accounts and sibling     *)
(* parachains register APIs and feed prices; an off-chain worker on every  *)
(* node fetches all registered APIs and feeds the results as transactions  *)
(* of the node's accounts. The combined value of a key is the median of    *)
(* the values that have not expired.                                       *)
(***************************************************************************)
EXTENDS Integers, FiniteSets, Sequences

CONSTANTS
    Accounts,               \* signed origins
    Paras,                  \* sibling parachains
    LocalAccounts,          \* accounts whose keys the node holds
    Keys,                   \* OracleKeyOf
    Prices,                 \* values, the i64 after padding to six decimals
    None,                   \* an absent entry of a storage map
    MinimumCount,           \* DefaultCombineData
    ExpiresIn,              \* DefaultCombineData
    MaxHasDispatchedSize,   \* Config
    MaxTime,                \* bound: the last block's time
    MaxPool                 \* bound: pending transactions of an account

Times == 1 .. MaxTime

TimestampedValue == [value : Prices, timestamp : Times]

ASSUME ParaOracleAssumption ==
    /\ IsFiniteSet(Accounts) /\ IsFiniteSet(Paras)
    /\ Accounts \cap Paras = {}
    /\ LocalAccounts \subseteq Accounts
    /\ Prices \subseteq Int
    /\ None \notin TimestampedValue
    /\ MinimumCount \in Nat /\ ExpiresIn \in Nat
    /\ MaxHasDispatchedSize \in Nat
    /\ MaxTime \in Nat \ {0} /\ MaxPool \in Nat

VARIABLES
    apiFeeds,       \* ApiFeeds: the <<creator, key>> that have an endpoint
    rawValues,      \* RawValues: creator -> key -> TimestampedValue or None
    values,         \* Values: key -> TimestampedValue or None
    hasDispatched,  \* HasDispatched: the creators that fed in this block
    now,            \* UnixTime::now(), the block's time
    pool,           \* account -> its pending feed_data calls, by nonce
    answered        \* history: the <<parachain, key>> of queries that were answered

vars == <<apiFeeds, rawValues, values, hasDispatched, now, pool, answered>>

\* CreatorId
Creators == Accounts \cup Paras

\* The values argument of feed_data: of two pairs with one key the later is the
\* one that stays, so a list is a partial function.
FeedLists == UNION {[ks -> Prices] : ks \in SUBSET Keys}
-----------------------------------------------------------------------------
\* Mutant of Live: expired values are kept.
LiveMutant(raw, k) == {c \in Creators : raw[c][k] # None}

\* read_raw_values and the retain of combine_data: whose value has not expired.
Live(raw, k) ==
    {c \in Creators : raw[c][k] # None /\ raw[c][k].timestamp + ExpiresIn > now}

\* select_nth_unstable_by(mid): the values a sort by value may put at that index.
\* It is not stable: of equal values with several timestamps any may be there.
Nth(raw, k, live, mid) ==
    LET below(v) == {d \in live : raw[d][k].value < v}
        upTo(v)  == {d \in live : raw[d][k].value <= v}
    IN  {x \in {raw[c][k] : c \in live} :
            Cardinality(below(x.value)) <= mid /\ mid < Cardinality(upTo(x.value))}

\* Mutant of CombineData: the largest value.
CombineDataMutant(raw, k, prev) ==
    LET live  == Live(raw, k)
        count == Cardinality(live)
    IN  IF count < MinimumCount \/ count = 0
        THEN {prev}
        ELSE Nth(raw, k, live, count - 1)

\* Mutant of CombineData: MinimumCount is forgotten.
CombineDataOfAny(raw, k, prev) ==
    LET live  == Live(raw, k)
        count == Cardinality(live)
    IN  IF count = 0 THEN {prev} ELSE Nth(raw, k, live, count \div 2)

\* combine_data: the median, or the previous value if too few are left.
CombineData(raw, k, prev) ==
    LET live  == Live(raw, k)
        count == Cardinality(live)
    IN  IF count < MinimumCount \/ count = 0
        THEN {prev}
        ELSE Nth(raw, k, live, count \div 2)

\* RawValues after one creator's feed.
Stamped(cid, list) ==
    [rawValues EXCEPT ![cid] =
        [k \in Keys |-> IF k \in DOMAIN list
                        THEN [value |-> list[k], timestamp |-> now]
                        ELSE @[k]]]

\* Mutant of Inserts: the set has no limit.
InsertsMutantFull(cid) == cid \notin hasDispatched

\* Mutant of Inserts: being in the set already is success.
InsertsMutantAgain(cid) ==
    cid \in hasDispatched \/ Cardinality(hasDispatched) < MaxHasDispatchedSize

\* OrderedSet::insert returns TRUE: the creator is new and the set has room.
Inserts(cid) ==
    /\ cid \notin hasDispatched
    /\ Cardinality(hasDispatched) < MaxHasDispatchedSize
-----------------------------------------------------------------------------
Init ==
    /\ apiFeeds = {}
    /\ rawValues = [c \in Creators |-> [k \in Keys |-> None]]
    /\ values = [k \in Keys |-> None]
    /\ hasDispatched = {}
    /\ now = 1
    /\ pool = [a \in LocalAccounts |-> <<>>]
    /\ answered = {}

\* do_submit_api
DoSubmitApi(cid, key) ==
    /\ apiFeeds' = apiFeeds \cup {<<cid, key>>}
    /\ UNCHANGED <<rawValues, values, hasDispatched, now, pool, answered>>

\* do_remove_api; CannotLookup without an endpoint
DoRemoveApi(cid, key) ==
    /\ <<cid, key>> \in apiFeeds
    /\ apiFeeds' = apiFeeds \ {<<cid, key>>}
    /\ UNCHANGED <<rawValues, values, hasDispatched, now, pool, answered>>

\* The body of feed_data and xcm_feed_data: AlreadyFeeded unless the creator is
\* inserted; every key fed is stamped and combined again.
Feed(cid, list) ==
    /\ Inserts(cid)
    /\ hasDispatched' = hasDispatched \cup {cid}
    /\ rawValues' = Stamped(cid, list)
    /\ values' \in [Keys -> TimestampedValue \cup {None}]
    /\ \A k \in Keys :
          IF k \in DOMAIN list
          THEN values'[k] \in CombineData(Stamped(cid, list), k, values[k])
          ELSE values'[k] = values[k]
    /\ UNCHANGED <<apiFeeds, now, answered>>

\* The calls of a signed account.
SubmitApi(a, key) == DoSubmitApi(a, key)
RemoveApi(a, key) == DoRemoveApi(a, key)
FeedData(a, list) == Feed(a, list) /\ pool' = pool

\* The calls a sibling parachain sends by XCM.
XcmSubmitApi(p, key) == DoSubmitApi(p, key)
XcmRemoveApi(p, key) == DoRemoveApi(p, key)
XcmFeedData(p, list) == Feed(p, list) /\ pool' = pool

\* The value goes to the parachain without its time; the call fails with XcmSendError
\* when it cannot be sent.
SendQretToParachain(p, key) == answered' = answered \cup {<<p, key>>}

\* xcm_query_data: CannotLookup without a combined value.
XcmQueryData(p, key) ==
    /\ values[key] # None
    /\ SendQretToParachain(p, key)
    /\ UNCHANGED <<apiFeeds, rawValues, values, hasDispatched, now, pool>>

\* A worker's feed_data is included in the block, in nonce order. A call that
\* fails uses its transaction up all the same.
IncludeFeed(a) ==
    /\ pool[a] # <<>>
    /\ pool' = [pool EXCEPT ![a] = Tail(@)]
    /\ \/ Feed(a, Head(pool[a]))
       \/ /\ ~ Inserts(a)
          /\ UNCHANGED <<apiFeeds, rawValues, values, hasDispatched, now, answered>>

\* The transaction pool forgets the transactions of an account.
DropPool(a) ==
    /\ pool[a] # <<>>
    /\ pool' = [pool EXCEPT ![a] = <<>>]
    /\ UNCHANGED <<apiFeeds, rawValues, values, hasDispatched, now, answered>>

\* What fetch_api_and_feed_data has to submit: a value for every registered API, since
\* one fetch that fails ends the run before anything is submitted.
Fetched(list) == DOMAIN list = {f[2] : f \in apiFeeds} /\ DOMAIN list # {}

\* offchain_worker: a transaction with all results is submitted for each local account,
\* of which some may be refused.
OffchainWorker(list, submitted) ==
    /\ Fetched(list)
    /\ submitted \subseteq {a \in LocalAccounts : Len(pool[a]) < MaxPool}
    /\ pool' = [a \in LocalAccounts |->
                  IF a \in submitted THEN Append(pool[a], list) ELSE pool[a]]
    /\ UNCHANGED <<apiFeeds, rawValues, values, hasDispatched, now, answered>>

\* on_finalize, and the timestamp inherent of the next block
NextBlock ==
    /\ hasDispatched' = {}
    /\ now' \in {t \in Times : t > now}
    /\ UNCHANGED <<apiFeeds, rawValues, values, pool, answered>>

Next ==
    \/ \E a \in Accounts, key \in Keys : SubmitApi(a, key) \/ RemoveApi(a, key)
    \/ \E p \in Paras, key \in Keys :
          XcmSubmitApi(p, key) \/ XcmRemoveApi(p, key) \/ XcmQueryData(p, key)
    \/ \E a \in Accounts, list \in FeedLists : FeedData(a, list)
    \/ \E p \in Paras, list \in FeedLists : XcmFeedData(p, list)
    \/ \E a \in LocalAccounts : IncludeFeed(a) \/ DropPool(a)
    \/ \E list \in FeedLists, submitted \in SUBSET LocalAccounts :
          OffchainWorker(list, submitted)
    \/ NextBlock

Spec == Init /\ [][Next]_vars
-----------------------------------------------------------------------------
\* The storage maps hold what their types allow.
TypeOK ==
    /\ apiFeeds \subseteq Creators \X Keys
    /\ rawValues \in [Creators -> [Keys -> TimestampedValue \cup {None}]]
    /\ values \in [Keys -> TimestampedValue \cup {None}]
    /\ hasDispatched \subseteq Creators
    /\ now \in Times
    /\ pool \in [LocalAccounts -> Seq(FeedLists)]
    /\ answered \subseteq Paras \X Keys

\* The creators that fed a value in the current block.
FedNow == {c \in Creators : \E k \in Keys :
              rawValues[c][k] # None /\ rawValues[c][k].timestamp = now}

\* HasDispatched knows of every feed of the block in progress, and no value has
\* a time after the block's.
FedIsDispatched ==
    /\ FedNow \subseteq hasDispatched
    /\ \A c \in Creators, k \in Keys :
          rawValues[c][k] # None => rawValues[c][k].timestamp <= now

\* HasDispatched stays within its bound.
DispatchedBounded == Cardinality(hasDispatched) <= MaxHasDispatchedSize

\* At most MaxHasDispatchedSize creators get a value in during one block, however
\* worker transactions, direct calls and XCM calls are interleaved.
FeedersBounded == Cardinality(FedNow) <= MaxHasDispatchedSize

\* The creators that ever fed a key.
Feeders(k) == {c \in Creators : rawValues[c][k] # None}

\* A parachain's query is answered only with a value that enough creators stand behind,
\* and a key answered once is answered ever after: expiry, the removal of the API and
\* later feeds take neither the value nor its feeders away.
AnswersBacked ==
    \A q \in answered :
        values[q[2]] # None /\ Cardinality(Feeders(q[2])) >= MinimumCount

\* Within a block a creator's value is final: a second feed, by a direct call or by
\* a worker's older transaction, never replaces it.
OneFeedPerBlock ==
    [][\A c \in Creators, k \in Keys :
          /\ rawValues[c][k] # None
          /\ rawValues[c][k].timestamp = now
          => rawValues'[c][k] = rawValues[c][k]]_vars

\* A new combined value lies within what any majority of the unexpired feeders
\* reports, so a minority cannot move it out of the others' range; and there are
\* enough such feeders (combine_data's count and mid_index).
WithinMajorities ==
    [][\A k \in Keys : values'[k] # values[k] =>
          LET live == Live(rawValues', k)
          IN  /\ Cardinality(live) >= MinimumCount
              /\ \A m \in SUBSET live : 2 * Cardinality(m) > Cardinality(live) =>
                    /\ \E c \in m : rawValues'[c][k].value <= values'[k].value
                    /\ \E c \in m : rawValues'[c][k].value >= values'[k].value]_vars

\* A combined value is younger than ExpiresIn when it is installed: an expired
\* price is never made current again by somebody else's feed (the retain).
CombinedIsFresh ==
    [][\A k \in Keys : values'[k] # values[k] =>
          now < values'[k].timestamp + ExpiresIn]_vars
=============================================================================
