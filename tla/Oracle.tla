-------------------------------- MODULE Oracle --------------------------------
(***************************************************************************)
(* The oracle pallet (pallets/oracle/src/lib.rs) composed with the         *)
(* registry it reads feeds from and the anchor it sends requests through   *)
(* and receives responses from. A request writes FeedRequests and pushes a *)
(* message in one extrinsic; the Phat contract that consumes the message   *)
(* answers with a rollup whose Reply actions come back as on_response.     *)
(***************************************************************************)
EXTENDS Anchor, Registry, FiniteSetsExt

CONSTANTS
    Responses,      \* response_data
    Garbage,        \* reply data that is not a ResponseRecord
    Nonces,         \* the client's nonces
    Encoding,       \* <<request id, source>> -> the bytes of the message
    KeyRank         \* name -> its place in SubmitterByNames::iter_keys

\* ResponseRecord
Response == [contract : Names, id : Blocks, data : Responses]

Request == [key : FeedKeys, caller : Users, nonce : Nonces, data : Payloads]

ASSUME OracleAssumption ==
    /\ Encoding \in [Blocks \X Sources -> Payloads]
    /\ \A x, y \in Blocks \X Sources : Encoding[x] = Encoding[y] => x = y
    /\ KeyRank \in [Names -> Nat]
    /\ \A m, n \in Names : KeyRank[m] = KeyRank[n] => m = n
    /\ ReplyData = Response \cup {Garbage} /\ Garbage \notin Response
    /\ Absent \notin Request
    /\ \A tx \in Txs : RespectsQueue(tx)

VARIABLES
    feedRequests,   \* FeedRequests: request id -> Request or Absent
    feedData,       \* FeedData: submitter -> Request -> response data (partial)
    pushed          \* history: name -> every message pushed to it, in order

vars == <<submitterByNames, states, trapped, apiFeeds, block,
          feedRequests, feedData, pushed>>

\* The id in the bytes of a message.
IdOf(data) == CHOOSE id \in Blocks : \E s \in Sources : Encoding[<<id, s>>] = data

\* OracleRandomness::random of a seed that is itself random_seed() (the nonce is
\* dropped from the tuple): the collective flip of the earlier blocks' hashes, the
\* same for every call in a block.
RequestId == block

Claimed == {n \in Names : submitterByNames[n] # None}

\* SubmitterByNames::iter_keys().last()
IsLastName(n) == n \in Claimed /\ \A m \in Claimed : KeyRank[m] <= KeyRank[n]

ReplySet(actions) == {i \in DOMAIN actions : actions[i].type = "Reply"}

\* on_response: the record decodes, names the contract and a recorded request.
ResponseAccepted(name, reply) ==
    /\ reply \in Response
    /\ reply.contract = name
    /\ feedRequests[reply.id] # Absent

\* FeedData after the replies of one rollup; of two replies to one request the
\* later one stays.
Answered(old, actions) ==
    LET requests == {feedRequests[actions[i].data.id] : i \in ReplySet(actions)}
        lastTo(r) == Max({i \in ReplySet(actions) :
                            feedRequests[actions[i].data.id] = r})
    IN  [r \in requests \cup DOMAIN old |->
            IF r \in requests THEN actions[lastTo(r)].data.data ELSE old[r]]

\* FeedRequests::insert
Recorded(who, key, nonce, data) ==
    [feedRequests EXCEPT ![RequestId] =
        [key |-> key, caller |-> who, nonce |-> nonce, data |-> data]]
-----------------------------------------------------------------------------
OracleInit ==
    /\ Init
    /\ RegistryInit
    /\ feedRequests = [id \in Blocks |-> Absent]
    /\ feedData = [a \in Accounts |-> <<>>]
    /\ pushed = [n \in Names |-> <<>>]

\* Mutant of MakeRequest: without #[transactional], a request the full queue refuses
\* stays recorded.
MakeRequestNotUndone(who, key, nonce) ==
    /\ IsActive(who, key)
    /\ \E name \in Names :
       LET data == Encoding[<<RequestId, apiFeeds[who][key].source>>]
       IN  /\ IsLastName(name)
           /\ feedRequests' = Recorded(who, key, nonce, data)
           /\ \/ /\ BelowWrap(name) /\ PushMessage(name, data)
                 /\ pushed' = [pushed EXCEPT ![name] = Append(@, data)]
              \/ /\ QueueLen(states[name]) >= QueueCapacity
                 /\ UNCHANGED <<anchorVars, pushed>>
    /\ UNCHANGED <<apiFeeds, block, feedData>>

\* request: the feed must be the caller's own and active; FeedRequests is written
\* and the message pushed, or neither. (No transaction writes the queue's keys here, so
\* push_message does not panic: theorem DecodeNeverPanics of Anchor_proofs.)
MakeRequest(who, key, nonce) ==
    /\ IsActive(who, key)
    /\ \E name \in Names :
       LET data == Encoding[<<RequestId, apiFeeds[who][key].source>>]
       IN  /\ IsLastName(name)
           /\ BelowWrap(name)
           /\ PushMessage(name, data)
           /\ feedRequests' = Recorded(who, key, nonce, data)
           /\ pushed' = [pushed EXCEPT ![name] = Append(@, data)]
    /\ UNCHANGED <<apiFeeds, block, feedData>>

\* Mutant of RollupResponses: an answered request is removed from FeedRequests.
RollupResponsesForgetting(who, name, tx) ==
    /\ Rollup(who, name, tx)
    /\ \A i \in ReplySet(tx.actions) : ResponseAccepted(name, tx.actions[i].data)
    /\ feedData' = [feedData EXCEPT ![who] = Answered(@, tx.actions)]
    /\ feedRequests' = [id \in Blocks |->
          IF \E i \in ReplySet(tx.actions) : tx.actions[i].data.id = id
          THEN Absent ELSE feedRequests[id]]
    /\ UNCHANGED <<apiFeeds, block, pushed>>

\* Mutant of RollupResponses: the error of on_response is dropped.
RollupResponsesIgnored(who, name, tx) ==
    /\ Rollup(who, name, tx)
    /\ IF \A i \in ReplySet(tx.actions) : ResponseAccepted(name, tx.actions[i].data)
       THEN feedData' = [feedData EXCEPT ![who] = Answered(@, tx.actions)]
       ELSE UNCHANGED feedData
    /\ UNCHANGED <<apiFeeds, block, feedRequests, pushed>>

\* rollup with the oracle as OnResponse: one refused reply undoes all of it.
RollupResponses(who, name, tx) ==
    /\ Rollup(who, name, tx)
    /\ \A i \in ReplySet(tx.actions) : ResponseAccepted(name, tx.actions[i].data)
    /\ feedData' = [feedData EXCEPT ![who] = Answered(@, tx.actions)]
    /\ UNCHANGED <<apiFeeds, block, feedRequests, pushed>>

\* The discipline of a Phat contract that consumes the queue: a transaction that
\* takes messages also carries a reply to each of them.
AnswersWhatItTakes(name, tx) ==
    \A h \in HeadSets(tx.actions) : \A i \in Slots :
        /\ QueueHead(states[name]) <= i /\ i < tx.actions[h].head
        /\ states[name][i] # None
        => \E j \in ReplySet(tx.actions) :
              tx.actions[j].data \in
                  {Garbage} \cup [contract : Names, id : {IdOf(states[name][i])},
                                  data : Responses]

oracleVars == <<feedRequests, feedData, pushed>>

Claim(who, name) ==
    ClaimName(who, name) /\ UNCHANGED <<apiFeeds, block, oracleVars>>
Register(who, key, source) ==
    RegisterFeed(who, key, source) /\ UNCHANGED <<anchorVars, oracleVars>>
Unregister(who, key) ==
    UnregisterFeed(who, key) /\ UNCHANGED <<anchorVars, oracleVars>>
RootSetsStatus(who, key, status) ==
    SetFeedStatus(who, key, status) /\ UNCHANGED <<anchorVars, oracleVars>>
NextBlock ==
    /\ block < MaxBlock
    /\ block' = block + 1
    /\ UNCHANGED <<anchorVars, apiFeeds, oracleVars>>

OracleNext ==
    \/ \E who \in Accounts, name \in Names : Claim(who, name)
    \/ \E who \in Users, key \in FeedKeys :
          \/ \E source \in Sources : Register(who, key, source)
          \/ Unregister(who, key)
          \/ \E status \in RootStatus : RootSetsStatus(who, key, status)
          \/ \E nonce \in Nonces : MakeRequest(who, key, nonce)
    \/ \E who \in Accounts, name \in Names, tx \in Txs :
          AnswersWhatItTakes(name, tx) /\ RollupResponses(who, name, tx)
    \/ NextBlock

OracleSpec == OracleInit /\ [][OracleNext]_vars
-----------------------------------------------------------------------------
(* Properties.                                                             *)

QueuedMessages(name) ==
    {states[name][i] : i \in QueueHead(states[name]) .. QueueTail(states[name]) - 1}

\* A recorded request was sent: request never leaves a FeedRequests entry behind
\* when the anchor refuses its message (no name, or a full queue).
NoOrphanRequest ==
    \A id \in Blocks :
        feedRequests[id] # Absent =>
            \E n \in Names : \E i \in DOMAIN pushed[n] : pushed[n][i] = feedRequests[id].data

\* A contract that answers a message it finds in its queue addresses a request the
\* oracle has recorded.
QueuedRequestRecorded ==
    \A n \in Names : \A data \in QueuedMessages(n) : feedRequests[IdOf(data)] # Absent

\* A message leaves the queue only in a rollup whose answer reached FeedData: the
\* refusal of a reply by on_response also keeps the message in the queue.
TakenMeansAnswered ==
    \A n \in Names : \A i \in 1 .. QueueHead(states[n]) :
        \E r \in DOMAIN feedData[submitterByNames[n]] : IdOf(r.data) = IdOf(pushed[n][i])

\* README, "Feed Request": "Each data request is associated with a randomly generated
\* ID which provides identification for the request". The id of a queued message
\* leads to the request that pushed it.
IdIdentifiesRequest ==
    \A n \in Names : \A data \in QueuedMessages(n) :
        feedRequests[IdOf(data)] # Absent => feedRequests[IdOf(data)].data = data
=============================================================================
