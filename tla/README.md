# Verification of the Paraxiom parachain

TLA+ models of the pallets, contracts and node services that carry Paraxiom's own
logic, TLC runs that check them on small instances, and TLAPS proofs for every instance. `PROJECT.json` maps
every definition to the source lines it models.

## The system

| Component | State | Operations | Interacts with |
| --- | --- | --- | --- |
| Off-chain rollup anchor (`pallets/offchain-rollup`) | `SubmitterByNames`: name to owner; `States`: per name a key-value store that also holds the outbound message queue under prefixed keys | `claim_name`, `rollup` (conditions, updates, actions), `push_message` (internal) | called by the oracle (`push_message`), calls it back (`OnResponse::on_response`), driven by Phat contracts |
| Rollup clients (Phat contracts with `pink_kv_session`) | a session: snapshot, reads, writes, pops | run off chain, submit one `RollupTx` | anchor |
| Feed registry (`pallets/registry`) | `ApiFeeds`: account, key to feed with a status | `register_feed`, `unregister_feed` | read by the oracle |
| Oracle (`pallets/oracle`) | `FeedRequests`: id to request; `FeedData`: submitter, request to response | `request`, `on_response` (`feeds` does nothing, `average` is `todo!()`) | registry, anchor |
| Collator selection (`pallets/collator-selection`) | invulnerables, candidates with deposits, last authored blocks, bond, desired number, the pot | five calls, `note_author`, `new_session` | session, authorship and balances pallets (external) |
| Para-oracle (`pallets/para-oracle`) | `ApiFeeds`, `RawValues` per creator and key, combined `Values`, the creators that fed in this block | offchain worker, `feed_data`, `submit_api`, `remove_api`, their XCM forms and queries, `on_finalize` | XCM, HTTP, transaction pool |
| Phat contracts (`phat/contracts`) | factory: configuration, deployments; feed: owner, submit key | `config`, `deploy_price_feed`, `transfer_ownership`; off chain `maybe_init_rollup`, `feed_request` | deploy and configure each other; read the anchor over RPC, submit `claim_name` and `rollup` |
| Asset trader (`primitives/utility`) | weight bought and price paid | `buy_weight`, `refund_weight`, `drop` | XCM executor |
| XCM configuration (`common`, `runtime/paraxiom`) | none | barrier, router, weigher, fee charger | XCM executor, XCMP queue, parachain system |
| Fees (`common/src/impls.rs`) | none | `DealWithFees`, `ToStakingPot` | the collators' pot |
| Parachain inherent, timestamp, core types (`primitives`) | none | `create_at`: proof and messages at a relay parent; the time a relay slot implies; `CollationInfo` | relay chain, parachain system |
| Node (`node`) | database, role | starting, stopping, building and importing blocks, `revert`, `purge-chain`, `import-blocks` | relay chain, all of the above |
| Runtime (`runtime/paraxiom`) | configuration | wiring, `CheckInherents` | all |

What is hard here:

* One store, two writers. The queue's head, tail and messages are ordinary keys of
  the store a contract writes through `rollup`.
* Concurrency. Contracts compute on a snapshot and submit later; several sessions
  overlap, and transactions are delayed, refused or lost.
* Atomicity across pallets. `request` writes `FeedRequests` and pushes a message;
  `rollup` pops messages and delivers replies that the oracle may refuse.
* Delays in the session pallet. A candidate joins the collator set up to two
  rotations after it registers, while `kick_stale_candidates` counts blocks.
* Feeds of many actors. Parachains, accounts and off-chain workers feed one key; their
  values expire at different times and are combined by whoever feeds next.
* Races for a name. Any account may claim any name, contracts check the owner first and
  claim later, and the key they claim with may be changed in between.
* A moving relay chain. A collator assembles a block from several asynchronous reads while
  relay blocks arrive, other collators' blocks are included and queues are pruned; clocks
  differ; nodes stop between any two steps.
* Money. Deposits must match what was reserved although root changes the bond;
  a weight trader must give back what was not used and still have enough to deposit.

`hazards` in `PROJECT.json` lists each of these at its line.

## Modules

**`Anchor`** models the anchor pallet. `submitterByNames` and `states` are the two
storage maps; `Keys` is the user keys, the slots `0 .. MaxIndex` and the head and
tail keys. The actions `ClaimName`, `PushMessage` and `Rollup` are the three
operations, whole. Every call is `#[transactional]`, so a call that fails is a
stuttering step and the code's `ensure!`s are guards. `trapped` records that one of
the pallet's `expect("BUG: ...")` panicked, which undoes the block's call but is what
the code claims impossible. `Rollup` applies the conditions, then the updates, then
the actions; an update list is a function (the last write to a key wins), and
successive `SetQueueHead`s must not decrease.

**`RollupQueue`** is the abstract specification: per name an owner, user keys and a
FIFO with consecutive ids. `Anchor!ImplementsQueue` states the refinement, with the
queue read off the head, tail and slot keys.

**`RollupSessions`** adds concurrent clients to `Anchor`. The client library is not in
the repository; it is modelled from the `queue_e2e` test: versions under keys of their
own, reads turned into conditions on versions, pops into one `SetQueueHead`. A session
writes only keys it has read (no blind writes), as in that test. It puts no condition on
the head it read: `rollup_tx` forwards the library's conditions, the pallet asks for none,
and it accepts a `SetQueueHead` to the index that is the head already. So two sessions that
overlap may both answer the same message, although `phat/Sub0-Workshop.md` wants a channel in
which operations "are never missed, duplicated, or conflicted". What does hold is
`TakenAgainOnlyByOverlap`: a session that starts after a message was taken never takes it
again, whatever stale transactions are executed meanwhile. Nothing is assumed of how often
sessions run; the only consumer in the repository, `process_queue_request`, never commits.

**`Registry`** and **`Oracle`** model the registry and the oracle, composed with
`Anchor`. `RequestId` is the block number: `random(random_seed())` is the same for
every call in a block because the nonce is dropped from the seed. `IsLastName` is
`SubmitterByNames::iter_keys().last()` for an arbitrary fixed order of names. The
contract that consumes the queue is external and is assumed to attach an answer, good
or bad, to each message it takes (`AnswersWhatItTakes`). Root writing a feed's status
(`SetFeedStatus`) is external too: no pallet call does it.

**`CollatorSelection`** models the collator selection pallet with the block's start
(`note_author`, then rotation and `new_session` on every `Period`-th block). The vector
of candidates is a set of records with their positions. `free`, `reserved` and `pot`
follow `Currency`. `authored` and `hadTurn` are history variables. The set of collators
drops duplicates: a candidate that root made invulnerable counts once.

**`ParaOracle`** models the para-oracle pallet with its default aggregation and the
off-chain worker. A creator is an account or a parachain. The argument of `feed_data` is a
partial function from keys to values, because of two pairs with one key the later stays. The
worker's transactions wait in `pool`, per account in nonce order, and may be forgotten
(`DropPool`); an included call that fails is used up. A worker's run in which one
fetch fails submits nothing and is a stuttering step. A query is answered with a message to
the parachain that asked; `answered` records the answers. `now` is the block's time, which the
timestamp inherent only increases. `Nth` is `select_nth_unstable_by`: of equal values with
different times any may be selected. The pallet is not part of the runtime (it is commented out
in `construct_runtime`), so `MinimumCount`, `ExpiresIn` and `MaxHasDispatchedSize` are free.

**`AssetTrader`** models `TakeFirstAssetTrader`, `XcmFeesTo32ByteAccount` and the fee charger. The XCM
executor, which is external, withdraws assets, calls `buy_weight` and `refund_weight` and drops the
trader at the end. `buy_weight` owns the payment, which the executor took out of the holding
register, and drops it on each of its errors (`BuyWeightFails`): `lost` counts what goes that way, or
with an instruction that fails after it took what is held (`Forfeit`). `Price` is `WeightToFee` followed by
`ToAssetBalance`, for any two functions; a conversion may fail. A deposit fails when it would leave the
receiver below the minimum balance.

**`XcmExecution`** composes `AssetTrader` with the barrier in front of it and the router behind it. A
message arrives from some origin, the barrier (`DenyThenTry`) admits it or not, and the executor runs its
instructions one by one; which assets and weights an instruction names is chosen when it runs. An
instruction that fails ends the program; the error handler and the appendix, which `SetErrorHandler` and
`SetAppendix` put into registers, run next. The deny filter looks at the instructions of the message only:
`WithdrawAsset, BuyExecution, SetAppendix(DepositReserveAsset to Parent)` passes it and sends a reserve to the
relay chain. `nested` marks what such a program sends, and `NoTopLevelReserveToRelay` excludes the rest.
`ParentAsUmp` and the XCMP queue get what is sent, in the order of the tuple. `DenyThenTry` and the deny
filter exist twice, in `common/src/xcm_config.rs` and in the runtime; they are the same but for their
text. The runtime puts `UsingComponents` of `xcm-builder` in the place of the repository's trader, so the
composition is the one the trader's own documentation describes, not the one deployed.

**`PhatOracle`** composes the two contracts with `Anchor`. A message of a contract is one step, except
`deploy_price_feed`, whose calls of the new contract are steps of their own: it instantiates a feed
(`DeployPriceFeed`), configures it, hands it over, and records it; after any of these a failure undoes them all
(`RevertDeployed`), as ink! reverts a message that returns an error. Nothing else runs in between, since a
message is one extrinsic. A feed may be given to any account, the factory's included. Off-chain
runs are several steps: `maybe_init_rollup` reads the configuration, then the owner of the name on the target
chain, then submits a claim; its transaction waits in `pool` and is included or lost. `process_queue_request`
opens a session and returns without committing it, so it writes nothing anywhere. `verdicts` and
`delivered` are history variables.

**`Collation`** models the collators and the relay chain around them: starting, stopping and the database
commands of the node, the reads of `create_at`, the clock, the block, its validation with `CheckInherents`, the
relay block that includes it, and its import. Aura, parachain-system and the relay chain are external: how
`CollationInfo` is computed and how the relay chain prunes by it are part of the environment, and no run
checks them. `Importable` has the two values `build_import_queue` supplies and what they are for: Aura's verifier
refuses a header more than one slot ahead, the timestamp's check a time ahead by more than the drift. The head of a message queue chain is the sequence of
the messages sent so far, so two chains are equal exactly when their hashes are. A stopped node loses its
job but not a candidate it handed out.

**`Fees`** adds transaction fees to `CollatorSelection`: `DealWithFees` and `ToStakingPot`, with the
fees charged and the rewards paid as history variables. `FeeHandler` is the handler of the transaction payment
pallet's `CurrencyAdapter`: `DealWithFees`, which the repository provides and tests, or `()`, which the deployed
runtime wires and which drops the imbalance.

`MC*` modules and `.cfg` files are the instances. Definitions marked "Mutant of" are
plausible wrong versions of the definition that follows; each property is violated when
its mutant takes that definition's place.

## Runs

| Run | Question | Result |
| --- | --- | --- |
| `anchor` | Does the queue survive every order of claims, pushes and rollups that stay off its keys, and does the pallet implement `RollupQueue`? | holds |
| `anchor_any_key` | And if rollup updates name the queue's keys, which nothing forbids? | `QueueNeverTraps` violated: the next push panics at `expect("BUG: Failed to decode queue head")` |
| `sessions` | Are overlapping sessions isolated, was every message that left taken by an accepted transaction, and is it taken again only by a session that overlapped? | holds |
| `oracle` | Are request and push, and pop and answer, all-or-nothing across the three pallets? | holds |
| `oracle_ids` | Does a request id identify a request? | `IdIdentifiesRequest` violated: two requests in one block |
| `collators` | Bonds, floor, kicks, rewards and conservation of value over four sessions, with the runtime's threshold of one session; who can be kicked without a turn? | holds: only who registered in a rotation block |
| `collators_kick` | Is everybody seated before it can be kicked? | `KickedHadItsTurn` violated: kicked at the rotation that seats it |
| `para_oracle` | Does each creator feed once per block, in at most `MaxHasDispatchedSize` per block, is a combined value a fresh median, and is every answer to a query backed by enough feeders? | holds |
| `phat` | Does what `maybe_init_rollup` reports stay true while runs overlap, others claim, keys change and deployments fail half-way; is every configured feed's name claimed in the end? | holds |
| `xcm` | Is every unit accounted for over whole messages, also when instructions fail, is execution paid for or trusted, does no instruction of a message itself send a reserve to the relay chain, does everything sent reach the right queue? | holds |
| `fees` | Do fees reach the pot that pays the authors? | `FeesReachPot` violated: `ToStakingPot` has its body commented out. With the body restored the property would hold for a runtime that uses `DealWithFees`; the deployed one wires `CurrencyAdapter<Balances, ()>` |
| `collation` | Do a collator's reads fit together, and for how long can a fast clock lock others out? | holds: for no longer than the drift exceeds a slot |

Bounds, and why they are enough:

* `anchor`: two names and two accounts (a name cannot touch another's store),
  capacity 2 and indices up to 3, so the queue fills, empties and is refilled, and up
  to two actions per transaction in every order. `BelowWrap` keeps the model below the
  wrap of the 32-bit index, which takes 2^32 messages.
* `sessions`: two sessions, one data key with its version, two messages: each race is
  between two transactions. `MaxIndex` also bounds versions. The sessions are symmetric
  (111,299 states).
* `oracle`: two names, one caller (two in `oracle_ids`), two blocks, two sources, and
  replies before and after the pop, alone and in pairs.
* `collators`: three accounts, two seats, one candidate as the floor, sessions and a threshold
  of two blocks, eight blocks and at most two calls of root (`MaxRootCalls`): a candidate can
  register in and between rotation blocks, author, leave, register again and be kicked with
  and without a turn. `b` and `c` are symmetric (2,181,744 states).
  The kick run has the same sessions and no floor. Both stop at `MaxBlock`, and `sessions` may
  stop when the last index is issued, so these runs do not check deadlock.
* `para_oracle`: three creators (a local account, another one, a parachain) and room for two
  feeds a block, so the set fills; three prices, so that the median differs from both ends;
  three blocks with an expiry of two and a minimum of two values, so that values expire alone
  and together. One key (keys do not interact) and one pending transaction, which the worker
  replaces as soon as it is included. `MaxTime` ends the run.
* `phat`: two users, two keys, two overlapping runs and one feed: every race is for one name,
  and feeds share nothing but the factory. That later deployments do not disturb earlier
  ones is left to the proof of `FactoryInOrder`, which covers any number (144,813 states).
* `xcm`: two assets, prices that round to zero, that are below and above the minimum balance and
  that cannot be converted; programs of up to four instructions with refunds, a second purchase,
  an error handler or an appendix, and everything that sends, from four origins to three
  destinations (449,209 states).
* `collation`: two authorities, one of them with a clock so far ahead that its blocks pass the check only
  when they are included at once, and a full node; a drift of two and a half slots, as in the code (30 s
  and 12 s); three relay blocks, so that a job started at one is overtaken by the two others; one
  channel (channels do not interact, and the proof covers any number). The wait in `NotLockedOut` is tight
  here: one unit less, and TLC finds a block that is refused. Time and relay blocks end,
  so deadlock is not checked (2,428,314 states).

Fairness. `PhatSpec` assumes that
every configured feed is polled again and again (strong fairness of `StartInit` and of the
steps of a run on it), that the RPC endpoint does not fail every run, that a run ends (weak
fairness of `FailRun`) and that not every claim that would succeed is lost. The contract
itself only returns an error, and its caller tries again. No other specification states
fairness: their properties are about what never happens.

## Proofs

`Anchor_proofs` proves, for all constants that satisfy `ConstantsAssumption`:

* `TypeCorrect`: `Spec => []TypeOK`;
* `QueueSafe` (`QueueIntact`), `DecodeNeverPanics` (`QueueNeverTraps`) and `AnchorImplementsQueue`
  (`Spec => ImplementsQueue`), all under the hypothesis that no transaction updates a queue key
  (`RespectsQueue`). Run `anchor_any_key` shows that the hypothesis is needed.

The inductive invariant is `AnchorInv`: `TypeOK /\ QueueIntact /\ QueueNeverTraps`. `QueueIntact` carries
the strengthening: bounds alone (`QueueBounded`) do not imply that the slot at the tail is
free, which `QueueContiguous` says, and that an unclaimed name has an empty queue. Lemmas
state what each operator on a store does to the queue: `UpdatedQueue`, `PoppedQueue` and
`EnqueuedQueue`. The index stays in range because pushes stay below the wrap.

The refinement reads the abstract queue off a store as the sequence `Contents` of the slots from head
to tail. `UpdatedContents`, `PoppedContents` and `EnqueuedContents` say that updates leave it, that moving
the head drops a prefix and that a push appends; `ClaimRefines`, `PushRefines` and `RollupRefines` turn each
operation into the abstract action, for any transaction that respects the queue's keys.

`RollupSessions_proofs` proves, for all constants that satisfy `SessionsAssumption` (any number of sessions,
names, data keys and messages), on top of `Anchor_proofs`:

* `SessionsKeepQueue` and `SessionsImplementQueue`: with these clients the queue stays intact and the system
  implements `RollupQueue`, with no hypothesis left: `RolledUpTx` shows that what a session submits writes
  data and version keys only;
* `NoConflicts` (`SessionsSpec => ReadsStillHold`);
* `EveryPopAnswered` (`ConsumedByReply`);
* `TakenOnceInOrder` (`TakenAgainOnlyByOverlap`).

The argument is an order between stores. `Later(old, new)` says that head and tail have only moved on, that
versions have only grown, and that a key whose version is the same has the same value. It is
transitive because versions are ordered: a version that is the same again was never another one in
between, which equality of values alone would not give. Every step replaces a store by a later one
(`PushMovesOn`, `ExecuteMovesOn`), so a transaction in flight always comes from an earlier store
(`FromSnapshot`); when it executes, its conditions say that the versions are those of the snapshot, hence the
values are. `AcceptedInv` adds that no accepted transaction reaches past the head. No fairness is used.

`CollatorSelection_proofs` proves, for all constants that satisfy `CollatorAssumption`, so for every kick
threshold and session length:

* `CollatorTypes`, `BondsSafe` (`BondsMatchCandidacies`) and `AuthorsSafe`
  (`Spec => AuthorsNotKicked`). The invariant adds `LastCoversAuthored`: a candidate's
  `LastAuthoredBlock` is never before the last block it really authored. `AuthorsNotKicked` needs it because
  leaving deletes the entry and registering writes a new one. `WithoutFacts` says what removing from the
  vector keeps, `RemoveFacts` what `try_remove_candidate` does to deposits;
* `FloorSafe` (`Spec => CandidateFloor`). The loop of `kick_stale_candidates` goes through the vector in order and
  stops at the floor; `FirstInOrder` and `KickedFloor` count what it removes;
* `RewardsPaid` (`Spec => AuthorsRewarded`), if accounts are endowed with at least `ED`: then no account that can
  author is ever dead, and half of what the pot has above `ED` never takes it below `ED`;
* `OnlyLatecomersKicked` (`Spec => OnlyLatecomersMissTheirTurn`), if `KickThreshold >= Period`, as in the runtime, where
  the two are equal. The invariant `TurnDue` says how far each candidate is on its way through the two rotations of
  the session pallet. Two rotations seat it and fit into two thresholds, except when it registered in a
  rotation block and the threshold is one session: then the second rotation is the one that kicks it, which run
  `collators_kick` shows;
* `ValueSafe` (`Spec => ValueConserved`), if there are finitely many accounts. `Total` is a fold, defined by
  recursion on sets, and no induction on its value is available to the provers; `SumExists` shows, by descent
  on the number of accounts, that the recursion has a solution (`IsSum`), `TotalIsSum` that `Total` is it, and
  `SumGrows` what it becomes when the balances change;
* of `Fees`, for fees and tips that are naturals: `BondsSafeWithFees`, `RewardsPaidWithFees` (if `Endowment >= ED`) and
  `FeesAreBurned`, the converse of the violated `FeesReachPot`, for both handlers: `pot + rewards = PotGenesis`, so that nothing that is
  charged ever arrives.

`ParaOracle_proofs` proves, for all constants that satisfy `ParaOracleAssumption`: `ParaOracleTypes`,
`FeedersSafe` (`FeedersBounded`), `FeedsAreFinal` (`Spec => OneFeedPerBlock`), `MedianSafe`
(`Spec => WithinMajorities`), `FreshSafe` (`Spec => CombinedIsFresh`) and `AnswersSafe`
(`AnswersBacked`). The invariant is `TypeOK /\ FedIsDispatched /\ DispatchedBounded`: without
"no value is stamped later than the block" the first conjunct would not survive `NextBlock`.
`MedianWithinMajority` is the argument for the median: the values up to it are more than half, so
they meet every majority, and those below it are at most half, so they contain none.

`XcmExecution_proofs` proves of `AssetTrader`, for all constants that satisfy `TraderAssumption`: `TraderConserves`
(`ValueConserved`), `TraderDelivers` (`RevenueDelivered`) and `RefundsBounded` (`Spec => NeverOverRefunded`).
`ValueConserved` counts what was dropped with a refused payment as `lost`, so it says that no other unit
is. The invariant adds `KeepsMinimum` (the receipt never drops below the minimum balance, on which both
branches of `refund_weight` rely) and that nothing is held between messages. `RefundFacts` is the
arithmetic of a refund.

Of `XcmExecution` it proves, for all constants that satisfy `TraderAssumption` and `XcmAssumption`,
that `XcmSpec => Spec` (`XcmImplementsTrader`): every step of the executor is a step of the trader or
leaves it alone, so the trader's theorems hold of whole messages (`XcmConserves`, `XcmDelivers`,
`XcmRefundsBounded`). `XcmPaid`, `XcmNoTopLevelReserve` (`NoTopLevelReserveToRelay`) and `XcmRouted` come from an invariant that says the
message being executed passed the barrier (`Admitted`) and that a sibling's program past its first two
instructions has paid (`PaidBeyondPayment`).

`PhatOracle_proofs` proves `PhatVerdicts` (`VerdictsHold`) and `PhatFactory` (`FactoryInOrder`), for all
constants that satisfy `PhatAssumption`. A verdict stays true because a claimed name keeps its
owner and a reply is only executed under the owner's key. The factory needs that every contract
sits at an address with a salt below `num_deployed`, which the configured code hash does not change, except the one
being deployed, of which it needs how far the deployment has come.

`Oracle_proofs` proves `OracleNoOrphan`, `OracleQueuedRecorded` and `OracleTakenAnswered`, for all constants
that satisfy `OracleAssumption`, on top of `Anchor_proofs`: the invariant ties every queued slot to its
place in the history of pushed messages, so that popping and pushing move the two together. `OracleImplementsQueue`
lifts the refinement of `RollupQueue` to the three pallets together.

`Collation_proofs` proves `CollationAgrees` and `CollationNotLockedOut`, for all constants that satisfy
`CollationAssumption`, so for every drift, slot duration and skew. The invariant has three parts:
`RelayOK`, that a message names the block that sent it and that in every relay block's state what was sent is
what was processed and what is queued; `TimeOK`, that relay slots only grow and no included block is further
in the future than the drift, in the slot of its time; and `JobsOK`, that a job holds the state of one relay block.
Inherents agree because all reads are of one state, and each state balances. That it does after a late
inclusion too rests on the environment as it is modelled: as long as the parent is still the included head,
the queue at the tip is the queue the job read with new messages behind it (`QueueGrew`), and pruning takes
exactly what the block processed. For the wait, a block included at a relay slot was checked against an
earlier one, so its time is ahead by at most the drift, and `OneSlotLater` turns the rest of a drift that is at
most a slot into at most one slot.

Only model-checked: liveness (`ConfiguredGetsClaimed`), which is outside what the prover does, and
the four violations. Only proved: `FactoryInOrder`, whose interesting instances, with several codes and deployments,
are too large for TLC beside the runs of `phat`. Every other property of the runs is a theorem.

## Not modelled

* `mock.rs` of the parachain inherent, which makes up inherents for a node without a relay chain: nothing
  in the repository uses it.
* The node's commands that only print or export, RPC, tracing, telemetry and chain specifications: I/O
  around external crates.
* Weights and benchmarks, which are generated or measure; the runtime's wiring beyond the values
  it gives to constants. Weights, events and encodings are left out of the modelled pallets: no
  property is about them.
* How parachain-system computes `CollationInfo` and the relay chain prunes queues by it: external, and only as
  environment in `Collation`.
* `AssetsToBlockAuthor` and the asset filters of `common`, which only forward to external pallets.
* `choose_transaction_type` and `validate_transaction` of the para-oracle, which its code does not call.

Where the source disagrees with itself, beyond the four violated runs:

* `queue_tail`'s doc calls it the id of the last unprocessed message; the code, its tests and this
  model have one past it.
* The factory calls a feed's `config` with five arguments while the feed contract of this repository takes three, so
  the two do not fit together as they are. The code the factory instantiates is whatever its code hash names; the
  model has a feed that accepts the call, and a `config` that fails is `RevertDeployed`.
* The feed contract opens its session with the prefix `q/` and decodes `(url, path, id)`; the runtime
  stores under `_queue/` and encodes the id first. As `process_queue_request` commits nothing, no state
  depends on it.
* The registry's doc says when a feed is `Active`; no code stores that status, so only root can.
* A comment in `charge_weight_in_fungibles` says the amount is raised to the minimum balance; that
  is done by its caller `buy_weight`.

## Plan

1. Proofs: the collators' other theorems for `Fees`; the refinement of `RollupQueue` for `PhatOracle` once a
   feed consumes its queue.
2. `RollupSessions` with the feed contract as its client, once `process_queue_request` commits its session; then also
   that the queue drains, under the fairness its polling justifies, and that a message is answered once, if
   clients or the pallet come to check the head.
3. The para-oracle composed with `XcmExecution`, once the pallet is part of the runtime.
