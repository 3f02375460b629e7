----------------------------- MODULE PhatOracle -----------------------------
(***************************************************************************)
(* The Phat contracts (phat/contracts): the factory phat_oracle, the feeds *)
(* phat_oracle_feed it deploys, and the name each feed claims at the       *)
(* anchor pallet. Configuration changes are transactions on the contracts' *)
(* chain. maybe_init_rollup and feed_request are runs off that chain: they *)
(* see the configuration they started with, read the target chain over RPC *)
(* and submit transactions to it, which are included later or never. A     *)
(* message that returns an error is reverted whole: one of a single call   *)
(* is then a stuttering step, deploy_price_feed makes four calls on a      *)
(* working copy that only the last one makes visible. The feed it deploys  *)
(* is whatever code the factory is configured with. process_queue_request  *)
(* writes nothing anywhere and is left out; so is a feed that a user       *)
(* instantiates, which once it is configured does what a deployed one does.*)
(***************************************************************************)
EXTENDS Anchor

CONSTANTS
    Users,          \* accounts on the contracts' chain
    Factory,        \* the factory's own account
    FactoryOwner,   \* the account that instantiated the factory
    SubmitKeys,     \* submit keys, as the accounts of their public keys
    Codes,          \* code hashes of feed contracts
    MaxDeployed,    \* a bound on the factory's deployments
    Runs            \* overlapping runs of maybe_init_rollup

\* The address of an instantiation by the factory: code hash and salt.
Address(code, salt) == <<code, salt>>

\* The contract's storage, as far as it is used.
Feed == [owner : Users \cup {Factory}, key : SubmitKeys \cup {None}]

ASSUME PhatAssumption ==
    /\ FactoryOwner \in Users
    /\ Factory \notin Users
    /\ SubmitKeys \subseteq Accounts
    /\ MaxDeployed \in Nat
    /\ None \notin SubmitKeys \cup Codes \cup Feed
    /\ None \notin [caller : Users, contract : Names, feed : Feed,
                    step : {"config", "transfer", "record"}]
    /\ Names = {Address(c, s) : c \in Codes, s \in 0 .. MaxDeployed - 1}

VARIABLES
    factoryConfig,   \* the factory's config: [key, code] or None
    deployments,     \* the factory's deployments
    numDeployed,     \* num_deployed
    deploying,       \* the deploy_price_feed in progress: [caller, contract, feed, step],
                     \* or None
    feeds,           \* address -> [owner, key] of the contract there, or None
    runs,            \* run -> [feed, key, step], or None when idle
    pool,            \* transactions submitted to the target chain
    verdicts,        \* history: what runs reported, <<feed, key, verdict>>
    delivered        \* history: replies the anchor executed, <<feed, key>>

contractVars == <<factoryConfig, deployments, numDeployed, deploying, feeds>>
phatVars == <<submitterByNames, states, trapped, factoryConfig, deployments, numDeployed,
              deploying, feeds, runs, pool, verdicts, delivered>>

Config     == [key : SubmitKeys, code : Codes]
Deployment == [owner : Users, contract : Names]
Deploying  == [caller : Users, contract : Names, feed : Feed,
               step : {"config", "transfer", "record"}]
PhatTx     == [type : {"claim", "reply"}, feed : Names, key : SubmitKeys]
Verdict    == {"initialized", "another account"}

PhatInit ==
    /\ Init
    /\ factoryConfig = None
    /\ deployments = <<>>
    /\ numDeployed = 0
    /\ deploying = None
    /\ feeds = [f \in Names |-> None]
    /\ runs = [r \in Runs |-> None]
    /\ pool = {}
    /\ verdicts = {}
    /\ delivered = {}
-----------------------------------------------------------------------------
(* The contracts' own messages.                                            *)

\* ensure_owner of the feed.
EnsureOwner(feed, caller) == feed # None /\ feed.owner = caller

\* PhatOracle::config (owner only; a key of the wrong length is refused).
FactoryConfigure(caller, key, code) ==
    /\ deploying = None
    /\ caller = FactoryOwner
    /\ factoryConfig' = [key |-> key, code |-> code]
    /\ UNCHANGED <<anchorVars, deployments, numDeployed, deploying, feeds, runs, pool,
                   verdicts, delivered>>

\* deploy_price_feed, open to every caller, instantiates the configured code, which
\* leaves the contract to the factory. This fails where a contract is.
DeployPriceFeed(caller) ==
    /\ deploying = None
    /\ factoryConfig # None
    /\ numDeployed < MaxDeployed
    /\ LET address == Address(factoryConfig.code, numDeployed) IN
       /\ feeds[address] = None
       /\ deploying' = [caller |-> caller, contract |-> address, step |-> "config",
                        feed |-> [owner |-> Factory, key |-> None]]
    /\ UNCHANGED <<anchorVars, factoryConfig, deployments, numDeployed, feeds, runs, pool,
                   verdicts, delivered>>

\* It configures the new contract, as its owner,
ConfigureDeployed ==
    /\ deploying # None /\ deploying.step = "config"
    /\ EnsureOwner(deploying.feed, Factory)
    /\ deploying' = [deploying EXCEPT !.feed.key = factoryConfig.key, !.step = "transfer"]
    /\ UNCHANGED <<anchorVars, factoryConfig, deployments, numDeployed, feeds, runs, pool,
                   verdicts, delivered>>

\* hands it over to the caller
HandOverDeployed ==
    /\ deploying # None /\ deploying.step = "transfer"
    /\ EnsureOwner(deploying.feed, Factory)
    /\ deploying' = [deploying EXCEPT !.feed.owner = deploying.caller, !.step = "record"]
    /\ UNCHANGED <<anchorVars, factoryConfig, deployments, numDeployed, feeds, runs, pool,
                   verdicts, delivered>>

\* and records it, which ends the message.
RecordDeployed ==
    /\ deploying # None /\ deploying.step = "record"
    /\ feeds' = [feeds EXCEPT ![deploying.contract] = deploying.feed]
    /\ deployments' = Append(deployments, [owner    |-> deploying.caller,
                                           contract |-> deploying.contract])
    /\ numDeployed' = numDeployed + 1
    /\ deploying' = None
    /\ UNCHANGED <<anchorVars, factoryConfig, runs, pool, verdicts, delivered>>

\* FailedToConfigContract, FailedToTransferOwnership, or a trap: nothing is left of it.
RevertDeployed ==
    /\ deploying # None
    /\ deploying' = None
    /\ UNCHANGED <<anchorVars, factoryConfig, deployments, numDeployed, feeds, runs, pool,
                   verdicts, delivered>>

\* PhatOracleFeed::config
FeedConfigure(caller, f, key) ==
    /\ deploying = None
    /\ EnsureOwner(feeds[f], caller)
    /\ feeds' = [feeds EXCEPT ![f].key = key]
    /\ UNCHANGED <<anchorVars, factoryConfig, deployments, numDeployed, deploying, runs,
                   pool, verdicts, delivered>>

\* transfer_ownership, to any account.
TransferOwnership(caller, f, newOwner) ==
    /\ deploying = None
    /\ EnsureOwner(feeds[f], caller)
    /\ feeds' = [feeds EXCEPT ![f].owner = newOwner]
    /\ UNCHANGED <<anchorVars, factoryConfig, deployments, numDeployed, deploying, runs,
                   pool, verdicts, delivered>>

Configured(f) == feeds[f] # None /\ feeds[f].key # None
-----------------------------------------------------------------------------
(* Runs off the contracts' chain.                                          *)

\* maybe_init_rollup starts with the configuration of the moment.
StartInit(r, f) ==
    /\ runs[r] = None
    /\ Configured(f)
    /\ runs' = [runs EXCEPT ![r] = [feed |-> f, key |-> feeds[f].key, step |-> "owner"]]
    /\ UNCHANGED <<anchorVars, contractVars, pool, verdicts, delivered>>

\* What the owner found on the target chain means for the key.
VerdictOn(owner, key) == IF owner = key THEN "initialized" ELSE "another account"

\* Mutant of GetNameOwner: a name without an owner passes for initialized.
GetNameOwnerDone(r) ==
    /\ runs[r] # None /\ runs[r].step = "owner"
    /\ runs' = [runs EXCEPT ![r] = None]
    /\ UNCHANGED <<anchorVars, contractVars, pool, verdicts, delivered>>

\* get_name_owner: a claimed name ends the run with a verdict.
GetNameOwner(r) ==
    /\ runs[r] # None /\ runs[r].step = "owner"
    /\ LET owner == submitterByNames[runs[r].feed] IN
       IF owner = None
       THEN /\ runs' = [runs EXCEPT ![r].step = "claim"]
            /\ UNCHANGED verdicts
       ELSE /\ verdicts' = verdicts
                  \cup {<<runs[r].feed, runs[r].key, VerdictOn(owner, runs[r].key)>>}
            /\ runs' = [runs EXCEPT ![r] = None]
    /\ UNCHANGED <<anchorVars, contractVars, pool, delivered>>

\* claim_name submits the transaction and the run returns its hash.
SubmitClaim(r) ==
    /\ runs[r] # None /\ runs[r].step = "claim"
    /\ pool' = pool \cup {[type |-> "claim", feed |-> runs[r].feed, key |-> runs[r].key]}
    /\ runs' = [runs EXCEPT ![r] = None]
    /\ UNCHANGED <<anchorVars, contractVars, verdicts, delivered>>

\* FailedToGetNameOwner or FailedToClaimName.
FailRun(r) ==
    /\ runs[r] # None
    /\ runs' = [runs EXCEPT ![r] = None]
    /\ UNCHANGED <<anchorVars, contractVars, pool, verdicts, delivered>>

\* feed_request, open to every caller: a rollup with one Reply and nothing else.
FeedRequest(f) ==
    /\ Configured(f)
    /\ pool' = pool \cup {[type |-> "reply", feed |-> f, key |-> feeds[f].key]}
    /\ UNCHANGED <<anchorVars, contractVars, runs, verdicts, delivered>>

ReplyTx == [conds |-> {}, updates |-> <<>>,
            actions |-> <<[type |-> "Reply", data |-> CHOOSE d \in ReplyData : TRUE]>>]
-----------------------------------------------------------------------------
(* The target chain.                                                       *)

\* A claim is included and executed, the first to arrive taking the name.
IncludeClaim(tx) ==
    /\ tx \in pool /\ tx.type = "claim"
    /\ ClaimName(tx.key, tx.feed)
    /\ pool' = pool \ {tx}
    /\ UNCHANGED <<contractVars, runs, verdicts, delivered>>

\* A reply is included and executed: rollup takes it from the name's owner only.
IncludeReply(tx) ==
    /\ tx \in pool /\ tx.type = "reply"
    /\ Rollup(tx.key, tx.feed, ReplyTx)
    /\ pool' = pool \ {tx}
    /\ delivered' = delivered \cup {<<tx.feed, tx.key>>}
    /\ UNCHANGED <<contractVars, runs, verdicts>>

\* A transaction fails on chain or is lost before.
Lose(tx) ==
    /\ tx \in pool
    /\ pool' = pool \ {tx}
    /\ UNCHANGED <<anchorVars, contractVars, runs, verdicts, delivered>>

\* claim_name is open: any account may claim any name first.
OtherClaims(who, name) ==
    /\ ClaimName(who, name)
    /\ UNCHANGED <<contractVars, runs, pool, verdicts, delivered>>

PhatNext ==
    \/ \E u \in Users, key \in SubmitKeys, code \in Codes : FactoryConfigure(u, key, code)
    \/ \E u \in Users : DeployPriceFeed(u)
    \/ ConfigureDeployed \/ HandOverDeployed \/ RecordDeployed \/ RevertDeployed
    \/ \E u \in Users, f \in Names :
          \/ \E key \in SubmitKeys : FeedConfigure(u, f, key)
          \/ \E v \in Users \cup {Factory} : TransferOwnership(u, f, v)
    \/ \E r \in Runs :
          \/ \E f \in Names : StartInit(r, f)
          \/ GetNameOwner(r)
          \/ SubmitClaim(r)
          \/ FailRun(r)
    \/ \E f \in Names : FeedRequest(f)
    \/ \E tx \in pool : IncludeClaim(tx) \/ IncludeReply(tx) \/ Lose(tx)
    \/ \E who \in Accounts, name \in Names : OtherClaims(who, name)

RunOn(r, f) == runs[r] # None /\ runs[r].feed = f

\* Every configured feed is polled again and again, the RPC endpoint does not fail
\* every run, and not every transaction that would succeed is lost.
PhatFairness ==
    /\ \A f \in Names :
          /\ SF_phatVars(\E r \in Runs : StartInit(r, f))
          /\ SF_phatVars(\E r \in Runs : RunOn(r, f) /\ GetNameOwner(r))
          /\ SF_phatVars(\E r \in Runs : RunOn(r, f) /\ SubmitClaim(r))
          /\ SF_phatVars(\E tx \in pool : tx.feed = f /\ IncludeClaim(tx))
    /\ \A r \in Runs : WF_phatVars(FailRun(r))

PhatSpec == PhatInit /\ [][PhatNext]_phatVars /\ PhatFairness
-----------------------------------------------------------------------------
(* Properties.                                                             *)

\* Storage of the contracts, runs and transactions keep their types.
PhatTypeOK ==
    /\ TypeOK
    /\ factoryConfig \in Config \cup {None}
    /\ deployments \in Seq(Deployment)
    /\ numDeployed \in 0 .. MaxDeployed
    /\ deploying \in Deploying \cup {None}
    /\ feeds \in [Names -> Feed \cup {None}]
    /\ runs \in [Runs -> [feed : Names, key : SubmitKeys, step : {"owner", "claim"}] \cup {None}]
    /\ pool \subseteq PhatTx
    /\ verdicts \subseteq Names \X SubmitKeys \X Verdict
    /\ delivered \subseteq Names \X SubmitKeys

\* What maybe_init_rollup reported stays true, although runs overlap, other accounts
\* claim and the owner changes the key meanwhile: after Ok(None) the key owns the
\* feed's name, and after RollupConfiguredByAnotherAccount no reply under that key
\* has been or will be executed.
VerdictsHold ==
    \A f \in Names, k \in SubmitKeys :
        /\ <<f, k, "initialized">> \in verdicts => submitterByNames[f] = k
        /\ <<f, k, "another account">> \in verdicts =>
              submitterByNames[f] \notin {None, k} /\ <<f, k>> \notin delivered

\* deploy_price_feed leaves no half-made feed behind and never blocks itself, although
\* the owner changes the code between two deployments and a deployment may fail after
\* any of its calls: every recorded deployment is a configured feed at an address of its
\* own, every feed of the factory is recorded, and the next address is free whatever
\* code is configured next.
FactoryInOrder ==
    /\ Len(deployments) = numDeployed
    /\ \A f \in Names : feeds[f] # None =>
          /\ Configured(f)
          /\ \E i \in DOMAIN deployments : deployments[i].contract = f
    /\ \A i, j \in DOMAIN deployments :
          /\ Configured(deployments[i].contract)
          /\ deployments[j].contract = deployments[i].contract => j = i
    /\ numDeployed < MaxDeployed =>
          \A code \in Codes : feeds[Address(code, numDeployed)] = None

\* "Initializes the rollup on the target blockchain if it's not done yet": the name
\* of a configured feed is claimed in the end.
ConfiguredGetsClaimed ==
    \A f \in Names : Configured(f) ~> (submitterByNames[f] # None)
=============================================================================
