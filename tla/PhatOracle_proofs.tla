------------------------- MODULE PhatOracle_proofs -------------------------
(***************************************************************************)
(* Proofs about PhatOracle, for any number of users, keys, codes, feeds    *)
(* and overlapping runs: what a run reported stays true, and the factory   *)
(* keeps its deployments in order.                                         *)
(***************************************************************************)
EXTENDS PhatOracle, Anchor_proofs

\* A reply is executed only under the key that owns the feed's name.
DeliveredByOwner ==
    \A f \in Names, k \in SubmitKeys : <<f, k>> \in delivered => submitterByNames[f] = k

\* The factory's salt tells its deployments apart, and no salt from numDeployed on was
\* ever used.
SaltsInOrder ==
    /\ Len(deployments) = numDeployed
    /\ \A i \in DOMAIN deployments :
          \E c \in Codes : deployments[i].contract = Address(c, i - 1)
    /\ \A c \in Codes, s \in 0 .. MaxDeployed - 1 :
          s >= numDeployed => feeds[Address(c, s)] = None

\* The factory's feeds have a key and are recorded, and what is recorded is there.
Finished ==
    /\ \A f \in Names : feeds[f] # None =>
          feeds[f].key # None /\ \E i \in DOMAIN deployments : deployments[i].contract = f
    /\ \A i \in DOMAIN deployments : feeds[deployments[i].contract] # None

\* A deployment in progress is one of a configured factory, at the address of the next
\* salt, and has its key when it comes to be recorded.
InProgress ==
    deploying # None =>
        /\ factoryConfig # None
        /\ numDeployed < MaxDeployed
        /\ \E c \in Codes : deploying.contract = Address(c, numDeployed)
        /\ deploying.step # "config" => deploying.feed.key # None

\* The inductive invariant.
PhatInv ==
    /\ PhatTypeOK
    /\ VerdictsHold
    /\ DeliveredByOwner
    /\ SaltsInOrder
    /\ Finished
    /\ InProgress

TargetVars == <<submitterByNames, verdicts, delivered>>

\* A step that leaves owners, verdicts and replies alone keeps what is said of them.
LEMMA TargetUnchanged ==
    ASSUME VerdictsHold, DeliveredByOwner, UNCHANGED TargetVars
    PROVE  VerdictsHold' /\ DeliveredByOwner'
BY DEF VerdictsHold, DeliveredByOwner, TargetVars

\* A step that leaves the contracts alone keeps what is said of them.
LEMMA ContractsUnchanged ==
    ASSUME SaltsInOrder, Finished, InProgress, UNCHANGED contractVars
    PROVE  SaltsInOrder' /\ Finished' /\ InProgress'
BY DEF SaltsInOrder, Finished, InProgress, contractVars

\* Once a name has an owner, claim_name does not change it.
LEMMA ClaimKeepsTarget ==
    ASSUME PhatInv, NEW who \in Accounts, NEW name \in Names, ClaimName(who, name),
           UNCHANGED <<verdicts, delivered>>
    PROVE  TypeOK' /\ VerdictsHold' /\ DeliveredByOwner'
<1>1. TypeOK /\ submitterByNames \in [Names -> Accounts \cup {None}]
  BY DEF PhatInv, PhatTypeOK, TypeOK
<1>2. /\ submitterByNames[name] = None
      /\ submitterByNames' = [submitterByNames EXCEPT ![name] = who]
      /\ states' = states /\ trapped' = trapped
  BY DEF ClaimName
<1>3. TypeOK'
  BY <1>1, <1>2 DEF TypeOK
<1>4. ASSUME NEW f \in Names, submitterByNames[f] # None
      PROVE  submitterByNames'[f] = submitterByNames[f]
  BY <1>1, <1>2, <1>4
<1>5. None \notin SubmitKeys
  BY PhatAssumption
<1>6. VerdictsHold'
  <2> SUFFICES ASSUME NEW f \in Names, NEW k \in SubmitKeys
               PROVE  /\ <<f, k, "initialized">> \in verdicts => submitterByNames'[f] = k
                      /\ <<f, k, "another account">> \in verdicts =>
                           submitterByNames'[f] \notin {None, k} /\ <<f, k>> \notin delivered
    BY DEF VerdictsHold
  <2> QED BY <1>4, <1>5 DEF PhatInv, VerdictsHold
<1>7. DeliveredByOwner'
  <2> SUFFICES ASSUME NEW f \in Names, NEW k \in SubmitKeys, <<f, k>> \in delivered
               PROVE  submitterByNames'[f] = k
    BY DEF DeliveredByOwner
  <2> QED BY <1>4, <1>5 DEF PhatInv, DeliveredByOwner
<1> QED BY <1>3, <1>6, <1>7

\* A feed's reply changes nothing in the anchor's store.
LEMMA ReplyKeepsStore ==
    ASSUME TypeOK, NEW who \in Accounts, NEW name \in Names, Rollup(who, name, ReplyTx)
    PROVE  TypeOK' /\ submitterByNames' = submitterByNames /\ submitterByNames[name] = who
<1> DEFINE st == Updated(states[name], ReplyTx.updates)
<1>1. states[name] \in Store
  BY DEF TypeOK
<1>2. ReplyTx.updates = <<>>
  BY DEF ReplyTx
<1>3. DOMAIN ReplyTx.updates = {}
  BY <1>2
<1>4. st \in Store
  BY <1>1, <1>3 DEF Updated, Store
<1>5. HeadSets(ReplyTx.actions) = {}
  BY DEF HeadSets, ReplyTx
<1>6. ~ ActionsTrap(st, ReplyTx.actions)
  BY <1>5 DEF ActionsTrap
<1>7. /\ states' = [states EXCEPT ![name] = st] /\ trapped' = trapped
      /\ submitterByNames' = submitterByNames /\ submitterByNames[name] = who
  BY <1>5, <1>6 DEF Rollup
<1> QED BY <1>4, <1>7 DEF TypeOK

-----------------------------------------------------------------------------
(* The contracts' messages.                                                *)

\* config of the factory changes what the next deployment gets and nothing else.
LEMMA FactoryConfigureKeepsInv ==
    ASSUME PhatInv, NEW u \in Users, NEW key \in SubmitKeys, NEW code \in Codes,
           FactoryConfigure(u, key, code)
    PROVE  PhatInv'
<1>1. PhatTypeOK'
  BY DEF PhatInv, PhatTypeOK, TypeOK, FactoryConfigure, anchorVars, Config
<1>2. VerdictsHold' /\ DeliveredByOwner'
  BY TargetUnchanged DEF PhatInv, FactoryConfigure, anchorVars, TargetVars
<1>3. SaltsInOrder' /\ Finished' /\ InProgress'
  BY DEF PhatInv, FactoryConfigure, SaltsInOrder, Finished, InProgress
<1> QED BY <1>1, <1>2, <1>3 DEF PhatInv

\* A step of deploy_price_feed before its last changes nothing but the working copy.
LEMMA WorkingCopyKeepsInv ==
    ASSUME PhatInv, deploying' \in Deploying \cup {None}, InProgress',
           UNCHANGED <<anchorVars, factoryConfig, deployments, numDeployed, feeds, runs,
                       pool, verdicts, delivered>>
    PROVE  PhatInv'
<1>1. PhatTypeOK'
  BY DEF PhatInv, PhatTypeOK, TypeOK, anchorVars
<1>2. VerdictsHold' /\ DeliveredByOwner'
  BY TargetUnchanged DEF PhatInv, anchorVars, TargetVars
<1>3. SaltsInOrder' /\ Finished'
  BY DEF PhatInv, SaltsInOrder, Finished
<1> QED BY <1>1, <1>2, <1>3 DEF PhatInv

\* What a deployment in progress holds.
LEMMA DeployingFacts ==
    ASSUME PhatInv, deploying # None
    PROVE  /\ deploying \in Deploying /\ deploying.feed \in Feed /\ deploying.feed # None
           /\ deploying.caller \in Users /\ deploying.contract \in Names
           /\ factoryConfig.key \in SubmitKeys /\ factoryConfig.key # None
           /\ numDeployed \in Nat /\ numDeployed < MaxDeployed /\ MaxDeployed \in Nat
<1>1. deploying \in Deploying /\ factoryConfig # None /\ factoryConfig \in Config
  BY DEF PhatInv, PhatTypeOK, InProgress
<1>2. factoryConfig.key \in SubmitKeys /\ factoryConfig.key # None
  BY <1>1, PhatAssumption DEF Config
<1>3. deploying.feed \in Feed /\ deploying.caller \in Users /\ deploying.contract \in Names
  BY <1>1 DEF Deploying
<1>4. numDeployed \in Nat /\ numDeployed < MaxDeployed /\ MaxDeployed \in Nat
  BY PhatAssumption DEF PhatInv, PhatTypeOK, InProgress
<1> QED BY <1>1, <1>2, <1>3, <1>4, PhatAssumption

\* Instantiating takes the next salt.
LEMMA DeployKeepsInv ==
    ASSUME PhatInv, NEW u \in Users, DeployPriceFeed(u)
    PROVE  PhatInv'
<1> DEFINE address == Address(factoryConfig.code, numDeployed)
           new     == [owner |-> Factory, key |-> None]
<1>1. /\ factoryConfig # None /\ factoryConfig \in Config /\ numDeployed \in Nat
      /\ numDeployed < MaxDeployed /\ MaxDeployed \in Nat
  BY PhatAssumption DEF PhatInv, PhatTypeOK, DeployPriceFeed
<1>2. factoryConfig.code \in Codes
  BY <1>1 DEF Config
<1>3. address \in Names
  BY <1>1, <1>2, PhatAssumption
<1>4. new \in Feed
  BY DEF Feed
<1>5. /\ deploying' = [caller |-> u, contract |-> address, step |-> "config", feed |-> new]
      /\ UNCHANGED <<anchorVars, factoryConfig, deployments, numDeployed, feeds, runs, pool,
                     verdicts, delivered>>
  BY DEF DeployPriceFeed
<1>6. deploying' \in Deploying
  BY <1>3, <1>4, <1>5 DEF Deploying
<1>7. deploying'.contract = address /\ deploying'.step = "config"
  BY <1>5
<1>8. InProgress'
  BY <1>1, <1>2, <1>5, <1>7 DEF InProgress
<1> QED BY <1>5, <1>6, <1>8, WorkingCopyKeepsInv

\* Configuring the new contract gives it the factory's key.
LEMMA ConfigureDeployedKeepsInv ==
    ASSUME PhatInv, ConfigureDeployed
    PROVE  PhatInv'
<1> DEFINE new == [deploying.feed EXCEPT !.key = factoryConfig.key]
<1>1. deploying # None
  BY DEF ConfigureDeployed
<1>2. /\ deploying' = [deploying EXCEPT !.feed = new, !.step = "transfer"]
      /\ UNCHANGED <<anchorVars, factoryConfig, deployments, numDeployed, feeds, runs, pool,
                     verdicts, delivered>>
  BY DEF ConfigureDeployed
<1>3. new \in Feed /\ new.key # None
  BY <1>1, DeployingFacts DEF Feed
<1>4. /\ deploying' \in Deploying /\ deploying'.feed = new
      /\ deploying'.contract = deploying.contract
  BY <1>1, <1>2, <1>3, DeployingFacts DEF Deploying
<1>5. InProgress'
  BY <1>1, <1>2, <1>3, <1>4 DEF PhatInv, InProgress
<1> QED BY <1>2, <1>4, <1>5, WorkingCopyKeepsInv

\* Handing it over keeps the key.
LEMMA HandOverDeployedKeepsInv ==
    ASSUME PhatInv, HandOverDeployed
    PROVE  PhatInv'
<1> DEFINE new == [deploying.feed EXCEPT !.owner = deploying.caller]
<1>1. deploying # None /\ deploying.step = "transfer"
  BY DEF HandOverDeployed
<1>2. /\ deploying' = [deploying EXCEPT !.feed = new, !.step = "record"]
      /\ UNCHANGED <<anchorVars, factoryConfig, deployments, numDeployed, feeds, runs, pool,
                     verdicts, delivered>>
  BY DEF HandOverDeployed
<1>3. deploying.feed.key # None
  BY <1>1 DEF PhatInv, InProgress
<1>4. new \in Feed /\ new.key # None
  BY <1>1, <1>3, DeployingFacts DEF Feed
<1>5. /\ deploying' \in Deploying /\ deploying'.feed = new
      /\ deploying'.contract = deploying.contract
  BY <1>1, <1>2, <1>4, DeployingFacts DEF Deploying
<1>6. InProgress'
  BY <1>1, <1>2, <1>4, <1>5 DEF PhatInv, InProgress
<1> QED BY <1>2, <1>5, <1>6, WorkingCopyKeepsInv

\* A failure drops the working copy.
LEMMA RevertDeployedKeepsInv ==
    ASSUME PhatInv, RevertDeployed
    PROVE  PhatInv'
<1>1. InProgress'
  BY DEF RevertDeployed, InProgress
<1> QED BY <1>1, WorkingCopyKeepsInv DEF RevertDeployed

\* Recording it makes it visible, finished and at an address that was free.
LEMMA RecordDeployedKeepsInv ==
    ASSUME PhatInv, RecordDeployed
    PROVE  PhatInv'
<1> DEFINE address == deploying.contract
           new     == [owner |-> deploying.caller, contract |-> address]
<1>1. deploying # None /\ deploying.step = "record"
  BY DEF RecordDeployed
<1>2. /\ numDeployed \in Nat /\ numDeployed < MaxDeployed /\ MaxDeployed \in Nat
      /\ address \in Names /\ new \in Deployment
      /\ deploying.feed \in Feed /\ deploying.feed # None
      /\ deployments \in Seq(Deployment) /\ feeds \in [Names -> Feed \cup {None}]
  BY <1>1, DeployingFacts DEF PhatInv, PhatTypeOK, Deployment
<1>3. PICK c \in Codes : address = Address(c, numDeployed)
  BY <1>1 DEF PhatInv, InProgress
<1>4. deploying.feed.key # None
  BY <1>1 DEF PhatInv, InProgress
<1>5. /\ feeds' = [feeds EXCEPT ![address] = deploying.feed]
      /\ deployments' = Append(deployments, new)
      /\ numDeployed' = numDeployed + 1 /\ deploying' = None
      /\ UNCHANGED <<anchorVars, factoryConfig, runs, pool, verdicts, delivered>>
  BY DEF RecordDeployed
<1> HIDE DEF address, new
<1>6. /\ Len(deployments') = Len(deployments) + 1
      /\ DOMAIN deployments' = 1 .. Len(deployments) + 1
      /\ \A i \in DOMAIN deployments : deployments'[i] = deployments[i]
      /\ deployments'[Len(deployments) + 1] = new
      /\ deployments' \in Seq(Deployment)
  BY <1>2, <1>5
<1>7. PhatTypeOK'
  <2>1. TypeOK'
    BY <1>5 DEF PhatInv, PhatTypeOK, TypeOK, anchorVars
  <2>2. feeds' \in [Names -> Feed \cup {None}] /\ numDeployed' \in 0 .. MaxDeployed
    BY <1>2, <1>5
  <2> QED BY <1>5, <1>6, <2>1, <2>2 DEF PhatInv, PhatTypeOK
<1>8. VerdictsHold' /\ DeliveredByOwner'
  BY <1>5, TargetUnchanged DEF PhatInv, anchorVars, TargetVars
<1>9. Len(deployments) = numDeployed
  BY DEF PhatInv, SaltsInOrder
<1>10. SaltsInOrder'
  <2>1. Len(deployments') = numDeployed'
    BY <1>5, <1>6, <1>9
  <2>2. ASSUME NEW i \in DOMAIN deployments'
        PROVE  \E d \in Codes : deployments'[i].contract = Address(d, i - 1)
    <3>1. CASE i \in DOMAIN deployments
      BY <1>6, <3>1 DEF PhatInv, SaltsInOrder
    <3>2. CASE i = Len(deployments) + 1
      <4>1. deployments'[i].contract = address /\ i - 1 = numDeployed
        BY <1>2, <1>6, <1>9, <3>2 DEF new
      <4> QED BY <1>3, <4>1
    <3> QED BY <1>2, <1>6, <3>1, <3>2
  <2>3. ASSUME NEW d \in Codes, NEW t \in 0 .. MaxDeployed - 1, t >= numDeployed'
        PROVE  feeds'[Address(d, t)] = None
    <3>1. t >= numDeployed /\ t # numDeployed
      BY <1>2, <1>5, <2>3
    <3>2. feeds[Address(d, t)] = None
      BY <3>1 DEF PhatInv, SaltsInOrder
    <3>3. Address(d, t) # address
      BY <1>3, <3>1 DEF Address
    <3>4. Address(d, t) \in Names
      BY PhatAssumption
    <3> QED BY <1>2, <1>5, <3>2, <3>3, <3>4
  <2> QED BY <2>1, <2>2, <2>3 DEF SaltsInOrder
<1>11. Finished'
  <2>1. ASSUME NEW f \in Names, feeds'[f] # None
        PROVE  /\ feeds'[f].key # None
               /\ \E i \in DOMAIN deployments' : deployments'[i].contract = f
    <3>1. CASE f = address
      <4>1. feeds'[f] = deploying.feed
        BY <1>2, <1>5, <3>1
      <4>2. /\ Len(deployments) + 1 \in DOMAIN deployments'
            /\ deployments'[Len(deployments) + 1].contract = f
        BY <1>2, <1>6, <3>1 DEF new
      <4> QED BY <1>4, <4>1, <4>2
    <3>2. CASE f # address
      <4>1. feeds'[f] = feeds[f]
        BY <1>2, <1>5, <3>2
      <4>2. PICK i \in DOMAIN deployments : deployments[i].contract = f
        BY <2>1, <4>1 DEF PhatInv, Finished
      <4>3. i \in DOMAIN deployments' /\ deployments'[i].contract = f
        BY <1>2, <1>6, <4>2
      <4> QED BY <2>1, <4>1, <4>3 DEF PhatInv, Finished
    <3> QED BY <3>1, <3>2
  <2>2. ASSUME NEW i \in DOMAIN deployments'
        PROVE  feeds'[deployments'[i].contract] # None
    <3>1. CASE i \in DOMAIN deployments
      <4>1. deployments[i] \in Deployment
        BY <1>2, <3>1
      <4>2. deployments[i].contract \in Names /\ feeds[deployments[i].contract] # None
        BY <3>1, <4>1 DEF PhatInv, Finished, Deployment
      <4> QED BY <1>2, <1>5, <1>6, <3>1, <4>2
    <3>2. CASE i = Len(deployments) + 1
      BY <1>2, <1>5, <1>6, <3>2 DEF new
    <3> QED BY <1>2, <1>6, <3>1, <3>2
  <2> QED BY <2>1, <2>2 DEF Finished
<1>12. InProgress'
  BY <1>5 DEF InProgress
<1> QED BY <1>7, <1>8, <1>10, <1>11, <1>12 DEF PhatInv

\* An owner's message to a feed leaves it configured if it was.
LEMMA FeedChangeKeepsInv ==
    ASSUME PhatInv, NEW f \in Names, NEW new \in Feed, feeds[f] # None,
           feeds[f].key # None => new.key # None,
           feeds' = [feeds EXCEPT ![f] = new],
           UNCHANGED <<anchorVars, factoryConfig, deployments, numDeployed, deploying, runs,
                       pool, verdicts, delivered>>
    PROVE  PhatInv'
<1>1. feeds \in [Names -> Feed \cup {None}] /\ new # None
  BY PhatAssumption DEF PhatInv, PhatTypeOK
<1>2. PhatTypeOK'
  BY <1>1 DEF PhatInv, PhatTypeOK, TypeOK, anchorVars
<1>3. VerdictsHold' /\ DeliveredByOwner'
  BY TargetUnchanged DEF PhatInv, anchorVars, TargetVars
<1>4. ASSUME NEW g \in Names
      PROVE  /\ feeds'[g] = None <=> feeds[g] = None
             /\ feeds[g] # None /\ feeds[g].key # None => feeds'[g].key # None
  BY <1>1
<1>5. SaltsInOrder'
  <2>1. ASSUME NEW c \in Codes, NEW t \in 0 .. MaxDeployed - 1 PROVE Address(c, t) \in Names
    BY PhatAssumption
  <2> QED BY <1>4, <2>1 DEF PhatInv, SaltsInOrder
<1>6. Finished'
  <2>1. ASSUME NEW i \in DOMAIN deployments PROVE deployments[i].contract \in Names
    <3>1. deployments[i] \in Deployment
      BY DEF PhatInv, PhatTypeOK
    <3> QED BY <3>1 DEF Deployment
  <2> QED BY <1>4, <2>1 DEF PhatInv, Finished
<1>7. InProgress'
  BY DEF PhatInv, InProgress
<1> QED BY <1>2, <1>3, <1>5, <1>6, <1>7 DEF PhatInv

\* config of a feed, by its owner.
LEMMA FeedConfigureKeepsInv ==
    ASSUME PhatInv, NEW u \in Users, NEW f \in Names, NEW key \in SubmitKeys,
           FeedConfigure(u, f, key)
    PROVE  PhatInv'
<1> DEFINE new == [feeds[f] EXCEPT !.key = key]
<1>1. feeds[f] # None /\ feeds[f] \in Feed /\ key # None
  BY PhatAssumption DEF PhatInv, PhatTypeOK, FeedConfigure, EnsureOwner
<1>2. new \in Feed /\ new.key = key /\ new.owner = feeds[f].owner
  BY <1>1 DEF Feed
<1>3. /\ feeds' = [feeds EXCEPT ![f] = new]
      /\ UNCHANGED <<anchorVars, factoryConfig, deployments, numDeployed, deploying, runs,
                     pool, verdicts, delivered>>
  BY DEF FeedConfigure
<1> HIDE DEF new
<1> QED BY <1>1, <1>2, <1>3, FeedChangeKeepsInv

\* transfer_ownership of a feed, by its owner.
LEMMA TransferKeepsInv ==
    ASSUME PhatInv, NEW u \in Users, NEW f \in Names, NEW v \in Users \cup {Factory},
           TransferOwnership(u, f, v)
    PROVE  PhatInv'
<1> DEFINE new == [feeds[f] EXCEPT !.owner = v]
<1>1. feeds[f] # None /\ feeds[f] \in Feed
  BY DEF PhatInv, PhatTypeOK, TransferOwnership, EnsureOwner
<1>2. new \in Feed /\ new.key = feeds[f].key /\ new.owner = v
  BY <1>1 DEF Feed
<1>3. /\ feeds' = [feeds EXCEPT ![f] = new]
      /\ UNCHANGED <<anchorVars, factoryConfig, deployments, numDeployed, deploying, runs,
                     pool, verdicts, delivered>>
  BY DEF TransferOwnership
<1> HIDE DEF new
<1> QED BY <1>1, <1>2, <1>3, FeedChangeKeepsInv
-----------------------------------------------------------------------------
(* Runs and the target chain.                                              *)

\* A step of a run, or of the pool, that changes no verdict.
LEMMA RunKeepsInv ==
    ASSUME PhatInv,
           runs' \in [Runs -> [feed : Names, key : SubmitKeys, step : {"owner", "claim"}]
                              \cup {None}],
           pool' \subseteq PhatTx,
           UNCHANGED <<anchorVars, contractVars, verdicts, delivered>>
    PROVE  PhatInv'
<1>1. PhatTypeOK'
  BY DEF PhatInv, PhatTypeOK, TypeOK, anchorVars, contractVars
<1>2. VerdictsHold' /\ DeliveredByOwner'
  BY TargetUnchanged DEF PhatInv, anchorVars, TargetVars
<1>3. SaltsInOrder' /\ Finished' /\ InProgress'
  BY ContractsUnchanged DEF PhatInv
<1> QED BY <1>1, <1>2, <1>3 DEF PhatInv

\* What a run in progress holds.
LEMMA RunFacts ==
    ASSUME PhatTypeOK, NEW r \in Runs, runs[r] # None
    PROVE  runs[r].feed \in Names /\ runs[r].key \in SubmitKeys
BY DEF PhatTypeOK

\* The verdict of a run is about the owner it has just read.
LEMMA GetNameOwnerKeepsInv ==
    ASSUME PhatInv, NEW r \in Runs, GetNameOwner(r)
    PROVE  PhatInv'
<1> DEFINE f     == runs[r].feed
           k     == runs[r].key
           owner == submitterByNames[f]
<1>1. f \in Names /\ k \in SubmitKeys
  BY RunFacts DEF PhatInv, GetNameOwner
<1>2. UNCHANGED <<anchorVars, contractVars, pool, delivered>>
  BY DEF GetNameOwner
<1>3. CASE owner = None
  <2>1. runs' = [runs EXCEPT ![r].step = "claim"] /\ verdicts' = verdicts
    BY <1>3 DEF GetNameOwner
  <2>2. runs' \in [Runs -> [feed : Names, key : SubmitKeys, step : {"owner", "claim"}]
                            \cup {None}]
    BY <2>1 DEF PhatInv, PhatTypeOK, GetNameOwner
  <2> QED BY <1>2, <2>1, <2>2, RunKeepsInv DEF PhatInv, PhatTypeOK
<1>4. CASE owner # None
  <2> DEFINE v == VerdictOn(owner, k)
  <2>1. /\ verdicts' = verdicts \cup {<<f, k, v>>}
        /\ runs' = [runs EXCEPT ![r] = None]
    BY <1>4 DEF GetNameOwner
  <2>2. v \in Verdict
    BY DEF VerdictOn, Verdict
  <2>3. PhatTypeOK'
    <3>1. runs' \in [Runs -> [feed : Names, key : SubmitKeys, step : {"owner", "claim"}]
                              \cup {None}]
      BY <2>1 DEF PhatInv, PhatTypeOK
    <3>2. verdicts' \subseteq Names \X SubmitKeys \X Verdict
      BY <1>1, <2>1, <2>2 DEF PhatInv, PhatTypeOK
    <3> QED BY <1>2, <3>1, <3>2 DEF PhatInv, PhatTypeOK, TypeOK, anchorVars, contractVars
  <2>4. VerdictsHold'
    <3> SUFFICES ASSUME NEW g \in Names, NEW j \in SubmitKeys
                 PROVE  /\ <<g, j, "initialized">> \in verdicts' => submitterByNames[g] = j
                        /\ <<g, j, "another account">> \in verdicts' =>
                             submitterByNames[g] \notin {None, j} /\ <<g, j>> \notin delivered
      BY <1>2 DEF VerdictsHold, anchorVars
    <3>1. ASSUME <<g, j, "initialized">> \in verdicts' PROVE submitterByNames[g] = j
      <4>1. CASE <<g, j, "initialized">> \in verdicts
        BY <4>1 DEF PhatInv, VerdictsHold
      <4>2. CASE <<g, j, "initialized">> = <<f, k, v>>
        <5>1. g = f /\ j = k /\ v = "initialized"
          BY <4>2
        <5> QED BY <5>1 DEF VerdictOn
      <4> QED BY <2>1, <3>1, <4>1, <4>2
    <3>2. ASSUME <<g, j, "another account">> \in verdicts'
          PROVE  submitterByNames[g] \notin {None, j} /\ <<g, j>> \notin delivered
      <4>1. CASE <<g, j, "another account">> \in verdicts
        BY <4>1 DEF PhatInv, VerdictsHold
      <4>2. CASE <<g, j, "another account">> = <<f, k, v>>
        <5>1. g = f /\ j = k /\ v = "another account"
          BY <4>2
        <5>2. owner # k
          BY <5>1 DEF VerdictOn
        <5> QED BY <1>4, <5>1, <5>2 DEF PhatInv, DeliveredByOwner
      <4> QED BY <2>1, <3>2, <4>1, <4>2
    <3> QED BY <3>1, <3>2
  <2>5. DeliveredByOwner'
    BY <1>2 DEF PhatInv, DeliveredByOwner, anchorVars
  <2>6. SaltsInOrder' /\ Finished' /\ InProgress'
    BY <1>2, ContractsUnchanged DEF PhatInv
  <2> QED BY <2>3, <2>4, <2>5, <2>6 DEF PhatInv
<1> QED BY <1>3, <1>4

\* A claim, by a run or by anybody else, changes only a name without an owner.
LEMMA ClaimKeepsInv ==
    ASSUME PhatInv, NEW who \in Accounts, NEW name \in Names, ClaimName(who, name),
           pool' \subseteq pool, UNCHANGED <<contractVars, runs, verdicts, delivered>>
    PROVE  PhatInv'
<1>1. TypeOK' /\ VerdictsHold' /\ DeliveredByOwner'
  BY ClaimKeepsTarget
<1>2. PhatTypeOK'
  BY <1>1 DEF PhatInv, PhatTypeOK, contractVars
<1>3. SaltsInOrder' /\ Finished' /\ InProgress'
  BY ContractsUnchanged DEF PhatInv
<1> QED BY <1>1, <1>2, <1>3 DEF PhatInv

\* A reply is executed under the owner's key.
LEMMA IncludeReplyKeepsInv ==
    ASSUME PhatInv, NEW tx \in pool, IncludeReply(tx)
    PROVE  PhatInv'
<1>1. tx.feed \in Names /\ tx.key \in SubmitKeys /\ tx.key \in Accounts
  BY PhatAssumption DEF PhatInv, PhatTypeOK, PhatTx
<1>2. /\ TypeOK' /\ submitterByNames' = submitterByNames
      /\ submitterByNames[tx.feed] = tx.key
  BY <1>1, ReplyKeepsStore DEF PhatInv, PhatTypeOK, IncludeReply
<1>3. /\ pool' = pool \ {tx}
      /\ delivered' = delivered \cup {<<tx.feed, tx.key>>}
      /\ UNCHANGED <<contractVars, runs, verdicts>>
  BY DEF IncludeReply
<1>4. PhatTypeOK'
  BY <1>1, <1>2, <1>3 DEF PhatInv, PhatTypeOK, contractVars
<1>5. DeliveredByOwner'
  <2> SUFFICES ASSUME NEW f \in Names, NEW k \in SubmitKeys, <<f, k>> \in delivered'
               PROVE  submitterByNames[f] = k
    BY <1>2 DEF DeliveredByOwner
  <2>1. CASE <<f, k>> \in delivered
    BY <2>1 DEF PhatInv, DeliveredByOwner
  <2>2. CASE <<f, k>> = <<tx.feed, tx.key>>
    BY <1>2, <2>2
  <2> QED BY <1>3, <2>1, <2>2
<1>6. VerdictsHold'
  <2> SUFFICES ASSUME NEW f \in Names, NEW k \in SubmitKeys
               PROVE  /\ <<f, k, "initialized">> \in verdicts => submitterByNames[f] = k
                      /\ <<f, k, "another account">> \in verdicts =>
                           submitterByNames[f] \notin {None, k} /\ <<f, k>> \notin delivered'
    BY <1>2, <1>3 DEF VerdictsHold
  <2>1. /\ <<f, k, "initialized">> \in verdicts => submitterByNames[f] = k
        /\ <<f, k, "another account">> \in verdicts => submitterByNames[f] \notin {None, k}
    BY DEF PhatInv, VerdictsHold
  <2>2. <<f, k>> \in delivered' => submitterByNames[f] = k
    BY <1>2, <1>5 DEF DeliveredByOwner
  <2> QED BY <2>1, <2>2
<1>7. SaltsInOrder' /\ Finished' /\ InProgress'
  BY <1>3, ContractsUnchanged DEF PhatInv
<1> QED BY <1>4, <1>5, <1>6, <1>7 DEF PhatInv
-----------------------------------------------------------------------------
\* The initial state satisfies the invariant.
LEMMA PhatInitInv == PhatInit => PhatInv
<1> SUFFICES ASSUME PhatInit PROVE PhatInv
  OBVIOUS
<1>1. PhatTypeOK
  <2>1. TypeOK
    BY DEF PhatInit, Init, TypeOK, Store
  <2> QED BY <2>1, PhatAssumption DEF PhatInit, PhatTypeOK
<1>2. VerdictsHold /\ DeliveredByOwner
  BY DEF PhatInit, VerdictsHold, DeliveredByOwner
<1>3. SaltsInOrder
  <2>1. \A c \in Codes, s \in 0 .. MaxDeployed - 1 : Address(c, s) \in Names
    BY PhatAssumption
  <2> QED BY <2>1 DEF PhatInit, SaltsInOrder
<1>4. Finished /\ InProgress
  BY DEF PhatInit, Finished, InProgress
<1> QED BY <1>1, <1>2, <1>3, <1>4 DEF PhatInv

\* Every step keeps the invariant.
LEMMA PhatNextKeepsInv == PhatInv /\ [PhatNext]_phatVars => PhatInv'
<1> SUFFICES ASSUME PhatInv, [PhatNext]_phatVars PROVE PhatInv'
  OBVIOUS
<1> DEFINE Run == [feed : Names, key : SubmitKeys, step : {"owner", "claim"}]
<1>0. runs \in [Runs -> Run \cup {None}] /\ pool \subseteq PhatTx
      /\ feeds \in [Names -> Feed \cup {None}]
  BY DEF PhatInv, PhatTypeOK
<1>1. ASSUME NEW r \in Runs, NEW f \in Names, StartInit(r, f) PROVE PhatInv'
  <2>1. feeds[f] \in Feed /\ feeds[f].key # None
    BY <1>0, <1>1 DEF StartInit, Configured
  <2>2. [feed |-> f, key |-> feeds[f].key, step |-> "owner"] \in Run
    BY <2>1 DEF Feed
  <2>3. runs' \in [Runs -> Run \cup {None}]
    BY <1>0, <1>1, <2>2 DEF StartInit
  <2> QED BY <1>0, <1>1, <2>3, RunKeepsInv DEF StartInit
<1>2. ASSUME NEW r \in Runs, SubmitClaim(r) PROVE PhatInv'
  <2>1. runs[r].feed \in Names /\ runs[r].key \in SubmitKeys
    BY <1>2, RunFacts DEF PhatInv, SubmitClaim
  <2>2. pool' \subseteq PhatTx
    BY <1>0, <1>2, <2>1 DEF SubmitClaim, PhatTx
  <2>3. runs' \in [Runs -> Run \cup {None}]
    BY <1>0, <1>2 DEF SubmitClaim
  <2> QED BY <1>2, <2>2, <2>3, RunKeepsInv DEF SubmitClaim
<1>3. ASSUME NEW r \in Runs, FailRun(r) PROVE PhatInv'
  <2>1. runs' \in [Runs -> Run \cup {None}]
    BY <1>0, <1>3 DEF FailRun
  <2> QED BY <1>0, <1>3, <2>1, RunKeepsInv DEF FailRun
<1>4. ASSUME NEW f \in Names, FeedRequest(f) PROVE PhatInv'
  <2>1. feeds[f] \in Feed /\ feeds[f].key # None
    BY <1>0, <1>4 DEF FeedRequest, Configured
  <2>2. pool' \subseteq PhatTx
    BY <1>0, <1>4, <2>1 DEF FeedRequest, PhatTx, Feed
  <2> QED BY <1>0, <1>4, <2>2, RunKeepsInv DEF FeedRequest
<1>5. ASSUME NEW tx \in pool, IncludeClaim(tx) PROVE PhatInv'
  <2>1. tx.feed \in Names /\ tx.key \in Accounts
    BY <1>0, PhatAssumption DEF PhatTx
  <2> QED BY <1>5, <2>1, ClaimKeepsInv DEF IncludeClaim
<1>6. ASSUME NEW tx \in pool, Lose(tx) PROVE PhatInv'
  BY <1>0, <1>6, RunKeepsInv DEF Lose
<1>7. ASSUME NEW who \in Accounts, NEW name \in Names, OtherClaims(who, name)
      PROVE  PhatInv'
  BY <1>7, ClaimKeepsInv DEF OtherClaims
<1>8. CASE UNCHANGED phatVars
  BY <1>0, <1>8, RunKeepsInv DEF phatVars, anchorVars, contractVars
<1> QED
  BY <1>1, <1>2, <1>3, <1>4, <1>5, <1>6, <1>7, <1>8, FactoryConfigureKeepsInv,
     DeployKeepsInv, ConfigureDeployedKeepsInv, HandOverDeployedKeepsInv,
     RecordDeployedKeepsInv, RevertDeployedKeepsInv, FeedConfigureKeepsInv, TransferKeepsInv, GetNameOwnerKeepsInv,
     IncludeReplyKeepsInv
  DEF PhatNext

\* The invariant holds of every behaviour.
THEOREM PhatInvariance == PhatSpec => []PhatInv
BY PhatInitInv, PhatNextKeepsInv, PTL DEF PhatSpec

\* What a run of maybe_init_rollup reports stays true.
THEOREM PhatVerdicts == PhatSpec => []VerdictsHold
<1>1. PhatInv => VerdictsHold
  BY DEF PhatInv
<1> QED BY PhatInvariance, <1>1, PTL

\* The factory's feeds are its recorded deployments, configured and each at an address of
\* its own, and the next address is free, although deploy_price_feed may fail after any of
\* its calls and the code changes between two deployments.
THEOREM PhatFactory == PhatSpec => []FactoryInOrder
<1>1. ASSUME PhatInv PROVE FactoryInOrder
  <2>1. Len(deployments) = numDeployed
    BY <1>1 DEF PhatInv, SaltsInOrder
  <2>2. ASSUME NEW i \in DOMAIN deployments, NEW j \in DOMAIN deployments,
               deployments[j].contract = deployments[i].contract
        PROVE  j = i
    <3>1. PICK c \in Codes : deployments[i].contract = Address(c, i - 1)
      BY <1>1 DEF PhatInv, SaltsInOrder
    <3>2. PICK d \in Codes : deployments[j].contract = Address(d, j - 1)
      BY <1>1 DEF PhatInv, SaltsInOrder
    <3>3. i - 1 = j - 1
      BY <2>2, <3>1, <3>2 DEF Address
    <3>4. i \in Nat /\ j \in Nat
      BY <1>1 DEF PhatInv, PhatTypeOK
    <3> QED BY <3>3, <3>4
  <2>3. ASSUME numDeployed < MaxDeployed, NEW code \in Codes
        PROVE  feeds[Address(code, numDeployed)] = None
    <3>1. numDeployed \in 0 .. MaxDeployed - 1
      BY <1>1, <2>3, PhatAssumption DEF PhatInv, PhatTypeOK
    <3> QED BY <1>1, <3>1 DEF PhatInv, SaltsInOrder
  <2>4. ASSUME NEW f \in Names, feeds[f] # None
        PROVE  Configured(f) /\ \E i \in DOMAIN deployments : deployments[i].contract = f
    BY <1>1, <2>4 DEF PhatInv, Finished, Configured
  <2>5. ASSUME NEW i \in DOMAIN deployments PROVE Configured(deployments[i].contract)
    <3>1. deployments[i] \in Deployment
      BY <1>1 DEF PhatInv, PhatTypeOK
    <3> QED BY <1>1, <2>4, <3>1 DEF PhatInv, Finished, Deployment
  <2> QED BY <2>1, <2>2, <2>3, <2>4, <2>5 DEF FactoryInOrder
<1> QED BY PhatInvariance, <1>1, PTL
=============================================================================
