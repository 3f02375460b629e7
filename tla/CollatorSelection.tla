-------------------------- MODULE CollatorSelection --------------------------
(***************************************************************************)
(* The collator selection pallet (pallets/collator-selection/src/lib.rs)   *)
(* with what drives it: the authorship pallet reports the author of each   *)
(* block (note_author), and the session pallet rotates the collator set    *)
(* every Period blocks (new_session), both before the block's extrinsics.  *)
(* The session, authorship and balances pallets are external.              *)
(***************************************************************************)
EXTENDS Integers, FiniteSets, FiniteSetsExt

CONSTANTS
    Accounts,
    Genesis,         \* the invulnerables of the genesis configuration
    WithKeys,        \* accounts with registered session keys
    MaxCandidates,
    MinCandidates,
    MaxInvulnerables,
    KickThreshold,
    Period,          \* of PeriodicSessions
    InvulnerableSets,  \* what root may set the invulnerables to
    DesiredFigures,    \* the desired candidates root may set
    Bonds,             \* the candidacy bonds root may set
    PotGenesis,        \* the pot's balance at genesis
    Endowment,       \* each account's free balance at genesis
    ED,              \* Currency::minimum_balance
    MaxBlock,        \* bound on the block number
    MaxRootCalls     \* bound on the calls of root

ASSUME CollatorAssumption ==
    /\ Genesis \subseteq Accounts /\ WithKeys \subseteq Accounts
    /\ MaxCandidates \in Nat /\ MinCandidates \in Nat /\ MaxInvulnerables \in Nat
    /\ KickThreshold \in Nat \ {0} /\ Period \in Nat \ {0}
    /\ InvulnerableSets \subseteq SUBSET Accounts /\ PotGenesis \in Nat
    /\ DesiredFigures \subseteq Nat
    /\ Bonds \subseteq Nat /\ Endowment \in Nat /\ ED \in Nat \ {0} /\ MaxBlock \in Nat
    /\ MaxRootCalls \in Nat

VARIABLES
    invulnerables,       \* Invulnerables, as a set
    candidates,          \* Candidates: set of [who, deposit, seat], see below
    lastAuthoredBlock,   \* LastAuthoredBlock, 0 when there is no entry
    desiredCandidates,   \* DesiredCandidates
    candidacyBond,       \* CandidacyBond
    free, reserved,      \* balances of the accounts
    pot,                 \* free balance of the pot account
    validators, queued,  \* pallet_session: this session's and the next one's
    block,               \* frame_system's block number
    rootCalls,           \* calls of root so far
    authored,            \* history: account -> last block it authored, or 0
    hadTurn              \* history: accounts that could author since they registered

palletVars == <<invulnerables, candidates, lastAuthoredBlock, desiredCandidates,
                candidacyBond>>
vars == <<palletVars, free, reserved, pot, validators, queued, block, rootCalls, authored, hadTurn>>

\* A vector of CandidateInfo is the set of its elements with their positions.
Candidate == [who : Accounts, deposit : Nat, seat : Nat]
Len(vec)  == Cardinality(vec)
Who(vec)  == {c.who : c \in vec}

\* Vec::remove of each element in gone: the others close up in order.
Without(vec, gone) ==
    {[c EXCEPT !.seat = Cardinality({d \in vec \ gone : d.seat <= c.seat})]
        : c \in vec \ gone}

Init ==
    /\ invulnerables = Genesis
    /\ candidates = {}
    /\ lastAuthoredBlock = [a \in Accounts |-> 0]
    /\ desiredCandidates = MaxCandidates
    /\ candidacyBond \in Bonds
    /\ free = [a \in Accounts |-> Endowment]
    /\ reserved = [a \in Accounts |-> 0]
    /\ pot = PotGenesis
    /\ rootCalls = 0
    /\ validators = Genesis
    /\ queued = Genesis
    /\ block = 0
    /\ authored = [a \in Accounts |-> 0]
    /\ hadTurn = {}
-----------------------------------------------------------------------------
(* Extrinsics.                                                             *)

\* A call of root leaves everything but the storage it is for.
RootCall ==
    /\ rootCalls < MaxRootCalls
    /\ rootCalls' = rootCalls + 1
    /\ UNCHANGED <<candidates, lastAuthoredBlock, free, reserved, pot, validators, queued,
                   block, authored, hadTurn>>

\* set_invulnerables: every one must have keys; candidates are not consulted.
SetInvulnerables(new) ==
    /\ Cardinality(new) <= MaxInvulnerables
    /\ new \subseteq WithKeys
    /\ invulnerables' = new
    /\ RootCall /\ UNCHANGED <<desiredCandidates, candidacyBond>>

\* set_desired_candidates: a figure above MaxCandidates is only logged.
SetDesiredCandidates(max) ==
    /\ desiredCandidates' = max
    /\ RootCall /\ UNCHANGED <<invulnerables, candidacyBond>>

\* set_candidacy_bond: those already bonded keep their deposit.
SetCandidacyBond(bond) ==
    /\ candidacyBond' = bond
    /\ RootCall /\ UNCHANGED <<invulnerables, desiredCandidates>>

\* Mutant of CanReserve: the bond is recorded without the balance to back it.
CanReserveAnyway(who) == TRUE

\* Currency::reserve succeeds.
CanReserve(who) == candidacyBond <= free[who]

\* try_push on the bounded vector succeeds.
RoomToPush == Len(candidates) < MaxCandidates

\* Mutants of FirstAuthored: the entry is forgotten, and is not in the future.
FirstAuthoredForgotten == 0
FirstAuthoredNow == block

\* The LastAuthoredBlock a new candidate starts with.
FirstAuthored == block + KickThreshold

\* register_as_candidate
RegisterAsCandidate(who) ==
    /\ Len(candidates) < desiredCandidates
    /\ who \notin invulnerables
    /\ who \in WithKeys
    /\ who \notin Who(candidates)
    /\ CanReserve(who)
    /\ RoomToPush
    /\ free' = [free EXCEPT ![who] = @ - candidacyBond]
    /\ reserved' = [reserved EXCEPT ![who] = @ + candidacyBond]
    /\ candidates' = candidates \cup
         {[who |-> who, deposit |-> candidacyBond, seat |-> Len(candidates) + 1]}
    /\ lastAuthoredBlock' = [lastAuthoredBlock EXCEPT ![who] = FirstAuthored]
    /\ hadTurn' = hadTurn \ {who}
    /\ UNCHANGED <<invulnerables, desiredCandidates, candidacyBond, pot, validators,
                   queued, block, rootCalls, authored>>

\* Mutant of Unreserved: the bond of today is returned, not the deposit.
UnreservedBond(a, gone) ==
    IF a \notin Who(gone) THEN 0
    ELSE IF candidacyBond <= reserved[a] THEN candidacyBond ELSE reserved[a]

\* try_remove_candidate for each candidate in gone: the deposit is unreserved
\* (Currency::unreserve stops at what is reserved) and the entries removed.
Unreserved(a, gone) ==
    IF a \notin Who(gone) THEN 0
    ELSE LET d == (CHOOSE c \in gone : c.who = a).deposit
         IN  IF d <= reserved[a] THEN d ELSE reserved[a]

\* Mutant of RemoveCandidates: the deposit goes nowhere.
RemoveCandidatesBurning(gone, balance, last) ==
    /\ candidates' = Without(candidates, gone)
    /\ free' = balance
    /\ reserved' = [a \in Accounts |-> reserved[a] - Unreserved(a, gone)]
    /\ lastAuthoredBlock' = [a \in Accounts |-> IF a \in Who(gone) THEN 0 ELSE last[a]]

RemoveCandidates(gone, balance, last) ==
    /\ candidates' = Without(candidates, gone)
    /\ free' = [a \in Accounts |-> balance[a] + Unreserved(a, gone)]
    /\ reserved' = [a \in Accounts |-> reserved[a] - Unreserved(a, gone)]
    /\ lastAuthoredBlock' = [a \in Accounts |-> IF a \in Who(gone) THEN 0 ELSE last[a]]

\* leave_intent
LeaveIntent(who) ==
    /\ Len(candidates) > MinCandidates
    /\ who \in Who(candidates)
    /\ RemoveCandidates({c \in candidates : c.who = who}, free, lastAuthoredBlock)
    /\ UNCHANGED <<invulnerables, desiredCandidates, candidacyBond, pot, validators,
                   queued, block, rootCalls, authored, hadTurn>>
-----------------------------------------------------------------------------
(* The start of a block.                                                   *)

\* Mutant of Reward: half of the whole pot.
RewardOfWholePot == pot \div 2

\* note_author: half of the pot above ED.
Reward == IF pot >= ED THEN (pot - ED) \div 2 ELSE 0

\* The transfer succeeds: KeepAlive for the pot, and the author is left no less than
\* ED. A failure is ignored.
Rewarded(author) ==
    /\ pot - Reward >= ED
    /\ free[author] + reserved[author] + Reward >= ED

\* kick_stale_candidates at block now: in the vector's order, a candidate that has
\* not authored for KickThreshold blocks goes as long as more than MinCandidates are
\* left when its turn comes.
Stale(now, last) ==
    {c \in candidates :
        /\ last[c.who] <= now
        /\ now - last[c.who] >= KickThreshold}

\* Mutant of Kicked: MinCandidates is compared once, before the loop.
KickedAllStale(now, last) ==
    IF Len(candidates) > MinCandidates THEN Stale(now, last) ELSE {}

Kicked(now, last) ==
    {c \in Stale(now, last) :
        Cardinality({d \in Stale(now, last) : d.seat <= c.seat})
            <= Len(candidates) - MinCandidates}

\* on_initialize of authorship, then of the session pallet, which on every Period-th
\* block installs the queued set and asks new_session for the one after it. The collators are
\* assembled as a set: one that is both invulnerable and candidate counts once.
InitializeBlock(author) ==
    LET now  == block + 1
        last == [lastAuthoredBlock EXCEPT ![author] = now]
        paid == IF Rewarded(author) THEN [free EXCEPT ![author] = @ + Reward] ELSE free
        gone == IF now % Period = 0 THEN Kicked(now, last) ELSE {}
    IN  /\ author \in validators
        /\ block' = now
        /\ pot' = IF Rewarded(author) THEN pot - Reward ELSE pot
        /\ RemoveCandidates(gone, paid, last)
        /\ IF now % Period = 0
           THEN /\ validators' = queued
                /\ queued' = invulnerables \cup Who(candidates \ gone)
           ELSE UNCHANGED <<validators, queued>>
        /\ authored' = [authored EXCEPT ![author] = now]
        /\ hadTurn' = hadTurn \cup validators
        /\ UNCHANGED <<invulnerables, desiredCandidates, candidacyBond, rootCalls>>

\* Block 0 is the genesis block and carries no extrinsics.
Next ==
    \/ block > 0 /\ \E new \in InvulnerableSets : SetInvulnerables(new)
    \/ block > 0 /\ \E max \in DesiredFigures : SetDesiredCandidates(max)
    \/ block > 0 /\ \E bond \in Bonds : SetCandidacyBond(bond)
    \/ block > 0 /\ \E who \in Accounts : RegisterAsCandidate(who)
    \/ block > 0 /\ \E who \in Accounts : LeaveIntent(who)
    \/ block < MaxBlock /\ \E author \in Accounts : InitializeBlock(author)

Spec == Init /\ [][Next]_vars
-----------------------------------------------------------------------------
(* Properties.                                                             *)

\* Every storage item and history has its type.
TypeOK ==
    /\ invulnerables \subseteq Accounts
    /\ candidates \subseteq Candidate /\ IsFiniteSet(candidates)
    /\ lastAuthoredBlock \in [Accounts -> Nat]
    /\ desiredCandidates \in Nat /\ candidacyBond \in Nat
    /\ free \in [Accounts -> Nat] /\ reserved \in [Accounts -> Nat]
    /\ pot \in Nat /\ block \in Nat /\ rootCalls \in Nat
    /\ validators \subseteq Accounts /\ queued \subseteq Accounts
    /\ authored \in [Accounts -> Nat] /\ hadTurn \subseteq Accounts

\* What an account has reserved is the deposit of its one candidacy, whatever the
\* bond has been changed to since, and nothing once it left or was kicked.
BondsMatchCandidacies ==
    /\ \A c, d \in candidates : c.who = d.who => c = d
    /\ \A c \in candidates : reserved[c.who] = c.deposit
    /\ \A a \in Accounts \ Who(candidates) : reserved[a] = 0

\* "Candidates will not be allowed to get kicked or leave_intent if the total number
\* of candidates fall below MinCandidates": the loop over stale candidates stops there
\* too, however many are stale at once.
CandidateFloor ==
    [][Len(candidates') < Len(candidates) => Len(candidates') >= MinCandidates]_vars

\* A candidate that authored within the last KickThreshold blocks is not kicked,
\* whether it left and registered again in between or not.
AuthorsNotKicked ==
    [][\A c \in candidates :
          (block' # block /\ c.who \notin Who(candidates') /\ authored[c.who] > 0)
              => block' - authored[c.who] >= KickThreshold]_vars

\* Comment in register_as_candidate: "First authored block is current block plus kick
\* threshold to handle session delay". A candidate is kicked only after it has been in
\* the collator set since it registered.
KickedHadItsTurn ==
    [][\A c \in candidates :
          (block' # block /\ c.who \notin Who(candidates')) => c.who \in hadTurn']_vars

\* What the grace period is worth at the runtime's threshold of one session: a candidate
\* that is kicked without a turn registered in the extrinsics of a rotation block, which
\* had chosen its collators already, and is kicked by the rotation that seats it, two
\* sessions later. Whoever registers in any other block is seated before it can be kicked.
OnlyLatecomersMissTheirTurn ==
    [][\A c \in candidates :
          (block' # block /\ c.who \notin Who(candidates') /\ c.who \notin hadTurn')
              => LET since == lastAuthoredBlock[c.who] - KickThreshold
                 IN  since % Period = 0 /\ block' = since + 2 * Period]_vars

\* Rewards, bonds and refunds move value and create none.
Total == pot + MapThenSumSet(LAMBDA a : free[a] + reserved[a], Accounts)
ValueConserved == [][Total' = Total]_vars

\* Comment in note_author: "`reward` is half of pot account minus ED, this should never
\* fail". Its result is dropped, so a transfer that KeepAlive or a dead author's account
\* refuses would go unnoticed: every block pays its author that much.
AuthorsRewarded ==
    [][(block' # block /\ pot >= ED) => pot - pot' = (pot - ED) \div 2]_vars
=============================================================================
