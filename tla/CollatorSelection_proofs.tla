---------------------- MODULE CollatorSelection_proofs ----------------------
(***************************************************************************)
(* Proofs about CollatorSelection and Fees, for every set of accounts and  *)
(* every configuration: storage keeps its type, what an account has        *)
(* reserved is the deposit of its candidacy, the candidate vector keeps    *)
(* its floor, a recent author is not kicked, and nobody before its turn    *)
(* but who registered in a rotation block; authors get their reward, and   *)
(* no unit of value appears or is lost. Charging fees disturbs neither     *)
(* bonds nor rewards.                                                      *)
(***************************************************************************)
EXTENDS Fees, FiniteSetTheorems, TLAPS

\* A candidate's LastAuthoredBlock is at least the last block it authored, although the
\* entry is removed when it leaves and written anew when it registers.
LastCoversAuthored ==
    /\ \A a \in Accounts : authored[a] <= block
    /\ \A c \in candidates : authored[c.who] <= lastAuthoredBlock[c.who]

Inv ==
    /\ TypeOK
    /\ BondsMatchCandidacies
    /\ LastCoversAuthored

\* Without moves each candidate that is left to a new seat.
LEMMA WithoutMoves ==
    ASSUME NEW vec, vec \subseteq Candidate, IsFiniteSet(vec), NEW gone
    PROVE  \E moved \in Surjection(vec \ gone, Without(vec, gone)) :
              \A c \in vec \ gone : /\ moved[c] \in Candidate
                                    /\ moved[c].who = c.who
                                    /\ moved[c].deposit = c.deposit
<1> DEFINE left == vec \ gone
           pos(c) == Cardinality({d \in left : d.seat <= c.seat})
           moved == [c \in left |-> [c EXCEPT !.seat = pos(c)]]
           W == Without(vec, gone)
<1>1. IsFiniteSet(left)
  BY FS_Subset
<1>2. ASSUME NEW c \in left PROVE pos(c) \in Nat
  <2>1. {d \in left : d.seat <= c.seat} \in SUBSET left
    OBVIOUS
  <2>2. IsFiniteSet({d \in left : d.seat <= c.seat})
    BY <1>1, <2>1, FS_Subset
  <2> QED
    BY <2>2, FS_CardinalityType
<1>3. W = {[c EXCEPT !.seat = pos(c)] : c \in left}
  BY DEF Without
<1> HIDE DEF pos
<1>4. ASSUME NEW c \in left
      PROVE  /\ moved[c] \in Candidate
             /\ moved[c].who = c.who
             /\ moved[c].deposit = c.deposit
  BY <1>2 DEF Candidate
<1>5. W = {moved[c] : c \in left}
  BY <1>3
<1>6. moved \in [left -> W] /\ \A w \in W : \E c \in left : moved[c] = w
  BY <1>5
<1> HIDE DEF moved, W
<1>7. moved \in Surjection(left, W)
  BY <1>6 DEF Surjection
<1> QED
  BY <1>4, <1>7 DEF W

\* Without keeps who is left, with the deposits they had, and is no longer than before.
LEMMA WithoutFacts ==
    ASSUME NEW vec, vec \subseteq Candidate, IsFiniteSet(vec), NEW gone
    PROVE  /\ Without(vec, gone) \subseteq Candidate
           /\ IsFiniteSet(Without(vec, gone))
           /\ Len(Without(vec, gone)) <= Len(vec)
           /\ \A c \in Without(vec, gone) :
                 \E d \in vec \ gone : c.who = d.who /\ c.deposit = d.deposit
           /\ \A d \in vec \ gone : \E c \in Without(vec, gone) : c.who = d.who
           /\ (\A c, d \in vec : c.who = d.who => c = d)
                 => \A c, d \in Without(vec, gone) : c.who = d.who => c = d
<1> DEFINE left == vec \ gone
           W == Without(vec, gone)
<1>1. PICK moved \in Surjection(left, W) :
         \A c \in left : /\ moved[c] \in Candidate
                         /\ moved[c].who = c.who
                         /\ moved[c].deposit = c.deposit
  BY WithoutMoves
<1>2. IsFiniteSet(left) /\ Cardinality(left) <= Cardinality(vec)
  BY FS_Subset
<1> HIDE DEF W
<1>3. IsFiniteSet(W) /\ Cardinality(W) <= Cardinality(left)
  BY <1>2, FS_Surjection
<1>4. /\ Cardinality(W) \in Nat /\ Cardinality(left) \in Nat
      /\ Cardinality(vec) \in Nat
  BY <1>2, <1>3, FS_CardinalityType
<1>5. Len(W) <= Len(vec)
  BY <1>2, <1>3, <1>4 DEF Len
<1>6. moved \in [left -> W] /\ \A w \in W : \E c \in left : moved[c] = w
  BY DEF Surjection
<1>7. /\ W \subseteq Candidate
      /\ \A c \in W : \E d \in left : c.who = d.who /\ c.deposit = d.deposit
      /\ \A d \in left : \E c \in W : c.who = d.who
      /\ (\A c, d \in vec : c.who = d.who => c = d)
            => \A c, d \in W : c.who = d.who => c = d
  BY <1>1, <1>6
<1> QED
  BY <1>3, <1>5, <1>7 DEF W

\* Without drops exactly the candidates that are gone.
LEMMA WithoutLength ==
    ASSUME NEW vec, vec \subseteq Candidate, IsFiniteSet(vec),
           \A c, d \in vec : c.who = d.who => c = d, NEW gone
    PROVE  Len(Without(vec, gone)) = Cardinality(vec \ gone)
<1> DEFINE left == vec \ gone
           W == Without(vec, gone)
<1>1. PICK moved \in Surjection(left, W) : \A c \in left : moved[c].who = c.who
  BY WithoutMoves
<1> HIDE DEF W
<1>2. moved \in Injection(left, W)
  BY <1>1 DEF Injection, IsInjective, Surjection
<1>3. Cardinality(W) = Cardinality(left)
  BY <1>2, FS_Subset, FS_Surjection
<1> QED
  BY <1>3 DEF Len, W

\* What RemoveCandidates does to the invariant's parts.
Removed(gone, balance, last) ==
    /\ candidates' \subseteq Candidate /\ IsFiniteSet(candidates')
    /\ lastAuthoredBlock' \in [Accounts -> Nat]
    /\ free' \in [Accounts -> Nat]
    /\ reserved' \in [Accounts -> Nat]
    /\ BondsMatchCandidacies'
    /\ \A c \in candidates' :
          \E d \in candidates \ gone :
             c.who = d.who /\ lastAuthoredBlock'[c.who] = last[d.who]
    /\ Who(candidates) \ Who(candidates') = Who(gone)
    /\ Len(candidates') = Len(candidates) - Cardinality(gone)
    /\ \A a \in Accounts : free'[a] + reserved'[a] = balance[a] + reserved[a]

\* It does so when every balance it starts from is a natural number and last covers the
\* authors of those that stay.
LEMMA RemoveFacts ==
    ASSUME Inv, NEW gone, gone \subseteq candidates,
           NEW balance \in [Accounts -> Nat], NEW last \in [Accounts -> Nat],
           RemoveCandidates(gone, balance, last)
    PROVE  Removed(gone, balance, last)
<1>1. /\ candidates \subseteq Candidate /\ IsFiniteSet(candidates)
      /\ reserved \in [Accounts -> Nat]
      /\ \A c, d \in candidates : c.who = d.who => c = d
      /\ \A c \in candidates : reserved[c.who] = c.deposit
      /\ \A a \in Accounts \ Who(candidates) : reserved[a] = 0
  BY DEF Inv, TypeOK, BondsMatchCandidacies
<1>2. \A c \in candidates : c.who \in Accounts /\ c.deposit \in Nat
  BY <1>1 DEF Candidate
<1>3. ASSUME NEW a \in Accounts
      PROVE  /\ a \in Who(gone) => Unreserved(a, gone) = reserved[a]
             /\ a \notin Who(gone) => Unreserved(a, gone) = 0
  <2>1. CASE a \in Who(gone)
    <3>1. PICK c \in gone : c.who = a
      BY <2>1 DEF Who
    <3>2. (CHOOSE d \in gone : d.who = a) = c
      BY <1>1, <3>1
    <3> QED
      BY <1>1, <1>2, <2>1, <3>1, <3>2 DEF Unreserved
  <2>2. CASE a \notin Who(gone)
    BY <2>2 DEF Unreserved
  <2> QED
    BY <2>1, <2>2
<1>4. /\ candidates' = Without(candidates, gone)
      /\ free' = [a \in Accounts |-> balance[a] + Unreserved(a, gone)]
      /\ reserved' = [a \in Accounts |-> reserved[a] - Unreserved(a, gone)]
      /\ lastAuthoredBlock' = [a \in Accounts |-> IF a \in Who(gone) THEN 0 ELSE last[a]]
  BY DEF RemoveCandidates
<1>5. /\ candidates' \subseteq Candidate /\ IsFiniteSet(candidates')
      /\ Len(candidates') <= Len(candidates)
      /\ \A c \in candidates' :
            \E d \in candidates \ gone : c.who = d.who /\ c.deposit = d.deposit
      /\ \A d \in candidates \ gone : \E c \in candidates' : c.who = d.who
      /\ \A c, d \in candidates' : c.who = d.who => c = d
  BY <1>1, <1>4, WithoutFacts
<1>6. \A d \in candidates \ gone : d.who \notin Who(gone)
  BY <1>1 DEF Who
<1>7. /\ free' \in [Accounts -> Nat] /\ reserved' \in [Accounts -> Nat]
      /\ lastAuthoredBlock' \in [Accounts -> Nat]
  BY <1>1, <1>3, <1>4
<1>8. BondsMatchCandidacies'
  <2>1. \A c \in candidates' : reserved'[c.who] = c.deposit
    BY <1>1, <1>2, <1>3, <1>4, <1>5, <1>6
  <2>2. ASSUME NEW a \in Accounts, a \notin Who(candidates') PROVE reserved'[a] = 0
    <3>1. CASE a \in Who(gone)
      BY <1>1, <1>3, <1>4, <3>1
    <3>2. CASE a \notin Who(gone)
      <4>1. a \notin Who(candidates)
        BY <1>5, <2>2, <3>2 DEF Who
      <4> QED
        BY <1>1, <1>3, <1>4, <3>2, <4>1
    <3> QED
      BY <3>1, <3>2
  <2> QED
    BY <1>5, <2>1, <2>2 DEF BondsMatchCandidacies
<1>10. \A c \in candidates' :
          \E d \in candidates \ gone :
             c.who = d.who /\ lastAuthoredBlock'[c.who] = last[d.who]
  <2> TAKE c \in candidates'
  <2>1. PICK d \in candidates \ gone : c.who = d.who
    BY <1>5
  <2>2. d.who \in Accounts /\ d.who \notin Who(gone)
    BY <1>2, <1>6
  <2>3. lastAuthoredBlock'[c.who] = last[d.who]
    BY <1>4, <2>1, <2>2
  <2> QED
    BY <2>1, <2>3
<1>11. Who(candidates) \ Who(candidates') = Who(gone)
  BY <1>5, <1>6 DEF Who
<1>12. Len(candidates') = Len(candidates) - Cardinality(gone)
  <2>1. candidates \cap gone = gone
    OBVIOUS
  <2>2. Cardinality(candidates \cap gone) = Cardinality(gone)
    BY <2>1
  <2>3. Cardinality(candidates \ gone)
           = Cardinality(candidates) - Cardinality(candidates \cap gone)
    BY <1>1, FS_Difference
  <2>4. Len(Without(candidates, gone)) = Cardinality(candidates \ gone)
    BY <1>1, WithoutLength
  <2> QED
    BY <1>4, <2>2, <2>3, <2>4 DEF Len
<1>13. \A a \in Accounts : free'[a] + reserved'[a] = balance[a] + reserved[a]
  BY <1>1, <1>3, <1>4
<1> QED
  BY <1>5, <1>7, <1>8, <1>10, <1>11, <1>12, <1>13 DEF Removed

\* A call of root changes none of the variables the invariant relates.
LEMMA RootStep ==
    ASSUME Inv,
           \/ \E new \in InvulnerableSets : SetInvulnerables(new)
           \/ \E max \in DesiredFigures : SetDesiredCandidates(max)
           \/ \E bond \in Bonds : SetCandidacyBond(bond)
    PROVE  Inv'
<1>1. /\ RootCall
      /\ invulnerables' \subseteq Accounts
      /\ desiredCandidates' \in Nat
      /\ candidacyBond' \in Nat
  BY CollatorAssumption
     DEF Inv, TypeOK, SetInvulnerables, SetDesiredCandidates, SetCandidacyBond
<1>2. TypeOK'
  BY <1>1 DEF Inv, TypeOK, RootCall
<1>3. BondsMatchCandidacies' /\ LastCoversAuthored'
  BY <1>1 DEF Inv, BondsMatchCandidacies, LastCoversAuthored, RootCall, Who
<1> QED
  BY <1>2, <1>3 DEF Inv

\* register_as_candidate reserves the deposit it records.
LEMMA RegisterStep ==
    ASSUME Inv, NEW who \in Accounts, RegisterAsCandidate(who)
    PROVE  Inv'
<1> DEFINE new == [who |-> who, deposit |-> candidacyBond, seat |-> Len(candidates) + 1]
<1>1. Len(candidates) \in Nat /\ MaxCandidates \in Nat
  BY FS_CardinalityType, CollatorAssumption DEF Inv, TypeOK, Len
<1>2. /\ candidates' = candidates \cup {new}
      /\ new \in Candidate /\ new.who = who /\ new.deposit = candidacyBond
      /\ new \notin candidates
  BY <1>1 DEF Inv, TypeOK, RegisterAsCandidate, Candidate, Who
<1>3. /\ IsFiniteSet(candidates')
      /\ Cardinality(candidates') = Cardinality(candidates) + 1
  BY <1>2, FS_AddElement DEF Inv, TypeOK
<1> HIDE DEF new
<1>5. /\ free' = [free EXCEPT ![who] = @ - candidacyBond]
      /\ reserved' = [reserved EXCEPT ![who] = @ + candidacyBond]
      /\ lastAuthoredBlock' = [lastAuthoredBlock EXCEPT ![who] = block + KickThreshold]
      /\ candidacyBond <= free[who]
      /\ who \notin Who(candidates)
      /\ block' = block /\ authored' = authored
  BY DEF RegisterAsCandidate, CanReserve, FirstAuthored
<1>6. /\ free \in [Accounts -> Nat] /\ reserved \in [Accounts -> Nat]
      /\ lastAuthoredBlock \in [Accounts -> Nat] /\ authored \in [Accounts -> Nat]
      /\ block \in Nat /\ candidacyBond \in Nat /\ KickThreshold \in Nat
      /\ candidates \subseteq Candidate
      /\ reserved[who] = 0
  BY <1>5, CollatorAssumption DEF Inv, TypeOK, BondsMatchCandidacies
<1>7. \A c \in candidates : c.who \in Accounts /\ c.who # who
  BY <1>5, <1>6 DEF Candidate, Who
<1>8. TypeOK'
  <2>1. /\ free' \in [Accounts -> Nat] /\ reserved' \in [Accounts -> Nat]
        /\ lastAuthoredBlock' \in [Accounts -> Nat]
    BY <1>5, <1>6
  <2> QED
    BY <1>2, <1>3, <2>1 DEF Inv, TypeOK, RegisterAsCandidate
<1>9. BondsMatchCandidacies'
  <2>1. \A c, d \in candidates' : c.who = d.who => c = d
    BY <1>2, <1>7 DEF Inv, BondsMatchCandidacies
  <2>2. \A c \in candidates' : reserved'[c.who] = c.deposit
    BY <1>2, <1>5, <1>6, <1>7 DEF Inv, BondsMatchCandidacies
  <2>3. \A a \in Accounts \ Who(candidates') : reserved'[a] = 0
    BY <1>2, <1>5, <1>6 DEF Inv, BondsMatchCandidacies, Who
  <2> QED
    BY <2>1, <2>2, <2>3 DEF BondsMatchCandidacies
<1>10. LastCoversAuthored'
  BY <1>2, <1>5, <1>6, <1>7 DEF Inv, LastCoversAuthored
<1> QED
  BY <1>8, <1>9, <1>10 DEF Inv

\* leave_intent gives back the deposit and removes the candidate.
LEMMA LeaveStep ==
    ASSUME Inv, NEW who \in Accounts, LeaveIntent(who)
    PROVE  Inv'
<1> DEFINE gone == {c \in candidates : c.who = who}
<1>1. /\ RemoveCandidates(gone, free, lastAuthoredBlock)
      /\ free \in [Accounts -> Nat] /\ lastAuthoredBlock \in [Accounts -> Nat]
      /\ gone \subseteq candidates
  BY DEF LeaveIntent, Inv, TypeOK
<1> HIDE DEF gone
<1>2. /\ candidates' \subseteq Candidate /\ IsFiniteSet(candidates')
      /\ lastAuthoredBlock' \in [Accounts -> Nat]
      /\ free' \in [Accounts -> Nat] /\ reserved' \in [Accounts -> Nat]
      /\ BondsMatchCandidacies'
      /\ \A c \in candidates' : \E d \in candidates \ gone :
            c.who = d.who /\ lastAuthoredBlock'[c.who] = lastAuthoredBlock[d.who]
  <2>1. Removed(gone, free, lastAuthoredBlock)
    BY <1>1, RemoveFacts
  <2> QED
    BY <2>1 DEF Removed
<1>3. TypeOK'
  BY <1>2 DEF Inv, TypeOK, LeaveIntent
<1>4. LastCoversAuthored'
  BY <1>2 DEF Inv, LastCoversAuthored, LeaveIntent
<1> QED
  BY <1>2, <1>3, <1>4 DEF Inv

\* The start of a block keeps the invariant, and whoever it removes has authored nothing
\* within the threshold.
LEMMA BlockStep ==
    ASSUME Inv, NEW author \in Accounts, InitializeBlock(author)
    PROVE  /\ Inv'
           /\ \A c \in candidates : c.who \notin Who(candidates')
                => block' - authored[c.who] >= KickThreshold
<1> DEFINE now == block + 1
           last == [lastAuthoredBlock EXCEPT ![author] = now]
           paid == IF Rewarded(author) THEN [free EXCEPT ![author] = @ + Reward] ELSE free
           gone == IF now % Period = 0 THEN Kicked(now, last) ELSE {}
<1>1. /\ free \in [Accounts -> Nat] /\ pot \in Nat /\ ED \in Nat
      /\ block \in Nat /\ authored \in [Accounts -> Nat]
      /\ lastAuthoredBlock \in [Accounts -> Nat]
      /\ candidates \subseteq Candidate
      /\ KickThreshold \in Nat \ {0}
  BY CollatorAssumption DEF Inv, TypeOK
<1>2. Reward \in Nat
  BY <1>1 DEF Reward
<1>3. paid \in [Accounts -> Nat] /\ last \in [Accounts -> Nat] /\ now \in Nat
  BY <1>1, <1>2
<1>4. /\ gone \subseteq candidates
      /\ \A c \in gone : now - last[c.who] >= KickThreshold
  BY DEF Kicked, Stale
<1>5. /\ RemoveCandidates(gone, paid, last)
      /\ block' = now
      /\ authored' = [authored EXCEPT ![author] = now]
  BY DEF InitializeBlock
<1>6. pot' \in Nat
  <2>1. pot' = IF Rewarded(author) THEN pot - Reward ELSE pot
    BY DEF InitializeBlock
  <2> QED
    BY <1>1, <1>2, <2>1 DEF Rewarded
<1>7. /\ validators' \subseteq Accounts /\ queued' \subseteq Accounts
      /\ hadTurn' \subseteq Accounts
      /\ UNCHANGED <<invulnerables, desiredCandidates, candidacyBond, rootCalls>>
  <2>1. \A c \in candidates : c.who \in Accounts
    BY <1>1 DEF Candidate
  <2>2. invulnerables \cup Who(candidates \ gone) \subseteq Accounts
    BY <2>1 DEF Inv, TypeOK, Who
  <2> HIDE DEF gone
  <2> QED
    BY <2>2 DEF InitializeBlock, Inv, TypeOK, gone
<1>8. \A a \in Accounts : authored[a] <= lastAuthoredBlock[a] => authored'[a] <= last[a]
  BY <1>1, <1>5
<1>9. \A c \in candidates : c.who \in Accounts /\ authored[c.who] <= lastAuthoredBlock[c.who]
  BY <1>1 DEF Inv, LastCoversAuthored, Candidate
<1>10. \A c \in gone : c.who # author /\ now - authored[c.who] >= KickThreshold
  <2> TAKE c \in gone
  <2>1. c \in candidates /\ now - last[c.who] >= KickThreshold
    BY <1>4
  <2>2. c.who # author
    BY <1>1, <1>3, <1>9, <2>1
  <2> QED
    BY <1>1, <1>3, <1>9, <2>1, <2>2
<1> HIDE DEF now, last, paid, gone
<1>11. /\ candidates' \subseteq Candidate /\ IsFiniteSet(candidates')
       /\ lastAuthoredBlock' \in [Accounts -> Nat]
       /\ free' \in [Accounts -> Nat] /\ reserved' \in [Accounts -> Nat]
       /\ BondsMatchCandidacies'
       /\ \A c \in candidates' : \E d \in candidates \ gone :
             c.who = d.who /\ lastAuthoredBlock'[c.who] = last[d.who]
       /\ Who(candidates) \ Who(candidates') = Who(gone)
  <2>1. Removed(gone, paid, last)
    BY <1>3, <1>4, <1>5, RemoveFacts
  <2> QED
    BY <2>1 DEF Removed
<1>12. TypeOK'
  <2>1. block' \in Nat /\ authored' \in [Accounts -> Nat]
    BY <1>1, <1>3, <1>5
  <2> QED
    BY <1>6, <1>7, <1>11, <2>1 DEF Inv, TypeOK
<1>13. LastCoversAuthored'
  <2>1. \A a \in Accounts : authored'[a] <= block'
    BY <1>1, <1>5 DEF Inv, LastCoversAuthored, now
  <2>2. \A c \in candidates' : authored'[c.who] <= lastAuthoredBlock'[c.who]
    <3> TAKE c \in candidates'
    <3>1. PICK d \in candidates \ gone :
             c.who = d.who /\ lastAuthoredBlock'[c.who] = last[d.who]
      BY <1>11
    <3> QED
      BY <1>8, <1>9, <3>1
  <2> QED
    BY <2>1, <2>2 DEF LastCoversAuthored
<1>14. ASSUME NEW c \in candidates, c.who \notin Who(candidates')
       PROVE  block' - authored[c.who] >= KickThreshold
  <2>1. c.who \in Who(candidates)
    BY DEF Who
  <2>2. c.who \in Who(gone)
    BY <1>11, <1>14, <2>1
  <2>3. PICK d \in gone : d.who = c.who
    BY <2>2 DEF Who
  <2> QED
    BY <1>5, <1>10, <2>3
<1> QED
  BY <1>11, <1>12, <1>13, <1>14 DEF Inv

\* At genesis there are no candidates and nothing is reserved.
LEMMA InvInit == Init => Inv
<1> SUFFICES ASSUME Init PROVE Inv
  OBVIOUS
<1>1. IsFiniteSet(candidates) /\ Cardinality(candidates) = 0
  BY FS_EmptySet DEF Init
<1>2. TypeOK
  BY <1>1, CollatorAssumption DEF Init, TypeOK
<1>3. BondsMatchCandidacies /\ LastCoversAuthored
  BY DEF Init, BondsMatchCandidacies, LastCoversAuthored, Who
<1> QED
  BY <1>2, <1>3 DEF Inv

\* One case per action.
LEMMA InvStep == Inv /\ [Next]_vars => Inv'
<1> SUFFICES ASSUME Inv, [Next]_vars PROVE Inv'
  OBVIOUS
<1>1. CASE \/ \E new \in InvulnerableSets : SetInvulnerables(new)
           \/ \E max \in DesiredFigures : SetDesiredCandidates(max)
           \/ \E bond \in Bonds : SetCandidacyBond(bond)
  BY <1>1, RootStep
<1>2. CASE \E who \in Accounts : RegisterAsCandidate(who)
  BY <1>2, RegisterStep
<1>3. CASE \E who \in Accounts : LeaveIntent(who)
  BY <1>3, LeaveStep
<1>4. CASE \E author \in Accounts : InitializeBlock(author)
  BY <1>4, BlockStep
<1>5. CASE UNCHANGED vars
  BY <1>5 DEF vars, palletVars, Inv, TypeOK, BondsMatchCandidacies,
              LastCoversAuthored, Who, Len
<1> QED
  BY <1>1, <1>2, <1>3, <1>4, <1>5 DEF Next

\* Every storage item of the pallet and every balance keeps its type; in particular
\* no balance becomes negative.
THEOREM CollatorTypes == Spec => []TypeOK
<1>1. Inv => TypeOK
  BY DEF Inv
<1> QED
  BY <1>1, InvInit, InvStep, PTL DEF Spec

\* An account's reserved balance is the deposit of its one candidacy, through any changes
\* of the bond, departures and kicks.
THEOREM BondsSafe == Spec => []BondsMatchCandidacies
<1>1. Inv => BondsMatchCandidacies
  BY DEF Inv
<1> QED
  BY <1>1, InvInit, InvStep, PTL DEF Spec

\* No block removes a candidate that authored within the last KickThreshold blocks.
THEOREM AuthorsSafe == Spec => AuthorsNotKicked
<1> DEFINE Kept ==
      \A c \in candidates :
          (block' # block /\ c.who \notin Who(candidates') /\ authored[c.who] > 0)
              => block' - authored[c.who] >= KickThreshold
<1>1. Inv /\ [Next]_vars => [Kept]_vars
  <2> SUFFICES ASSUME Inv, Next PROVE Kept
    OBVIOUS
  <2>1. CASE \E author \in Accounts : InitializeBlock(author)
    BY <2>1, BlockStep
  <2>2. CASE block' = block
    BY <2>2
  <2> QED
    BY <2>1, <2>2 DEF Next, SetInvulnerables, SetDesiredCandidates, SetCandidacyBond,
                      RootCall, RegisterAsCandidate, LeaveIntent
<1> QED
  BY <1>1, InvInit, InvStep, PTL DEF Spec, AuthorsNotKicked
-----------------------------------------------------------------------------
(* The floor under the number of candidates.                               *)

\* A set of naturals that is not empty has a least element.
LEMMA LeastNatural ==
    ASSUME NEW S, S \subseteq Nat, S # {}
    PROVE  \E n \in S : \A m \in S : n <= m
<1>1. PICK n \in S : \A m \in S : ~(<<m, n>> \in OpToRel(<, Nat))
  BY NatLessThanWellFounded, WFMin
<1>2. \A m \in S : ~(m < n)
  BY <1>1 DEF OpToRel
<1> QED
  BY <1>2

\* The members of a finite vector that have at most n members up to their own seat are
\* at most n, even if seats were shared.
LEMMA FirstInOrder ==
    ASSUME NEW S, S \subseteq Candidate, IsFiniteSet(S), NEW n \in Nat
    PROVE  Cardinality({c \in S : Cardinality({d \in S : d.seat <= c.seat}) <= n}) <= n
<1> DEFINE Upto(c) == {d \in S : d.seat <= c.seat}
           K == {c \in S : Cardinality(Upto(c)) <= n}
<1>1. \A c \in S : c.seat \in Nat
  BY DEF Candidate
<1>2. ASSUME NEW c \in S
      PROVE  IsFiniteSet(Upto(c)) /\ Cardinality(Upto(c)) \in Nat
  <2>1. Upto(c) \in SUBSET S
    OBVIOUS
  <2> QED
    BY <2>1, FS_Subset, FS_CardinalityType
<1> SUFFICES Cardinality(K) <= n
  OBVIOUS
<1>3. CASE K = {}
  <2> HIDE DEF K
  <2> QED
    BY <1>3, FS_EmptySet
<1>4. CASE K # {}
  <2> DEFINE Room == {n - Cardinality(Upto(c)) : c \in K}
  <2>1. Room \subseteq Nat /\ Room # {}
    <3> HIDE DEF Upto
    <3>1. \A c \in K : n - Cardinality(Upto(c)) \in Nat
      BY <1>2
    <3> QED
      BY <1>4, <3>1
  <2>2. PICK r \in Room : \A m \in Room : r <= m
    BY <2>1, LeastNatural
  <2>3. PICK c \in K : r = n - Cardinality(Upto(c))
    OBVIOUS
  <2>4. \A d \in K : n - Cardinality(Upto(c)) <= n - Cardinality(Upto(d))
    BY <2>2, <2>3
  <2>5. \A d \in K : Cardinality(Upto(d)) <= Cardinality(Upto(c))
    <3> HIDE DEF Upto
    <3> QED
      BY <1>2, <2>4
  <2> HIDE DEF Room
  <2>6. ASSUME NEW d \in K PROVE d \in Upto(c)
    <3> SUFFICES ASSUME ~(d.seat <= c.seat) PROVE FALSE
      OBVIOUS
    <3>1. Upto(c) \in SUBSET Upto(d)
      BY <1>1
    <3>2. d \in Upto(d) /\ d \notin Upto(c)
      BY <1>1
    <3> HIDE DEF Upto
    <3>3. Cardinality(Upto(c)) <= Cardinality(Upto(d))
          /\ (Cardinality(Upto(d)) = Cardinality(Upto(c)) => Upto(d) = Upto(c))
      BY <1>2, <3>1, FS_Subset DEF K
    <3>4. Cardinality(Upto(d)) = Cardinality(Upto(c))
      BY <1>2, <2>5, <3>3 DEF K
    <3> QED
      BY <3>2, <3>3, <3>4
  <2>7. K \in SUBSET Upto(c)
    BY <2>6
  <2> HIDE DEF Upto, K
  <2>8. IsFiniteSet(K) /\ Cardinality(K) <= Cardinality(Upto(c))
    BY <1>2, <2>7, FS_Subset DEF K
  <2>9. Cardinality(K) \in Nat /\ Cardinality(Upto(c)) \in Nat
        /\ Cardinality(Upto(c)) <= n
    BY <1>2, <2>8, FS_CardinalityType DEF K
  <2> QED
    BY <2>8, <2>9
<1> QED
  BY <1>3, <1>4

\* kick_stale_candidates leaves MinCandidates, or removes nobody.
LEMMA KickedFloor ==
    ASSUME Inv, NEW now \in Nat, NEW last \in [Accounts -> Nat]
    PROVE  \/ Kicked(now, last) = {}
           \/ Cardinality(Kicked(now, last)) <= Len(candidates) - MinCandidates
<1> DEFINE S == Stale(now, last)
           n == Len(candidates) - MinCandidates
<1>1. S \in SUBSET candidates
  BY DEF Stale
<1>2. S \subseteq Candidate /\ IsFiniteSet(S)
  BY <1>1, FS_Subset DEF Inv, TypeOK
<1>3. n \in Int
  BY FS_CardinalityType, CollatorAssumption DEF Inv, TypeOK, Len
<1>4. Kicked(now, last) = {c \in S : Cardinality({d \in S : d.seat <= c.seat}) <= n}
  BY DEF Kicked
<1> HIDE DEF S, n
<1>5. CASE n \in Nat
  BY <1>2, <1>4, <1>5, FirstInOrder DEF n
<1>6. CASE n \notin Nat
  <2>1. ASSUME NEW c \in S PROVE Cardinality({d \in S : d.seat <= c.seat}) \in Nat
    <3>1. {d \in S : d.seat <= c.seat} \in SUBSET S
      OBVIOUS
    <3> QED
      BY <1>2, <3>1, FS_Subset, FS_CardinalityType
  <2>2. \A c \in S : ~(Cardinality({d \in S : d.seat <= c.seat}) <= n)
    BY <1>3, <1>6, <2>1
  <2> QED
    BY <1>4, <2>2
<1> QED
  BY <1>5, <1>6

\* What the start of a block computes, named as in InitializeBlock.
BlockLast(author) == [lastAuthoredBlock EXCEPT ![author] = block + 1]
BlockPaid(author) ==
    IF Rewarded(author) THEN [free EXCEPT ![author] = @ + Reward] ELSE free
BlockGone(author) ==
    IF (block + 1) % Period = 0 THEN Kicked(block + 1, BlockLast(author)) ELSE {}

\* The start of a block removes some of the candidates.
LEMMA BlockRemoves ==
    ASSUME Inv, NEW author \in Accounts, InitializeBlock(author)
    PROVE  /\ RemoveCandidates(BlockGone(author), BlockPaid(author), BlockLast(author))
           /\ BlockGone(author) \subseteq candidates
           /\ Reward \in Nat
           /\ BlockPaid(author) \in [Accounts -> Nat]
           /\ BlockLast(author) \in [Accounts -> Nat]
           /\ Removed(BlockGone(author), BlockPaid(author), BlockLast(author))
<1>1. RemoveCandidates(BlockGone(author), BlockPaid(author), BlockLast(author))
  BY DEF InitializeBlock, BlockGone, BlockPaid, BlockLast
<1>2. BlockGone(author) \subseteq candidates
  BY DEF BlockGone, Kicked, Stale
<1>3. /\ free \in [Accounts -> Nat] /\ lastAuthoredBlock \in [Accounts -> Nat]
      /\ block \in Nat /\ pot \in Nat /\ ED \in Nat
  BY CollatorAssumption DEF Inv, TypeOK
<1>4. Reward \in Nat
  BY <1>3 DEF Reward
<1>5. BlockPaid(author) \in [Accounts -> Nat] /\ BlockLast(author) \in [Accounts -> Nat]
  BY <1>3, <1>4 DEF BlockPaid, BlockLast
<1>6. Removed(BlockGone(author), BlockPaid(author), BlockLast(author))
  BY <1>1, <1>2, <1>5, RemoveFacts
<1> QED
  BY <1>1, <1>2, <1>4, <1>5, <1>6

\* A step that shortens the vector leaves at least MinCandidates in it.
LEMMA FloorStep ==
    ASSUME Inv, Next, Len(candidates') < Len(candidates)
    PROVE  Len(candidates') >= MinCandidates
<1>1. Len(candidates) \in Nat /\ MinCandidates \in Nat
  BY FS_CardinalityType, CollatorAssumption DEF Inv, TypeOK, Len
<1>2. candidates' # candidates
  BY <1>1
<1>3. ASSUME NEW who \in Accounts, RegisterAsCandidate(who) PROVE FALSE
  <2> DEFINE new == [who |-> who, deposit |-> candidacyBond, seat |-> Len(candidates) + 1]
  <2>1. candidates' = candidates \cup {new}
    BY <1>3 DEF RegisterAsCandidate
  <2> HIDE DEF new
  <2>2. IsFiniteSet(candidates)
    BY DEF Inv, TypeOK
  <2>3. Cardinality(candidates') = Cardinality(candidates)
        \/ Cardinality(candidates') = Cardinality(candidates) + 1
    BY <2>1, <2>2, FS_AddElement
  <2> QED
    BY <1>1, <2>3 DEF Len
<1>4. ASSUME NEW who \in Accounts, LeaveIntent(who)
      PROVE  Len(candidates') >= MinCandidates
  <2> DEFINE gone == {c \in candidates : c.who = who}
  <2>1. Len(candidates) > MinCandidates
        /\ RemoveCandidates(gone, free, lastAuthoredBlock)
    BY <1>4 DEF LeaveIntent
  <2>2. PICK c \in candidates : c.who = who
    BY <1>4 DEF LeaveIntent, Who
  <2>3. gone = {c} /\ gone \subseteq candidates
    BY <2>2 DEF Inv, BondsMatchCandidacies
  <2> HIDE DEF gone
  <2>4. Cardinality(gone) = 1
    BY <2>3, FS_Singleton
  <2>5. Len(candidates') = Len(candidates) - Cardinality(gone)
    <3>1. free \in [Accounts -> Nat] /\ lastAuthoredBlock \in [Accounts -> Nat]
      BY DEF Inv, TypeOK
    <3>2. Removed(gone, free, lastAuthoredBlock)
      BY <2>1, <2>3, <3>1, RemoveFacts
    <3> QED
      BY <3>2 DEF Removed
  <2> QED
    BY <1>1, <2>1, <2>4, <2>5
<1>5. ASSUME NEW author \in Accounts, InitializeBlock(author)
      PROVE  Len(candidates') >= MinCandidates
  <2> DEFINE gone == BlockGone(author)
  <2>1. Len(candidates') = Len(candidates) - Cardinality(gone)
    BY <1>5, BlockRemoves DEF Removed
  <2>2. gone # {}
    BY <1>1, <2>1, FS_EmptySet
  <2>3. gone = Kicked(block + 1, BlockLast(author))
    BY <2>2 DEF BlockGone
  <2>4. Cardinality(gone) <= Len(candidates) - MinCandidates
    BY <1>5, <2>2, <2>3, BlockRemoves, KickedFloor DEF Inv, TypeOK
  <2>5. IsFiniteSet(gone) /\ Cardinality(gone) \in Nat
    BY <1>5, BlockRemoves, FS_Subset, FS_CardinalityType DEF Inv, TypeOK
  <2> QED
    BY <1>1, <2>1, <2>4, <2>5
<1> QED
  BY <1>2, <1>3, <1>4, <1>5
  DEF Next, SetInvulnerables, SetDesiredCandidates, SetCandidacyBond, RootCall

\* Neither leave_intent nor any number of candidates that are stale at once takes the
\* vector below MinCandidates.
THEOREM FloorSafe == Spec => CandidateFloor
<1>1. Inv /\ [Next]_vars
        => [Len(candidates') < Len(candidates) => Len(candidates') >= MinCandidates]_vars
  BY FloorStep
<1> QED
  BY <1>1, InvInit, InvStep, PTL DEF Spec, CandidateFloor
-----------------------------------------------------------------------------
(* Rewards.                                                                *)

\* Every account has the existential deposit: bonds are reserved, not spent.
KeepsAlive == \A a \in Accounts : free[a] + reserved[a] >= ED

\* What the start of a block pays, account by account.
LEMMA BlockPays ==
    ASSUME Inv, NEW author \in Accounts, InitializeBlock(author)
    PROVE  \A a \in Accounts :
              free'[a] + reserved'[a] =
                 free[a] + reserved[a]
                   + (IF a = author /\ Rewarded(author) THEN Reward ELSE 0)
<1>1. /\ free \in [Accounts -> Nat] /\ reserved \in [Accounts -> Nat]
      /\ Reward \in Nat
  BY BlockRemoves DEF Inv, TypeOK
<1>2. \A a \in Accounts :
         free'[a] + reserved'[a] = BlockPaid(author)[a] + reserved[a]
  BY BlockRemoves DEF Removed
<1> QED
  BY <1>1, <1>2 DEF BlockPaid

\* Extrinsics move value between an account's free and reserved balance only.
LEMMA ExtrinsicPays ==
    ASSUME Inv, Next, block' = block
    PROVE  /\ pot' = pot
           /\ \A a \in Accounts : free'[a] + reserved'[a] = free[a] + reserved[a]
<1>1. /\ free \in [Accounts -> Nat] /\ reserved \in [Accounts -> Nat]
      /\ candidacyBond \in Nat /\ block \in Nat
  BY DEF Inv, TypeOK
<1>2. ASSUME NEW who \in Accounts, RegisterAsCandidate(who)
      PROVE  /\ pot' = pot
             /\ \A a \in Accounts : free'[a] + reserved'[a] = free[a] + reserved[a]
  BY <1>1, <1>2 DEF RegisterAsCandidate
<1>3. ASSUME NEW who \in Accounts, LeaveIntent(who)
      PROVE  /\ pot' = pot
             /\ \A a \in Accounts : free'[a] + reserved'[a] = free[a] + reserved[a]
  <2> DEFINE gone == {c \in candidates : c.who = who}
  <2>1. RemoveCandidates(gone, free, lastAuthoredBlock) /\ pot' = pot
        /\ gone \subseteq candidates
    BY <1>3 DEF LeaveIntent
  <2>2. lastAuthoredBlock \in [Accounts -> Nat]
    BY DEF Inv, TypeOK
  <2> HIDE DEF gone
  <2>3. \A a \in Accounts : free'[a] + reserved'[a] = free[a] + reserved[a]
    <3>1. Removed(gone, free, lastAuthoredBlock)
      BY <1>1, <2>1, <2>2, RemoveFacts
    <3> QED
      BY <3>1 DEF Removed
  <2> QED
    BY <2>1, <2>3
<1>4. \A author \in Accounts : ~InitializeBlock(author)
  BY <1>1 DEF InitializeBlock
<1> QED
  BY <1>2, <1>3, <1>4
  DEF Next, SetInvulnerables, SetDesiredCandidates, SetCandidacyBond, RootCall

\* Every step leaves the accounts alive.
LEMMA AliveStep ==
    ASSUME Inv, KeepsAlive, [Next]_vars
    PROVE  KeepsAlive'
<1>1. /\ free \in [Accounts -> Nat] /\ reserved \in [Accounts -> Nat]
      /\ ED \in Nat
  BY CollatorAssumption DEF Inv, TypeOK
<1>2. CASE UNCHANGED vars
  BY <1>2 DEF vars, KeepsAlive
<1>3. CASE Next /\ block' = block
  BY <1>1, <1>3, ExtrinsicPays DEF KeepsAlive
<1>4. ASSUME NEW author \in Accounts, InitializeBlock(author) PROVE KeepsAlive'
  <2>1. Reward \in Nat
    BY <1>4, BlockRemoves
  <2> QED
    BY <1>1, <1>4, <2>1, BlockPays DEF KeepsAlive
<1> QED
  BY <1>2, <1>3, <1>4
  DEF Next, SetInvulnerables, SetDesiredCandidates, SetCandidacyBond, RootCall,
      RegisterAsCandidate, LeaveIntent

\* So the transfer of note_author succeeds.
LEMMA RewardStep ==
    ASSUME Inv, KeepsAlive, Next, block' # block, pot >= ED
    PROVE  pot - pot' = (pot - ED) \div 2
<1>1. PICK author \in Accounts : InitializeBlock(author)
  BY DEF Next, SetInvulnerables, SetDesiredCandidates, SetCandidacyBond, RootCall,
         RegisterAsCandidate, LeaveIntent
<1>2. /\ pot \in Nat /\ ED \in Nat \ {0}
      /\ free[author] \in Nat /\ reserved[author] \in Nat
      /\ free[author] + reserved[author] >= ED
  BY CollatorAssumption DEF Inv, TypeOK, KeepsAlive
<1>3. Reward = (pot - ED) \div 2 /\ Reward \in Nat /\ Reward <= pot - ED
  BY <1>2 DEF Reward
<1>4. Rewarded(author)
  BY <1>2, <1>3 DEF Rewarded
<1>5. pot' = pot - Reward
  BY <1>1, <1>4 DEF InitializeBlock
<1> QED
  BY <1>2, <1>3, <1>5

\* If accounts start with the existential deposit or more, the transfer of note_author
\* never fails: every block pays its author half of the pot above ED.
THEOREM RewardsPaid ==
    ASSUME Endowment >= ED
    PROVE  Spec => AuthorsRewarded
<1> DEFINE Paid == (block' # block /\ pot >= ED) => pot - pot' = (pot - ED) \div 2
<1>1. Init => KeepsAlive
  BY CollatorAssumption DEF Init, KeepsAlive
<1>2. Inv /\ KeepsAlive /\ [Next]_vars => KeepsAlive'
  BY AliveStep
<1>3. Inv /\ KeepsAlive /\ [Next]_vars => [Paid]_vars
  BY RewardStep
<1> QED
  BY <1>1, <1>2, <1>3, InvInit, InvStep, PTL DEF Spec, AuthorsRewarded
-----------------------------------------------------------------------------
(* A new candidate's first turn.                                           *)

\* A candidate that has not been in the collator set yet registered KickThreshold blocks
\* before its LastAuthoredBlock; the first session since then queues it, the second one
\* makes it a validator.
TurnDue ==
    \A c \in candidates : c.who \notin hadTurn =>
        \E since \in 0 .. block :
            /\ lastAuthoredBlock[c.who] = since + KickThreshold
            /\ c.who \notin queued =>
                  \A m \in since + 1 .. block : m % Period # 0
            /\ c.who \notin validators =>
                  \A m, n \in since + 1 .. block :
                      m % Period = 0 /\ n % Period = 0 => m = n

\* Of Period consecutive blocks one ends a session.
LEMMA SessionWithinPeriod ==
    ASSUME NEW b \in Nat
    PROVE  \E m \in b + 1 .. b + Period : m % Period = 0
<1> DEFINE r == b % Period
           m == b + (Period - r)
<1>1. Period \in Nat /\ Period > 0
  BY CollatorAssumption
<1>2. r \in 0 .. Period - 1
  BY <1>1
<1>3. m \in b + 1 .. b + Period
  BY <1>1, <1>2
<1>4. b = Period * (b \div Period) + r /\ b \div Period \in Nat
  BY <1>1
<1>5. m = Period * (b \div Period + 1)
  BY <1>1, <1>2, <1>4
<1>6. m % Period = 0
  BY <1>1, <1>4, <1>5
<1> QED
  BY <1>3, <1>6

\* Two sessions before the end of a session another one ended.
LEMMA TwoSessionsBefore ==
    ASSUME NEW b \in Nat, (b + 2 * Period) % Period = 0
    PROVE  b % Period = 0
<1>1. Period \in Nat /\ Period > 0
  BY CollatorAssumption
<1> DEFINE q == b \div Period
           r == b % Period
<1>2. q \in Nat /\ r \in 0 .. Period - 1 /\ b = Period * q + r
  BY <1>1
<1> HIDE DEF q, r
<1>3. b + 2 * Period = Period * (q + 2) + r
  BY <1>1, <1>2
<1>4. (b + 2 * Period) % Period = r
  BY <1>1, <1>2, <1>3
<1> QED
  BY <1>4 DEF r

\* c registered in a rotation block, and block now is two sessions later.
Late(c, now) ==
    LET since == lastAuthoredBlock[c.who] - KickThreshold
    IN  since % Period = 0 /\ now = since + 2 * Period

\* The start of a block preserves TurnDue, and whom it removes had a turn or was late.
LEMMA TurnBlock ==
    ASSUME Inv, TurnDue, KickThreshold >= Period,
           NEW author \in Accounts, InitializeBlock(author)
    PROVE  /\ TurnDue'
           /\ \A c \in candidates :
                 (c.who \notin Who(candidates') /\ c.who \notin hadTurn') => Late(c, block')
<1> DEFINE now  == block + 1
           gone == BlockGone(author)
           last == BlockLast(author)
<1>1. /\ block \in Nat /\ KickThreshold \in Nat /\ Period \in Nat \ {0}
      /\ lastAuthoredBlock \in [Accounts -> Nat] /\ candidates \subseteq Candidate
  BY CollatorAssumption DEF Inv, TypeOK
<1>2. /\ author \in validators /\ block' = now /\ hadTurn' = hadTurn \cup validators
      /\ now % Period = 0 => /\ validators' = queued
                             /\ queued' = invulnerables \cup Who(candidates \ gone)
      /\ now % Period # 0 => validators' = validators /\ queued' = queued
  BY DEF InitializeBlock, BlockGone, BlockLast
<1>3. \A a \in Accounts : a # author => last[a] = lastAuthoredBlock[a]
  BY <1>1 DEF BlockLast
<1>4. \A c \in candidates : c.who \in Accounts
  BY <1>1 DEF Candidate
<1>5. /\ \A c \in candidates' : \E d \in candidates \ gone :
            c.who = d.who /\ lastAuthoredBlock'[c.who] = last[d.who]
      /\ Who(candidates) \ Who(candidates') = Who(gone)
      /\ gone \subseteq candidates
  BY BlockRemoves DEF Removed
<1>6. \A c \in gone : now % Period = 0 /\ now - last[c.who] >= KickThreshold
  BY DEF BlockGone, BlockLast, Kicked, Stale
<1> HIDE DEF gone, last
<1>7. TurnDue'
  <2> SUFFICES ASSUME NEW c \in candidates', c.who \notin hadTurn'
               PROVE  \E since \in 0 .. block' :
                         /\ lastAuthoredBlock'[c.who] = since + KickThreshold
                         /\ c.who \notin queued' =>
                               \A m \in since + 1 .. block' : m % Period # 0
                         /\ c.who \notin validators' =>
                               \A m, n \in since + 1 .. block' :
                                  m % Period = 0 /\ n % Period = 0 => m = n
    BY DEF TurnDue
  <2>1. PICK d \in candidates \ gone :
           c.who = d.who /\ lastAuthoredBlock'[c.who] = last[d.who]
    BY <1>5
  <2>2. d.who \notin hadTurn /\ d.who \notin validators /\ d.who # author
    BY <1>2, <2>1
  <2>3. PICK since \in 0 .. block :
           /\ lastAuthoredBlock[d.who] = since + KickThreshold
           /\ d.who \notin queued => \A m \in since + 1 .. block : m % Period # 0
           /\ d.who \notin validators =>
                 \A m, n \in since + 1 .. block :
                    m % Period = 0 /\ n % Period = 0 => m = n
    BY <2>2 DEF TurnDue
  <2>4. lastAuthoredBlock'[c.who] = since + KickThreshold
    BY <1>3, <1>4, <2>1, <2>2, <2>3
  <2>5. since \in 0 .. block' /\ since + 1 .. block' = (since + 1 .. block) \cup {now}
    BY <1>1, <1>2
  <2>6. CASE now % Period = 0
    <3>1. c.who \in queued'
      BY <1>2, <2>1, <2>6 DEF Who
    <3>2. c.who \notin validators' => \A m \in since + 1 .. block : m % Period # 0
      BY <1>2, <2>1, <2>3, <2>6
    <3> QED
      BY <2>4, <2>5, <3>1, <3>2
  <2>7. CASE now % Period # 0
    BY <1>2, <2>1, <2>3, <2>4, <2>5, <2>7
  <2> QED
    BY <2>6, <2>7
<1>8. ASSUME NEW c \in candidates, c.who \notin Who(candidates'), c.who \notin hadTurn'
      PROVE  Late(c, now)
  <2>1. c.who \in Who(gone)
    BY <1>5, <1>8 DEF Who
  <2>2. now % Period = 0 /\ now - last[c.who] >= KickThreshold
    BY <1>6, <2>1 DEF Who
  <2>3. c.who \notin hadTurn /\ c.who \notin validators /\ c.who # author
    BY <1>2, <1>8
  <2>4. PICK since \in 0 .. block :
           /\ lastAuthoredBlock[c.who] = since + KickThreshold
           /\ \A m, n \in since + 1 .. block :
                 m % Period = 0 /\ n % Period = 0 => m = n
    BY <2>3 DEF TurnDue
  <2>5. since \in Nat /\ since + Period \in Nat /\ since + 2 * Period <= now
    BY <1>1, <1>3, <1>4, <2>2, <2>3, <2>4
  <2>6. CASE since + 2 * Period = now
    <3>1. since % Period = 0
      BY <2>2, <2>5, <2>6, TwoSessionsBefore
    <3>2. lastAuthoredBlock[c.who] - KickThreshold = since
      BY <1>1, <2>4, <2>5
    <3> QED
      BY <2>6, <3>1, <3>2 DEF Late
  <2> SUFFICES ASSUME since + 2 * Period <= block PROVE FALSE
    BY <1>1, <2>5, <2>6
  <2>7. PICK m \in since + 1 .. since + Period : m % Period = 0
    BY <2>5, SessionWithinPeriod
  <2>8. PICK n \in since + Period + 1 .. since + Period + Period : n % Period = 0
    BY <2>5, SessionWithinPeriod
  <2>9. m \in since + 1 .. block /\ n \in since + 1 .. block /\ m # n
    BY <1>1, <2>5, <2>7, <2>8
  <2> QED
    BY <2>4, <2>7, <2>8, <2>9
<1> QED
  BY <1>2, <1>7, <1>8

\* Every step preserves TurnDue.
LEMMA TurnStep ==
    ASSUME Inv, TurnDue, KickThreshold >= Period, [Next]_vars
    PROVE  TurnDue'
<1>1. /\ block \in Nat /\ KickThreshold \in Nat
      /\ lastAuthoredBlock \in [Accounts -> Nat] /\ candidates \subseteq Candidate
  BY CollatorAssumption DEF Inv, TypeOK
<1>2. CASE UNCHANGED <<candidates, lastAuthoredBlock, hadTurn, queued, validators, block>>
  BY <1>2 DEF TurnDue
<1>3. ASSUME NEW who \in Accounts, RegisterAsCandidate(who) PROVE TurnDue'
  <2> SUFFICES ASSUME NEW c \in candidates', c.who \notin hadTurn'
               PROVE  \E since \in 0 .. block' :
                         /\ lastAuthoredBlock'[c.who] = since + KickThreshold
                         /\ c.who \notin queued' =>
                               \A m \in since + 1 .. block' : m % Period # 0
                         /\ c.who \notin validators' =>
                               \A m, n \in since + 1 .. block' :
                                  m % Period = 0 /\ n % Period = 0 => m = n
    BY DEF TurnDue
  <2>1. /\ lastAuthoredBlock' = [lastAuthoredBlock EXCEPT ![who] = block + KickThreshold]
        /\ hadTurn' = hadTurn \ {who}
        /\ UNCHANGED <<block, queued, validators>>
    BY <1>3 DEF RegisterAsCandidate, FirstAuthored
  <2>2. CASE c.who = who
    <3>1. lastAuthoredBlock'[c.who] = block + KickThreshold
      BY <1>1, <2>1, <2>2
    <3>2. block \in 0 .. block' /\ block + 1 .. block' = {}
      BY <1>1, <2>1
    <3> QED
      BY <3>1, <3>2
  <2>3. CASE c.who # who
    <3>1. c \in candidates
      BY <1>3, <2>3 DEF RegisterAsCandidate
    <3>2. c.who \in Accounts /\ c.who \notin hadTurn
      BY <1>1, <2>1, <2>3, <3>1 DEF Candidate
    <3>3. lastAuthoredBlock'[c.who] = lastAuthoredBlock[c.who]
      BY <1>1, <2>1, <2>3, <3>2
    <3> QED
      BY <2>1, <3>1, <3>2, <3>3 DEF TurnDue
  <2> QED
    BY <2>2, <2>3
<1>4. ASSUME NEW who \in Accounts, LeaveIntent(who) PROVE TurnDue'
  <2> DEFINE gone == {c \in candidates : c.who = who}
  <2>1. RemoveCandidates(gone, free, lastAuthoredBlock) /\ gone \subseteq candidates
        /\ UNCHANGED <<block, queued, validators, hadTurn>>
    BY <1>4 DEF LeaveIntent
  <2>2. free \in [Accounts -> Nat]
    BY DEF Inv, TypeOK
  <2> HIDE DEF gone
  <2>3. \A c \in candidates' : \E d \in candidates \ gone :
           c.who = d.who /\ lastAuthoredBlock'[c.who] = lastAuthoredBlock[d.who]
    <3>1. Removed(gone, free, lastAuthoredBlock)
      BY <1>1, <2>1, <2>2, RemoveFacts
    <3> QED
      BY <3>1 DEF Removed
  <2> QED
    BY <2>1, <2>3 DEF TurnDue
<1>5. CASE \E author \in Accounts : InitializeBlock(author)
  BY <1>5, TurnBlock
<1> QED
  BY <1>2, <1>3, <1>4, <1>5
  DEF Next, vars, palletVars, SetInvulnerables, SetDesiredCandidates, SetCandidacyBond,
      RootCall

\* With the runtime's threshold of one session, or any longer one, the delay that
\* register_as_candidate grants is enough for everybody but who registers in a rotation
\* block, and even these are not kicked before two sessions have passed.
THEOREM OnlyLatecomersKicked ==
    ASSUME KickThreshold >= Period
    PROVE  Spec => OnlyLatecomersMissTheirTurn
<1> DEFINE Turn == \A c \in candidates :
             (block' # block /\ c.who \notin Who(candidates') /\ c.who \notin hadTurn')
                 => LET since == lastAuthoredBlock[c.who] - KickThreshold
                    IN  since % Period = 0 /\ block' = since + 2 * Period
<1>1. Init => TurnDue
  BY DEF Init, TurnDue
<1>2. Inv /\ TurnDue /\ [Next]_vars => TurnDue'
  BY TurnStep
<1>3. Inv /\ TurnDue /\ [Next]_vars => [Turn]_vars
  <2> SUFFICES ASSUME Inv, TurnDue, Next, block' # block PROVE Turn
    OBVIOUS
  <2>1. PICK author \in Accounts : InitializeBlock(author)
    BY DEF Next, SetInvulnerables, SetDesiredCandidates, SetCandidacyBond, RootCall,
           RegisterAsCandidate, LeaveIntent
  <2> QED
    BY <2>1, TurnBlock DEF Late
<1> QED
  BY <1>1, <1>2, <1>3, InvInit, InvStep, PTL DEF Spec, OnlyLatecomersMissTheirTurn
-----------------------------------------------------------------------------
(* Conservation of value. The fold in Total is a recursive function over   *)
(* the subsets of Accounts; that it exists, and how its value moves when   *)
(* one summand does, is shown by descent on cardinality.                   *)

Pick(s) == CHOOSE x \in s : TRUE

\* it sums g over every subset of S.
IsSum(it, g, S) ==
    it = [s \in SUBSET S |->
            IF s = {} THEN 0 ELSE g[Pick(s)] + it[s \ {Pick(s)}]]

\* Taking the picked element from a finite set leaves one element less.
LEMMA PickSmaller ==
    ASSUME NEW S, IsFiniteSet(S), NEW s \in SUBSET S, s # {}
    PROVE  /\ Pick(s) \in s /\ Pick(s) \in S /\ s \ {Pick(s)} \in SUBSET S
           /\ IsFiniteSet(s) /\ Cardinality(s) \in Nat \ {0}
           /\ Cardinality(s \ {Pick(s)}) = Cardinality(s) - 1
<1>1. Pick(s) \in s
  BY DEF Pick
<1>2. IsFiniteSet(s) /\ Cardinality(s) \in Nat \ {0}
  BY FS_Subset, FS_CardinalityType, FS_EmptySet
<1>3. Cardinality(s \ {Pick(s)}) = Cardinality(s) - 1
  BY <1>1, <1>2, FS_RemoveElement
<1> QED
  BY <1>1, <1>2, <1>3

\* The sums of a function over the subsets of its finite domain exist.
LEMMA SumExists ==
    ASSUME NEW S, IsFiniteSet(S), NEW g \in [S -> Nat]
    PROVE  \E it : IsSum(it, g, S)
<1> DEFINE F == [SUBSET S -> Nat]
           Upto(it, n) == \A s \in SUBSET S : Cardinality(s) <= n =>
               it[s] = IF s = {} THEN 0 ELSE g[Pick(s)] + it[s \ {Pick(s)}]
           Bad == {n \in Nat : ~\E it \in F : Upto(it, n)}
<1>1. Bad = {}
  <2> SUFFICES ASSUME Bad # {} PROVE FALSE
    OBVIOUS
  <2>1. PICK n \in Bad : \A m \in Bad : n <= m
    BY LeastNatural
  <2>2. n \in Nat
    OBVIOUS
  <2>3. CASE n = 0
    <3> DEFINE it == [s \in SUBSET S |-> 0]
    <3>1. ASSUME NEW s \in SUBSET S, s # {} PROVE ~(Cardinality(s) <= 0)
      <4>1. Cardinality(s) \in Nat \ {0}
        BY <3>1, PickSmaller
      <4> QED
        BY <4>1
    <3>2. it \in F /\ Upto(it, 0)
      BY <3>1
    <3> QED
      BY <2>1, <2>3, <3>2
  <2>4. CASE n # 0
    <3>1. n - 1 \in Nat /\ n - 1 \notin Bad
      <4> HIDE DEF Bad
      <4> QED
        BY <2>1, <2>2, <2>4
    <3>2. PICK it \in F : Upto(it, n - 1)
      BY <3>1
    <3> DEFINE next == [s \in SUBSET S |->
                          IF Cardinality(s) = n THEN g[Pick(s)] + it[s \ {Pick(s)}]
                          ELSE it[s]]
    <3>3. next \in F
      <4> SUFFICES ASSUME NEW s \in SUBSET S
                   PROVE  (IF Cardinality(s) = n THEN g[Pick(s)] + it[s \ {Pick(s)}]
                           ELSE it[s]) \in Nat
        OBVIOUS
      <4>1. CASE Cardinality(s) = n
        <5>1. s # {}
          BY <2>4, <4>1, FS_EmptySet
        <5>2. Pick(s) \in S /\ s \ {Pick(s)} \in SUBSET S
          BY <5>1, PickSmaller
        <5>3. g[Pick(s)] \in Nat /\ it[s \ {Pick(s)}] \in Nat
          BY <5>2
        <5> QED
          BY <4>1, <5>3
      <4>2. CASE Cardinality(s) # n
        BY <4>2
      <4> QED
        BY <4>1, <4>2
    <3>4. ASSUME NEW s \in SUBSET S, Cardinality(s) <= n
          PROVE  next[s] = IF s = {} THEN 0 ELSE g[Pick(s)] + next[s \ {Pick(s)}]
      <4>1. CASE s = {}
        <5>1. Cardinality(s) = 0
          BY <4>1, FS_EmptySet
        <5>2. next[s] = it[s] /\ it[s] = 0
          BY <2>2, <2>4, <3>1, <3>2, <4>1, <5>1
        <5> QED
          BY <4>1, <5>2
      <4>2. CASE s # {}
        <5> DEFINE rest == s \ {Pick(s)}
        <5>1. /\ rest \in SUBSET S /\ Cardinality(s) \in Nat
              /\ Cardinality(rest) = Cardinality(s) - 1
          BY <4>2, PickSmaller
        <5>2. Cardinality(rest) # n
          BY <2>2, <3>4, <5>1
        <5> HIDE DEF rest
        <5>3. next[rest] = it[rest]
          BY <5>1, <5>2
        <5>4. next[s] = g[Pick(s)] + it[rest]
          <6>1. CASE Cardinality(s) = n
            BY <6>1 DEF rest
          <6>2. CASE Cardinality(s) # n
            <7>1. Cardinality(s) <= n - 1
              BY <2>2, <3>4, <5>1, <6>2
            <7> QED
              BY <3>2, <4>2, <6>2, <7>1 DEF rest
          <6> QED
            BY <6>1, <6>2
        <5> QED
          BY <4>2, <5>3, <5>4 DEF rest
      <4> QED
        BY <4>1, <4>2
    <3>5. Upto(next, n)
      BY <3>4
    <3> QED
      BY <2>1, <3>3, <3>5
  <2> QED
    BY <2>3, <2>4
<1>2. Cardinality(S) \in Nat
  BY FS_CardinalityType
<1>3. PICK it \in F : Upto(it, Cardinality(S))
  BY <1>1, <1>2
<1>4. \A s \in SUBSET S : Cardinality(s) <= Cardinality(S)
  BY FS_Subset
<1>5. it = [s \in SUBSET S |-> it[s]]
  OBVIOUS
<1>6. \A s \in SUBSET S :
         it[s] = IF s = {} THEN 0 ELSE g[Pick(s)] + it[s \ {Pick(s)}]
  BY <1>3, <1>4
<1> QED
  BY <1>5, <1>6 DEF IsSum

\* When one summand grows by r, the sum does.
LEMMA SumGrows ==
    ASSUME NEW S, IsFiniteSet(S), NEW a \in S, NEW r \in Nat,
           NEW g \in [S -> Nat], NEW h \in [S -> Nat],
           \A x \in S : h[x] = IF x = a THEN g[x] + r ELSE g[x],
           NEW sum, IsSum(sum, g, S), NEW grown, IsSum(grown, h, S)
    PROVE  sum[S] \in Nat /\ grown[S] = sum[S] + r
<1> DEFINE Holds(s) == sum[s] \in Nat
                       /\ grown[s] = sum[s] + (IF a \in s THEN r ELSE 0)
           Bad == {Cardinality(s) : s \in {u \in SUBSET S : ~Holds(u)}}
<1>1. ASSUME NEW s \in SUBSET S
      PROVE  /\ sum[s] = IF s = {} THEN 0 ELSE g[Pick(s)] + sum[s \ {Pick(s)}]
             /\ grown[s] = IF s = {} THEN 0 ELSE h[Pick(s)] + grown[s \ {Pick(s)}]
  BY DEF IsSum
<1>2. Bad = {}
  <2> SUFFICES ASSUME Bad # {} PROVE FALSE
    OBVIOUS
  <2>1. Bad \subseteq Nat
    BY FS_Subset, FS_CardinalityType
  <2>2. PICK n \in Bad : \A m \in Bad : n <= m
    BY <2>1, LeastNatural
  <2>3. PICK s \in SUBSET S : n = Cardinality(s) /\ ~Holds(s)
    BY <2>2
  <2>4. CASE s = {}
    <3>1. sum[s] = 0 /\ grown[s] = 0 /\ a \notin s
      BY <1>1, <2>4
    <3> QED
      BY <2>3, <3>1
  <2>5. CASE s # {}
    <3> DEFINE x == Pick(s)
               rest == s \ {x}
    <3>1. /\ x \in s /\ x \in S /\ rest \in SUBSET S
          /\ Cardinality(s) \in Nat /\ Cardinality(rest) = Cardinality(s) - 1
      BY <2>5, PickSmaller
    <3>2. sum[s] = g[x] + sum[rest] /\ grown[s] = h[x] + grown[rest]
      BY <1>1, <2>5
    <3>3. a \in s <=> (a = x \/ a \in rest)
      BY <3>1
    <3>4. a = x => a \notin rest
      OBVIOUS
    <3> HIDE DEF x, rest
    <3>5. Holds(rest)
      <4> SUFFICES ASSUME ~Holds(rest) PROVE FALSE
        OBVIOUS
      <4>1. Cardinality(rest) \in Bad
        BY <3>1
      <4> HIDE DEF Bad, Holds
      <4> QED
        BY <2>1, <2>2, <2>3, <3>1, <4>1
    <3>6. Holds(s)
      BY <3>1, <3>2, <3>3, <3>4, <3>5
    <3> QED
      BY <2>3, <3>6
  <2> QED
    BY <2>4, <2>5
<1>3. Holds(S)
  BY <1>2
<1> QED
  BY <1>3

\* What an account has.
Worth == [a \in Accounts |-> free[a] + reserved[a]]

\* The fold of Total.
Iter ==
    CHOOSE it : it = [s \in SUBSET Accounts |->
        IF s = {} THEN 0
        ELSE (free[Pick(s)] + reserved[Pick(s)]) + it[s \ {Pick(s)}]]

\* Total is the pot and the sum of what the accounts have.
LEMMA TotalIsSum ==
    ASSUME IsFiniteSet(Accounts), Inv
    PROVE  Worth \in [Accounts -> Nat] /\ Total = pot + Iter[Accounts]
           /\ IsSum(Iter, Worth, Accounts)
<1> DEFINE Eq(it) == it = [s \in SUBSET Accounts |->
              IF s = {} THEN 0
              ELSE (free[Pick(s)] + reserved[Pick(s)]) + it[s \ {Pick(s)}]]
<1>1. Worth \in [Accounts -> Nat]
  BY DEF Worth, Inv, TypeOK
<1>2. Total = pot + Iter[Accounts]
  BY DEF Total, MapThenSumSet, MapThenFoldSet, Iter, Pick
<1>3. \A s \in SUBSET Accounts :
         s # {} => Worth[Pick(s)] = free[Pick(s)] + reserved[Pick(s)]
  BY PickSmaller DEF Worth
<1>4. \A it : Eq(it) <=> IsSum(it, Worth, Accounts)
  <2> TAKE it
  <2> DEFINE L == [s \in SUBSET Accounts |->
                     IF s = {} THEN 0
                     ELSE (free[Pick(s)] + reserved[Pick(s)]) + it[s \ {Pick(s)}]]
             R == [s \in SUBSET Accounts |->
                     IF s = {} THEN 0 ELSE Worth[Pick(s)] + it[s \ {Pick(s)}]]
  <2>1. L = R
    BY <1>3
  <2> QED
    BY <2>1 DEF IsSum
<1>5. \E it : Eq(it)
  BY <1>1, <1>4, SumExists
<1>6. Eq(Iter)
  <2>1. Iter = CHOOSE it : Eq(it)
    BY DEF Iter
  <2> HIDE DEF Eq
  <2> QED
    BY <1>5, <2>1
<1> QED
  BY <1>1, <1>2, <1>4, <1>6

\* Every step moves value: what the pot pays an author gets.
LEMMA ConserveStep ==
    ASSUME IsFiniteSet(Accounts), Inv, Inv', Next
    PROVE  Total' = Total
<1>1. /\ Worth \in [Accounts -> Nat] /\ Total = pot + Iter[Accounts]
      /\ IsSum(Iter, Worth, Accounts)
  BY TotalIsSum
<1>2. /\ Worth' \in [Accounts -> Nat] /\ Total' = pot' + Iter'[Accounts]
      /\ IsSum(Iter', Worth', Accounts)
  <2>1. (IsFiniteSet(Accounts) /\ Inv =>
           /\ Worth \in [Accounts -> Nat] /\ Total = pot + Iter[Accounts]
           /\ IsSum(Iter, Worth, Accounts))'
    BY TotalIsSum, PTL
  <2> QED
    BY <2>1 DEF IsSum
<1>3. ASSUME NEW a \in Accounts, NEW r \in Nat,
             \A x \in Accounts : Worth'[x] = IF x = a THEN Worth[x] + r ELSE Worth[x]
      PROVE  Iter[Accounts] \in Nat /\ Iter'[Accounts] = Iter[Accounts] + r
  <2> DEFINE Grows(g, h) ==
               /\ g \in [Accounts -> Nat] /\ h \in [Accounts -> Nat]
               /\ \A x \in Accounts : h[x] = IF x = a THEN g[x] + r ELSE g[x]
  <2>1. \A g, h : Grows(g, h) =>
           \A sum, grown : IsSum(sum, g, Accounts) /\ IsSum(grown, h, Accounts) =>
              sum[Accounts] \in Nat /\ grown[Accounts] = sum[Accounts] + r
    BY SumGrows
  <2>2. Grows(Worth, Worth')
    BY <1>1, <1>2, <1>3
  <2> HIDE DEF Grows
  <2>3. \A sum, grown : IsSum(sum, Worth, Accounts) /\ IsSum(grown, Worth', Accounts) =>
           sum[Accounts] \in Nat /\ grown[Accounts] = sum[Accounts] + r
    BY <2>1, <2>2
  <2> QED
    BY <1>1, <1>2, <2>3
<1>4. pot \in Nat /\ free \in [Accounts -> Nat] /\ reserved \in [Accounts -> Nat]
      /\ free' \in [Accounts -> Nat] /\ reserved' \in [Accounts -> Nat]
  BY DEF Inv, TypeOK
<1>5. CASE block' = block
  <2>1. pot' = pot /\ \A x \in Accounts : Worth'[x] = Worth[x] /\ Worth[x] \in Nat
    BY <1>4, <1>5, ExtrinsicPays DEF Worth
  <2>2. Iter'[Accounts] = Iter[Accounts]
    <3>1. CASE Accounts = {}
      BY <1>1, <1>2, <3>1 DEF IsSum
    <3>2. ASSUME NEW a \in Accounts PROVE Iter'[Accounts] = Iter[Accounts]
      <4>1. Iter[Accounts] \in Nat /\ Iter'[Accounts] = Iter[Accounts] + 0
        BY <1>3, <2>1
      <4> QED
        BY <4>1
    <3> QED
      BY <3>1, <3>2
  <2> QED
    BY <1>1, <1>2, <1>4, <2>1, <2>2
<1>6. ASSUME NEW author \in Accounts, InitializeBlock(author)
      PROVE  Total' = Total
  <2> DEFINE r == IF Rewarded(author) THEN Reward ELSE 0
  <2>1. r \in Nat /\ pot' = pot - r
    <3>1. Reward \in Nat
      BY <1>6, BlockRemoves
    <3>2. pot' = IF Rewarded(author) THEN pot - Reward ELSE pot
      BY <1>6 DEF InitializeBlock
    <3> QED
      BY <1>4, <3>1, <3>2
  <2>2. \A x \in Accounts :
           free'[x] + reserved'[x] =
              free[x] + reserved[x] + (IF x = author THEN r ELSE 0)
    BY <1>6, BlockPays
  <2> HIDE DEF r
  <2>3. \A x \in Accounts : Worth'[x] = IF x = author THEN Worth[x] + r ELSE Worth[x]
    BY <1>4, <2>1, <2>2 DEF Worth
  <2>4. Iter[Accounts] \in Nat /\ Iter'[Accounts] = Iter[Accounts] + r
    BY <1>3, <2>1, <2>3
  <2> QED
    BY <1>1, <1>2, <1>4, <2>1, <2>4
<1> QED
  BY <1>5, <1>6
  DEF Next, SetInvulnerables, SetDesiredCandidates, SetCandidacyBond, RootCall,
      RegisterAsCandidate, LeaveIntent

\* Rewards, bonds, refunds and kicks keep the sum of the pot and of all balances, for any
\* finite set of accounts.
THEOREM ValueSafe ==
    ASSUME IsFiniteSet(Accounts)
    PROVE  Spec => ValueConserved
<1>1. Inv /\ Inv' /\ [Next]_vars => [Total' = Total]_vars
  BY ConserveStep
<1> QED
  BY <1>1, InvInit, InvStep, PTL DEF Spec, ValueConserved
-----------------------------------------------------------------------------
(* With transaction fees (Fees): charging them disturbs nothing of the     *)
(* above, and, as ToStakingPot is, fills no pot.                           *)

\* What is inductive about the pallet when fees are charged.
FeesInv == Inv /\ rewards \in Int /\ pot + rewards = PotGenesis

\* Charging fee and tip takes them from one account and leaves it alive.
LEMMA ChargeStep ==
    ASSUME FeeAmounts \subseteq Nat, Inv,
           NEW who \in Accounts, NEW fee \in FeeAmounts, NEW tip \in FeeAmounts,
           ChargeTransaction(who, fee, tip)
    PROVE  /\ Inv'
           /\ KeepsAlive => KeepsAlive'
           /\ UNCHANGED <<pot, rewards, block, candidates>>
<1>1. /\ free \in [Accounts -> Nat] /\ reserved \in [Accounts -> Nat]
      /\ ED \in Nat /\ fee \in Nat /\ tip \in Nat
  BY CollatorAssumption DEF Inv, TypeOK
<1>2. /\ free[who] - (fee + tip) >= ED
      /\ free' = [free EXCEPT ![who] = free[who] - (fee + tip)]
      /\ pot' = pot /\ rewards' = rewards
      /\ UNCHANGED <<palletVars, reserved, validators, queued, block, rootCalls, authored,
                     hadTurn>>
  BY DEF ChargeTransaction, OnUnbalanced, DealWithFees, ToStakingPot
<1>3. free[who] - (fee + tip) \in Nat
  BY <1>1, <1>2
<1>4. free' \in [Accounts -> Nat]
  BY <1>1, <1>2, <1>3
<1>5. Inv'
  BY <1>2, <1>4
  DEF palletVars, Inv, TypeOK, BondsMatchCandidacies, LastCoversAuthored, Who
<1>6. ASSUME KeepsAlive PROVE KeepsAlive'
  <2> SUFFICES ASSUME NEW a \in Accounts PROVE free'[a] + reserved'[a] >= ED
    BY DEF KeepsAlive
  <2>1. free[a] + reserved[a] >= ED /\ reserved'[a] = reserved[a] /\ reserved[a] \in Nat
    BY <1>1, <1>2, <1>6 DEF KeepsAlive
  <2>2. free'[a] = IF a = who THEN free[who] - (fee + tip) ELSE free[a]
    BY <1>1, <1>2
  <2> QED
    BY <1>1, <1>2, <1>3, <2>1, <2>2
<1> QED
  BY <1>2, <1>5, <1>6 DEF palletVars

\* Every step keeps the invariant: what leaves the pot is a reward.
LEMMA FeesStep ==
    ASSUME FeeAmounts \subseteq Nat, FeesInv, [FeesNext]_<<vars, feeVars>>
    PROVE  FeesInv'
<1>1. CASE CollatorStep
  <2>1. Inv' /\ rewards' = rewards + (pot - pot')
    BY <1>1, InvStep DEF CollatorStep, FeesInv
  <2>2. pot \in Nat /\ pot' \in Nat
    BY <2>1 DEF FeesInv, Inv, TypeOK
  <2>3. rewards' \in Int /\ pot' + rewards' = PotGenesis
    <3>1. rewards \in Int /\ pot + rewards = PotGenesis /\ rewards' = rewards + (pot - pot')
      BY <2>1 DEF FeesInv
    <3> QED
      BY <2>2, <3>1
  <2> QED
    BY <2>1, <2>3 DEF FeesInv
<1>2. ASSUME NEW who \in Accounts, NEW fee \in FeeAmounts, NEW tip \in FeeAmounts,
             ChargeTransaction(who, fee, tip)
      PROVE  FeesInv'
  BY <1>2, ChargeStep DEF FeesInv
<1>3. CASE UNCHANGED <<vars, feeVars>>
  BY <1>3, InvStep DEF FeesInv, vars, feeVars
<1> QED
  BY <1>1, <1>2, <1>3 DEF FeesNext

\* The invariant holds throughout.
LEMMA FeesInvariant ==
    ASSUME FeeAmounts \subseteq Nat
    PROVE  FeesSpec => []FeesInv
<1>1. FeesInit => FeesInv
  BY InvInit, CollatorAssumption DEF FeesInit, FeesInv, Init
<1>2. FeesInv /\ [FeesNext]_<<vars, feeVars>> => FeesInv'
  BY FeesStep
<1> QED
  BY <1>1, <1>2, PTL DEF FeesSpec

\* Fees never take a bond: what a candidate has reserved stays its deposit.
THEOREM BondsSafeWithFees ==
    ASSUME FeeAmounts \subseteq Nat
    PROVE  FeesSpec => []BondsMatchCandidacies
<1>1. FeesInv => BondsMatchCandidacies
  BY DEF FeesInv, Inv
<1> QED
  BY FeesInvariant, <1>1, PTL

\* With the body of ToStakingPot commented out, and with the handler () the runtime wires,
\* the pot only shrinks: what it has paid and
\* what it holds is what it had at genesis, whatever is charged.
THEOREM FeesAreBurned ==
    ASSUME FeeAmounts \subseteq Nat
    PROVE  FeesSpec => [](pot + rewards = PotGenesis)
<1>1. FeesInv => pot + rewards = PotGenesis
  BY DEF FeesInv
<1> QED
  BY FeesInvariant, <1>1, PTL

\* Nor do fees make a reward fail: they leave every account alive.
THEOREM RewardsPaidWithFees ==
    ASSUME FeeAmounts \subseteq Nat, Endowment >= ED
    PROVE  FeesSpec => AuthorsRewarded
<1> DEFINE Paid == (block' # block /\ pot >= ED) => pot - pot' = (pot - ED) \div 2
<1>1. FeesInit => KeepsAlive
  BY CollatorAssumption DEF FeesInit, Init, KeepsAlive
<1>2. FeesInv /\ KeepsAlive /\ [FeesNext]_<<vars, feeVars>> => KeepsAlive'
  <2> SUFFICES ASSUME FeesInv, KeepsAlive, [FeesNext]_<<vars, feeVars>>
               PROVE  KeepsAlive'
    OBVIOUS
  <2>1. Inv
    BY DEF FeesInv
  <2>2. CASE [Next]_vars
    BY <2>1, <2>2, AliveStep
  <2> QED
    BY <2>1, <2>2, ChargeStep DEF FeesNext, CollatorStep
<1>3. FeesInv /\ KeepsAlive /\ [FeesNext]_<<vars, feeVars>> => [Paid]_vars
  <2> SUFFICES ASSUME FeesInv, KeepsAlive, FeesNext PROVE Paid
    BY DEF vars
  <2>1. Inv
    BY DEF FeesInv
  <2> QED
    BY <2>1, RewardStep, ChargeStep DEF FeesNext, CollatorStep
<1> QED
  BY <1>1, <1>2, <1>3, FeesInvariant, PTL DEF FeesSpec, AuthorsRewarded
=============================================================================
