---------------------------- MODULE RollupSessions ----------------------------
(***************************************************************************)
(* The anchor pallet with its rollup clients: Phat contract sessions that  *)
(* read one snapshot of the chain, compute a RollupTx off chain and submit *)
(* it, while other sessions do the same and the chain moves on. The client *)
(* library (pink_kv_session) is external; it is modelled from its use in   *)
(* the queue_e2e test of anchor.rs and in phat_oracle_feed: versions in    *)
(* keys of their own (VersionLayout::Standalone, bump_version), reads      *)
(* turned into conditions on versions, pops into one SetQueueHead, and a   *)
(* transaction without updates not submitted. A submitted transaction may  *)
(* be delayed past those of other sessions, refused, or lost.              *)
(***************************************************************************)
EXTENDS Anchor

CONSTANTS
    Sessions,    \* concurrent runs of the contract
    DataKeys,    \* user keys that hold data
    VersionOf,   \* data key -> the user key that holds its version
    Submitter,   \* the contract's account
    Reply        \* the data of the replies

ASSUME SessionsAssumption ==
    /\ DataKeys \subseteq UserKeys
    /\ VersionOf \in [DataKeys -> UserKeys \ DataKeys]
    /\ \A j, k \in DataKeys : VersionOf[j] = VersionOf[k] => j = k
    /\ Submitter \in Accounts
    /\ Reply \in ReplyData
    /\ MaxIndex > 0

VARIABLES
    inFlight,   \* session -> what it submitted, or None; with what it read, the
                \* messages it took and how many were accepted before it started
    accepted    \* history: what was executed, in order

vars == <<submitterByNames, states, trapped, inFlight, accepted>>

Pending(s) == inFlight[s] # None
Storage(name) == states[name]

\* BumpVersion::bump_version
BumpVersion(version) == IF version = None THEN 1 ELSE version + 1

\* Session::commit, rolled up: every key read is a condition on its version, every
\* key written also bumps its version, and the pops become one SetQueueHead after
\* one Reply per message. Nothing is required of the head the session read.
RolledUp(st, reads, writes, pops) ==
    [conds   |-> {<<VersionOf[k], st[VersionOf[k]]>> : k \in reads},
     updates |-> [k \in DOMAIN writes \cup {VersionOf[k] : k \in DOMAIN writes} |->
                    IF k \in DOMAIN writes THEN writes[k] ELSE BumpVersion(st[k])],
     actions |-> [i \in 1 .. pops |-> [type |-> "Reply", data |-> Reply]]
                 \o (IF pops > 0
                     THEN <<[type |-> "SetQueueHead", head |-> QueueHead(st) + pops]>>
                     ELSE <<>>)]

\* A session reads the chain at one block, pops some messages and writes some of
\* the keys it read. BumpVersion is kept below MaxIndex, the bound of the model.
RunSession(s, name, reads, writes, pops) ==
    LET st == Storage(name) IN
    /\ ~Pending(s)
    /\ submitterByNames[name] = Submitter
    /\ pops <= QueueLen(st)
    /\ pops > 0 \/ DOMAIN writes # {}
    /\ \A k \in DOMAIN writes : st[VersionOf[k]] # MaxIndex
    /\ inFlight' = [inFlight EXCEPT ![s] =
                      [name |-> name,
                       tx   |-> RolledUp(st, reads, writes, pops),
                       saw  |-> [k \in reads |-> st[k]],
                       from |-> QueueHead(st),
                       to   |-> QueueHead(st) + pops,
                       past |-> Len(accepted)]]
    /\ UNCHANGED <<anchorVars, accepted>>

\* The chain includes the transaction and it succeeds.
Execute(s) ==
    /\ Pending(s)
    /\ Rollup(Submitter, inFlight[s].name, inFlight[s].tx)
    /\ accepted' = Append(accepted, inFlight[s])
    /\ inFlight' = [inFlight EXCEPT ![s] = None]

\* The chain refuses the transaction, or it is lost on the way.
Drop(s) ==
    /\ Pending(s)
    /\ inFlight' = [inFlight EXCEPT ![s] = None]
    /\ UNCHANGED <<anchorVars, accepted>>

Claim(name) == ClaimName(Submitter, name) /\ UNCHANGED <<inFlight, accepted>>

Push(name, data) ==
    BelowWrap(name) /\ PushMessage(name, data) /\ UNCHANGED <<inFlight, accepted>>

SessionsInit == Init /\ inFlight = [s \in Sessions |-> None] /\ accepted = <<>>

SessionsNext ==
    \/ \E name \in Names : Claim(name)
    \/ \E name \in Names, data \in Payloads : Push(name, data)
    \/ \E s \in Sessions, name \in Names, reads \in SUBSET DataKeys :
       \E written \in SUBSET reads, pops \in 0 .. QueueCapacity :
       \E writes \in [written -> Payloads] : RunSession(s, name, reads, writes, pops)
    \/ \E s \in Sessions : Execute(s)
    \/ \E s \in Sessions : Drop(s)

SessionsSpec == SessionsInit /\ [][SessionsNext]_vars
-----------------------------------------------------------------------------
(* Properties.                                                             *)

\* "No conflicting transactions will be accepted": a rollup that executes finds
\* every key it read as the session saw it, whatever happened in between.
ReadsStillHold ==
    [][accepted' # accepted =>
         LET t == accepted'[Len(accepted')] IN
         \A k \in DOMAIN t.saw : Storage(t.name)[k] = t.saw[k]]_vars

\* A message that an accepted transaction took is taken again only by sessions that
\* overlapped with it: one that starts afterwards never sees it, although stale
\* SetQueueHead actions are executed in between. Overlapping sessions may both take
\* it, since an index equal to the head is accepted.
TakenAgainOnlyByOverlap ==
    \A i, j \in DOMAIN accepted :
        (accepted[i].name = accepted[j].name /\ i <= accepted[j].past)
            => (accepted[i].from .. accepted[i].to - 1)
               \cap (accepted[j].from .. accepted[j].to - 1) = {}

\* The accepted transactions account for every message that left the queue.
ConsumedByReply ==
    \A name \in Names : \A i \in 0 .. QueueHead(Storage(name)) - 1 :
        \E j \in DOMAIN accepted :
            accepted[j].name = name /\ i \in accepted[j].from .. accepted[j].to - 1
=============================================================================
