----------------------------- MODULE Collation -----------------------------
(***************************************************************************)
(* Collators building parachain blocks on a moving relay chain             *)
(* (node/src/service.rs and command.rs, primitives/parachain-inherent,     *)
(* timestamp and core, and the runtime's CheckInherents). For each new     *)
(* relay block a collator collects, in several asynchronous reads, a proof *)
(* of the relay state and the inbound messages, then reads its clock, and  *)
(* proposes a block; a relay block may include it and prune the queues.    *)
(* Nodes stop and start again; while one is down, its operator may revert, *)
(* purge or feed its database.                                             *)
(*                                                                         *)
(* Aura, the parachain-system pallet and the relay chain are external:     *)
(* they check what they are handed, process and prune messages, and stand  *)
(* here as the environment of the code above.                              *)
(* Time is counted in relay slots of 6 s. A channel carries at most one    *)
(* message per relay block, so the number of the relay block in which it   *)
(* was sent identifies a message, and the head of a message queue chain,   *)
(* a chained hash, is the sequence of all messages so far.                 *)
(***************************************************************************)
EXTENDS Integers, Sequences, FiniteSets

CONSTANTS
    Nodes,            \* nodes started with start_parachain_node
    Role,             \* node -> "authority" or "full", as configured
    Authorities,      \* the Aura authorities in order, a sequence of nodes
    Skew,             \* node -> by how much its clock may be ahead, a set
    Senders,          \* parachains with a channel to this one
    SlotDuration,     \* SLOT_DURATION, of Aura
    MinimumPeriod,    \* MinimumPeriod of the timestamp pallet
    Drift,            \* the drift its check allows (30 s)
    MaxClock,         \* a bound on time
    MaxRelay,         \* a bound on relay blocks
    None

ASSUME CollationAssumption ==
    /\ Role \in [Nodes -> {"authority", "full"}]
    /\ Authorities \in Seq(Nodes) /\ Len(Authorities) > 0
    /\ Skew \in [Nodes -> SUBSET Nat]
    /\ SlotDuration \in Nat \ {0}
    /\ {MinimumPeriod, Drift, MaxClock, MaxRelay} \subseteq Nat
    /\ None \notin Nodes

VARIABLES
    clock,   \* the time
    relay,   \* the relay chain: its blocks with the state after each
    jobs,    \* node -> the block it is building, or None
    best,    \* node -> the best parachain block in its database
    mode     \* node -> what start_node_impl made of it, or "down"

vars == <<clock, relay, jobs, best, mode>>

Chain == Seq(Nat)

\* What the relay chain knows of a parachain block, and the next one starts from.
ParaHead == [relay : Nat, ts : Nat, slot : Nat, down : Chain, hrmp : [Senders -> Chain]]

\* The keys collect_relay_storage_proof asks for, as far as they are used.
Proof == [slot : Nat, dmqHead : Chain, hrmpHeads : [Senders -> Chain]]

RelayState == [slot : Nat, dmqHead : Chain, hrmpHeads : [Senders -> Chain],
               dmq : Chain, hrmp : [Senders -> Chain], head : ParaHead]

Tip == Len(relay)

EmptyChains == [s \in Senders |-> <<>>]

\* The head of an empty chain is agreed to be the zero hash.
Genesis == [relay |-> 0, ts |-> 0, slot |-> 0, down |-> <<>>, hrmp |-> EmptyChains]

\* start_node_impl ends in start_collator or in start_full_node.
Service(n) == IF Role[n] = "authority" THEN "collator" ELSE "full"

Init ==
    /\ clock = 1
    /\ relay = << [slot |-> 1, dmqHead |-> <<>>, hrmpHeads |-> EmptyChains,
                   dmq |-> <<>>, hrmp |-> EmptyChains, head |-> Genesis] >>
    /\ jobs = [n \in Nodes |-> None]
    /\ best = [n \in Nodes |-> Genesis]
    /\ mode = [n \in Nodes |-> Service(n)]
-----------------------------------------------------------------------------
(* The node: run() without a subcommand, and the subcommands that write    *)
(* the database, which a running node keeps locked.                        *)

\* from_timestamp_and_slot_duration
SlotOf(ts) == ts \div SlotDuration

\* The time and the slot build_import_queue supplies, and what they are for: Aura's
\* verifier refuses a header more than one slot ahead, the timestamp pallet a time that
\* is ahead by more than the drift.
Importable(head, now) ==
    /\ head.slot <= SlotOf(now) + 1
    /\ head.ts <= now + Drift

\* from_system_time
LocalTimes(n) == {clock + d : d \in Skew[n]}

Working(n, step) == jobs[n] # None /\ jobs[n].step = step

\* start_parachain_node
StartNode(n) ==
    /\ mode[n] = "down"
    /\ mode' = [mode EXCEPT ![n] = Service(n)]
    /\ UNCHANGED <<clock, relay, jobs, best>>

\* run_node_until_exit ends, or an essential task fails: the job in progress is lost,
\* a candidate that was handed out before is not.
StopNode(n) ==
    /\ mode[n] # "down"
    /\ mode' = [mode EXCEPT ![n] = "down"]
    /\ jobs' = IF Working(n, "candidate") THEN jobs ELSE [jobs EXCEPT ![n] = None]
    /\ UNCHANGED <<clock, relay, best>>

Included == {relay[i].head : i \in DOMAIN relay}

\* revert, to some ancestor of the best block.
Revert(n) ==
    /\ mode[n] = "down"
    /\ \E head \in Included :
          /\ head.relay < best[n].relay
          /\ best' = [best EXCEPT ![n] = head]
    /\ UNCHANGED <<clock, relay, jobs, mode>>

\* purge-chain
PurgeChain(n) ==
    /\ mode[n] = "down"
    /\ best' = [best EXCEPT ![n] = Genesis]
    /\ UNCHANGED <<clock, relay, jobs, mode>>

\* import-blocks, through the import queue of new_partial.
ImportBlocks(n) ==
    /\ mode[n] = "down"
    /\ \E head \in Included :
          /\ head.relay > best[n].relay
          /\ \E now \in LocalTimes(n) : Importable(head, now)
          /\ best' = [best EXCEPT ![n] = head]
    /\ UNCHANGED <<clock, relay, jobs, mode>>
-----------------------------------------------------------------------------
(* A collator's job. Each read names the relay parent the job started      *)
(* from, however far the relay chain has moved on.                         *)

\* Every node, full or authority, follows the blocks the relay chain includes.
Import(n) ==
    /\ mode[n] # "down"
    /\ best[n] # relay[Tip].head
    /\ \E now \in LocalTimes(n) : Importable(relay[Tip].head, now)
    /\ best' = [best EXCEPT ![n] = relay[Tip].head]
    /\ UNCHANGED <<clock, relay, jobs, mode>>

\* A new relay block starts a job on an authority that has the parent block.
StartJob(n) ==
    /\ mode[n] = "collator"
    /\ jobs[n] = None
    /\ best[n] = relay[Tip].head
    /\ jobs' = [jobs EXCEPT ![n] =
          [step |-> "proof", at |-> Tip, parent |-> relay[Tip].head]]
    /\ UNCHANGED <<clock, relay, best, mode>>

\* collect_relay_storage_proof
CollectProof(n) ==
    /\ Working(n, "proof")
    /\ LET state == relay[jobs[n].at] IN
       jobs' = [jobs EXCEPT ![n] =
          [step |-> "dmq", at |-> @.at, parent |-> @.parent,
           proof |-> [slot |-> state.slot, dmqHead |-> state.dmqHead,
                      hrmpHeads |-> state.hrmpHeads]]]
    /\ UNCHANGED <<clock, relay, best, mode>>

\* Mutant of ReadAt: the best block instead of the relay parent.
ReadAtTip(n) == relay[Tip]

\* The relay state the messages are read from.
ReadAt(n) == relay[jobs[n].at]

\* retrieve_dmq_contents
RetrieveDmq(n) ==
    /\ Working(n, "dmq")
    /\ jobs' = [jobs EXCEPT ![n] =
          [step |-> "hrmp", at |-> @.at, parent |-> @.parent, proof |-> @.proof,
           dmq |-> ReadAt(n).dmq]]
    /\ UNCHANGED <<clock, relay, best, mode>>

\* retrieve_all_inbound_hrmp_channel_contents
RetrieveHrmp(n) ==
    /\ Working(n, "hrmp")
    /\ jobs' = [jobs EXCEPT ![n] =
          [step |-> "stamp", at |-> @.at, parent |-> @.parent, proof |-> @.proof,
           dmq |-> @.dmq, hrmp |-> ReadAt(n).hrmp]]
    /\ UNCHANGED <<clock, relay, best, mode>>

\* The clock is read last, and the slot derived from it.
Stamp(n) ==
    /\ Working(n, "stamp")
    /\ \E ts \in LocalTimes(n) :
       jobs' = [jobs EXCEPT ![n] =
          [step |-> "propose", at |-> @.at, parent |-> @.parent, proof |-> @.proof,
           dmq |-> @.dmq, hrmp |-> @.hrmp, ts |-> ts, slot |-> SlotOf(ts)]]
    /\ UNCHANGED <<clock, relay, best, mode>>

\* create_at returns None after a failed read, and any job may end without a block:
\* another node's slot, a block that does not execute, a crash, a lost collation.
Abandon(n) ==
    /\ jobs[n] # None
    /\ jobs' = [jobs EXCEPT ![n] = None]
    /\ UNCHANGED <<clock, relay, best, mode>>
-----------------------------------------------------------------------------
(* The block.                                                              *)

ExtendDownward(chain, messages) == chain \o messages
ExtendHrmp(chains, messages) == [s \in Senders |-> chains[s] \o messages[s]]

\* The chains after this block's messages must be those of the relay state proof.
ChainsMatch(job) ==
    /\ ExtendDownward(job.parent.down, job.dmq) = job.proof.dmqHead
    /\ ExtendHrmp(job.parent.hrmp, job.hrmp) = job.proof.hrmpHeads

\* The slot is the author's and a new one, time moves on, and
\* RelayNumberStrictlyIncreases.
TimeMovesOn(n) ==
    LET job == jobs[n] IN
    /\ Authorities[(job.slot % Len(Authorities)) + 1] = n
    /\ job.slot > job.parent.slot
    /\ job.ts >= job.parent.ts + MinimumPeriod
    /\ job.at > job.parent.relay

Received(job) == UNION {{job.hrmp[s][i] : i \in DOMAIN job.hrmp[s]} : s \in Senders}

\* hrmp_watermark: where the last message processed was sent, or the relay parent.
Watermark(job) ==
    IF Received(job) = {} THEN job.at
    ELSE CHOOSE w \in Received(job) : \A v \in Received(job) : v <= w

\* collect_collation_info, what the relay chain is told of the block.
CollationInfo(job) ==
    [processedDown |-> Len(job.dmq), watermark |-> Watermark(job)]

\* The block is built on the inherents and submitted with its CollationInfo.
Propose(n) ==
    LET job == jobs[n] IN
    /\ Working(n, "propose")
    /\ ChainsMatch(job)
    /\ TimeMovesOn(n)
    /\ jobs' = [jobs EXCEPT ![n] =
          [step |-> "candidate", at |-> job.at, parent |-> job.parent,
           proof |-> job.proof, info |-> CollationInfo(job),
           head |-> [relay |-> job.at, ts |-> job.ts, slot |-> job.slot,
                     down |-> ExtendDownward(job.parent.down, job.dmq),
                     hrmp |-> ExtendHrmp(job.parent.hrmp, job.hrmp)]]]
    /\ UNCHANGED <<clock, relay, best, mode>>

\* The inherent data of the timestamp: the parachain starts building at about
\* relay_chain_slot + 1.
ExpectedTime(relaySlot) == relaySlot + 1

\* Mutant of CheckInherents: nothing is checked.
CheckInherentsNothing(job) == TRUE

\* CheckInherents, when validators validate the block.
CheckInherents(job) == job.head.ts <= ExpectedTime(job.proof.slot) + Drift
-----------------------------------------------------------------------------
(* The relay chain.                                                        *)

\* A candidate is included on top of its parent, once.
Includable(n) ==
    /\ Working(n, "candidate")
    /\ jobs[n].parent = relay[Tip].head
    /\ jobs[n].info.processedDown <= Len(relay[Tip].dmq)
    /\ CheckInherents(jobs[n])

Sent(chain, yes) == IF yes THEN Append(chain, Tip + 1) ELSE chain

\* A block in which a downward message may be sent, and one on each of some channels.
RelayBlock(down, from) ==
    /\ clock > relay[Tip].slot
    /\ relay' = Append(relay,
          [slot      |-> clock,
           dmqHead   |-> Sent(relay[Tip].dmqHead, down),
           hrmpHeads |-> [s \in Senders |-> Sent(relay[Tip].hrmpHeads[s], s \in from)],
           dmq       |-> Sent(relay[Tip].dmq, down),
           hrmp      |-> [s \in Senders |-> Sent(relay[Tip].hrmp[s], s \in from)],
           head      |-> relay[Tip].head])
    /\ UNCHANGED <<clock, jobs, best, mode>>

\* A queue without its first messages, and without those sent up to the watermark.
Processed(queue, count) == SubSeq(queue, count + 1, Len(queue))
Pruned(queue, watermark) ==
    Processed(queue, Cardinality({i \in DOMAIN queue : queue[i] <= watermark}))

\* A block that includes a candidate: the messages it processed leave the queues.
RelayBlockWith(n, down, from) ==
    /\ clock > relay[Tip].slot
    /\ Includable(n)
    /\ LET info == jobs[n].info
           tip  == relay[Tip]
       IN  relay' = Append(relay,
              [slot      |-> clock,
               dmqHead   |-> Sent(tip.dmqHead, down),
               hrmpHeads |-> [s \in Senders |-> Sent(tip.hrmpHeads[s], s \in from)],
               dmq       |-> Sent(Processed(tip.dmq, info.processedDown), down),
               hrmp      |-> [s \in Senders |->
                                Sent(Pruned(tip.hrmp[s], info.watermark), s \in from)],
               head      |-> jobs[n].head])
    /\ jobs' = [jobs EXCEPT ![n] = None]
    /\ UNCHANGED <<clock, best, mode>>

Tick ==
    /\ clock < MaxClock
    /\ clock' = clock + 1
    /\ UNCHANGED <<relay, jobs, best, mode>>

Next ==
    \/ Tick
    \/ \E n \in Nodes :
          \/ Import(n) \/ StartJob(n) \/ CollectProof(n) \/ RetrieveDmq(n)
          \/ RetrieveHrmp(n) \/ Stamp(n) \/ Propose(n) \/ Abandon(n)
          \/ StartNode(n) \/ StopNode(n)
          \/ Revert(n) \/ PurgeChain(n) \/ ImportBlocks(n)
    \/ \E down \in BOOLEAN, from \in SUBSET Senders :
          /\ Tip < MaxRelay
          /\ \/ RelayBlock(down, from)
             \/ \E n \in Nodes : RelayBlockWith(n, down, from)

Spec == Init /\ [][Next]_vars
-----------------------------------------------------------------------------
(* Properties.                                                             *)

\* However far the relay chain moves while create_at awaits its reads, what it
\* returns fits together: the runtime's check of the message queue chains against
\* the proof, which would panic, passes for every complete inherent.
InherentsAgree ==
    \A n \in Nodes : Working(n, "propose") => ChainsMatch(jobs[n])

\* A collator with a fast clock cannot lock the others out for long. The drift that
\* CheckInherents allows may exceed the one slot that the import queue does, so a block
\* can be included that a node whose clock is right must refuse at first; but whatever
\* block was included, such a node can import it, past both the slot and the time check,
\* after the difference at the latest (18 s with the code's 30 s and 12 s).
NotLockedOut ==
    Importable(relay[Tip].head,
               clock + (IF Drift > SlotDuration THEN Drift - SlotDuration ELSE 0))
=============================================================================
