--------------------------- MODULE Collation_proofs ---------------------------
(***************************************************************************)
(* Proofs about Collation, for any number of nodes, clocks, channels and   *)
(* relay blocks: inherents that were read at one relay block fit together, *)
(* and no block locks the others out for longer than the drift exceeds a   *)
(* slot.                                                                   *)
(***************************************************************************)
EXTENDS Collation, SequenceTheorems, FiniteSetTheorems, WellFoundedInduction, TLAPS

(* Chains of messages.                                                     *)

\* d continues c with messages sent after relay block k.
Extends(c, d, k) ==
    \E x \in Chain : d = c \o x /\ \A i \in DOMAIN x : x[i] > k

\* Concatenation of chains is associative.
LEMMA ChainAssociative == \A a, b, x \in Chain : (a \o b) \o x = a \o (b \o x)
<1> SUFFICES ASSUME NEW a \in Seq(Nat), NEW b \in Seq(Nat), NEW x \in Seq(Nat)
             PROVE  (a \o b) \o x = a \o (b \o x)
  BY DEF Chain
<1> QED BY ConcatAssociative, SMTT(60)

\* Concatenation of chains is a chain.
LEMMA ChainFacts ==
    ASSUME NEW a \in Chain, NEW b \in Chain
    PROVE  /\ a \o b \in Chain /\ Len(a) \in Nat /\ Len(a \o b) = Len(a) + Len(b)
           /\ DOMAIN a = 1 .. Len(a) /\ \A i \in DOMAIN a : a[i] \in Nat
           /\ \A i \in 1 .. Len(a) + Len(b) :
                 (a \o b)[i] = IF i <= Len(a) THEN a[i] ELSE b[i - Len(a)]
<1>1. a \o b \in Seq(Nat) /\ Len(a \o b) = Len(a) + Len(b)
  BY ConcatProperties DEF Chain
<1>2. \A i \in 1 .. Len(a) + Len(b) :
         (a \o b)[i] = IF i <= Len(a) THEN a[i] ELSE b[i - Len(a)]
  BY ConcatProperties DEF Chain
<1>3. Len(a) \in Nat /\ DOMAIN a = 1 .. Len(a) /\ \A i \in DOMAIN a : a[i] \in Nat
  BY DEF Chain
<1> QED BY <1>1, <1>2, <1>3 DEF Chain

\* What is left of a queue once the messages in front are processed.
LEMMA ProcessedRest ==
    ASSUME NEW b \in Chain, NEW x \in Chain
    PROVE  Processed(b \o x, Len(b)) = x
<1> DEFINE c == b \o x
           rest == SubSeq(c, Len(b) + 1, Len(c))
<1>1. /\ c \in Chain /\ Len(b) \in Nat /\ Len(x) \in Nat /\ Len(c) = Len(b) + Len(x)
      /\ \A i \in 1 .. Len(b) + Len(x) : c[i] = IF i <= Len(b) THEN b[i] ELSE x[i - Len(b)]
      /\ \A i \in 1 .. Len(c) : c[i] \in Nat
  BY ChainFacts
<1> HIDE DEF c
<1>2. \A i \in Len(b) + 1 .. Len(c) : c[i] \in Nat
  BY <1>1
<1>3. /\ rest \in Seq(Nat)
      /\ Len(rest) = IF Len(b) + 1 <= Len(c) THEN Len(c) - (Len(b) + 1) + 1 ELSE 0
      /\ \A i \in 1 .. Len(c) - (Len(b) + 1) + 1 : rest[i] = c[(Len(b) + 1) + i - 1]
  BY <1>1, <1>2, SubSeqProperties
<1> HIDE DEF rest
<1>4. Len(rest) = Len(x)
  BY <1>1, <1>3
<1>5. ASSUME NEW i \in 1 .. Len(rest) PROVE rest[i] = x[i]
  <2>1. i \in Nat /\ i >= 1 /\ i <= Len(x)
    BY <1>1, <1>4
  <2>2. rest[i] = c[Len(b) + i]
    <3>1. i \in 1 .. Len(c) - (Len(b) + 1) + 1 /\ (Len(b) + 1) + i - 1 = Len(b) + i
      BY <1>1, <2>1
    <3> QED BY <1>3, <3>1
  <2>3. c[Len(b) + i] = x[(Len(b) + i) - Len(b)]
    BY <1>1, <2>1
  <2> QED BY <1>1, <2>1, <2>2, <2>3
<1>6. rest = x
  BY <1>3, <1>4, <1>5, SeqEqual DEF Chain
<1> QED BY <1>6 DEF Processed, rest, c

\* Where everything sent up to the watermark is in front, pruning leaves the rest.
LEMMA PrunedRest ==
    ASSUME NEW b \in Chain, NEW x \in Chain, NEW w \in Nat,
           \A i \in DOMAIN b : b[i] <= w, \A i \in DOMAIN x : x[i] > w
    PROVE  Pruned(b \o x, w) = x
<1> DEFINE c == b \o x
<1>1. /\ c \in Chain /\ Len(b) \in Nat /\ Len(x) \in Nat /\ Len(c) = Len(b) + Len(x)
      /\ \A i \in 1 .. Len(b) + Len(x) : c[i] = IF i <= Len(b) THEN b[i] ELSE x[i - Len(b)]
      /\ DOMAIN c = 1 .. Len(c) /\ DOMAIN b = 1 .. Len(b) /\ DOMAIN x = 1 .. Len(x)
      /\ \A i \in 1 .. Len(x) : x[i] \in Nat
  BY ChainFacts
<1> HIDE DEF c
<1>2. {i \in DOMAIN c : c[i] <= w} = 1 .. Len(b)
  <2>1. ASSUME NEW i \in DOMAIN c, c[i] <= w PROVE i \in 1 .. Len(b)
    <3> SUFFICES ASSUME i > Len(b) PROVE FALSE
      BY <1>1
    <3>1. i - Len(b) \in 1 .. Len(x) /\ c[i] = x[i - Len(b)]
      BY <1>1
    <3>2. x[i - Len(b)] > w /\ x[i - Len(b)] \in Nat
      BY <1>1, <3>1
    <3> QED BY <2>1, <3>1, <3>2
  <2>2. ASSUME NEW i \in 1 .. Len(b) PROVE i \in DOMAIN c /\ c[i] <= w
    BY <1>1
  <2> QED BY <2>1, <2>2
<1>3. Cardinality(1 .. Len(b)) = Len(b)
  <2>1. Cardinality(1 .. Len(b)) = IF 1 > Len(b) THEN 0 ELSE Len(b) - 1 + 1
    <3>1. 1 \in Int /\ Len(b) \in Int
      BY <1>1
    <3> QED BY <3>1, FS_Interval, Zenon
  <2> QED BY <1>1, <2>1
<1>4. Pruned(c, w) = Processed(c, Len(b))
  BY <1>2, <1>3 DEF Pruned
<1> QED BY <1>4, ProcessedRest DEF c

Joined(a, b) == a \o b

\* A queue read at one relay block is the beginning of the queue at a later one, as long
\* as no block was included in between.
LEMMA QueueGrew ==
    ASSUME NEW a \in Chain, NEW b \in Chain, NEW c \in Chain, NEW x \in Chain,
           Joined(a, c) = Joined(Joined(a, b), x)
    PROVE  c = Joined(b, x)
<1>1. b \o x \in Chain
  BY ChainFacts
<1>2. a \o c = a \o (b \o x)
  <2>1. (a \o b) \o x = a \o (b \o x)
    BY ChainAssociative, Zenon
  <2> QED BY <2>1 DEF Joined
<1>3. \A s, t, v \in Seq(Nat) : s \o t = s \o v => t = v
  BY ConcatSimplifications, Zenon
<1>4. c = b \o x
  BY <1>1, <1>2, <1>3, Zenon DEF Chain
<1> QED BY <1>4 DEF Joined

\* A bounded set of numbers has a largest one.
LEMMA LargestOf ==
    ASSUME NEW S \in SUBSET Nat, S # {}, NEW n \in Nat, \A v \in S : v <= n
    PROVE  \E w \in S : \A v \in S : v <= w
<1> DEFINE T == {n - v : v \in S}
<1>0. \A v \in S : v \in Nat /\ n - v \in Nat
  OBVIOUS
<1>1. T \subseteq Nat /\ T # {}
  BY <1>0
<1>2. \E x \in T : \A y \in T : ~ (<<y, x>> \in OpToRel(<, Nat))
  BY <1>1, NatLessThanWellFounded, WFMin, Zenon
<1>3. PICK x \in T : \A y \in T : ~ (y < x)
  <2>1. PICK x \in T : \A y \in T : ~ (<<y, x>> \in OpToRel(<, Nat))
    BY <1>2
  <2>2. ASSUME NEW y \in T, y < x PROVE <<y, x>> \in OpToRel(<, Nat)
    BY <1>1, <2>2 DEF OpToRel
  <2> QED BY <2>1, <2>2
<1>4. PICK w \in S : x = n - w
  OBVIOUS
<1>5. ASSUME NEW v \in S PROVE v <= w
  <2>1. ~ (n - v < n - w)
    BY <1>3, <1>4
  <2>2. v \in Nat /\ w \in Nat
    BY <1>0
  <2> QED BY <2>1, <2>2
<1> QED BY <1>5

\* The watermark covers what the block received, and nothing sent after its relay parent.
LEMMA WatermarkFacts ==
    ASSUME NEW job, job.at \in Nat, job.hrmp \in [Senders -> Chain],
           \A s \in Senders : \A i \in DOMAIN job.hrmp[s] : job.hrmp[s][i] <= job.at
    PROVE  /\ Watermark(job) \in Nat /\ Watermark(job) <= job.at
           /\ \A s \in Senders : \A i \in DOMAIN job.hrmp[s] : job.hrmp[s][i] <= Watermark(job)
<1> DEFINE S == Received(job)
           w == Watermark(job)
<1>1. \A s \in Senders : \A i \in DOMAIN job.hrmp[s] : job.hrmp[s][i] \in S
  BY DEF Received
<1>2. S \in SUBSET Nat /\ \A v \in S : v <= job.at
  <2> SUFFICES ASSUME NEW v \in S PROVE v \in Nat /\ v <= job.at
    OBVIOUS
  <2>1. PICK s \in Senders : \E i \in DOMAIN job.hrmp[s] : v = job.hrmp[s][i]
    BY DEF Received
  <2>2. PICK i \in DOMAIN job.hrmp[s] : v = job.hrmp[s][i]
    BY <2>1
  <2>3. job.hrmp[s] \in Seq(Nat)
    BY DEF Chain
  <2> QED BY <2>2, <2>3
<1> HIDE DEF S
<1>3. CASE S = {}
  <2>1. w = job.at
    BY <1>3 DEF Watermark, S
  <2> QED BY <1>1, <1>3, <2>1
<1>4. CASE S # {}
  <2>1. \E u \in S : \A v \in S : v <= u
    BY <1>2, <1>4, LargestOf
  <2>2. w = CHOOSE u \in S : \A v \in S : v <= u
    BY <1>4 DEF Watermark, S
  <2>3. w \in S /\ \A v \in S : v <= w
    BY <2>1, <2>2
  <2> QED BY <1>1, <1>2, <2>3
<1> QED BY <1>3, <1>4

Fresh(yes) == IF yes THEN <<Tip + 1>> ELSE <<>>

\* What a relay block adds to a chain.
LEMMA SentFacts ==
    ASSUME NEW c \in Chain, NEW yes \in BOOLEAN, Tip \in Nat
    PROVE  /\ Sent(c, yes) = c \o Fresh(yes)
           /\ Fresh(yes) \in Chain /\ Sent(c, yes) \in Chain
           /\ \A i \in DOMAIN Fresh(yes) : Fresh(yes)[i] = Tip + 1
<1>1. Fresh(yes) \in Chain
  BY DEF Fresh, Chain
<1>2. Sent(c, yes) = c \o Fresh(yes)
  <2>1. CASE yes
    <3>1. c \in Seq(Nat) /\ Tip + 1 \in Nat
      BY DEF Chain
    <3>2. Append(c, Tip + 1) = c \o <<Tip + 1>>
      BY <3>1, AppendIsConcat
    <3> QED BY <2>1, <3>2 DEF Sent, Fresh
  <2>2. CASE ~ yes
    <3>1. c \o <<>> = c
      BY ConcatEmptySeq DEF Chain
    <3> QED BY <2>2, <3>1 DEF Sent, Fresh
  <2> QED BY <2>1, <2>2
<1>3. \A i \in DOMAIN Fresh(yes) : Fresh(yes)[i] = Tip + 1
  BY DEF Fresh
<1>4. Sent(c, yes) \in Chain
  BY <1>1, <1>2, ChainFacts
<1> QED BY <1>1, <1>2, <1>3, <1>4

\* Every chain continues itself.
LEMMA ExtendsSelf ==
    ASSUME NEW c \in Chain, NEW k
    PROVE  Extends(c, c, k)
<1>1. <<>> \in Chain /\ c = c \o <<>>
  BY ConcatEmptySeq DEF Chain
<1>2. \A i \in DOMAIN <<>> : <<>>[i] > k
  OBVIOUS
<1> QED BY <1>1, <1>2 DEF Extends

\* A continuation of a continuation is one.
LEMMA ExtendsTrans ==
    ASSUME NEW c \in Chain, NEW d, NEW e, NEW k \in Nat, NEW l \in Nat, k <= l,
           Extends(c, d, k), Extends(d, e, l)
    PROVE  Extends(c, e, k)
<1>1. PICK x \in Chain : d = c \o x /\ \A i \in DOMAIN x : x[i] > k
  BY DEF Extends
<1>2. PICK y \in Chain : e = d \o y /\ \A i \in DOMAIN y : y[i] > l
  BY DEF Extends
<1>3. e = c \o (x \o y)
  <2>1. (c \o x) \o y = c \o (x \o y)
    BY ChainAssociative, Zenon
  <2> QED BY <1>1, <1>2, <2>1
<1>4. /\ x \o y \in Chain /\ Len(x) \in Nat /\ Len(y) \in Nat
      /\ DOMAIN (x \o y) = 1 .. Len(x \o y) /\ Len(x \o y) = Len(x) + Len(y)
      /\ DOMAIN x = 1 .. Len(x) /\ DOMAIN y = 1 .. Len(y)
      /\ \A i \in DOMAIN x : x[i] \in Nat
      /\ \A i \in DOMAIN y : y[i] \in Nat
      /\ \A i \in 1 .. Len(x) + Len(y) :
            (x \o y)[i] = IF i <= Len(x) THEN x[i] ELSE y[i - Len(x)]
  BY ChainFacts
<1>5. ASSUME NEW i \in DOMAIN (x \o y) PROVE (x \o y)[i] > k
  <2>1. CASE i <= Len(x)
    BY <1>1, <1>4, <2>1
  <2>2. CASE i > Len(x)
    <3>1. i - Len(x) \in DOMAIN y /\ (x \o y)[i] = y[i - Len(x)]
      BY <1>4, <2>2
    <3>2. y[i - Len(x)] > l /\ y[i - Len(x)] \in Nat
      BY <1>2, <1>4, <3>1
    <3> QED BY <3>1, <3>2
  <2> QED BY <1>4, <2>1, <2>2
<1> QED BY <1>3, <1>4, <1>5 DEF Extends
-----------------------------------------------------------------------------
(* The invariant.                                                          *)

\* The state after relay block k: what was sent is what was processed and what is
\* queued, and nothing queued is younger than the block.
StateOK(st, k) ==
    /\ st.dmqHead = st.head.down \o st.dmq
    /\ \A s \in Senders : st.hrmpHeads[s] = st.head.hrmp[s] \o st.hrmp[s]
    /\ \A s \in Senders : \A i \in DOMAIN st.hrmp[s] : st.hrmp[s][i] <= k

\* Message queue chains only grow, by messages that name the block they were sent in.
RelayOK ==
    /\ relay \in Seq(RelayState) /\ Len(relay) > 0
    /\ \A i \in DOMAIN relay : StateOK(relay[i], i)
    /\ \A i, j \in DOMAIN relay : i <= j =>
          /\ Extends(relay[i].dmqHead, relay[j].dmqHead, i)
          /\ \A s \in Senders : Extends(relay[i].hrmpHeads[s], relay[j].hrmpHeads[s], i)

\* A block's slot is that of its time, which is no further in the future than the drift.
InTime(head, now) == head.ts <= now + Drift /\ head.slot = SlotOf(head.ts)

\* No relay block is younger than the tip or comes from the future, and no included
\* block comes from too far in it.
TimeOK ==
    /\ clock \in Nat
    /\ \A i \in DOMAIN relay :
          /\ relay[i].slot <= relay[Tip].slot /\ relay[i].slot <= clock
          /\ InTime(relay[i].head, clock)

\* What a job has read is the state after the relay block it started from.
ReadsOK(job, st) ==
    /\ job.parent = st.head
    /\ job.step # "proof" =>
          /\ job.proof.slot = st.slot /\ job.proof.dmqHead = st.dmqHead
          /\ job.proof.hrmpHeads = st.hrmpHeads
    /\ job.step \in {"hrmp", "stamp", "propose"} => job.dmq = st.dmq
    /\ job.step \in {"stamp", "propose"} => job.hrmp = st.hrmp
    /\ job.step = "propose" =>
          job.ts \in Nat /\ job.slot \in Nat /\ job.slot = SlotOf(job.ts)

\* What a candidate tells the relay chain is right for that state.
CandidateOK(job, st) ==
    /\ job.info.processedDown = Len(st.dmq)
    /\ job.info.watermark \in Nat /\ job.info.watermark <= job.at
    /\ \A s \in Senders : \A i \in DOMAIN st.hrmp[s] : st.hrmp[s][i] <= job.info.watermark
    /\ job.head \in ParaHead /\ job.head.slot = SlotOf(job.head.ts)
    /\ job.head.down = st.dmqHead
    /\ job.head.hrmp = st.hrmpHeads

JobOK(job) ==
    /\ job.at \in DOMAIN relay
    /\ ReadsOK(job, relay[job.at])
    /\ job.step = "candidate" => CandidateOK(job, relay[job.at])

JobsOK ==
    /\ DOMAIN jobs = Nodes
    /\ \A n \in Nodes : jobs[n] # None => JobOK(jobs[n])

\* The inductive invariant.
CollationInv == RelayOK /\ TimeOK /\ JobsOK

\* The parts of a state, with their types.
LEMMA StateTypes ==
    ASSUME NEW st \in RelayState
    PROVE  /\ st.slot \in Nat /\ st.dmqHead \in Chain /\ st.dmq \in Chain
           /\ st.hrmpHeads \in [Senders -> Chain] /\ st.hrmp \in [Senders -> Chain]
           /\ st.head \in ParaHead /\ st.head.down \in Chain
           /\ st.head.hrmp \in [Senders -> Chain] /\ st.head.ts \in Nat
BY DEF RelayState, ParaHead

\* The tip is a block with its state.
LEMMA TipFacts ==
    ASSUME RelayOK
    PROVE  /\ Tip \in Nat /\ Tip > 0 /\ Tip \in DOMAIN relay /\ DOMAIN relay = 1 .. Tip
           /\ \A i \in DOMAIN relay : relay[i] \in RelayState
BY DEF RelayOK, Tip

\* A new relay block on the tip.
LEMMA AppendKeepsRelay ==
    ASSUME RelayOK, TimeOK, NEW new \in RelayState, StateOK(new, Tip + 1),
           Extends(relay[Tip].dmqHead, new.dmqHead, Tip),
           \A s \in Senders : Extends(relay[Tip].hrmpHeads[s], new.hrmpHeads[s], Tip),
           new.slot = clock, InTime(new.head, clock),
           relay' = Append(relay, new), clock' = clock
    PROVE  /\ RelayOK' /\ TimeOK'
           /\ \A i \in DOMAIN relay : i \in DOMAIN relay' /\ relay'[i] = relay[i]
<1>1. /\ Tip \in Nat /\ Tip > 0 /\ Tip \in DOMAIN relay /\ DOMAIN relay = 1 .. Tip
      /\ \A i \in DOMAIN relay : relay[i] \in RelayState
  BY TipFacts
<1>2. /\ relay' \in Seq(RelayState) /\ Len(relay') = Tip + 1
      /\ DOMAIN relay' = 1 .. Tip + 1
      /\ \A i \in DOMAIN relay : relay'[i] = relay[i]
      /\ relay'[Tip + 1] = new
  BY <1>1 DEF RelayOK, Tip
<1>3. \A i \in DOMAIN relay' : i \in DOMAIN relay \/ i = Tip + 1
  BY <1>1, <1>2
<1>4. \A i \in DOMAIN relay' : StateOK(relay'[i], i)
  BY <1>2, <1>3 DEF RelayOK
<1>5. ASSUME NEW i \in DOMAIN relay', NEW j \in DOMAIN relay', i <= j
      PROVE  /\ Extends(relay'[i].dmqHead, relay'[j].dmqHead, i)
             /\ \A s \in Senders : Extends(relay'[i].hrmpHeads[s], relay'[j].hrmpHeads[s], i)
  <2>1. CASE j \in DOMAIN relay
    <3>1. i \in DOMAIN relay
      BY <1>1, <1>2, <1>5, <2>1
    <3> QED BY <1>2, <1>5, <2>1, <3>1 DEF RelayOK
  <2>2. CASE i \in DOMAIN relay /\ j = Tip + 1
    <3>1. /\ i \in Nat /\ i <= Tip
          /\ relay[i].dmqHead \in Chain /\ relay[i].hrmpHeads \in [Senders -> Chain]
      BY <1>1, <2>2, StateTypes
    <3>2. /\ Extends(relay[i].dmqHead, relay[Tip].dmqHead, i)
          /\ \A s \in Senders : Extends(relay[i].hrmpHeads[s], relay[Tip].hrmpHeads[s], i)
      BY <1>1, <2>2, <3>1 DEF RelayOK
    <3>3. Extends(relay[i].dmqHead, new.dmqHead, i)
      BY <1>1, <3>1, <3>2, ExtendsTrans
    <3>4. ASSUME NEW s \in Senders PROVE Extends(relay[i].hrmpHeads[s], new.hrmpHeads[s], i)
      BY <1>1, <3>1, <3>2, ExtendsTrans
    <3> QED BY <1>2, <2>2, <3>3, <3>4
  <2>3. CASE i = Tip + 1 /\ j = Tip + 1
    <3>1. new.dmqHead \in Chain /\ new.hrmpHeads \in [Senders -> Chain]
      BY StateTypes
    <3> QED BY <1>2, <2>3, <3>1, ExtendsSelf
  <2>4. ~ (i = Tip + 1 /\ j \in DOMAIN relay)
    BY <1>1, <1>5
  <2> QED BY <1>3, <2>1, <2>2, <2>3, <2>4
<1>6. RelayOK'
  BY <1>1, <1>2, <1>4, <1>5 DEF RelayOK
<1>7. TimeOK'
  <2>1. Tip' = Tip + 1 /\ clock' = clock /\ clock \in Nat
    BY <1>2 DEF Tip, TimeOK
  <2>2. ASSUME NEW i \in DOMAIN relay'
        PROVE  /\ relay'[i].slot <= clock
               /\ relay'[i].head.ts <= clock + Drift
               /\ relay'[i].head.slot = SlotOf(relay'[i].head.ts)
    BY <1>2, <1>3, <2>1 DEF TimeOK, InTime
  <2>3. relay'[Tip'].slot = clock
    BY <1>2, <2>1
  <2> QED BY <2>1, <2>2, <2>3 DEF TimeOK, InTime, SlotOf
<1> QED BY <1>1, <1>2, <1>6, <1>7

\* Sending a message keeps the balance of a channel.
LEMMA SentConserves ==
    ASSUME NEW a \in Chain, NEW b \in Chain, NEW yes \in BOOLEAN, Tip \in Nat
    PROVE  Sent(a \o b, yes) = a \o Sent(b, yes)
<1>1. a \o b \in Chain
  BY ChainFacts
<1>2. /\ Sent(a \o b, yes) = (a \o b) \o Fresh(yes) /\ Fresh(yes) \in Chain
      /\ Sent(b, yes) = b \o Fresh(yes)
  BY <1>1, SentFacts
<1>3. (a \o b) \o Fresh(yes) = a \o (b \o Fresh(yes))
  BY <1>2, ChainAssociative, Zenon
<1> QED BY <1>2, <1>3

\* A chain continues with a message of the new block.
LEMMA SentExtends ==
    ASSUME NEW c \in Chain, NEW yes \in BOOLEAN, Tip \in Nat
    PROVE  Extends(c, Sent(c, yes), Tip)
<1>1. /\ Sent(c, yes) = c \o Fresh(yes) /\ Fresh(yes) \in Chain
      /\ \A i \in DOMAIN Fresh(yes) : Fresh(yes)[i] = Tip + 1
  BY SentFacts
<1>2. \A i \in DOMAIN Fresh(yes) : Fresh(yes)[i] > Tip
  BY <1>1
<1> QED BY <1>1, <1>2, Zenon DEF Extends

\* The messages in a queue are no younger than the tip, nor are they after one was sent.
LEMMA SentYoungest ==
    ASSUME NEW b \in Chain, NEW yes \in BOOLEAN, Tip \in Nat,
           \A i \in DOMAIN b : b[i] <= Tip
    PROVE  \A i \in DOMAIN Sent(b, yes) : Sent(b, yes)[i] <= Tip + 1
<1>1. /\ Len(b) \in Nat /\ DOMAIN b = 1 .. Len(b) /\ \A i \in DOMAIN b : b[i] \in Nat
  BY ChainFacts
<1>2. CASE yes
  <2>1. Sent(b, yes) = Append(b, Tip + 1) /\ b \in Seq(Nat)
    BY <1>2 DEF Sent, Chain
  <2> QED BY <1>1, <2>1
<1>3. CASE ~ yes
  BY <1>1, <1>3 DEF Sent
<1> QED BY <1>2, <1>3

\* A relay block on whose parachain head and queues the sums come out.
LEMMA BlockKeepsRelay ==
    ASSUME RelayOK, TimeOK, NEW head \in ParaHead, NEW dmq \in Chain,
           NEW hrmp \in [Senders -> Chain],
           relay[Tip].dmqHead = head.down \o dmq,
           \A s \in Senders : relay[Tip].hrmpHeads[s] = head.hrmp[s] \o hrmp[s],
           \A s \in Senders : \A i \in DOMAIN hrmp[s] : hrmp[s][i] <= Tip,
           InTime(head, clock),
           NEW down \in BOOLEAN, NEW from \in SUBSET Senders,
           relay' = Append(relay,
              [slot      |-> clock,
               dmqHead   |-> Sent(relay[Tip].dmqHead, down),
               hrmpHeads |-> [s \in Senders |-> Sent(relay[Tip].hrmpHeads[s], s \in from)],
               dmq       |-> Sent(dmq, down),
               hrmp      |-> [s \in Senders |-> Sent(hrmp[s], s \in from)],
               head      |-> head]),
           clock' = clock
    PROVE  /\ RelayOK' /\ TimeOK'
           /\ \A i \in DOMAIN relay : i \in DOMAIN relay' /\ relay'[i] = relay[i]
<1> DEFINE tip == relay[Tip]
           new == [slot      |-> clock,
                   dmqHead   |-> Sent(tip.dmqHead, down),
                   hrmpHeads |-> [s \in Senders |-> Sent(tip.hrmpHeads[s], s \in from)],
                   dmq       |-> Sent(dmq, down),
                   hrmp      |-> [s \in Senders |-> Sent(hrmp[s], s \in from)],
                   head      |-> head]
<1>1. Tip \in Nat /\ tip \in RelayState /\ clock \in Nat
  BY TipFacts DEF TimeOK
<1>2. tip.dmqHead \in Chain /\ tip.hrmpHeads \in [Senders -> Chain]
  BY <1>1, StateTypes
<1>3. head.down \in Chain /\ head.hrmp \in [Senders -> Chain]
  BY DEF ParaHead
<1> HIDE DEF tip
<1>4. Sent(tip.dmqHead, down) \in Chain /\ Sent(dmq, down) \in Chain
  BY <1>1, <1>2, SentFacts
<1>5. \A s \in Senders :
        Sent(tip.hrmpHeads[s], s \in from) \in Chain /\ Sent(hrmp[s], s \in from) \in Chain
  <2> SUFFICES ASSUME NEW s \in Senders
               PROVE  /\ Sent(tip.hrmpHeads[s], s \in from) \in Chain
                      /\ Sent(hrmp[s], s \in from) \in Chain
    OBVIOUS
  <2>1. tip.hrmpHeads[s] \in Chain /\ hrmp[s] \in Chain /\ (s \in from) \in BOOLEAN
    BY <1>2
  <2> QED BY <1>1, <2>1, SentFacts
<1>6. new \in RelayState
  BY <1>1, <1>4, <1>5 DEF RelayState
<1>7. StateOK(new, Tip + 1)
  <2>1. new.dmqHead = new.head.down \o new.dmq
    BY <1>1, <1>3, SentConserves DEF tip
  <2>2. ASSUME NEW s \in Senders
        PROVE  /\ new.hrmpHeads[s] = new.head.hrmp[s] \o new.hrmp[s]
               /\ \A i \in DOMAIN new.hrmp[s] : new.hrmp[s][i] <= Tip + 1
    <3>1. /\ head.hrmp[s] \in Chain /\ hrmp[s] \in Chain /\ (s \in from) \in BOOLEAN
          /\ tip.hrmpHeads[s] = head.hrmp[s] \o hrmp[s]
      BY <1>3 DEF tip
    <3>2. Sent(tip.hrmpHeads[s], s \in from) = head.hrmp[s] \o Sent(hrmp[s], s \in from)
      BY <1>1, <3>1, SentConserves
    <3>3. \A i \in DOMAIN Sent(hrmp[s], s \in from) : Sent(hrmp[s], s \in from)[i] <= Tip + 1
      BY <1>1, <3>1, SentYoungest
    <3> QED BY <3>2, <3>3
  <2> QED BY <2>1, <2>2 DEF StateOK
<1>8. Extends(tip.dmqHead, new.dmqHead, Tip)
  BY <1>1, <1>2, SentExtends
<1>9. ASSUME NEW s \in Senders PROVE Extends(tip.hrmpHeads[s], new.hrmpHeads[s], Tip)
  <2>1. tip.hrmpHeads[s] \in Chain /\ (s \in from) \in BOOLEAN
    BY <1>2
  <2>2. new.hrmpHeads[s] = Sent(tip.hrmpHeads[s], s \in from)
    OBVIOUS
  <2> QED BY <1>1, <2>1, <2>2, SentExtends
<1>10. new.slot = clock /\ InTime(new.head, clock)
  BY <1>1
<1>11. relay' = Append(relay, new)
  BY DEF tip
<1> HIDE DEF new
<1> QED BY <1>6, <1>7, <1>8, <1>9, <1>10, <1>11, AppendKeepsRelay DEF tip
-----------------------------------------------------------------------------
(* The steps.                                                              *)

\* A step of one node's job.
LEMMA JobKeepsInv ==
    ASSUME CollationInv, NEW n \in Nodes, NEW job, job = None \/ JobOK(job),
           jobs' = [jobs EXCEPT ![n] = job], relay' = relay, clock' = clock
    PROVE  CollationInv'
<1>1. RelayOK' /\ TimeOK'
  BY DEF CollationInv, RelayOK, TimeOK, StateOK, InTime, SlotOf, Tip
<1>2. JobsOK'
  <2>1. DOMAIN jobs' = Nodes
    BY DEF CollationInv, JobsOK
  <2>2. ASSUME NEW m \in Nodes, jobs'[m] # None PROVE JobOK(jobs'[m])
    BY <2>2 DEF CollationInv, JobsOK
  <2>3. ASSUME NEW m \in Nodes, jobs'[m] # None PROVE JobOK(jobs[m])'
    <3>1. JobOK(jobs'[m])
      BY <2>2, <2>3
    <3> QED BY <3>1 DEF JobOK, ReadsOK, CandidateOK, SlotOf
  <2> QED BY <2>1, <2>3 DEF JobsOK
<1> QED BY <1>1, <1>2 DEF CollationInv

\* A job that starts has the head of the relay block it starts from.
LEMMA StartKeepsInv ==
    ASSUME CollationInv, NEW n \in Nodes, StartJob(n)
    PROVE  CollationInv'
<1> DEFINE job == [step |-> "proof", at |-> Tip, parent |-> relay[Tip].head]
<1>1. jobs' = [jobs EXCEPT ![n] = job] /\ relay' = relay /\ clock' = clock
  BY DEF StartJob
<1>2. Tip \in DOMAIN relay
  BY TipFacts DEF CollationInv
<1>3. JobOK(job)
  BY <1>2 DEF JobOK, ReadsOK
<1> HIDE DEF job
<1> QED BY <1>1, <1>3, JobKeepsInv

\* Every read is made at that block.
LEMMA CollectKeepsInv ==
    ASSUME CollationInv, NEW n \in Nodes, CollectProof(n)
    PROVE  CollationInv'
<1> DEFINE old == jobs[n]
           st  == relay[old.at]
           job == [step |-> "dmq", at |-> old.at, parent |-> old.parent,
                   proof |-> [slot |-> st.slot, dmqHead |-> st.dmqHead,
                              hrmpHeads |-> st.hrmpHeads]]
<1>1. jobs' = [jobs EXCEPT ![n] = job] /\ relay' = relay /\ clock' = clock
  BY DEF CollectProof
<1>2. JobOK(old)
  BY DEF CollationInv, JobsOK, CollectProof, Working
<1>3. JobOK(job)
  BY <1>2 DEF JobOK, ReadsOK
<1> HIDE DEF job
<1> QED BY <1>1, <1>3, JobKeepsInv

\* The downward queue is read at the block the proof was made at.
LEMMA DmqKeepsInv ==
    ASSUME CollationInv, NEW n \in Nodes, RetrieveDmq(n)
    PROVE  CollationInv'
<1> DEFINE old == jobs[n]
           job == [step |-> "hrmp", at |-> old.at, parent |-> old.parent,
                   proof |-> old.proof, dmq |-> ReadAt(n).dmq]
<1>1. jobs' = [jobs EXCEPT ![n] = job] /\ relay' = relay /\ clock' = clock
  BY DEF RetrieveDmq
<1>2. JobOK(old) /\ old.step = "dmq"
  BY DEF CollationInv, JobsOK, RetrieveDmq, Working
<1>3. JobOK(job)
  BY <1>2 DEF JobOK, ReadsOK, ReadAt
<1> HIDE DEF job
<1> QED BY <1>1, <1>3, JobKeepsInv

\* So are the queues of the channels.
LEMMA HrmpKeepsInv ==
    ASSUME CollationInv, NEW n \in Nodes, RetrieveHrmp(n)
    PROVE  CollationInv'
<1> DEFINE old == jobs[n]
           job == [step |-> "stamp", at |-> old.at, parent |-> old.parent,
                   proof |-> old.proof, dmq |-> old.dmq, hrmp |-> ReadAt(n).hrmp]
<1>1. jobs' = [jobs EXCEPT ![n] = job] /\ relay' = relay /\ clock' = clock
  BY DEF RetrieveHrmp
<1>2. JobOK(old) /\ old.step = "hrmp"
  BY DEF CollationInv, JobsOK, RetrieveHrmp, Working
<1>3. JobOK(job)
  BY <1>2 DEF JobOK, ReadsOK, ReadAt
<1> HIDE DEF job
<1> QED BY <1>1, <1>3, JobKeepsInv

\* The slot derived from a time is a number.
LEMMA SlotOfTime ==
    ASSUME NEW ts \in Nat, NEW duration \in Nat, duration > 0
    PROVE  ts \div duration \in Nat
OBVIOUS

\* Time zero is in slot zero.
LEMMA SlotOfZero ==
    ASSUME NEW duration \in Nat, duration > 0
    PROVE  0 \div duration = 0
OBVIOUS

\* A time at most one duration later is at most one slot later.
LEMMA OneSlotLater ==
    ASSUME NEW duration \in Nat, duration > 0, NEW a \in Nat, NEW b \in Nat,
           a <= b + duration
    PROVE  a \div duration <= (b \div duration) + 1
<1> DEFINE p == a \div duration
           q == b \div duration
<1>1. p \in Nat /\ q \in Nat /\ duration * p <= a /\ b < duration * q + duration
  OBVIOUS
<1> HIDE DEF p, q
<1>2. duration * p < duration * q + 2 * duration
  BY <1>1
<1>3. ~ (p >= q + 2)
  BY <1>1, <1>2
<1>4. p <= q + 1
  BY <1>1, <1>3
<1> QED BY <1>4 DEF p, q

\* Reading the clock does not touch what was read.
LEMMA StampKeepsInv ==
    ASSUME CollationInv, NEW n \in Nodes, Stamp(n)
    PROVE  CollationInv'
<1> DEFINE old == jobs[n]
           job(ts) == [step |-> "propose", at |-> old.at, parent |-> old.parent,
                       proof |-> old.proof, dmq |-> old.dmq, hrmp |-> old.hrmp,
                       ts |-> ts, slot |-> SlotOf(ts)]
<1>1. PICK ts \in LocalTimes(n) : jobs' = [jobs EXCEPT ![n] = job(ts)]
  BY DEF Stamp
<1>2. relay' = relay /\ clock' = clock /\ JobOK(old) /\ old.step = "stamp"
  BY DEF CollationInv, JobsOK, Stamp, Working
<1>3. ts \in Nat
  BY CollationAssumption DEF LocalTimes, CollationInv, TimeOK
<1>4. SlotOf(ts) \in Nat
  <2>1. SlotDuration \in Nat /\ SlotDuration > 0
    BY CollationAssumption
  <2> QED BY <1>3, <2>1, SlotOfTime DEF SlotOf
<1> DEFINE slot == SlotOf(ts)
<1> HIDE DEF slot
<1>5. JobOK([step |-> "propose", at |-> old.at, parent |-> old.parent,
             proof |-> old.proof, dmq |-> old.dmq, hrmp |-> old.hrmp,
             ts |-> ts, slot |-> slot])
  BY <1>2, <1>3, <1>4 DEF JobOK, ReadsOK, slot
<1>6. JobOK(job(ts))
  BY <1>5 DEF slot
<1> HIDE DEF job
<1> QED BY <1>1, <1>2, <1>6, JobKeepsInv

\* Giving a job up.
LEMMA AbandonKeepsInv ==
    ASSUME CollationInv, NEW n \in Nodes, jobs' = [jobs EXCEPT ![n] = None],
           relay' = relay, clock' = clock
    PROVE  CollationInv'
BY JobKeepsInv

\* What a block tells the relay chain follows from the state it was built on.
LEMMA ProposeKeepsInv ==
    ASSUME CollationInv, NEW n \in Nodes, Propose(n)
    PROVE  CollationInv'
<1> DEFINE old  == jobs[n]
           st   == relay[old.at]
           head == [relay |-> old.at, ts |-> old.ts, slot |-> old.slot,
                    down |-> ExtendDownward(old.parent.down, old.dmq),
                    hrmp |-> ExtendHrmp(old.parent.hrmp, old.hrmp)]
           job  == [step |-> "candidate", at |-> old.at, parent |-> old.parent,
                    proof |-> old.proof, info |-> CollationInfo(old), head |-> head]
<1>1. jobs' = [jobs EXCEPT ![n] = job] /\ relay' = relay /\ clock' = clock
  BY DEF Propose
<1>2. JobOK(old) /\ old.step = "propose" /\ RelayOK
  BY DEF CollationInv, JobsOK, Propose, Working
<1>3. /\ old.at \in DOMAIN relay /\ old.at \in Nat /\ st \in RelayState
      /\ StateOK(st, old.at)
  BY <1>2, TipFacts DEF JobOK, RelayOK
<1>4. /\ old.parent = st.head /\ old.proof.slot = st.slot
      /\ old.proof.dmqHead = st.dmqHead /\ old.proof.hrmpHeads = st.hrmpHeads
      /\ old.dmq = st.dmq /\ old.hrmp = st.hrmp
      /\ old.ts \in Nat /\ old.slot \in Nat /\ old.slot = SlotOf(old.ts)
  BY <1>2 DEF JobOK, ReadsOK
<1>5. /\ st.dmqHead \in Chain /\ st.hrmpHeads \in [Senders -> Chain]
      /\ st.hrmp \in [Senders -> Chain]
  BY <1>3, StateTypes
<1>6. /\ ExtendDownward(old.parent.down, old.dmq) = st.dmqHead
      /\ ExtendHrmp(old.parent.hrmp, old.hrmp) = st.hrmpHeads
  BY <1>4 DEF Propose, ChainsMatch
<1>7. /\ head \in ParaHead /\ head.down = st.dmqHead /\ head.hrmp = st.hrmpHeads
      /\ head.slot = SlotOf(head.ts)
  BY <1>3, <1>4, <1>5, <1>6 DEF ParaHead
<1>8. /\ Watermark(old) \in Nat /\ Watermark(old) <= old.at
      /\ \A s \in Senders : \A i \in DOMAIN st.hrmp[s] : st.hrmp[s][i] <= Watermark(old)
  <2>1. /\ old.hrmp \in [Senders -> Chain]
        /\ \A s \in Senders : \A i \in DOMAIN old.hrmp[s] : old.hrmp[s][i] <= old.at
    BY <1>3, <1>4, <1>5 DEF StateOK
  <2>2. /\ Watermark(old) \in Nat /\ Watermark(old) <= old.at
        /\ \A s \in Senders :
              \A i \in DOMAIN old.hrmp[s] : old.hrmp[s][i] <= Watermark(old)
    BY <1>3, <2>1, WatermarkFacts
  <2> QED BY <1>4, <2>2
<1> HIDE DEF head
<1>9. CandidateOK(job, st)
  BY <1>4, <1>7, <1>8 DEF CandidateOK, CollationInfo
<1>10. ReadsOK(job, st)
  BY <1>4 DEF ReadsOK
<1>11. JobOK(job)
  BY <1>3, <1>9, <1>10 DEF JobOK
<1> HIDE DEF job
<1> QED BY <1>1, <1>11, JobKeepsInv

\* The jobs in progress, when the relay chain has a new block.
LEMMA JobsStayOK ==
    ASSUME JobsOK, NEW n, jobs' = jobs \/ jobs' = [jobs EXCEPT ![n] = None],
           \A i \in DOMAIN relay : i \in DOMAIN relay' /\ relay'[i] = relay[i]
    PROVE  JobsOK'
<1>1. DOMAIN jobs' = Nodes
  BY DEF JobsOK
<1>2. ASSUME NEW m \in Nodes, jobs'[m] # None PROVE JobOK(jobs[m])'
  <2>1. jobs'[m] = jobs[m] /\ JobOK(jobs[m])
    BY <1>2 DEF JobsOK
  <2> DEFINE job == jobs[m]
  <2>2. job.at \in DOMAIN relay' /\ relay'[job.at] = relay[job.at]
    BY <2>1 DEF JobOK
  <2> QED BY <2>1, <2>2 DEF JobOK, ReadsOK, CandidateOK, SlotOf
<1> QED BY <1>1, <1>2 DEF JobsOK

\* A relay block without a candidate.
LEMMA BlockKeepsInv ==
    ASSUME CollationInv, NEW down \in BOOLEAN, NEW from \in SUBSET Senders,
           RelayBlock(down, from)
    PROVE  CollationInv'
<1> DEFINE tip == relay[Tip]
<1>1. RelayOK /\ TimeOK /\ JobsOK /\ Tip \in DOMAIN relay /\ tip \in RelayState
  BY TipFacts DEF CollationInv
<1>2. /\ tip.head \in ParaHead /\ tip.dmq \in Chain /\ tip.hrmp \in [Senders -> Chain]
  BY <1>1, StateTypes
<1>3. /\ tip.dmqHead = tip.head.down \o tip.dmq
      /\ \A s \in Senders : tip.hrmpHeads[s] = tip.head.hrmp[s] \o tip.hrmp[s]
      /\ \A s \in Senders : \A i \in DOMAIN tip.hrmp[s] : tip.hrmp[s][i] <= Tip
      /\ InTime(tip.head, clock)
  BY <1>1 DEF RelayOK, StateOK, TimeOK
<1>4. /\ relay' = Append(relay,
              [slot      |-> clock,
               dmqHead   |-> Sent(tip.dmqHead, down),
               hrmpHeads |-> [s \in Senders |-> Sent(tip.hrmpHeads[s], s \in from)],
               dmq       |-> Sent(tip.dmq, down),
               hrmp      |-> [s \in Senders |-> Sent(tip.hrmp[s], s \in from)],
               head      |-> tip.head])
      /\ clock' = clock /\ jobs' = jobs
  BY DEF RelayBlock
<1>5. /\ RelayOK' /\ TimeOK'
      /\ \A i \in DOMAIN relay : i \in DOMAIN relay' /\ relay'[i] = relay[i]
  BY <1>1, <1>2, <1>3, <1>4, BlockKeepsRelay
<1>6. JobsOK'
  BY <1>1, <1>4, <1>5, JobsStayOK
<1> QED BY <1>5, <1>6 DEF CollationInv

\* A relay block that includes a candidate: because its parent is still the head, the
\* queues have only grown since they were read, and exactly what was read leaves them.
LEMMA InclusionKeepsInv ==
    ASSUME CollationInv, NEW n \in Nodes, NEW down \in BOOLEAN,
           NEW from \in SUBSET Senders, RelayBlockWith(n, down, from)
    PROVE  CollationInv'
<1> DEFINE job  == jobs[n]
           tip  == relay[Tip]
           st   == relay[job.at]
           dmq  == Processed(tip.dmq, job.info.processedDown)
           hrmp == [s \in Senders |-> Pruned(tip.hrmp[s], job.info.watermark)]
<1>1. /\ RelayOK /\ TimeOK /\ JobsOK /\ Tip \in DOMAIN relay /\ tip \in RelayState
      /\ DOMAIN relay = 1 .. Tip /\ Tip \in Nat
      /\ \A i \in DOMAIN relay : relay[i] \in RelayState
  BY TipFacts DEF CollationInv
<1>2. JobOK(job) /\ job.step = "candidate" /\ job.parent = tip.head /\ CheckInherents(job)
  BY <1>1 DEF JobsOK, RelayBlockWith, Includable, Working
<1>3. /\ job.at \in DOMAIN relay /\ job.at \in Nat /\ job.at <= Tip /\ st \in RelayState
      /\ ReadsOK(job, st) /\ CandidateOK(job, st)
  BY <1>1, <1>2 DEF JobOK
<1>4. /\ StateOK(st, job.at) /\ StateOK(tip, Tip)
      /\ Extends(st.dmqHead, tip.dmqHead, job.at)
      /\ \A s \in Senders : Extends(st.hrmpHeads[s], tip.hrmpHeads[s], job.at)
  BY <1>1, <1>3 DEF RelayOK
<1>5. /\ tip.head = st.head /\ job.proof.slot = st.slot
  BY <1>2, <1>3 DEF ReadsOK
<1>6. /\ st.slot \in Nat /\ st.dmq \in Chain /\ tip.dmq \in Chain /\ st.dmqHead \in Chain
      /\ st.hrmp \in [Senders -> Chain] /\ tip.hrmp \in [Senders -> Chain]
      /\ st.hrmpHeads \in [Senders -> Chain]
      /\ st.head.down \in Chain /\ st.head.hrmp \in [Senders -> Chain]
  BY <1>1, <1>3, StateTypes
<1> HIDE DEF st, tip, job
<1>7. dmq \in Chain /\ tip.dmqHead = job.head.down \o dmq
  <2>1. PICK x \in Chain : tip.dmqHead = st.dmqHead \o x
    BY <1>4 DEF Extends
  <2>2. st.head.down \o tip.dmq = (st.head.down \o st.dmq) \o x
    BY <1>4, <1>5, <2>1 DEF StateOK
  <2>3. tip.dmq = st.dmq \o x
    <3> DEFINE a == st.head.down
               b == st.dmq
               c == tip.dmq
    <3>1. /\ a \in Chain /\ b \in Chain /\ c \in Chain
            /\ Joined(a, c) = Joined(Joined(a, b), x)
      BY <1>6, <2>2 DEF Joined
    <3> HIDE DEF a, b, c
    <3>2. c = Joined(b, x)
      BY <3>1, QueueGrew
    <3> QED BY <3>2 DEF Joined, b, c
  <2>4. dmq = x
    <3>1. job.info.processedDown = Len(st.dmq)
      BY <1>3 DEF CandidateOK
    <3>2. Processed(st.dmq \o x, Len(st.dmq)) = x
      BY <1>6, ProcessedRest
    <3> QED BY <2>3, <3>1, <3>2
  <2>5. job.head.down = st.dmqHead
    BY <1>3 DEF CandidateOK
  <2> QED BY <2>1, <2>4, <2>5
<1>8. ASSUME NEW s \in Senders
      PROVE  /\ hrmp[s] \in Chain /\ tip.hrmpHeads[s] = job.head.hrmp[s] \o hrmp[s]
             /\ \A i \in DOMAIN hrmp[s] : hrmp[s][i] <= Tip
  <2>1. PICK x \in Chain : /\ tip.hrmpHeads[s] = st.hrmpHeads[s] \o x
                           /\ \A i \in DOMAIN x : x[i] > job.at
    BY <1>4 DEF Extends
  <2>2. /\ st.hrmp[s] \in Chain /\ tip.hrmp[s] \in Chain /\ st.head.hrmp[s] \in Chain
    BY <1>6
  <2>3. st.head.hrmp[s] \o tip.hrmp[s] = (st.head.hrmp[s] \o st.hrmp[s]) \o x
    BY <1>4, <1>5, <2>1 DEF StateOK
  <2>4. tip.hrmp[s] = st.hrmp[s] \o x
    <3> DEFINE a == st.head.hrmp[s]
               b == st.hrmp[s]
               c == tip.hrmp[s]
    <3>1. /\ a \in Chain /\ b \in Chain /\ c \in Chain
            /\ Joined(a, c) = Joined(Joined(a, b), x)
      BY <2>2, <2>3 DEF Joined
    <3> HIDE DEF a, b, c
    <3>2. c = Joined(b, x)
      BY <3>1, QueueGrew
    <3> QED BY <3>2 DEF Joined, b, c
  <2>5. /\ job.info.watermark \in Nat /\ job.info.watermark <= job.at
        /\ \A i \in DOMAIN st.hrmp[s] : st.hrmp[s][i] <= job.info.watermark
        /\ job.head.hrmp = st.hrmpHeads
    BY <1>3 DEF CandidateOK
  <2>6. \A i \in DOMAIN x : x[i] \in Nat
    BY ChainFacts
  <2>7. \A i \in DOMAIN x : x[i] > job.info.watermark
    BY <1>3, <2>1, <2>5, <2>6
  <2>8. Pruned(st.hrmp[s] \o x, job.info.watermark) = x
    BY <2>2, <2>5, <2>7, PrunedRest
  <2>9. hrmp[s] = x
    BY <2>4, <2>8
  <2>10. \A i \in DOMAIN x : x[i] <= Tip
    <3>1. \A i \in DOMAIN tip.hrmp[s] : tip.hrmp[s][i] <= Tip
      BY <1>4 DEF StateOK
    <3>2. /\ Len(st.hrmp[s]) \in Nat /\ Len(x) \in Nat
          /\ Len(tip.hrmp[s]) = Len(st.hrmp[s]) + Len(x)
          /\ DOMAIN tip.hrmp[s] = 1 .. Len(tip.hrmp[s]) /\ DOMAIN x = 1 .. Len(x)
          /\ \A i \in 1 .. Len(st.hrmp[s]) + Len(x) : tip.hrmp[s][i] =
                 IF i <= Len(st.hrmp[s]) THEN st.hrmp[s][i] ELSE x[i - Len(st.hrmp[s])]
      <4> DEFINE b == st.hrmp[s]
      <4>1. b \in Chain
        BY <2>2
      <4> HIDE DEF b
      <4>2. /\ Len(b) \in Nat /\ Len(x) \in Nat /\ DOMAIN x = 1 .. Len(x)
            /\ b \o x \in Chain /\ Len(b \o x) = Len(b) + Len(x)
            /\ DOMAIN (b \o x) = 1 .. Len(b \o x)
            /\ \A i \in 1 .. Len(b) + Len(x) :
                  (b \o x)[i] = IF i <= Len(b) THEN b[i] ELSE x[i - Len(b)]
        BY <4>1, ChainFacts
      <4> QED BY <2>4, <4>2 DEF b
    <3>3. ASSUME NEW i \in DOMAIN x PROVE x[i] <= Tip
      <4> DEFINE j == Len(st.hrmp[s]) + i
      <4>1. /\ j \in 1 .. Len(st.hrmp[s]) + Len(x) /\ ~ (j <= Len(st.hrmp[s]))
            /\ j - Len(st.hrmp[s]) = i
        <5> DEFINE k == Len(st.hrmp[s])
        <5>1. k \in Nat /\ Len(x) \in Nat /\ i \in 1 .. Len(x)
          BY <3>2
        <5> HIDE DEF k
        <5>2. k + i \in 1 .. k + Len(x) /\ ~ (k + i <= k) /\ (k + i) - k = i
          BY <5>1
        <5> QED BY <5>2 DEF k
      <4>2. j \in DOMAIN tip.hrmp[s] /\ tip.hrmp[s][j] = x[i]
        BY <3>2, <4>1
      <4> QED BY <3>1, <4>2
    <3> QED BY <3>3
  <2> QED BY <2>1, <2>5, <2>9, <2>10
<1>9. InTime(job.head, clock)
  <2>1. st.slot <= tip.slot /\ clock \in Nat /\ tip.slot \in Nat
    BY <1>1, <1>3, StateTypes DEF TimeOK, st, tip
  <2>5. clock > tip.slot
    BY DEF RelayBlockWith, tip
  <2>6. job.head.slot = SlotOf(job.head.ts)
    BY <1>3 DEF CandidateOK
  <2>2. job.head.ts \in Nat
    BY <1>3 DEF CandidateOK, ParaHead
  <2>3. job.head.ts <= st.slot + 1 + Drift
    BY <1>2, <1>5 DEF CheckInherents, ExpectedTime
  <2>4. Drift \in Nat
    BY CollationAssumption
  <2>7. job.head.ts <= clock + Drift
    BY <1>6, <2>1, <2>2, <2>3, <2>4, <2>5
  <2> QED BY <2>6, <2>7 DEF InTime
<1>10. job.head \in ParaHead /\ hrmp \in [Senders -> Chain]
  BY <1>3, <1>8 DEF CandidateOK
<1>11. /\ relay' = Append(relay,
              [slot      |-> clock,
               dmqHead   |-> Sent(tip.dmqHead, down),
               hrmpHeads |-> [s \in Senders |-> Sent(tip.hrmpHeads[s], s \in from)],
               dmq       |-> Sent(dmq, down),
               hrmp      |-> [s \in Senders |-> Sent(hrmp[s], s \in from)],
               head      |-> job.head])
       /\ clock' = clock /\ jobs' = [jobs EXCEPT ![n] = None]
  BY DEF RelayBlockWith, job, tip
<1> HIDE DEF dmq, hrmp
<1>12. /\ RelayOK' /\ TimeOK'
       /\ \A i \in DOMAIN relay : i \in DOMAIN relay' /\ relay'[i] = relay[i]
  BY <1>1, <1>7, <1>8, <1>9, <1>10, <1>11, BlockKeepsRelay DEF tip
<1>13. JobsOK'
  BY <1>1, <1>11, <1>12, JobsStayOK
<1> QED BY <1>12, <1>13 DEF CollationInv

\* Time only makes it easier.
LEMMA TickKeepsInv ==
    ASSUME CollationInv, Tick
    PROVE  CollationInv'
<1>1. relay' = relay /\ jobs' = jobs /\ clock' = clock + 1 /\ clock \in Nat
  BY DEF Tick, CollationInv, TimeOK
<1>2. RelayOK'
  BY <1>1 DEF CollationInv, RelayOK, StateOK
<1>3. TimeOK'
  <2> SUFFICES ASSUME NEW i \in DOMAIN relay
               PROVE  /\ relay[i].slot <= relay[Tip].slot /\ relay[i].slot <= clock + 1
                      /\ relay[i].head.ts <= clock + 1 + Drift
                      /\ relay[i].head.slot = SlotOf(relay[i].head.ts)
    BY <1>1 DEF TimeOK, InTime, SlotOf, Tip
  <2>1. relay[i].slot \in Nat /\ relay[i].head.ts \in Nat /\ Drift \in Nat
    BY TipFacts, StateTypes, CollationAssumption DEF CollationInv
  <2> QED BY <1>1, <2>1 DEF CollationInv, TimeOK, InTime
<1>4. JobsOK'
  BY <1>1, JobsStayOK DEF CollationInv
<1> QED BY <1>2, <1>3, <1>4 DEF CollationInv

\* What only concerns a node's database and whether it runs.
LEMMA RestKeepsInv ==
    ASSUME CollationInv, relay' = relay, clock' = clock, jobs' = jobs
    PROVE  CollationInv'
<1>1. RelayOK' /\ TimeOK'
  BY DEF CollationInv, RelayOK, TimeOK, StateOK, InTime, SlotOf, Tip
<1>2. JobsOK'
  BY JobsStayOK DEF CollationInv
<1> QED BY <1>1, <1>2 DEF CollationInv

\* The inductive invariant holds at the start.
LEMMA InitInv == Init => CollationInv
<1> SUFFICES ASSUME Init PROVE CollationInv
  OBVIOUS
<1> DEFINE st == [slot |-> 1, dmqHead |-> <<>>, hrmpHeads |-> EmptyChains,
                  dmq |-> <<>>, hrmp |-> EmptyChains, head |-> Genesis]
<1>1. <<>> \in Chain /\ EmptyChains \in [Senders -> Chain] /\ <<>> \o <<>> = <<>>
  BY ConcatEmptySeq DEF Chain, EmptyChains
<1>2. Genesis \in ParaHead
  BY <1>1 DEF Genesis, ParaHead
<1>3. st \in RelayState
  BY <1>1, <1>2 DEF RelayState
<1>4. relay = <<st>> /\ clock = 1 /\ jobs = [n \in Nodes |-> None]
  BY DEF Init
<1>5. StateOK(st, 1)
  BY <1>1 DEF StateOK, Genesis, EmptyChains
<1>6. st.slot = 1 /\ st.head.ts = 0 /\ st.head.slot = SlotOf(st.head.ts)
  <2>1. SlotDuration \in Nat /\ SlotDuration > 0
    BY CollationAssumption
  <2>2. SlotOf(0) = 0
    BY <2>1, SlotOfZero DEF SlotOf
  <2> QED BY <2>2 DEF Genesis
<1>7. \A s \in Senders : Extends(st.hrmpHeads[s], st.hrmpHeads[s], 1)
  BY <1>1, ExtendsSelf
<1>8. Extends(st.dmqHead, st.dmqHead, 1)
  BY <1>1, ExtendsSelf
<1> HIDE DEF st
<1>9. /\ relay \in Seq(RelayState) /\ Len(relay) = 1 /\ DOMAIN relay = {1}
      /\ relay[1] = st
  BY <1>3, <1>4
<1>10. RelayOK
  BY <1>5, <1>7, <1>8, <1>9 DEF RelayOK
<1>11. TimeOK
  <2>1. Drift \in Nat
    BY CollationAssumption
  <2> QED BY <1>4, <1>6, <1>9, <2>1 DEF TimeOK, InTime, Tip
<1>12. JobsOK
  BY <1>4 DEF JobsOK
<1> QED BY <1>10, <1>11, <1>12 DEF CollationInv

\* Every step keeps the inductive invariant.
LEMMA NextInv == CollationInv /\ [Next]_vars => CollationInv'
<1> SUFFICES ASSUME CollationInv, [Next]_vars PROVE CollationInv'
  OBVIOUS
<1>1. CASE Tick
  BY <1>1, TickKeepsInv
<1>2. ASSUME NEW n \in Nodes,
             \/ Import(n) \/ StartNode(n) \/ Revert(n) \/ PurgeChain(n) \/ ImportBlocks(n)
      PROVE  CollationInv'
  <2>1. relay' = relay /\ clock' = clock /\ jobs' = jobs
    BY <1>2 DEF Import, StartNode, Revert, PurgeChain, ImportBlocks
  <2> QED BY <2>1, RestKeepsInv
<1>3. ASSUME NEW n \in Nodes, StopNode(n) \/ Abandon(n) PROVE CollationInv'
  <2>1. /\ relay' = relay /\ clock' = clock
        /\ jobs' = jobs \/ jobs' = [jobs EXCEPT ![n] = None]
    BY <1>3 DEF StopNode, Abandon
  <2> QED BY <2>1, RestKeepsInv, AbandonKeepsInv
<1>4. ASSUME NEW n \in Nodes,
             \/ StartJob(n) \/ CollectProof(n) \/ RetrieveDmq(n) \/ RetrieveHrmp(n)
             \/ Stamp(n) \/ Propose(n)
      PROVE  CollationInv'
  BY <1>4, StartKeepsInv, CollectKeepsInv, DmqKeepsInv, HrmpKeepsInv, StampKeepsInv,
     ProposeKeepsInv
<1>5. ASSUME NEW down \in BOOLEAN, NEW from \in SUBSET Senders, RelayBlock(down, from)
      PROVE  CollationInv'
  BY <1>5, BlockKeepsInv
<1>6. ASSUME NEW down \in BOOLEAN, NEW from \in SUBSET Senders, NEW n \in Nodes,
             RelayBlockWith(n, down, from)
      PROVE  CollationInv'
  BY <1>6, InclusionKeepsInv
<1>7. CASE UNCHANGED vars
  BY <1>7, RestKeepsInv DEF vars
<1> QED BY <1>1, <1>2, <1>3, <1>4, <1>5, <1>6, <1>7 DEF Next

\* The inductive invariant is an invariant: jobs hold what one relay block's state says,
\* however far the chain has moved on, and the queues of every relay block balance.
THEOREM CollationInvariance == Spec => []CollationInv
BY InitInv, NextInv, PTL DEF Spec
-----------------------------------------------------------------------------
(* The properties.                                                         *)

\* Whatever create_at returns after its reads, the message queue chains match the proof.
THEOREM CollationAgrees == Spec => []InherentsAgree
<1>1. CollationInv => InherentsAgree
  <2> SUFFICES ASSUME CollationInv, NEW n \in Nodes, Working(n, "propose")
               PROVE  ChainsMatch(jobs[n])
    BY DEF InherentsAgree
  <2> DEFINE job == jobs[n]
             st  == relay[job.at]
  <2>1. JobOK(job) /\ job.step = "propose"
    BY DEF CollationInv, JobsOK, Working
  <2>2. st \in RelayState /\ StateOK(st, job.at)
    BY <2>1, TipFacts DEF JobOK, CollationInv, RelayOK
  <2>3. /\ job.parent = st.head /\ job.dmq = st.dmq /\ job.hrmp = st.hrmp
        /\ job.proof.dmqHead = st.dmqHead /\ job.proof.hrmpHeads = st.hrmpHeads
    BY <2>1 DEF JobOK, ReadsOK
  <2>4. st.hrmpHeads \in [Senders -> Chain]
    BY <2>2, StateTypes
  <2> HIDE DEF job, st
  <2>5. ExtendDownward(job.parent.down, job.dmq) = job.proof.dmqHead
    BY <2>2, <2>3 DEF ExtendDownward, StateOK
  <2>6. ExtendHrmp(job.parent.hrmp, job.hrmp) = job.proof.hrmpHeads
    <3>1. \A s \in Senders : st.hrmpHeads[s] = st.head.hrmp[s] \o st.hrmp[s]
      BY <2>2 DEF StateOK
    <3> QED BY <2>3, <2>4, <3>1 DEF ExtendHrmp
  <2> QED BY <2>5, <2>6 DEF ChainsMatch, job
<1> QED BY <1>1, CollationInvariance, PTL

\* Whatever block was included, a node whose clock is right can import it, past both the
\* slot and the time check of the import queue, once it has waited for the time by which
\* the drift exceeds a slot.
THEOREM CollationNotLockedOut == Spec => []NotLockedOut
<1>1. CollationInv => NotLockedOut
  <2> SUFFICES ASSUME CollationInv PROVE NotLockedOut
    OBVIOUS
  <2> DEFINE head == relay[Tip].head
             wait == IF Drift > SlotDuration THEN Drift - SlotDuration ELSE 0
             now  == clock + wait
  <2>1. /\ clock \in Nat /\ Drift \in Nat /\ SlotDuration \in Nat /\ SlotDuration > 0
        /\ head.ts \in Nat /\ head.ts <= clock + Drift /\ head.slot = SlotOf(head.ts)
    BY TipFacts, StateTypes, CollationAssumption DEF CollationInv, TimeOK, InTime
  <2> HIDE DEF head
  <2>2. /\ wait \in Nat /\ now \in Nat /\ clock <= now
        /\ head.ts <= now + Drift /\ head.ts <= now + SlotDuration
    BY <2>1
  <2> HIDE DEF now, wait
  <2>3. SlotOf(head.ts) <= SlotOf(now) + 1
    BY <2>1, <2>2, OneSlotLater DEF SlotOf
  <2>4. Importable(head, now)
    BY <2>1, <2>2, <2>3 DEF Importable
  <2> QED BY <2>4 DEF NotLockedOut, head, now, wait
<1> QED BY <1>1, CollationInvariance, PTL
=============================================================================
