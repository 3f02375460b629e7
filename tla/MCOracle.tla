------------------------------ MODULE MCOracle ------------------------------
(* Instances of Oracle for TLC.                                            *)
EXTENDS Oracle, SequencesExt

CONSTANTS n1, n2, src1, src2, m01, m02, m11, m12, m21, m22, d1

MCEncoding ==
    (<<0, src1>> :> m01) @@ (<<0, src2>> :> m02) @@ (<<1, src1>> :> m11)
    @@ (<<1, src2>> :> m12) @@ (<<2, src1>> :> m21) @@ (<<2, src2>> :> m22)
MCKeyRank   == (n1 :> 1) @@ (n2 :> 2)
MCReplyData == [contract : {n1, n2}, id : Blocks, data : {d1}] \cup {Garbage}

MCReplies  == [type : {"Reply"}, data : [contract : {n1, n2}, id : 1 .. 2, data : {d1}]]
              \cup [type : {"Reply"}, data : {Garbage}]
MCHeadSets == [type : {"SetQueueHead"}, head : 1 .. MaxIndex]

\* Replies alone, and one or two messages taken before or after the replies.
MCTxs ==
    [conds : {{}}, updates : {<<>>},
     actions : {<<r>> : r \in MCReplies}
               \cup {<<h, r>> : h \in MCHeadSets, r \in MCReplies}
               \cup {<<r, s, h>> : r \in MCReplies, s \in MCReplies, h \in MCHeadSets}]
=============================================================================
