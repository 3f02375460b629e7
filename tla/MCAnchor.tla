------------------------------ MODULE MCAnchor ------------------------------
(* Instances of Anchor for TLC.                                            *)
EXTENDS Anchor, SequencesExt

CONSTANTS k1, v1

MCConds   == {{}, {<<k1, None>>}, {<<k1, v1>>}, {<<HeadKey, 1>>}}
MCUpdates == {<<>>, (k1 :> v1), (k1 :> None)}
MCActions ==
    BoundedSeq([type : {"SetQueueHead"}, head : Slots]
               \cup [type : {"Reply"}, data : ReplyData]
               \cup [type : {"Undecodable"}], 2)

\* Transactions of a client that keeps to the user keys.
MCTxs == [conds : MCConds, updates : MCUpdates, actions : MCActions]

\* As above, with updates of the queue's own keys as well.
MCAnyKeyTxs ==
    [conds   : {{}},
     updates : MCUpdates \cup {(HeadKey :> v1), (TailKey :> 0)},
     actions : {<<>>}]
=============================================================================
