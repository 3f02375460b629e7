-------------------------- MODULE MCRollupSessions --------------------------
(* Instances of RollupSessions for TLC.                                    *)
EXTENDS RollupSessions, TLC

CONSTANTS k1, k1_ver

MCSymmetry == Permutations(Sessions)

MCVersionOf == (k1 :> k1_ver)
=============================================================================
