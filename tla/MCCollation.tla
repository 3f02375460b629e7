----------------------------- MODULE MCCollation -----------------------------
(* An instance of Collation for TLC.                                       *)
EXTENDS Collation, TLC

CONSTANTS n1, n2, n3

MCRole == (n1 :> "authority") @@ (n2 :> "authority") @@ (n3 :> "full")
MCAuthorities == <<n1, n2>>
\* The clock of n2 is ahead, by just as much as the check of the inherents may allow when
\* the block is included one slot after it was stamped, and by too much otherwise.
MCSkew == (n1 :> {0}) @@ (n2 :> {6}) @@ (n3 :> {0})
==============================================================================
