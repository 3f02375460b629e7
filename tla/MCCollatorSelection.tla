------------------------ MODULE MCCollatorSelection ------------------------
(* Instances of CollatorSelection for TLC.                                 *)
EXTENDS CollatorSelection, TLC

CONSTANTS a, b, c

MCInvulnerableSets == {{a}, {b}, {c}}

\* b and c are interchangeable.
MCSymmetry == Permutations({b, c})
=============================================================================
