------------------------------- MODULE MCFees -------------------------------
(* Instance of Fees for TLC.                                               *)
EXTENDS Fees

CONSTANTS a, b

MCInvulnerableSets == {{a}, {b}}
=============================================================================
