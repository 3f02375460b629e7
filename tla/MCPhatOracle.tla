---------------------------- MODULE MCPhatOracle ----------------------------
(* An instance of PhatOracle for TLC.                                      *)
EXTENDS PhatOracle

MCNames == {Address(c, s) : c \in Codes, s \in 0 .. MaxDeployed - 1}
=============================================================================
