---------------------------- MODULE MCParaOracle ----------------------------
(* Instances of ParaOracle for TLC.                                        *)
EXTENDS ParaOracle
=============================================================================
