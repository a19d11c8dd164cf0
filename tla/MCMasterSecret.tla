--------------------------- MODULE MCMasterSecret ---------------------------
(* Instances of MasterSecret for TLC.                                      *)
EXTENDS MasterSecret
=============================================================================
