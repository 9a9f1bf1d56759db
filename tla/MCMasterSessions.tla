-------------------------- MODULE MCMasterSessions --------------------------
(***************************************************************************)
(* MasterSessions for TLC: the constants are in the configurations.        *)
(***************************************************************************)
EXTENDS MasterSessions
=============================================================================
