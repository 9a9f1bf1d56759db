----------------------------- MODULE MCCtfMatch -----------------------------
(***************************************************************************)
(* CtfMatch for TLC.                                                       *)
(***************************************************************************)
EXTENDS CtfMatch, TLC

Symmetry == Permutations(Clients) \cup Permutations(Accounts)
=============================================================================
