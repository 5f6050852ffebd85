------------------------------ MODULE MCCommunity ------------------------------
(* Small instances of Community.                                             *)
EXTENDS Community, TLC

Symmetry == Permutations(Users) \cup Permutations(Calls)
=============================================================================
