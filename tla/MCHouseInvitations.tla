-------------------------- MODULE MCHouseInvitations --------------------------
(* Small instances of HouseInvitations.                                     *)
EXTENDS HouseInvitations, TLC

Symmetry ==
    Permutations(Users \ Admins) \cup Permutations(JoinIds) \cup
    Permutations(InviteIds)

(* As in MCHouseWorkflow, the outbox rows of the last transaction are left out. *)
View == <<tables, inviteVars>>
=============================================================================
