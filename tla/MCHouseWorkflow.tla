--------------------------- MODULE MCHouseWorkflow ---------------------------
(* Small instances of HouseWorkflow.  Users that are no administrators,     *)
(* houses and the ids of every table are interchangeable.                   *)
EXTENDS HouseWorkflow, TLC

Symmetry ==
    Permutations(Users \ Admins) \cup Permutations(Houses) \cup
    Permutations(RegIds) \cup Permutations(JoinIds) \cup Permutations(TransferIds)

(* Nothing reads the outbox rows of the last transaction: states that differ *)
(* only in them have the same future, and a step is checked with its rows.   *)
View == tables
=============================================================================
