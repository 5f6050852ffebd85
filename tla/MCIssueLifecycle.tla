--------------------------- MODULE MCIssueLifecycle ---------------------------
(* Small instances of IssueLifecycle.                                        *)
EXTENDS IssueLifecycle, TLC

Symmetry == Permutations(Users) \cup Permutations(Requests)
=============================================================================
