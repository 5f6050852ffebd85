-------------------------- MODULE MCAttachmentUpload --------------------------
(* Small instances of AttachmentUpload.                                     *)
EXTENDS AttachmentUpload, TLC

Symmetry ==
    Permutations(Users) \cup Permutations(Uploads) \cup Permutations(Issues) \cup
    Permutations(Calls) \cup Permutations(Valid) \cup Permutations(Files \ Valid)
=============================================================================
