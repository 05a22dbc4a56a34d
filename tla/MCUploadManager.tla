-------------------------- MODULE MCUploadManager --------------------------
(* Instances of UploadManager for TLC. *)
EXTENDS UploadManager

Symmetry == Permutations(UploadIds) \cup Permutations(Users)
=============================================================================
