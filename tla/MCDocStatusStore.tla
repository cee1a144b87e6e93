-------------------------- MODULE MCDocStatusStore --------------------------
(* Small instances of DocStatusStore for TLC. *)
EXTENDS DocStatusStore, TLC

DocRecords == Recs

\* Inodes are only ever compared: any permutation of them is a symmetry.
InodeSymmetry == Permutations(Inodes)
=============================================================================
