--------------------------- MODULE MCJSONKVStore ---------------------------
(* Small instances of JSONKVStore for TLC. *)
EXTENDS JSONKVStore

\* Inodes are only ever compared: any permutation of them is a symmetry.
InodeSymmetry == Permutations(Inodes)
=============================================================================
