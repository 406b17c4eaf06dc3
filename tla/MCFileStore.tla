----------------------------- MODULE MCFileStore -----------------------------
(* Two values; as many files as can have a name or be open at one time.      *)
EXTENDS FileStore, TLC

InodeSymmetry == Permutations(Inodes)
=============================================================================
