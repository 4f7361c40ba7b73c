------------------------------ MODULE MCSnapshot ------------------------------
(***************************************************************************)
(* Working trees over two file contents; a few commits in a row.           *)
(***************************************************************************)
EXTENDS Snapshot, TLC

BlobSymmetry == Permutations(Blob)
=============================================================================
