------------------------------ MODULE MCRepoLock ------------------------------
(***************************************************************************)
(* Three commands at a time in one client repository.                      *)
(***************************************************************************)
EXTENDS RepoLock, TLC

ProcessSymmetry == Permutations(Process)
=============================================================================
