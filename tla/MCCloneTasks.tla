---------------------------- MODULE MCCloneTasks ----------------------------
(* Instances of CloneTasks for TLC. *)
EXTENDS CloneTasks, TLC

CONSTANTS w1, w2, r1, r2, d1, d2, s1

WorkerSymmetry == Permutations(Workers)
RepoSymmetry == Permutations(Workers) \cup Permutations(Repos) \cup Permutations(LocalDirs)
=============================================================================
