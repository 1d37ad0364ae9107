---------------------------- MODULE MCKeyBinding ----------------------------
(* Instances of KeyBinding for TLC. *)
EXTENDS KeyBinding, TLC

CONSTANTS w1, w2, r1, r2, t1, t2, k1, k2, p1

MCKeyTarget == [k \in SshKeys |-> t1]
WorkerSymmetry == Permutations(Workers)
KeySymmetry == Permutations(Workers) \cup Permutations(SshKeys)

(* What the properties and the guards read: not the status of a row or the *)
(* verdict on it, which are only written, and of the ids out of the books  *)
(* only those still on GitHub.                                             *)
View ==
  <<repos, targets, sshKeys, files, nextRow, remote, nextKey, raced,
    untracked \cap RemoteIds,
    {[b EXCEPT !.status = "active"] : b \in bindings},
    [w \in Workers |-> [op[w] EXCEPT !.verdict = "active"]]>>
=============================================================================
