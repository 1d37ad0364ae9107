------------------------------ MODULE MCRemote ------------------------------
(* Two repositories of one name, so that one directory serves both.        *)
EXTENDS Remote, TLC

CONSTANTS w1, w2, a, b, d1, p1, p2

MCSymmetry == Permutations(Workers) \cup Permutations(Repos) \cup Permutations(Paths)
=============================================================================
