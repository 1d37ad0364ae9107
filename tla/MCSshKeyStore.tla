--------------------------- MODULE MCSshKeyStore ----------------------------
(* Instances of SshKeyStore for TLC. *)
EXTENDS SshKeyStore, TLC

CONSTANTS w1, w2, d1, d2, d3, a1, a2

MCSymmetry == Permutations(Workers) \cup Permutations(Dirs) \cup Permutations(Algs)
=============================================================================
