--------------------------- MODULE MCConnections ----------------------------
(* One server, which may be edited to another host.  Nothing is said of    *)
(* what follows two calls about one row, or a call left half done, so TLC  *)
(* does not go on from there.                                              *)
EXTENDS Connections, TLC

CONSTANTS h1, h2, w1, w2

MCSymmetry == Permutations(Workers) \cup Permutations(Hosts)

MCConstraint == "loose" \notin upset
=============================================================================
