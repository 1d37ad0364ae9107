------------------------------ MODULE MCSession ------------------------------
(* Two users who see the same repository.                                  *)
EXTENDS Session, TLC

CONSTANTS u1, u2, g1, w1, w2

MCVisible == u1 :> {g1} @@ u2 :> {g1}
MCSymmetry == Permutations(Users) \cup Permutations(Workers)
=============================================================================
