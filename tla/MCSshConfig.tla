---------------------------- MODULE MCSshConfig -----------------------------
(* Instances of SshConfig for TLC. *)
EXTENDS SshConfig, TLC

CONSTANTS w1, w2, k1, k2, u1, u2

MCSymmetry == Permutations(Workers) \cup Permutations(Keys)

(* Beside the bounds of the module: two lines of the user's, two of the    *)
(* calls and the editor at the same time, and in a damaged file no editor  *)
(* and no call begun beside another.                                       *)
MCConstraint ==
  /\ Cardinality(OwnAt(config)) <= 2
  /\ editor # <<None>> => ~damaged /\ \E w \in Workers : ~Active(w)
  /\ damaged => \/ \E w \in Workers : ~Active(w)
                \/ \A w \in Workers : job[w].pc # "read"

(* Once the file is damaged nothing depends on the histories any more.     *)
MCView ==
  IF damaged
    THEN <<onServer, config, editor,
           [w \in Workers |-> <<job[w].pc, job[w].repo, job[w].key, job[w].text>>]>>
    ELSE <<onServer, config, editor, job, wanted, user>>
=============================================================================
