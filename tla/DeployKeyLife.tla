--------------------------- MODULE DeployKeyLife ----------------------------
(***************************************************************************)
(* What the key binding service promises about a deploy key it creates,    *)
(* without rows, calls or files.  A key is uploaded once, is held by the   *)
(* call that uploaded it, may become the key of a binding, and ends as     *)
(* gone (deleted on GitHub) or stray (on GitHub, with nothing in the       *)
(* application referring to it).  A stray key is never adopted and a key   *)
(* that is gone never comes back.                                          *)
(***************************************************************************)
CONSTANT Ids
VARIABLE life

Lives == {"unborn", "held", "bound", "stray", "gone"}

TypeOK == life \in [Ids -> Lives]

Init == life = [d \in Ids |-> "unborn"]

(* GitHub creates the key; the call learns its id, or never does.          *)
Upload(d) ==
  /\ life[d] = "unborn"
  /\ \E l \in {"held", "stray"} : life' = [life EXCEPT ![d] = l]

Losses == {<<"held", "stray">>, <<"held", "gone">>,
           <<"bound", "held">>, <<"bound", "stray">>, <<"bound", "gone">>,
           <<"stray", "gone">>}

Loses(d) == life'[d] = life[d] \/ <<life[d], life'[d]>> \in Losses

(* One held key becomes the key of a row; the row's former key loses it.   *)
Bind(d) ==
  /\ life[d] = "held"
  /\ life' \in [Ids -> Lives]
  /\ life'[d] = "bound"
  /\ \A e \in Ids \ {d} : Loses(e)

(* Rollback, cascading deletes, crashes, deletions on github.com.          *)
Lose ==
  /\ life' \in [Ids -> Lives]
  /\ \A d \in Ids : Loses(d)

Next == Lose \/ \E d \in Ids : Upload(d) \/ Bind(d)

Spec == Init /\ [][Next]_life
=============================================================================
