----------------------------- MODULE MCFeedback -----------------------------
(* Model checking of Feedback: two users meet, a third one looks on.       *)
EXTENDS Feedback, TLC

CONSTANTS u1, u2, u3

MCUsers == {u1, u2, u3}
MCParties == [s \in Sessions |-> {u1, u2}]

MCSymmetry ==
  UNION {Permutations(set) : set \in {Sessions, {u1, u2}, Badges, Ids, Handlers}}
=============================================================================
