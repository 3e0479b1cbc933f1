----------------------------- MODULE MCSessions -----------------------------
(* Model checking of Sessions: one request from u1 to u2.                  *)
EXTENDS Sessions, TLC

CONSTANTS u1, u2

MCRequester == [q \in Requests |-> u1]
MCRecipient == [q \in Requests |-> u2]

MCSymmetry == Permutations(SessionIds) \cup Permutations(Events)
                \cup Permutations(Schedules) \cup Permutations(Handlers)
=============================================================================
