---------------------------- MODULE RequestLife ----------------------------
(***************************************************************************)
(* What the requests module promises of a session request, and all that    *)
(* the sessions module relies on: it is sent once, answered at most once,  *)
(* and an answer is final.                                                 *)
(***************************************************************************)
CONSTANT Requests

VARIABLE life  \* [Requests -> RequestStatus], "NONE" before it is sent

lifeVars == <<life>>

Answer == {"ACCEPTED", "DECLINED", "CANCELLED"}
RequestStatus == {"NONE", "PENDING"} \cup Answer

LifeTypeOK == life \in [Requests -> RequestStatus]

LifeInit == life = [q \in Requests |-> "NONE"]

Send(q) ==
  /\ life[q] = "NONE"
  /\ life' = [life EXCEPT ![q] = "PENDING"]

\* Only a PENDING request is answered.  (Mutation: an accepted one may be cancelled.)
AnswerableTwice == {"PENDING", "ACCEPTED"}
Answerable == {"PENDING"}

Reply(q, answer) ==
  /\ life[q] \in Answerable
  /\ life' = [life EXCEPT ![q] = answer]

LifeNext == \E q \in Requests : Send(q) \/ \E answer \in Answer : Reply(q, answer)

LifeSpec == LifeInit /\ [][LifeNext]_lifeVars
=============================================================================
