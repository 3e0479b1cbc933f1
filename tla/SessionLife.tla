---------------------------- MODULE SessionLife ----------------------------
(***************************************************************************)
(* What the sessions module promises: each request has at most one session *)
(* and it moves forward, from SCHEDULED to an end that is final.           *)
(***************************************************************************)
CONSTANT Requests

VARIABLE stage  \* [Requests -> status of the session of the request, or "NONE"]

stageVars == <<stage>>

Forward == {<<"NONE", "SCHEDULED">>,
            <<"SCHEDULED", "IN_PROGRESS">>, <<"SCHEDULED", "CANCELLED">>,
            <<"SCHEDULED", "NO_SHOW">>,
            <<"IN_PROGRESS", "COMPLETED">>, <<"IN_PROGRESS", "CANCELLED">>}

Stage == {"NONE", "SCHEDULED", "IN_PROGRESS", "COMPLETED", "CANCELLED", "NO_SHOW"}

StageInit == stage = [q \in Requests |-> "NONE"]

Step(q) == \E arrow \in Forward :
  /\ stage[q] = arrow[1]
  /\ stage' = [stage EXCEPT ![q] = arrow[2]]

StageNext == \E q \in Requests : Step(q)

StageSpec == StageInit /\ [][StageNext]_stageVars
=============================================================================
