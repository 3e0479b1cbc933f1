------------------------------ MODULE Calendar ------------------------------
(***************************************************************************)
(* Google Calendar as the sessions module uses it: events in the primary   *)
(* calendar of the user who acts.  An event is found only there, so        *)
(* another participant who changes or deletes it is answered "not found".  *)
(***************************************************************************)
CONSTANTS Events, Users, SessionIds, Schedules, None

VARIABLE calendar  \* [Events -> event], state "free" before it is made

Event == [state : {"free", "live", "deleted"}, owner : Users \cup {None},
          session : SessionIds \cup {None}, at : Schedules \cup {None}]

NoEvent == [state |-> "free", owner |-> None, session |-> None, at |-> None]

CalendarTypeOK == calendar \in [Events -> Event]

CalendarInit == calendar = [e \in Events |-> NoEvent]

Found(u, e) == calendar[e].state = "live" /\ calendar[e].owner = u

MakeEvent(e, u, s, at) ==
  /\ calendar[e].state = "free"
  /\ calendar' = [calendar EXCEPT ![e] =
       [state |-> "live", owner |-> u, session |-> s, at |-> at]]

PatchEvent(u, e, at) ==
  /\ Found(u, e)
  /\ calendar' = [calendar EXCEPT ![e].at = at]

RemoveEvent(u, e) ==
  /\ Found(u, e)
  /\ calendar' = [calendar EXCEPT ![e].state = "deleted"]
=============================================================================
