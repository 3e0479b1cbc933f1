------------------------------ MODULE Sessions ------------------------------
(***************************************************************************)
(* The sessions module of the API (src/apps/api/src/modules/sessions) with *)
(* its reminders, over the promise of the requests module (RequestLife)    *)
(* and over Google Calendar.                                               *)
(*                                                                         *)
(* A request is run by a handler, which gives way to the others at every   *)
(* await.  create makes the calendar event and then the row; update reads  *)
(* the row, changes the event, and then writes the row, if its status is   *)
(* still the one read.  The statements of one $transaction are one action. *)
(* A request that is refused at once changes nothing.                      *)
(*                                                                         *)
(* Of the agreed details, the schedule is kept, because reminders and the  *)
(* event follow it.  Place, meeting URL, timezone and terms of payment are *)
(* left out (Payments has the terms): nothing else depends on them.        *)
(***************************************************************************)
EXTENDS RequestLife, Calendar

CONSTANTS
  Requester, Recipient, \* [Requests -> Users]: the host and the participant
  Handlers,             \* the requests the API runs at the same time
  Faults                \* may a process die, a database or Google be unavailable?

ASSUME SessionsAssumption ==
  /\ Faults \in BOOLEAN
  /\ Requester \in [Requests -> Users]
  /\ Recipient \in [Requests -> Users]
  /\ None \notin SessionIds \cup Events \cup Schedules \cup Users \cup Requests

VARIABLES
  row,      \* [SessionIds -> learning_sessions row], status "NONE" when there is none
  reminder, \* [SessionIds -> its session_reminders rows, which change together]
  handler   \* [Handlers -> what the request has read and does next]

vars == <<row, reminder, handler, life, calendar>>

-----------------------------------------------------------------------------
(* Rows *)

Ended == {"COMPLETED", "CANCELLED", "NO_SHOW"}
Status == {"NONE", "SCHEDULED", "IN_PROGRESS"} \cup Ended

SessionRow == [status : Status, request : Requests \cup {None}, mode : {"ONLINE", "OFFLINE"},
               at : Schedules \cup {None}, event : Events \cup {None}]
NoSession == [status |-> "NONE", request |-> None, mode |-> "OFFLINE",
              at |-> None, event |-> None]

Reminder == [status : {"NONE", "PENDING", "CANCELLED"}, at : Schedules \cup {None}]
NoReminder == [status |-> "NONE", at |-> None]

\* What a request to change a session asks for, or "keep" and None.
Change == [status : (Status \ {"NONE", "SCHEDULED"}) \cup {"keep"},
           at : Schedules \cup {None}]
NoChange == [status |-> "keep", at |-> None]

\* u: who acts, while Google may still be called; old: the row as it was read (or, in
\* create, as it is to be); new: what is asked for.
Idle == [pc |-> "idle", s |-> None, u |-> None, old |-> NoSession, new |-> NoChange]
Handler == [pc : {"idle", "createEvent", "insert", "undoEvent",
                  "deleteEvent", "moveEvent", "write"},
            s : SessionIds \cup {None}, u : Users \cup {None}, old : SessionRow,
            new : Change]

TypeOK ==
  /\ LifeTypeOK
  /\ CalendarTypeOK
  /\ row \in [SessionIds -> SessionRow]
  /\ reminder \in [SessionIds -> Reminder]
  /\ handler \in [Handlers -> Handler]

Init ==
  /\ LifeInit
  /\ CalendarInit
  /\ row = [s \in SessionIds |-> NoSession]
  /\ reminder = [s \in SessionIds |-> NoReminder]
  /\ handler = [h \in Handlers |-> Idle]

-----------------------------------------------------------------------------
(* Control of the handlers *)

At(h, pc) == handler[h].pc = pc
Goto(h, pc) == handler' = [handler EXCEPT ![h].pc = pc]
GotoWrite(h) == handler' = [handler EXCEPT ![h].pc = "write", ![h].u = None]
Finish(h) == handler' = [handler EXCEPT ![h] = Idle]

\* The process stops, or the database or Google is lost, between two steps.
Crash(h) ==
  /\ Faults
  /\ ~At(h, "idle")
  /\ Finish(h)
  /\ UNCHANGED <<row, reminder, life, calendar>>

Party(q) == {Requester[q], Recipient[q]}

-----------------------------------------------------------------------------
(* POST /sessions: create *)

Fresh(s) == row[s].status = "NONE" /\ \A g \in Handlers : handler[g].s # s

\* A participant of an accepted request; whether it has a session is not looked up yet.
StartCreate(h, s, q, u, mode, at) ==
  /\ Fresh(s)
  /\ life[q] = "ACCEPTED"
  /\ Requester[q] # Recipient[q]
  /\ u \in Party(q)
  /\ At(h, "idle")
  /\ handler' = [handler EXCEPT ![h] =
       [Idle EXCEPT !.pc = IF mode = "ONLINE" THEN "createEvent" ELSE "insert",
                    !.s = s, !.u = IF mode = "ONLINE" THEN u ELSE None,
                    !.old = [NoSession EXCEPT !.status = "SCHEDULED", !.request = q,
                                              !.mode = mode, !.at = at]]]
  /\ UNCHANGED <<row, reminder, life, calendar>>

\* google.createEvent: the event is made; or it is made and the request fails (an
\* answer lost, a conference refused); or it is not made.
CreateEvent(h) ==
  /\ At(h, "createEvent")
  /\ \/ \E e \in Events :
          /\ MakeEvent(e, handler[h].u, handler[h].s, handler[h].old.at)
          /\ \/ handler' = [handler EXCEPT ![h].pc = "insert", ![h].old.event = e]
             \/ Faults /\ Finish(h)
     \/ Finish(h) /\ UNCHANGED calendar
  /\ UNCHANGED <<row, reminder, life>>

\* The request is still accepted, and the unique index finds no session of it.
\* (Mutation: no unique index.)
InsertableTwice(q) == life[q] = "ACCEPTED"
Insertable(q) ==
  /\ life[q] = "ACCEPTED"
  /\ \A s \in SessionIds : row[s].request # q

\* A refused insert takes the event back.  (Mutation: only a failed one does.)
InsertRefusedKeepsEvent(h) == Finish(h)
InsertRefused(h) == IF handler[h].old.event # None THEN Goto(h, "undoEvent") ELSE Finish(h)

\* The row and its reminders, in one transaction.
Insert(h) ==
  LET s == handler[h].s IN
  /\ At(h, "insert")
  /\ \/ /\ Insertable(handler[h].old.request)
        /\ row' = [row EXCEPT ![s] = handler[h].old]
        /\ reminder' = [reminder EXCEPT ![s] = [status |-> "PENDING", at |-> handler[h].old.at]]
        /\ Finish(h)
     \/ /\ ~Insertable(handler[h].old.request) \/ Faults
        /\ InsertRefused(h)
        /\ UNCHANGED <<row, reminder>>
  /\ UNCHANGED <<life, calendar>>

\* Best effort: what goes wrong here is swallowed.
UndoEvent(h) ==
  /\ At(h, "undoEvent")
  /\ RemoveEvent(handler[h].u, handler[h].old.event) \/ (Faults /\ UNCHANGED calendar)
  /\ Finish(h)
  /\ UNCHANGED <<row, reminder, life>>

-----------------------------------------------------------------------------
(* PATCH /sessions/:id: update *)

Transitions == ({"SCHEDULED"} \X {"IN_PROGRESS", "CANCELLED", "NO_SHOW"})
                 \cup ({"IN_PROGRESS"} \X {"COMPLETED", "CANCELLED"})

Moved(old, new) == new.at # None /\ new.at # old.at

\* Agreed details change only while SCHEDULED, and the status along its transitions.  A
\* request that asks for neither leaves everything here as it is.
Allowed(old, new) ==
  /\ new # NoChange
  /\ old.status # "SCHEDULED" => new.status # "keep" /\ new.at = None
  /\ new.status # "keep" => <<old.status, new.status>> \in Transitions

\* Which call to Google comes before the row is written.  (Mutation: when the session
\* is moved its event is deleted, to be made anew.)
FirstCallDeletes(old, new) ==
  IF old.mode = "ONLINE" /\ (new.status = "CANCELLED" \/ Moved(old, new))
  THEN "deleteEvent" ELSE "write"
FirstCall(old, new) ==
  IF old.mode = "OFFLINE" THEN "write"
  ELSE IF new.status = "CANCELLED" THEN "deleteEvent"
  ELSE IF Moved(old, new) THEN "moveEvent" ELSE "write"

StartUpdate(h, s, u, new) ==
  LET old == row[s] IN
  /\ old.status # "NONE"
  /\ u \in Party(old.request)
  /\ Allowed(old, new)
  /\ FirstCall(old, new) = "moveEvent" => old.event # None
  /\ At(h, "idle")
  /\ handler' = [handler EXCEPT ![h] =
       [pc |-> FirstCall(old, new), s |-> s, old |-> old, new |-> new,
        u |-> IF FirstCall(old, new) = "write" THEN None ELSE u]]
  /\ UNCHANGED <<row, reminder, life, calendar>>

\* google.deleteEvent: an event that is not found counts as deleted.  A request whose
\* event was deleted before may also be refused, as any call may.
DeleteEvent(h) ==
  LET e == handler[h].old.event
      u == handler[h].u IN
  /\ At(h, "deleteEvent")
  /\ \/ /\ e # None /\ RemoveEvent(u, e)
        /\ GotoWrite(h) \/ (Faults /\ Finish(h))
     \/ /\ e = None \/ ~Found(u, e)
        /\ GotoWrite(h)
        /\ UNCHANGED calendar
     \/ /\ e # None /\ Finish(h)
        /\ UNCHANGED calendar
  /\ UNCHANGED <<row, reminder, life>>

\* google.updateEvent: an event that is not found is an error.
MoveEvent(h) ==
  /\ At(h, "moveEvent")
  /\ \/ /\ PatchEvent(handler[h].u, handler[h].old.event, handler[h].new.at)
        /\ GotoWrite(h) \/ (Faults /\ Finish(h))
     \/ Finish(h) /\ UNCHANGED calendar
  /\ UNCHANGED <<row, reminder, life>>

\* The event column after the update: what the calls to Google left of it.
EventWritten(h) ==
  CASE FirstCall(handler[h].old, handler[h].new) = "deleteEvent" -> None
    [] FirstCall(handler[h].old, handler[h].new) = "moveEvent"   -> handler[h].old.event
    [] OTHER -> row[handler[h].s].event

Written(h) ==
  LET new == handler[h].new IN
  [row[handler[h].s] EXCEPT
     !.status = IF new.status = "keep" THEN @ ELSE new.status,
     !.at = IF Moved(handler[h].old, new) THEN new.at ELSE @,
     !.event = EventWritten(h)]

\* In the same transaction, by the row as it is then: a session that is not SCHEDULED
\* has its reminders cancelled, one that was moved has them made anew.
\* (Mutation: by the status that was read.)
RemindedByRead(h, s) ==
  IF handler[h].old.status # "SCHEDULED" THEN [reminder[s] EXCEPT !.status = "CANCELLED"]
  ELSE IF Moved(handler[h].old, handler[h].new)
       THEN [status |-> "PENDING", at |-> handler[h].new.at] ELSE reminder[s]
Reminded(h, s) ==
  IF Written(h).status # "SCHEDULED"
  THEN [reminder[s] EXCEPT !.status = IF @ = "PENDING" THEN "CANCELLED" ELSE @]
  ELSE IF Moved(handler[h].old, handler[h].new)
       THEN [status |-> "PENDING", at |-> Written(h).at] ELSE reminder[s]

\* updateMany where the status is the one read.  (Mutation: where the id is.)
StillExists(h) == row[handler[h].s].status # "NONE"
Unchanged(h) == row[handler[h].s].status = handler[h].old.status

Write(h) ==
  LET s == handler[h].s IN
  /\ At(h, "write")
  /\ \/ /\ Unchanged(h)
        /\ row' = [row EXCEPT ![s] = Written(h)]
        /\ reminder' = [reminder EXCEPT ![s] = Reminded(h, s)]
     \/ /\ ~Unchanged(h)
        /\ UNCHANGED <<row, reminder>>
  /\ Finish(h)
  /\ UNCHANGED <<life, calendar>>

-----------------------------------------------------------------------------
Request(h) ==
  \E s \in SessionIds :
    \/ \E q \in Requests, mode \in {"ONLINE", "OFFLINE"}, at \in Schedules :
         \E u \in Party(q) : StartCreate(h, s, q, u, mode, at)
    \/ \E u \in Users, new \in Change : StartUpdate(h, s, u, new)

HandlerStep(h) ==
  CreateEvent(h) \/ Insert(h) \/ UndoEvent(h) \/ DeleteEvent(h) \/ MoveEvent(h) \/ Write(h)

RequestsNext == LifeNext /\ UNCHANGED <<row, reminder, handler, calendar>>

Next ==
  \/ \E h \in Handlers : Request(h) \/ HandlerStep(h) \/ Crash(h)
  \/ RequestsNext

Spec == Init /\ [][Next]_vars

-----------------------------------------------------------------------------
(* Properties of any number of concurrent requests, with faults *)

\* Both participants may create the session of one request at the same moment: one
\* session comes of it, and only ever of a request that was, and stays, accepted.
OneSessionPerRequest ==
  \A s, t \in SessionIds :
    row[s].status # "NONE" =>
      /\ life[row[s].request] = "ACCEPTED"
      /\ row[t].request = row[s].request => s = t

\* Reminders are PENDING for the time of the row exactly while it is SCHEDULED, however
\* a move, a cancellation and a start of the same session interleave.
RemindersFollow ==
  \A s \in SessionIds : row[s].status # "NONE" =>
    IF row[s].status = "SCHEDULED"
    THEN reminder[s] = [status |-> "PENDING", at |-> row[s].at]
    ELSE reminder[s].status = "CANCELLED"

\* No request that read the session before it ended changes it after.
EndedIsFinal ==
  [][\A s \in SessionIds : row[s].status \in Ended => row'[s] = row[s]]_vars

\* A row that exists is of a request and has a time; a handler that creates one has its
\* id to itself; one that updates was allowed to by the row it read.
RowOK(s) ==
  IF row[s].status = "NONE" THEN row[s] = NoSession
  ELSE row[s].request \in Requests /\ row[s].at \in Schedules

HandlerOK(h) ==
  LET s == handler[h].s
      old == handler[h].old IN
  /\ ~At(h, "idle") => s \in SessionIds
  /\ handler[h].pc \in {"createEvent", "insert", "undoEvent"} =>
       /\ old.request \in Requests /\ old.at \in Schedules /\ old.status = "SCHEDULED"
       /\ row[s].status = "NONE"
       /\ \A g \in Handlers : handler[g].s = s => g = h
  /\ handler[h].pc \in {"deleteEvent", "moveEvent", "write"} =>
       /\ row[s].status # "NONE"
       /\ Allowed(old, handler[h].new)

\* The inductive invariant: types, the two properties above, and what handlers rely on.
SessionsInv ==
  /\ TypeOK
  /\ OneSessionPerRequest
  /\ RemindersFollow
  /\ \A s \in SessionIds : RowOK(s)
  /\ \A h \in Handlers : HandlerOK(h)

\* The status of the session of a request, as a table of rows has it.
StageIn(rows, q) ==
  IF \E s \in SessionIds : rows[s].request = q
  THEN rows[CHOOSE s \in SessionIds : rows[s].request = q].status ELSE "NONE"

\* What other modules rely on: a session of each request that only moves forward.
Life == INSTANCE SessionLife WITH stage <- [q \in Requests |-> StageIn(row, q)]

KeepsSessionLife == Life!StageSpec

-----------------------------------------------------------------------------
(* Properties of concurrent requests that are all carried out (no faults) *)

Busy(s) == \E h \in Handlers : handler[h].s = s

\* A calendar event that is still there is the event of its session's row, or that
\* session was cancelled (by the participant who cannot see the event), or a request
\* that will store it or take it back is running.
NoStrayEvent ==
  \A e \in Events : calendar[e].state = "live" =>
    LET s == calendar[e].session IN
    \/ Busy(s)
    \/ row[s].event = e
    \/ row[s].status = "CANCELLED"

\* A SCHEDULED session never points to a deleted event, except while the request that
\* deleted the event is about to cancel the session.
ScheduledEventIsLive ==
  \A s \in SessionIds :
    (/\ row[s].status = "SCHEDULED" /\ row[s].event # None
     /\ calendar[row[s].event].state # "live") =>
        \E h \in Handlers : /\ handler[h].s = s /\ At(h, "write")
                            /\ handler[h].new.status = "CANCELLED"

\* A handler that creates a session has made its event, and has not stored it yet.
Holds(h, e) == handler[h].pc \in {"insert", "undoEvent"} /\ handler[h].old.event = e

\* Why a live event is not stray: who holds it, keeps it or has lost sight of it.
Accounted(e) ==
  calendar[e].state = "live" =>
    LET s == calendar[e].session IN
    /\ s \in SessionIds
    /\ \/ \E h \in Handlers : handler[h].s = s /\ Holds(h, e)
       \/ row[s].event = e
       \/ row[s].status = "CANCELLED"

\* The event of one session is never that of another.
MadeFor(e, s) == e # None => calendar[e].state # "free" /\ calendar[e].session = s

\* A handler that creates has a live event or none.  One that updates has the event the
\* row has, unless the row was cancelled meanwhile, and read the row no later than now;
\* it deletes an event only to cancel.
EventOK(h) ==
  LET s == handler[h].s
      old == handler[h].old IN
  /\ MadeFor(old.event, s)
  /\ At(h, "createEvent") => old.event = None
  /\ \A e \in Events : Holds(h, e) => calendar[e].state = "live"
  /\ At(h, "deleteEvent") => handler[h].new.status = "CANCELLED"
  /\ handler[h].pc \in {"deleteEvent", "moveEvent", "write"} =>
       /\ row[s].status = "SCHEDULED" => old.status = "SCHEDULED"
       /\ row[s].status # "CANCELLED" => old.event = row[s].event

\* The inductive invariant when there are no faults.
EventsInv ==
  /\ SessionsInv
  /\ \A s \in SessionIds : MadeFor(row[s].event, s)
  /\ \A h \in Handlers : EventOK(h)
  /\ \A e \in Events : Accounted(e)
  /\ ScheduledEventIsLive

=============================================================================
