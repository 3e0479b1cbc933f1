--------------------------- MODULE SessionsProofs ---------------------------
(***************************************************************************)
(* Proofs about Sessions, for any sets of requests, users, ids, events,    *)
(* times and handlers, with or without faults.                             *)
(***************************************************************************)
EXTENDS Sessions, TLAPS

Creating(g) == handler[g].pc \in {"createEvent", "insert", "undoEvent"}

\* In the initial state there is no session and no handler that relies on anything.
LEMMA InitInv == Init => SessionsInv
  <1> SUFFICES ASSUME Init PROVE SessionsInv
    OBVIOUS
  <1>1. LifeTypeOK /\ CalendarTypeOK
    BY DEF Init, LifeInit, LifeTypeOK, RequestStatus, CalendarInit, CalendarTypeOK, Event, NoEvent
  <1>2. NoSession \in SessionRow /\ NoReminder \in Reminder /\ NoChange \in Change
    BY DEF NoSession, SessionRow, Status, NoReminder, Reminder, NoChange, Change
  <1>3. Idle \in Handler
    BY <1>2 DEF Idle, Handler
  <1>4. TypeOK
    BY <1>1, <1>2, <1>3 DEF Init, TypeOK
  <1>5. \A s \in SessionIds : row[s].status = "NONE"
    BY DEF Init, NoSession
  <1>6. \A h \in Handlers : HandlerOK(h)
    BY DEF Init, HandlerOK, At, Idle
  <1> QED
    BY <1>4, <1>5, <1>6 DEF Init, SessionsInv, OneSessionPerRequest, RemindersFollow, RowOK

\* When one handler changes and no row does, the invariant holds if that handler's new
\* state is right and takes no id from a handler that creates a session.
LEMMA HandlerChange ==
  ASSUME SessionsInv, NEW h \in Handlers, NEW new \in Handler,
         handler' = [handler EXCEPT ![h] = new],
         UNCHANGED <<row, reminder, life>>, CalendarTypeOK', HandlerOK(h)',
         \A g \in Handlers : g # h /\ Creating(g) => new.s # handler[g].s
  PROVE  SessionsInv'
  <1>1. TypeOK'
    BY DEF SessionsInv, TypeOK, LifeTypeOK
  <1>2. ASSUME NEW g \in Handlers PROVE HandlerOK(g)'
    <2>1. CASE g = h
      BY <2>1
    <2>2. CASE g # h
      <3>1. handler'[g] = handler[g]
        BY <2>2 DEF SessionsInv, TypeOK
      <3>2. \A f \in Handlers : handler'[f] = IF f = h THEN new ELSE handler[f]
        BY DEF SessionsInv, TypeOK
      <3>3. HandlerOK(g)
        BY DEF SessionsInv
      <3> QED
        BY <2>2, <3>1, <3>2, <3>3 DEF HandlerOK, Creating, At
    <2> QED
      BY <2>1, <2>2
  <1> QED
    BY <1>1, <1>2 DEF SessionsInv, OneSessionPerRequest, RemindersFollow, RowOK

\* A handler may end at any time.
LEMMA FinishInv ==
  ASSUME SessionsInv, NEW h \in Handlers, Finish(h),
         UNCHANGED <<row, reminder, life>>, CalendarTypeOK'
  PROVE  SessionsInv'
  <1>1. Idle \in Handler /\ Idle.s = None
    BY DEF Idle, Handler, NoSession, SessionRow, Status, NoChange, Change
  <1>2. HandlerOK(h)'
    BY DEF Finish, SessionsInv, TypeOK, HandlerOK, At, Idle
  <1>3. \A g \in Handlers : g # h /\ Creating(g) => Idle.s # handler[g].s
    BY <1>1, SessionsAssumption DEF SessionsInv, HandlerOK, Creating, At
  <1> QED
    BY <1>1, <1>2, <1>3, HandlerChange DEF Finish

\* The three things that happen to an event keep the calendar's types.
LEMMA CalendarTypes ==
  ASSUME CalendarTypeOK, NEW e, NEW u \in Users \cup {None}, NEW s \in SessionIds,
         NEW at \in Schedules \cup {None},
         \/ e \in Events /\ MakeEvent(e, u, s, at)
         \/ PatchEvent(u, e, at)
         \/ RemoveEvent(u, e)
         \/ UNCHANGED calendar
  PROVE  CalendarTypeOK'
  <1>1. CASE e \in Events /\ MakeEvent(e, u, s, at)
    <2>1. [state |-> "live", owner |-> u, session |-> s, at |-> at] \in Event
      BY DEF Event
    <2> QED
      BY <1>1, <2>1 DEF MakeEvent, CalendarTypeOK
  <1>2. CASE PatchEvent(u, e, at)
    <2>1. \A d \in Events : [calendar[d] EXCEPT !.at = at] \in Event
      BY DEF CalendarTypeOK, Event
    <2> QED
      BY <1>2, <2>1 DEF PatchEvent, CalendarTypeOK
  <1>3. CASE RemoveEvent(u, e)
    <2>1. \A d \in Events : [calendar[d] EXCEPT !.state = "deleted"] \in Event
      BY DEF CalendarTypeOK, Event
    <2> QED
      BY <1>3, <2>1 DEF RemoveEvent, CalendarTypeOK
  <1>4. CASE UNCHANGED calendar
    BY <1>4 DEF CalendarTypeOK
  <1> QED
    BY <1>1, <1>2, <1>3, <1>4

\* Facts about what a handler keeps.
LEMMA HandlerTypes ==
  ASSUME SessionsInv, NEW h \in Handlers
  PROVE  /\ handler[h] \in Handler
         /\ handler[h].old \in SessionRow /\ handler[h].new \in Change
         /\ handler[h].u \in Users \cup {None}
         /\ handler[h].old.at \in Schedules \cup {None}
         /\ handler[h].new.at \in Schedules \cup {None}
         /\ ~At(h, "idle") => handler[h].s \in SessionIds
  BY DEF SessionsInv, TypeOK, Handler, SessionRow, Change, HandlerOK, At

\* A handler that goes on, in the same request, to a later step of its kind.
LEMMA GoesOn ==
  ASSUME SessionsInv, NEW h \in Handlers, NEW new \in Handler,
         handler' = [handler EXCEPT ![h] = new], new.s = handler[h].s,
         new.old.request = handler[h].old.request, new.old.status = handler[h].old.status,
         new.old.at = handler[h].old.at,
         \/ /\ Creating(h)
            /\ new.pc \in {"createEvent", "insert", "undoEvent"}
         \/ /\ handler[h].pc \in {"deleteEvent", "moveEvent", "write"}
            /\ new.pc \in {"deleteEvent", "moveEvent", "write"}
            /\ new.old = handler[h].old /\ new.new = handler[h].new,
         UNCHANGED <<row, reminder, life>>, CalendarTypeOK'
  PROVE  SessionsInv'
  <1>0. \A f \in Handlers : handler'[f] = IF f = h THEN new ELSE handler[f]
    BY DEF SessionsInv, TypeOK
  <1>1. HandlerOK(h)
    BY DEF SessionsInv
  <1>2. HandlerOK(h)'
    BY <1>0, <1>1 DEF HandlerOK, Creating, At
  <1>3. \A g \in Handlers : g # h /\ Creating(g) => new.s # handler[g].s
    BY DEF SessionsInv, HandlerOK, Creating
  <1> QED
    BY <1>2, <1>3, HandlerChange

\* create begins with an id that no row and no handler has.
LEMMA StartCreateInv ==
  ASSUME SessionsInv, NEW h \in Handlers, NEW s \in SessionIds, NEW q \in Requests,
         NEW mode \in {"ONLINE", "OFFLINE"}, NEW at \in Schedules, NEW u \in Party(q),
         StartCreate(h, s, q, u, mode, at)
  PROVE  SessionsInv'
  <1> DEFINE old == [NoSession EXCEPT !.status = "SCHEDULED", !.request = q,
                                      !.mode = mode, !.at = at]
             new == [Idle EXCEPT !.pc = IF mode = "ONLINE" THEN "createEvent" ELSE "insert",
                                 !.s = s, !.u = IF mode = "ONLINE" THEN u ELSE None,
                                 !.old = old]
  <1>1. old \in SessionRow
    BY DEF NoSession, SessionRow, Status
  <1>2. u \in Users
    BY SessionsAssumption DEF Party
  <1>3. new \in Handler
    BY <1>1, <1>2 DEF Idle, Handler, NoChange, Change, Status
  <1>4. handler' = [handler EXCEPT ![h] = new] /\ UNCHANGED <<row, reminder, life, calendar>>
    BY DEF StartCreate
  <1>5. \A g \in Handlers : handler[g].s # s
    BY DEF StartCreate, Fresh
  <1>6. HandlerOK(h)'
    BY <1>4, <1>5 DEF SessionsInv, TypeOK, HandlerOK, StartCreate, Fresh, At, Idle, NoSession
  <1>7. CalendarTypeOK'
    BY <1>4 DEF SessionsInv, TypeOK, CalendarTypeOK
  <1> HIDE DEF new
  <1>8. new.s = s
    BY DEF new, Idle
  <1> QED
    BY <1>3, <1>4, <1>5, <1>6, <1>7, <1>8, HandlerChange

\* update begins on a row that exists, as one it allows.
LEMMA StartUpdateInv ==
  ASSUME SessionsInv, NEW h \in Handlers, NEW s \in SessionIds, NEW u \in Users,
         NEW change \in Change, StartUpdate(h, s, u, change)
  PROVE  SessionsInv'
  <1> DEFINE call == FirstCall(row[s], change)
             new == [pc |-> call, s |-> s, old |-> row[s], new |-> change,
                     u |-> IF call = "write" THEN None ELSE u]
  <1>1. call \in {"deleteEvent", "moveEvent", "write"}
    BY DEF FirstCall
  <1>2. new \in Handler
    BY <1>1 DEF SessionsInv, TypeOK, Handler
  <1>3. handler' = [handler EXCEPT ![h] = new] /\ UNCHANGED <<row, reminder, life, calendar>>
    BY DEF StartUpdate
  <1>4. row[s].status # "NONE" /\ Allowed(row[s], change)
    BY DEF StartUpdate
  <1>5. \A g \in Handlers : g # h /\ Creating(g) => s # handler[g].s
    BY <1>4 DEF SessionsInv, HandlerOK, Creating
  <1> HIDE DEF call
  <1>6. HandlerOK(h)'
    BY <1>1, <1>3, <1>4 DEF SessionsInv, TypeOK, HandlerOK, At, Allowed, Moved
  <1>7. CalendarTypeOK'
    BY <1>3 DEF SessionsInv, TypeOK, CalendarTypeOK
  <1> QED
    BY <1>2, <1>3, <1>5, <1>6, <1>7, HandlerChange

\* The event is made and the handler inserts, or the handler ends.
LEMMA CreateEventInv ==
  ASSUME SessionsInv, NEW h \in Handlers, CreateEvent(h)
  PROVE  SessionsInv'
  <1>0. At(h, "createEvent") /\ UNCHANGED <<row, reminder, life>>
    BY DEF CreateEvent
  <1>1. CalendarTypeOK'
    <2>1. handler[h].s \in SessionIds
      BY <1>0, HandlerTypes DEF At
    <2> QED
      BY <2>1, HandlerTypes, CalendarTypes DEF CreateEvent, SessionsInv, TypeOK
  <1>2. CASE Finish(h)
    BY <1>0, <1>1, <1>2, FinishInv
  <1>3. ASSUME NEW e \in Events,
               handler' = [handler EXCEPT ![h].pc = "insert", ![h].old.event = e]
        PROVE  SessionsInv'
    <2> DEFINE old == [handler[h].old EXCEPT !.event = e]
               new == [handler[h] EXCEPT !.pc = "insert", !.old = old]
    <2>1. /\ old \in SessionRow
          /\ old.request = handler[h].old.request /\ old.status = handler[h].old.status
          /\ old.at = handler[h].old.at
      BY HandlerTypes DEF SessionRow
    <2> HIDE DEF old
    <2>2. /\ new \in Handler /\ new.s = handler[h].s /\ new.pc = "insert"
          /\ new.old = old
      BY <2>1, HandlerTypes DEF Handler
    <2>3. handler' = [handler EXCEPT ![h] = new]
      BY <1>3, HandlerTypes, ZenonT(40) DEF old, Handler, SessionRow, SessionsInv, TypeOK
    <2> HIDE DEF new
    <2> QED
      BY <1>0, <1>1, <2>1, <2>2, <2>3, GoesOn DEF Creating, At
  <1> QED
    BY <1>2, <1>3 DEF CreateEvent

\* A handler that only moves to another step of its kind.
LEMMA GotoInv ==
  ASSUME SessionsInv, NEW h \in Handlers, Creating(h), Goto(h, "undoEvent"),
         UNCHANGED <<row, reminder, life, calendar>>
  PROVE  SessionsInv'
  <1> DEFINE new == [handler[h] EXCEPT !.pc = "undoEvent"]
  <1>1. /\ new \in Handler /\ new.pc = "undoEvent" /\ new.s = handler[h].s
        /\ new.old = handler[h].old
    BY HandlerTypes DEF Handler
  <1>2. handler' = [handler EXCEPT ![h] = new] /\ CalendarTypeOK'
    BY DEF Goto, SessionsInv, TypeOK, CalendarTypeOK
  <1> HIDE DEF new
  <1> QED
    BY <1>1, <1>2, GoesOn

\* A handler that has asked Google and goes on to write the row.
LEMMA GotoWriteInv ==
  ASSUME SessionsInv, NEW h \in Handlers, handler[h].pc \in {"deleteEvent", "moveEvent"},
         GotoWrite(h), UNCHANGED <<row, reminder, life>>, CalendarTypeOK'
  PROVE  SessionsInv'
  <1> DEFINE new == [handler[h] EXCEPT !.pc = "write", !.u = None]
  <1>1. /\ new \in Handler /\ new.pc = "write" /\ new.s = handler[h].s
        /\ new.old = handler[h].old /\ new.new = handler[h].new
    BY HandlerTypes DEF Handler
  <1>2. handler' = [handler EXCEPT ![h] = new]
    BY DEF GotoWrite, SessionsInv, TypeOK
  <1> HIDE DEF new
  <1> QED
    BY <1>1, <1>2, GoesOn

\* Taking the event back ends the handler.
LEMMA UndoEventInv ==
  ASSUME SessionsInv, NEW h \in Handlers, UndoEvent(h)
  PROVE  SessionsInv'
  <1>1. handler[h].s \in SessionIds
    BY HandlerTypes DEF UndoEvent, At
  <1>2. CalendarTypeOK'
    BY <1>1, HandlerTypes, CalendarTypes DEF UndoEvent, SessionsInv, TypeOK
  <1> QED
    BY <1>2, FinishInv DEF UndoEvent

\* Deleting the event changes no row.
LEMMA DeleteEventInv ==
  ASSUME SessionsInv, NEW h \in Handlers, DeleteEvent(h)
  PROVE  SessionsInv'
  <1>1. handler[h].s \in SessionIds
    BY HandlerTypes DEF DeleteEvent, At
  <1>2. CalendarTypeOK'
    BY <1>1, HandlerTypes, CalendarTypes DEF DeleteEvent, SessionsInv, TypeOK
  <1> QED
    BY <1>2, FinishInv, GotoWriteInv DEF DeleteEvent, At

\* Moving the event changes no row.
LEMMA MoveEventInv ==
  ASSUME SessionsInv, NEW h \in Handlers, MoveEvent(h)
  PROVE  SessionsInv'
  <1>1. handler[h].s \in SessionIds
    BY HandlerTypes DEF MoveEvent, At
  <1>2. CalendarTypeOK'
    BY <1>1, HandlerTypes, CalendarTypes DEF MoveEvent, SessionsInv, TypeOK
  <1> QED
    BY <1>2, FinishInv, GotoWriteInv DEF MoveEvent, At

\* The insert makes the session and its reminders, of an accepted request without one.
LEMMA InsertInv ==
  ASSUME SessionsInv, NEW h \in Handlers, Insert(h)
  PROVE  SessionsInv'
  <1> DEFINE s == handler[h].s
             old == handler[h].old
  <1>0. /\ s \in SessionIds /\ old \in SessionRow /\ row[s].status = "NONE"
        /\ old.request \in Requests /\ old.at \in Schedules /\ old.status = "SCHEDULED"
        /\ \A g \in Handlers : handler[g].s = s => g = h
        /\ UNCHANGED <<life, calendar>> /\ CalendarTypeOK'
    BY HandlerTypes DEF Insert, At, SessionsInv, HandlerOK, TypeOK, CalendarTypeOK
  <1>1. CASE UNCHANGED <<row, reminder>> /\ InsertRefused(h)
    BY <1>0, <1>1, FinishInv, GotoInv DEF InsertRefused, Insert, Creating, At
  <1>2. ASSUME Insertable(old.request), row' = [row EXCEPT ![s] = old],
               reminder' = [reminder EXCEPT ![s] = [status |-> "PENDING", at |-> old.at]],
               Finish(h)
        PROVE  SessionsInv'
    <2>1. Idle \in Handler /\ Idle.pc = "idle" /\ Idle.s = None
      BY DEF Idle, Handler, NoSession, SessionRow, Status, NoChange, Change
    <2>2. [status |-> "PENDING", at |-> old.at] \in Reminder
      BY <1>0 DEF Reminder
    <2>3. TypeOK'
      BY <1>0, <1>2, <2>1, <2>2 DEF SessionsInv, TypeOK, LifeTypeOK, Finish
    <2>4. /\ \A t \in SessionIds : row'[t] = IF t = s THEN old ELSE row[t]
          /\ \A t \in SessionIds : reminder'[t] =
               IF t = s THEN [status |-> "PENDING", at |-> old.at] ELSE reminder[t]
          /\ \A g \in Handlers : handler'[g] = IF g = h THEN Idle ELSE handler[g]
      BY <1>2 DEF SessionsInv, TypeOK, Finish
    <2> HIDE DEF old, s
    <2>5. OneSessionPerRequest'
      BY <1>0, <1>2, <2>4 DEF SessionsInv, OneSessionPerRequest, Insertable
    <2>6. RemindersFollow'
      BY <1>0, <2>4 DEF SessionsInv, RemindersFollow
    <2>7. ASSUME NEW t \in SessionIds PROVE RowOK(t)'
      BY <1>0, <2>4 DEF SessionsInv, RowOK
    <2>8. ASSUME NEW g \in Handlers PROVE HandlerOK(g)'
      <3>1. CASE g = h
        BY <2>1, <2>4, <3>1 DEF HandlerOK, At
      <3>2. CASE g # h
        <4>1. HandlerOK(g) /\ handler[g].s # s /\ handler'[g] = handler[g]
          BY <1>0, <2>4, <3>2 DEF SessionsInv
        <4>2. \A f \in Handlers : handler'[f].s = handler[g].s => handler[f].s = handler[g].s
                                    \/ handler[g].s = None
          BY <2>1, <2>4
        <4> QED
          BY <2>4, <4>1, <4>2, SessionsAssumption DEF HandlerOK, At
      <3> QED
        BY <3>1, <3>2
    <2> QED
      BY <2>3, <2>5, <2>6, <2>7, <2>8 DEF SessionsInv
  <1> QED
    BY <1>1, <1>2 DEF Insert

\* A row with some of its columns replaced is a row.
LEMMA RowExcept ==
  ASSUME NEW r \in SessionRow, NEW status \in Status, NEW at \in Schedules \cup {None},
         NEW event \in Events \cup {None}
  PROVE  [r EXCEPT !.status = status, !.at = at, !.event = event] \in SessionRow
  BY DEF SessionRow

\* What an update writes: a row of the same request, whose status goes along a
\* transition and whose time is that of the reminders written with it.
LEMMA WrittenFacts ==
  ASSUME SessionsInv, NEW h \in Handlers, At(h, "write"), Unchanged(h)
  PROVE  LET s == handler[h].s IN
         /\ s \in SessionIds
         /\ row[s].status # "NONE"
         /\ Written(h) \in SessionRow
         /\ Written(h).request = row[s].request
         /\ Written(h).at \in Schedules
         /\ \/ Written(h).status = row[s].status /\ row[s].status = "SCHEDULED"
            \/ <<row[s].status, Written(h).status>> \in Transitions
         /\ Reminded(h, s) \in Reminder
         /\ IF Written(h).status = "SCHEDULED"
            THEN Reminded(h, s) = [status |-> "PENDING", at |-> Written(h).at]
            ELSE Reminded(h, s).status = "CANCELLED"
  <1> DEFINE s == handler[h].s
             old == handler[h].old
             new == handler[h].new
             w == Written(h)
  <1>1. /\ s \in SessionIds /\ row[s] \in SessionRow /\ reminder[s] \in Reminder
        /\ old \in SessionRow /\ new \in Change
        /\ row[s].status # "NONE" /\ row[s].status = old.status
        /\ row[s].request \in Requests /\ row[s].at \in Schedules
        /\ Allowed(old, new)
        /\ IF row[s].status = "SCHEDULED"
           THEN reminder[s] = [status |-> "PENDING", at |-> row[s].at]
           ELSE reminder[s].status = "CANCELLED"
    BY HandlerTypes
       DEF SessionsInv, TypeOK, Handler, HandlerOK, RowOK, RemindersFollow, At, Unchanged
  <1>2. /\ w.request = row[s].request
        /\ w.status = IF new.status = "keep" THEN row[s].status ELSE new.status
        /\ w.at = IF Moved(old, new) THEN new.at ELSE row[s].at
    BY <1>1 DEF Written, SessionRow
  <1>3. w \in SessionRow
    <2> DEFINE status == IF new.status = "keep" THEN row[s].status ELSE new.status
               at == IF Moved(old, new) THEN new.at ELSE row[s].at
    <2>1. w = [row[s] EXCEPT !.status = status, !.at = at, !.event = EventWritten(h)]
      BY DEF Written
    <2>2. status \in Status /\ at \in Schedules \cup {None}
      BY <1>1 DEF SessionRow, Change
    <2>3. EventWritten(h) \in Events \cup {None}
      BY <1>1 DEF EventWritten, SessionRow, FirstCall
    <2> HIDE DEF w, status, at
    <2> QED
      BY <1>1, <2>1, <2>2, <2>3, RowExcept
  <1>4. w.at \in Schedules
    BY <1>1, <1>2 DEF Change, Moved
  <1>5. \/ w.status = row[s].status /\ row[s].status = "SCHEDULED"
        \/ <<row[s].status, w.status>> \in Transitions
    BY <1>1, <1>2 DEF Allowed
  <1>6. w.status = "SCHEDULED" => row[s].status = "SCHEDULED"
    BY <1>5 DEF Transitions
  <1> HIDE DEF w
  <1>7. Reminded(h, s) \in Reminder
    BY <1>1, <1>2, <1>4 DEF Reminded, Reminder, w
  <1>8. IF w.status = "SCHEDULED"
        THEN Reminded(h, s) = [status |-> "PENDING", at |-> w.at]
        ELSE Reminded(h, s).status = "CANCELLED"
    <2>1. CASE w.status = "SCHEDULED"
      BY <1>1, <1>2, <1>6, <2>1 DEF Reminded, w
    <2>2. CASE w.status # "SCHEDULED"
      BY <1>1, <2>2 DEF Reminded, Reminder, w
    <2> QED
      BY <2>1, <2>2
  <1> QED
    BY <1>1, <1>2, <1>3, <1>4, <1>5, <1>7, <1>8 DEF w

\* The update writes the row and its reminders, or is refused.
LEMMA WriteInv ==
  ASSUME SessionsInv, NEW h \in Handlers, Write(h)
  PROVE  SessionsInv'
  <1> DEFINE s == handler[h].s
             w == Written(h)
             r == Reminded(h, s)
  <1>0. At(h, "write") /\ Finish(h) /\ UNCHANGED <<life, calendar>> /\ CalendarTypeOK'
    BY DEF Write, SessionsInv, TypeOK, CalendarTypeOK
  <1>1. CASE UNCHANGED <<row, reminder>>
    BY <1>0, <1>1, FinishInv
  <1>2. CASE Unchanged(h) /\ row' = [row EXCEPT ![s] = w]
             /\ reminder' = [reminder EXCEPT ![s] = r]
    <2>0. /\ s \in SessionIds /\ row[s].status # "NONE"
          /\ w \in SessionRow /\ w.request = row[s].request /\ w.at \in Schedules
          /\ w.status # "NONE" /\ r \in Reminder
          /\ IF w.status = "SCHEDULED" THEN r = [status |-> "PENDING", at |-> w.at]
                                       ELSE r.status = "CANCELLED"
      BY <1>0, <1>2, WrittenFacts DEF Transitions
    <2> HIDE DEF s, w, r
    <2>1. Idle \in Handler /\ Idle.pc = "idle" /\ Idle.s = None
      BY DEF Idle, Handler, NoSession, SessionRow, Status, NoChange, Change
    <2>2. TypeOK'
      BY <1>0, <1>2, <2>0, <2>1 DEF SessionsInv, TypeOK, LifeTypeOK, Finish
    <2>3. /\ \A t \in SessionIds : row'[t] = IF t = s THEN w ELSE row[t]
          /\ \A t \in SessionIds : reminder'[t] = IF t = s THEN r ELSE reminder[t]
          /\ \A g \in Handlers : handler'[g] = IF g = h THEN Idle ELSE handler[g]
      BY <1>0, <1>2 DEF SessionsInv, TypeOK, Finish
    <2>4. OneSessionPerRequest'
      BY <1>0, <2>0, <2>3 DEF SessionsInv, OneSessionPerRequest
    <2>5. RemindersFollow'
      BY <2>0, <2>3 DEF SessionsInv, RemindersFollow
    <2>6. ASSUME NEW t \in SessionIds PROVE RowOK(t)'
      BY <2>0, <2>3 DEF SessionsInv, RowOK
    <2>7. ASSUME NEW g \in Handlers PROVE HandlerOK(g)'
      <3>1. CASE g = h
        BY <2>1, <2>3, <3>1 DEF HandlerOK, At
      <3>2. CASE g # h
        <4>1. HandlerOK(g) /\ handler'[g] = handler[g]
          BY <2>3, <3>2 DEF SessionsInv
        <4>2. \A f \in Handlers : handler'[f].s = handler[g].s => handler[f].s = handler[g].s
                                    \/ (handler[g].s = None /\ f = h)
          BY <2>1, <2>3
        <4>3. \A t \in SessionIds : row'[t].status = "NONE" <=> row[t].status = "NONE"
          BY <2>0, <2>3
        <4> QED
          BY <2>3, <4>1, <4>2, <4>3, SessionsAssumption DEF HandlerOK, At
      <3> QED
        BY <3>1, <3>2
    <2> QED
      BY <2>2, <2>4, <2>5, <2>6, <2>7 DEF SessionsInv
  <1> QED
    BY <1>1, <1>2 DEF Write

\* The requests go on: one that was accepted stays so.
LEMMA RequestsNextInv ==
  ASSUME SessionsInv, RequestsNext
  PROVE  SessionsInv'
  <1>1. UNCHANGED <<row, reminder, handler, calendar>>
    BY DEF RequestsNext
  <1>2. LifeTypeOK' /\ \A q \in Requests : life[q] = "ACCEPTED" => life'[q] = "ACCEPTED"
    BY DEF RequestsNext, LifeNext, Send, Reply, Answerable, SessionsInv, TypeOK, LifeTypeOK,
           RequestStatus, Answer
  <1>3. TypeOK'
    BY <1>1, <1>2 DEF SessionsInv, TypeOK, CalendarTypeOK
  <1>4. OneSessionPerRequest'
    BY <1>1, <1>2 DEF SessionsInv, OneSessionPerRequest, RowOK
  <1>5. \A h \in Handlers : HandlerOK(h)'
    BY <1>1 DEF SessionsInv, HandlerOK, At
  <1> QED
    BY <1>1, <1>3, <1>4, <1>5 DEF SessionsInv, RemindersFollow, RowOK

\* SessionsInv is inductive: one lemma for each action.
LEMMA NextInv == ASSUME SessionsInv, [Next]_vars PROVE SessionsInv'
  <1>1. CASE UNCHANGED vars
    BY <1>1 DEF vars, SessionsInv, TypeOK, LifeTypeOK, CalendarTypeOK, OneSessionPerRequest,
                RemindersFollow, RowOK, HandlerOK, At
  <1>2. ASSUME NEW h \in Handlers, Request(h) PROVE SessionsInv'
    BY <1>2, StartCreateInv, StartUpdateInv DEF Request
  <1>3. ASSUME NEW h \in Handlers, HandlerStep(h) PROVE SessionsInv'
    BY <1>3, CreateEventInv, InsertInv, UndoEventInv, DeleteEventInv, MoveEventInv, WriteInv
       DEF HandlerStep
  <1>4. ASSUME NEW h \in Handlers, Crash(h) PROVE SessionsInv'
    BY <1>4, FinishInv DEF Crash, SessionsInv, TypeOK, CalendarTypeOK
  <1> QED
    BY <1>1, <1>2, <1>3, <1>4, RequestsNextInv DEF Next

\* The inductive invariant holds in every reachable state.
THEOREM SessionsInvariance == Spec => []SessionsInv
  BY InitInv, NextInv, PTL DEF Spec

\* Two creates for one request, at the same moment, leave one session, and its request
\* stays accepted.
THEOREM OneSessionPerRequestAlways == Spec => []OneSessionPerRequest
  <1>1. SessionsInv => OneSessionPerRequest
    BY DEF SessionsInv
  <1> QED
    BY <1>1, SessionsInvariance, PTL

\* Reminders are of the time and status of their session after every commit.
THEOREM RemindersFollowAlways == Spec => []RemindersFollow
  <1>1. SessionsInv => RemindersFollow
    BY DEF SessionsInv
  <1> QED
    BY <1>1, SessionsInvariance, PTL

\* How a row changes: an insert where none was, an update along a transition.
RowChange(s, new) ==
  /\ row' = [row EXCEPT ![s] = new] /\ new.request \in Requests
  /\ \/ /\ row[s].status = "NONE" /\ new.status = "SCHEDULED"
        /\ \A t \in SessionIds : row[t].request # new.request
     \/ /\ row[s].status # "NONE" /\ new.request = row[s].request
        /\ \/ new.status = row[s].status /\ row[s].status = "SCHEDULED"
           \/ <<row[s].status, new.status>> \in Transitions

\* The actions that write a row change it in one of these two ways.
LEMMA RowStep ==
  ASSUME SessionsInv, [Next]_vars, row' # row
  PROVE  \E s \in SessionIds, new \in SessionRow : RowChange(s, new)
  <1>1. ASSUME NEW h \in Handlers, Insert(h)
        PROVE  /\ handler[h].s \in SessionIds /\ handler[h].old \in SessionRow
               /\ RowChange(handler[h].s, handler[h].old)
    BY <1>1, HandlerTypes DEF Insert, Insertable, SessionsInv, HandlerOK, At, RowChange
  <1>2. ASSUME NEW h \in Handlers, Write(h)
        PROVE  /\ handler[h].s \in SessionIds /\ Written(h) \in SessionRow
               /\ RowChange(handler[h].s, Written(h))
    <2>1. Unchanged(h) /\ At(h, "write") /\ row' = [row EXCEPT ![handler[h].s] = Written(h)]
      BY <1>2 DEF Write
    <2> QED
      BY <2>1, WrittenFacts DEF SessionsInv, RowOK, RowChange
  <1>3. \E h \in Handlers : Insert(h) \/ Write(h)
    <2>1. ~UNCHANGED vars /\ ~RequestsNext /\ \A h \in Handlers : ~Crash(h)
      BY DEF vars, RequestsNext, Crash
    <2>3. ASSUME NEW h \in Handlers PROVE ~Request(h)
      <3>1. \A s, q, u, mode, at : ~StartCreate(h, s, q, u, mode, at)
        BY DEF StartCreate
      <3>2. \A s, u, new : ~StartUpdate(h, s, u, new)
        BY DEF StartUpdate
      <3> QED
        BY <3>1, <3>2 DEF Request
    <2>2. \A h \in Handlers : ~CreateEvent(h) /\ ~UndoEvent(h) /\ ~DeleteEvent(h) /\ ~MoveEvent(h)
      BY DEF CreateEvent, UndoEvent, DeleteEvent, MoveEvent
    <2> QED
      BY <2>1, <2>2, <2>3 DEF Next, HandlerStep
  <1> QED
    BY <1>1, <1>2, <1>3

\* No stale update changes a session that has ended.
THEOREM EndedIsFinalAlways == Spec => EndedIsFinal
  <1>1. SessionsInv /\ [Next]_vars =>
          \A s \in SessionIds : row[s].status \in Ended => row'[s] = row[s]
    <2> SUFFICES ASSUME SessionsInv, [Next]_vars, NEW s \in SessionIds, row[s].status \in Ended
                 PROVE  row'[s] = row[s]
      OBVIOUS
    <2>1. ASSUME NEW t \in SessionIds, NEW new \in SessionRow, RowChange(t, new)
          PROVE  row'[s] = row[s]
      BY <2>1 DEF SessionsInv, TypeOK, RowChange, Ended, Transitions
    <2> QED
      BY <2>1, RowStep
  <1> QED
    BY <1>1, SessionsInvariance, PTL DEF Spec, EndedIsFinal

\* Each step is a step of SessionLife or leaves it as it is.
LEMMA StepKeepsLife ==
  ASSUME SessionsInv, [Next]_vars
  PROVE  [Life!StageNext]_(Life!stageVars)
  <1>1. CASE UNCHANGED row
    BY <1>1 DEF Life!stageVars, StageIn
  <1>2. ASSUME NEW s \in SessionIds, NEW new \in SessionRow, RowChange(s, new)
        PROVE  [Life!StageNext]_(Life!stageVars)
    <2> DEFINE q == new.request
    <2>1. \A t \in SessionIds : row'[t] = IF t = s THEN new ELSE row[t]
      BY <1>2 DEF SessionsInv, TypeOK, RowChange
    <2>2. q \in Requests /\ \A t \in SessionIds : t # s => row[t].request # q
      BY <1>2 DEF SessionsInv, OneSessionPerRequest, RowChange
    <2>3. StageIn(row', q) = new.status
      <3>1. row'[s].request = q /\ \A t \in SessionIds : row'[t].request = q => t = s
        BY <2>1, <2>2
      <3>2. StageIn(row', q) = row'[s].status
        BY <2>2, <3>1 DEF StageIn
      <3> QED
        BY <2>1, <3>2
    <2>4. StageIn(row, q) = row[s].status
      BY <1>2, <2>2 DEF StageIn, RowChange
    <2>5. ASSUME NEW r \in Requests, r # q PROVE StageIn(row', r) = StageIn(row, r)
      <3>1. row[s].request # r
        BY <1>2, <2>5, SessionsAssumption DEF SessionsInv, RowOK, NoSession, RowChange
      <3>2. \A t \in SessionIds : (row'[t].request = r <=> row[t].request = r)
                                  /\ (row[t].request = r => row'[t] = row[t])
        BY <2>1, <2>5, <3>1
      <3>3. (CHOOSE t \in SessionIds : row'[t].request = r)
              = (CHOOSE t \in SessionIds : row[t].request = r)
        BY <3>2
      <3> QED
        BY <3>2, <3>3 DEF StageIn
    <2>6. [r \in Requests |-> StageIn(row', r)]
            = [[r \in Requests |-> StageIn(row, r)] EXCEPT ![q] = new.status]
      BY <2>2, <2>3, <2>5
    <2>7. CASE new.status = row[s].status
      BY <2>2, <2>4, <2>6, <2>7 DEF Life!stageVars
    <2>8. CASE <<row[s].status, new.status>> \in Life!Forward
      BY <2>2, <2>4, <2>6, <2>8 DEF Life!StageNext, Life!Step
    <2> QED
      BY <1>2, <2>7, <2>8 DEF Life!Forward, Transitions, RowChange
  <1> QED
    BY <1>1, <1>2, RowStep

\* Sessions implements SessionLife: one session of each request, and only forward.
THEOREM ImplementsSessionLife == Spec => KeepsSessionLife
  <1>1. Init => Life!StageInit
    BY SessionsAssumption DEF Init, NoSession, StageIn, Life!StageInit
  <1>2. SessionsInv /\ [Next]_vars => [Life!StageNext]_(Life!stageVars)
    BY StepKeepsLife
  <1> QED
    BY <1>1, <1>2, SessionsInvariance, PTL DEF Spec, KeepsSessionLife, Life!StageSpec

-----------------------------------------------------------------------------
(* Without faults: the events of the calendar *)

\* What no step takes from an event: that it was made, and for which session.
CalendarGrows ==
  \A e \in Events : calendar[e].state # "free" =>
    calendar'[e].state # "free" /\ calendar'[e].session = calendar[e].session

\* What no step does to a session: make it SCHEDULED again, or change its event and not
\* cancel it.
RowMoves(s) ==
  row[s].status # "NONE" =>
    /\ row'[s].status = "SCHEDULED" => row[s].status = "SCHEDULED"
    /\ row'[s].status # "CANCELLED" =>
         row[s].status # "CANCELLED" /\ row'[s].event = row[s].event

\* One session, in ScheduledEventIsLive.
Cancels(h, s) ==
  handler[h].s = s /\ At(h, "write") /\ handler[h].new.status = "CANCELLED"
Points(s) ==
  (/\ row[s].status = "SCHEDULED" /\ row[s].event # None
   /\ calendar[row[s].event].state # "live") => \E h \in Handlers : Cancels(h, s)

LEMMA PointsAll == ScheduledEventIsLive <=> \A s \in SessionIds : Points(s)
  BY DEF ScheduledEventIsLive, Points, Cancels

\* The types that the proofs of this section use.
LEMMA EventTypes ==
  ASSUME EventsInv
  PROVE  /\ \A s \in SessionIds : row[s] \in SessionRow /\ row[s].event \in Events \cup {None}
         /\ \A h \in Handlers : handler[h] \in Handler
         /\ \A h \in Handlers : handler[h].old.event \in Events \cup {None}
         /\ \A e \in Events : calendar[e] \in Event /\ e # None
         /\ handler = [h \in Handlers |-> handler[h]]
         /\ \A s \in SessionIds : row[s].status = "NONE" => row[s].event = None
  <1>1. \A h \in Handlers : handler[h] \in Handler
    BY DEF EventsInv, SessionsInv, TypeOK
  <1>2. \A h \in Handlers : handler[h].old.event \in Events \cup {None}
    BY <1>1 DEF Handler, SessionRow
  <1>3. \A s \in SessionIds : row[s] \in SessionRow /\ row[s].event \in Events \cup {None}
    BY DEF EventsInv, SessionsInv, TypeOK, SessionRow
  <1>4. \A e \in Events : calendar[e] \in Event /\ e # None
    BY SessionsAssumption DEF EventsInv, SessionsInv, TypeOK, CalendarTypeOK
  <1>5. \A s \in SessionIds : row[s].status = "NONE" => row[s].event = None
    BY DEF EventsInv, SessionsInv, RowOK, NoSession
  <1> QED
    BY <1>1, <1>2, <1>3, <1>4, <1>5 DEF EventsInv, SessionsInv, TypeOK

\* Nothing changes for a handler that does not act, while its event stays.
LEMMA OthersEvents ==
  ASSUME EventsInv, NEW g \in Handlers, handler'[g] = handler[g], CalendarGrows,
         \A s \in SessionIds : RowMoves(s),
         \A e \in Events : Holds(g, e) => calendar'[e].state = calendar[e].state
  PROVE  EventOK(g)'
  <1>1. EventOK(g) /\ HandlerOK(g)
    BY DEF EventsInv, SessionsInv
  <1>2. MadeFor(handler[g].old.event, handler[g].s)'
    BY <1>1, EventTypes DEF EventOK, MadeFor, CalendarGrows
  <1>3. \A e \in Events : Holds(g, e)' => (calendar[e].state = "live")'
    BY <1>1 DEF EventOK, Holds
  <1>4. handler[g].pc \in {"deleteEvent", "moveEvent", "write"} =>
          /\ row'[handler[g].s].status = "SCHEDULED" => handler[g].old.status = "SCHEDULED"
          /\ row'[handler[g].s].status # "CANCELLED" =>
               handler[g].old.event = row'[handler[g].s].event
    BY <1>1 DEF EventOK, HandlerOK, RowMoves, At
  <1>5. /\ At(g, "createEvent")' => (handler[g].old.event = None)'
        /\ At(g, "deleteEvent")' => (handler[g].new.status = "CANCELLED")'
    BY <1>1 DEF EventOK, At
  <1>6. handler'[g].pc \in {"deleteEvent", "moveEvent", "write"} =>
          /\ row'[handler'[g].s].status = "SCHEDULED" => handler'[g].old.status = "SCHEDULED"
          /\ row'[handler'[g].s].status # "CANCELLED" =>
               handler'[g].old.event = row'[handler'[g].s].event
    BY <1>4
  <1> QED
    BY <1>2, <1>3, <1>5, <1>6 DEF EventOK

\* An event that was accounted for still is, if who holds it still does.
LEMMA AccountedKept ==
  ASSUME EventsInv, NEW e \in Events, CalendarGrows, \A s \in SessionIds : RowMoves(s),
         calendar'[e].state = "live" => calendar[e].state = "live",
         calendar'[e].state = "live" =>
           \A h \in Handlers : Holds(h, e) =>
             \/ Holds(h, e)' /\ handler'[h].s = handler[h].s
             \/ handler[h].s = calendar[e].session /\ row'[calendar[e].session].event = e
  PROVE  Accounted(e)'
  <1> SUFFICES ASSUME calendar'[e].state = "live"
               PROVE  Accounted(e)'
    BY DEF Accounted
  <1> DEFINE s == calendar[e].session
  <1>1. /\ calendar[e].state = "live" /\ calendar'[e].session = s /\ s \in SessionIds
        /\ \/ \E h \in Handlers : handler[h].s = s /\ Holds(h, e)
           \/ row[s].event = e
           \/ row[s].status = "CANCELLED"
    BY DEF EventsInv, Accounted, CalendarGrows
  <1>2. row[s].event = e => row[s].status # "NONE"
    BY <1>1, EventTypes
  <1>3. \/ \E h \in Handlers : handler'[h].s = s /\ Holds(h, e)'
        \/ row'[s].event = e
        \/ row'[s].status = "CANCELLED"
    BY <1>1, <1>2 DEF RowMoves
  <1> QED
    BY <1>1, <1>3 DEF Accounted

\* A session whose event was live, or is about to be cancelled, stays so.
LEMMA PointsKept ==
  ASSUME EventsInv, NEW s \in SessionIds,
         row'[s].status = "SCHEDULED" =>
           /\ row[s].status = "SCHEDULED" /\ row'[s].event = row[s].event
           /\ row[s].event # None =>
                \/ calendar'[row[s].event].state = calendar[row[s].event].state
                \/ \E h \in Handlers : Cancels(h, s)'
           /\ \A h \in Handlers : Cancels(h, s) => Cancels(h, s)'
  PROVE  Points(s)'
  <1>1. Points(s)
    BY PointsAll DEF EventsInv
  <1> SUFFICES ASSUME row'[s].status = "SCHEDULED", row'[s].event # None,
                      calendar'[row'[s].event].state # "live"
               PROVE  \E h \in Handlers : Cancels(h, s)'
    BY DEF Points
  <1> QED
    BY <1>1 DEF Points

\* A handler that changes nothing but itself, that gives nothing up, and whose new
\* state is right.
LEMMA QuietEvents ==
  ASSUME EventsInv, SessionsInv', NEW h \in Handlers, NEW new,
         handler' = [handler EXCEPT ![h] = new], UNCHANGED <<row, calendar>>, EventOK(h)',
         \A e \in Events : Holds(h, e) => Holds(h, e)' /\ new.s = handler[h].s,
         \A s \in SessionIds : Cancels(h, s) => row[s].status # "SCHEDULED"
  PROVE  EventsInv'
  <1>1. \A g \in Handlers : handler'[g] = IF g = h THEN new ELSE handler[g]
    BY EventTypes
  <1>2. CalendarGrows /\ \A s \in SessionIds : RowMoves(s)
    BY DEF CalendarGrows, RowMoves
  <1>3. ASSUME NEW g \in Handlers PROVE EventOK(g)'
    BY <1>1, <1>2, OthersEvents
  <1>4. ASSUME NEW e \in Events PROVE Accounted(e)'
    <2>1. ASSUME NEW g \in Handlers, Holds(g, e)
          PROVE  Holds(g, e)' /\ handler'[g].s = handler[g].s
      BY <1>1, <2>1 DEF Holds
    <2> QED
      BY <1>2, <2>1, AccountedKept
  <1>5. ASSUME NEW s \in SessionIds PROVE Points(s)'
    <2>1. ASSUME NEW g \in Handlers, Cancels(g, s), row[s].status = "SCHEDULED"
          PROVE  Cancels(g, s)'
      BY <1>1, <2>1 DEF Cancels, At
    <2> QED
      BY <2>1, PointsKept
  <1>6. ScheduledEventIsLive'
    BY <1>5 DEF ScheduledEventIsLive, Points, Cancels, At
  <1>7. ASSUME NEW s \in SessionIds PROVE MadeFor(row[s].event, s)'
    BY DEF EventsInv, MadeFor
  <1> QED
    BY <1>3, <1>4, <1>6, <1>7 DEF EventsInv

\* In the initial state no event is made.
LEMMA InitEvents == Init => EventsInv
  <1> SUFFICES ASSUME Init PROVE EventsInv
    OBVIOUS
  <1>1. \A s \in SessionIds : row[s].status = "NONE" /\ row[s].event = None
    BY DEF Init, NoSession
  <1>2. \A h \in Handlers : handler[h] = Idle
    BY DEF Init
  <1>3. \A h \in Handlers : EventOK(h)
    BY <1>2 DEF EventOK, Idle, NoSession, MadeFor, Holds, At
  <1>4. \A e \in Events : calendar[e].state = "free"
    BY DEF Init, CalendarInit, NoEvent
  <1> QED
    BY <1>1, <1>3, <1>4, InitInv DEF EventsInv, MadeFor, Accounted, ScheduledEventIsLive

\* A handler that ends with nothing to give up.
LEMMA QuietFinish ==
  ASSUME EventsInv, SessionsInv', NEW h \in Handlers, Finish(h), UNCHANGED <<row, calendar>>,
         \A e \in Events : ~Holds(h, e),
         \A s \in SessionIds : Cancels(h, s) => row[s].status # "SCHEDULED"
  PROVE  EventsInv'
  <1>1. handler' = [handler EXCEPT ![h] = Idle] /\ handler'[h] = Idle
    BY EventTypes DEF Finish
  <1>2. EventOK(h)'
    BY <1>1 DEF EventOK, Idle, NoSession, MadeFor, Holds, At
  <1> QED
    BY <1>1, <1>2, QuietEvents

\* create begins without an event.
LEMMA StartCreateEvents ==
  ASSUME EventsInv, SessionsInv', NEW h \in Handlers, NEW s \in SessionIds, NEW q \in Requests,
         NEW mode \in {"ONLINE", "OFFLINE"}, NEW at \in Schedules, NEW u \in Party(q),
         StartCreate(h, s, q, u, mode, at)
  PROVE  EventsInv'
  <1> DEFINE new == [Idle EXCEPT !.pc = IF mode = "ONLINE" THEN "createEvent" ELSE "insert",
                                 !.s = s, !.u = IF mode = "ONLINE" THEN u ELSE None,
                                 !.old = [NoSession EXCEPT !.status = "SCHEDULED",
                                            !.request = q, !.mode = mode, !.at = at]]
  <1>1. handler' = [handler EXCEPT ![h] = new] /\ UNCHANGED <<row, calendar>> /\ At(h, "idle")
    BY DEF StartCreate
  <1>2. new.old.event = None /\ new.pc \in {"createEvent", "insert"}
    BY DEF Idle, NoSession
  <1> HIDE DEF new
  <1>3. handler'[h] = new
    BY <1>1, EventTypes
  <1>4. EventOK(h)'
    BY <1>2, <1>3, EventTypes DEF EventOK, MadeFor, Holds, At
  <1> QED
    BY <1>1, <1>4, QuietEvents DEF Holds, Cancels, At

\* update begins with the event of the row, and deletes it only to cancel.
LEMMA StartUpdateEvents ==
  ASSUME EventsInv, SessionsInv', NEW h \in Handlers, NEW s \in SessionIds, NEW u \in Users,
         NEW change \in Change, StartUpdate(h, s, u, change)
  PROVE  EventsInv'
  <1> DEFINE call == FirstCall(row[s], change)
             new == [pc |-> call, s |-> s, old |-> row[s], new |-> change,
                     u |-> IF call = "write" THEN None ELSE u]
  <1>1. /\ call \in {"deleteEvent", "moveEvent", "write"}
        /\ call = "deleteEvent" => change.status = "CANCELLED"
    BY DEF FirstCall
  <1>2. handler' = [handler EXCEPT ![h] = new] /\ UNCHANGED <<row, calendar>> /\ At(h, "idle")
    BY DEF StartUpdate
  <1> HIDE DEF call
  <1>3. /\ new.old = row[s] /\ new.s = s /\ new.new = change /\ new.pc = call
    OBVIOUS
  <1> HIDE DEF new
  <1>4. handler'[h] = new
    BY <1>2, EventTypes
  <1>5. MadeFor(row[s].event, s)
    BY DEF EventsInv
  <1>6. EventOK(h)'
    BY <1>1, <1>2, <1>3, <1>4, <1>5 DEF EventOK, MadeFor, Holds, At
  <1> QED
    BY <1>2, <1>6, QuietEvents DEF Holds, Cancels, At

\* The event of a new session is held by the handler that made it.
LEMMA CreateEventEvents ==
  ASSUME Faults = FALSE, EventsInv, SessionsInv', NEW h \in Handlers, CreateEvent(h)
  PROVE  EventsInv'
  <1>0. At(h, "createEvent") /\ UNCHANGED row
    BY DEF CreateEvent
  <1>1. CASE Finish(h) /\ UNCHANGED calendar
    BY <1>0, <1>1, QuietFinish DEF Holds, Cancels, At
  <1>2. ASSUME NEW e \in Events,
               MakeEvent(e, handler[h].u, handler[h].s, handler[h].old.at),
               handler' = [handler EXCEPT ![h].pc = "insert", ![h].old.event = e]
        PROVE  EventsInv'
    <2>1. handler[h].s \in SessionIds
      BY <1>0, HandlerTypes DEF EventsInv, At
    <2>2. /\ handler'[h].pc = "insert" /\ handler'[h].s = handler[h].s
          /\ handler'[h].old.event = e
          /\ \A g \in Handlers : g # h => handler'[g] = handler[g]
      BY <1>2, EventTypes DEF Handler, SessionRow
    <2>3. /\ calendar[e].state = "free" /\ calendar'[e].state = "live"
          /\ calendar'[e].session = handler[h].s
          /\ \A d \in Events : d # e => calendar'[d] = calendar[d]
      BY <1>2, EventTypes DEF MakeEvent, EventsInv, SessionsInv, TypeOK, CalendarTypeOK
    <2>4. CalendarGrows /\ \A s \in SessionIds : RowMoves(s)
      BY <1>0, <2>3 DEF CalendarGrows, RowMoves
    <2>5. ASSUME NEW g \in Handlers PROVE EventOK(g)'
      <3>1. CASE g = h
        BY <2>2, <2>3, <3>1, EventTypes DEF EventOK, MadeFor, Holds, At
      <3>2. CASE g # h
        <4>1. \A d \in Events : Holds(g, d) => d # e
          BY <2>3 DEF EventsInv, EventOK
        <4> QED
          BY <2>2, <2>3, <2>4, <3>2, <4>1, OthersEvents
      <3> QED
        BY <3>1, <3>2
    <2>6. ASSUME NEW d \in Events PROVE Accounted(d)'
      <3>1. CASE d = e
        BY <2>1, <2>2, <2>3, <3>1 DEF Accounted, Holds
      <3>2. CASE d # e
        <4>1. \A g \in Handlers : Holds(g, d) => Holds(g, d)' /\ handler'[g].s = handler[g].s
          BY <1>0, <2>2 DEF Holds, At
        <4> QED
          BY <2>3, <2>4, <3>2, <4>1, AccountedKept
      <3> QED
        BY <3>1, <3>2
    <2>7. ASSUME NEW s \in SessionIds PROVE Points(s)'
      <3>1. \A g \in Handlers : Cancels(g, s) => Cancels(g, s)'
        BY <1>0, <2>2 DEF Cancels, At
      <3>2. row[s].event # None => row[s].event # e
        BY <2>3 DEF EventsInv, MadeFor
      <3>3. row[s].event # None => calendar'[row[s].event].state = calendar[row[s].event].state
        BY <2>3, <3>2, EventTypes
      <3> QED
        BY <1>0, <3>1, <3>3, PointsKept
    <2>8. ScheduledEventIsLive'
      BY <2>7 DEF ScheduledEventIsLive, Points, Cancels, At
    <2>9. ASSUME NEW s \in SessionIds PROVE MadeFor(row[s].event, s)'
      BY <1>0, <2>4, EventTypes DEF EventsInv, MadeFor, CalendarGrows
    <2> QED
      BY <2>5, <2>6, <2>8, <2>9 DEF EventsInv
  <1> QED
    BY <1>1, <1>2 DEF CreateEvent

\* What RemoveEvent does to the calendar.
LEMMA Removed ==
  ASSUME EventsInv, NEW u, NEW e \in Events, RemoveEvent(u, e)
  PROVE  /\ calendar[e].state = "live" /\ calendar'[e].state = "deleted"
         /\ calendar'[e].session = calendar[e].session
         /\ \A d \in Events : d # e => calendar'[d] = calendar[d]
         /\ CalendarGrows
  <1>1. /\ calendar[e].state = "live" /\ calendar' = [calendar EXCEPT ![e].state = "deleted"]
        /\ calendar \in [Events -> Event]
    BY DEF RemoveEvent, Found, EventsInv, SessionsInv, TypeOK, CalendarTypeOK
  <1>2. /\ calendar'[e].state = "deleted" /\ calendar'[e].session = calendar[e].session
        /\ \A d \in Events : d # e => calendar'[d] = calendar[d]
    BY <1>1 DEF Event
  <1> QED
    BY <1>1, <1>2 DEF CalendarGrows

\* The handler that takes its event back has the id to itself, so that no row and no
\* other handler has the event.
LEMMA UndoEventEvents ==
  ASSUME Faults = FALSE, EventsInv, SessionsInv', NEW h \in Handlers, UndoEvent(h)
  PROVE  EventsInv'
  <1> DEFINE e == handler[h].old.event
             s == handler[h].s
  <1>0. /\ At(h, "undoEvent") /\ Finish(h) /\ UNCHANGED row
        /\ calendar[e].state = "live" \/ e \notin Events
        /\ RemoveEvent(handler[h].u, e)
    BY DEF UndoEvent, RemoveEvent, Found
  <1>1. CASE e \notin Events
    <2>1. UNCHANGED calendar
      BY <1>0, <1>1 DEF RemoveEvent, EventsInv, SessionsInv, TypeOK, CalendarTypeOK
    <2> QED
      BY <1>0, <1>1, <2>1, QuietFinish DEF Holds, Cancels, At
  <1>2. CASE e \in Events
    <2>1. /\ calendar[e].state = "live" /\ calendar'[e].state = "deleted"
          /\ calendar'[e].session = calendar[e].session
          /\ \A d \in Events : d # e => calendar'[d] = calendar[d]
          /\ CalendarGrows /\ \A t \in SessionIds : RowMoves(t)
      BY <1>0, <1>2, Removed DEF RowMoves
    <2>2. \A g \in Handlers : handler'[g] = IF g = h THEN Idle ELSE handler[g]
      BY <1>0, EventTypes DEF Finish
    <2>3. /\ s \in SessionIds /\ row[s].status = "NONE"
          /\ calendar[e].session = s
          /\ \A g \in Handlers : handler[g].s = s => g = h
      BY <1>0, <1>2, EventTypes
         DEF EventsInv, SessionsInv, HandlerOK, EventOK, MadeFor, At
    <2>4. ASSUME NEW g \in Handlers PROVE EventOK(g)'
      <3>1. CASE g = h
        BY <2>2, <3>1 DEF EventOK, Idle, NoSession, MadeFor, Holds, At
      <3>2. CASE g # h
        <4>1. \A d \in Events : Holds(g, d) => d # e
          BY <2>3, <3>2, EventTypes DEF EventsInv, EventOK, MadeFor, Holds
        <4> QED
          BY <2>1, <2>2, <3>2, <4>1, OthersEvents
      <3> QED
        BY <3>1, <3>2
    <2>5. ASSUME NEW d \in Events PROVE Accounted(d)'
      <3>1. CASE d = e
        BY <2>1, <3>1 DEF Accounted
      <3>2. CASE d # e
        <4>1. \A g \in Handlers : Holds(g, d) => Holds(g, d)' /\ handler'[g].s = handler[g].s
          BY <2>2, <3>2 DEF Holds
        <4> QED
          BY <2>1, <3>2, <4>1, AccountedKept
      <3> QED
        BY <3>1, <3>2
    <2>6. ASSUME NEW t \in SessionIds PROVE Points(t)'
      <3>1. \A g \in Handlers : Cancels(g, t) => Cancels(g, t)'
        BY <1>0, <2>2 DEF Cancels, At
      <3>2. row[t].status = "SCHEDULED" /\ row[t].event # None => row[t].event # e
        BY <2>3 DEF EventsInv, MadeFor
      <3>3. row[t].status = "SCHEDULED" /\ row[t].event # None =>
              calendar'[row[t].event].state = calendar[row[t].event].state
        BY <2>1, <3>2, EventTypes
      <3> QED
        BY <1>0, <3>1, <3>3, PointsKept
    <2>7. ScheduledEventIsLive'
      BY <2>6 DEF ScheduledEventIsLive, Points, Cancels, At
    <2>8. ASSUME NEW t \in SessionIds PROVE MadeFor(row[t].event, t)'
      BY <1>0, <2>1, EventTypes DEF EventsInv, MadeFor, CalendarGrows
    <2> QED
      BY <2>4, <2>5, <2>7, <2>8 DEF EventsInv
  <1> QED
    BY <1>1, <1>2

\* After GotoWrite the handler has the event and the change it had.
LEMMA AtWrite ==
  ASSUME EventsInv, NEW h \in Handlers, GotoWrite(h)
  PROVE  /\ handler'[h].pc = "write" /\ handler'[h].s = handler[h].s
         /\ handler'[h].old = handler[h].old /\ handler'[h].new = handler[h].new
         /\ \A g \in Handlers : g # h => handler'[g] = handler[g]
         /\ handler' = [handler EXCEPT ![h] = [handler[h] EXCEPT !.pc = "write", !.u = None]]
  BY EventTypes DEF GotoWrite, Handler

\* The event of the handler that goes on to write, when the row is as it was.
LEMMA GotoWriteOK ==
  ASSUME EventsInv, NEW h \in Handlers, GotoWrite(h), UNCHANGED row, CalendarGrows,
         handler[h].pc \in {"deleteEvent", "moveEvent"}
  PROVE  EventOK(h)'
  <1>1. EventOK(h)
    BY DEF EventsInv
  <1>2. MadeFor(handler[h].old.event, handler[h].s)'
    <2>1. MadeFor(handler[h].old.event, handler[h].s)
      BY <1>1 DEF EventOK
    <2>2. /\ handler'[h].old = handler[h].old /\ handler'[h].s = handler[h].s
          /\ handler[h].old.event \in Events \cup {None}
      BY AtWrite, EventTypes
    <2> QED
      BY <2>1, <2>2 DEF MadeFor, CalendarGrows
  <1>3. ~At(h, "createEvent")' /\ ~At(h, "deleteEvent")' /\ \A e \in Events : ~Holds(h, e)'
    BY AtWrite DEF At, Holds
  <1>4. (/\ row[handler[h].s].status = "SCHEDULED" => handler[h].old.status = "SCHEDULED"
         /\ row[handler[h].s].status # "CANCELLED" =>
              handler[h].old.event = row[handler[h].s].event)'
    BY <1>1, AtWrite DEF EventOK
  <1> QED
    BY <1>2, <1>3, <1>4 DEF EventOK

\* The handler that deletes an event is about to cancel its session.
LEMMA DeleteEventEvents ==
  ASSUME Faults = FALSE, EventsInv, SessionsInv', NEW h \in Handlers, DeleteEvent(h)
  PROVE  EventsInv'
  <1> DEFINE e == handler[h].old.event
             s == handler[h].s
  <1>0. At(h, "deleteEvent") /\ UNCHANGED row
    BY DEF DeleteEvent
  <1>1. CASE Finish(h) /\ UNCHANGED calendar
    BY <1>0, <1>1, QuietFinish DEF Holds, Cancels, At
  <1>2. CASE GotoWrite(h) /\ UNCHANGED calendar
    <2>1. EventOK(h)'
      BY <1>0, <1>2, GotoWriteOK DEF CalendarGrows, At
    <2> QED
      BY <1>0, <1>2, <2>1, AtWrite, QuietEvents DEF Holds, Cancels, At
  <1>3. CASE e # None /\ RemoveEvent(handler[h].u, e) /\ GotoWrite(h)
    <2>0. e \in Events
      BY <1>3, EventTypes
    <2>1. /\ calendar[e].state = "live" /\ calendar'[e].state = "deleted"
          /\ calendar'[e].session = calendar[e].session
          /\ \A d \in Events : d # e => calendar'[d] = calendar[d]
          /\ CalendarGrows /\ \A t \in SessionIds : RowMoves(t)
      BY <1>0, <1>3, <2>0, Removed DEF RowMoves
    <2>3. s \in SessionIds /\ row[s].status # "NONE" /\ calendar[e].session = s
      BY <1>0, <1>3, <2>0, EventTypes
         DEF EventsInv, SessionsInv, HandlerOK, EventOK, MadeFor, At
    <2>4. ASSUME NEW g \in Handlers PROVE EventOK(g)'
      <3>1. CASE g = h
        BY <1>0, <1>3, <2>1, <3>1, GotoWriteOK DEF At
      <3>2. CASE g # h
        <4>1. ASSUME NEW d \in Events, Holds(g, d) PROVE d # e
          <5>1. row[handler[g].s].status = "NONE"
            BY <4>1 DEF EventsInv, SessionsInv, HandlerOK, Holds
          <5>2. d # None /\ MadeFor(d, handler[g].s)
            BY <4>1, EventTypes DEF EventsInv, EventOK, Holds
          <5> QED
            BY <2>3, <5>1, <5>2 DEF MadeFor
        <4> QED
          BY <1>3, <2>1, <3>2, <4>1, AtWrite, OthersEvents
      <3> QED
        BY <3>1, <3>2
    <2>5. ASSUME NEW d \in Events PROVE Accounted(d)'
      <3>1. CASE d = e
        BY <2>1, <3>1 DEF Accounted
      <3>2. CASE d # e
        <4>1. \A g \in Handlers : Holds(g, d) => Holds(g, d)' /\ handler'[g].s = handler[g].s
          BY <1>0, <1>3, AtWrite DEF Holds, At
        <4> QED
          BY <2>1, <3>2, <4>1, AccountedKept
      <3> QED
        BY <3>1, <3>2
    <2>6. ASSUME NEW t \in SessionIds PROVE Points(t)'
      <3>1. \A g \in Handlers : Cancels(g, t) => Cancels(g, t)'
        BY <1>0, <1>3, AtWrite DEF Cancels, At
      <3>2. CASE t = s
        <4>1. handler[h].new.status = "CANCELLED"
          BY <1>0 DEF EventsInv, EventOK
        <4>2. Cancels(h, t)'
          BY <1>3, <3>2, <4>1, AtWrite DEF Cancels, At
        <4> QED
          BY <1>0, <3>1, <4>2, PointsKept
      <3>3. CASE t # s
        <4>1. row[t].event # None => row[t].event # e
          BY <2>3, <3>3 DEF EventsInv, MadeFor
        <4>2. row[t].event # None => calendar'[row[t].event].state = calendar[row[t].event].state
          BY <2>1, <4>1, EventTypes
        <4> QED
          BY <1>0, <3>1, <4>2, PointsKept
      <3> QED
        BY <3>2, <3>3
    <2>7. ScheduledEventIsLive'
      BY <2>6 DEF ScheduledEventIsLive, Points, Cancels, At
    <2>8. ASSUME NEW t \in SessionIds PROVE MadeFor(row[t].event, t)'
      BY <1>0, <2>1, EventTypes DEF EventsInv, MadeFor, CalendarGrows
    <2> QED
      BY <2>4, <2>5, <2>7, <2>8 DEF EventsInv
  <1> QED
    BY <1>1, <1>2, <1>3 DEF DeleteEvent

\* Moving the event leaves it what it is: the session's, and live.
LEMMA MoveEventEvents ==
  ASSUME Faults = FALSE, EventsInv, SessionsInv', NEW h \in Handlers, MoveEvent(h)
  PROVE  EventsInv'
  <1>0. At(h, "moveEvent") /\ UNCHANGED row
    BY DEF MoveEvent
  <1>1. CASE Finish(h) /\ UNCHANGED calendar
    BY <1>0, <1>1, QuietFinish DEF Holds, Cancels, At
  <1>2. CASE /\ PatchEvent(handler[h].u, handler[h].old.event, handler[h].new.at)
             /\ GotoWrite(h)
    <2>1. \A d \in Events : /\ calendar'[d].state = calendar[d].state
                            /\ calendar'[d].session = calendar[d].session
      BY <1>2 DEF PatchEvent, EventsInv, SessionsInv, TypeOK, CalendarTypeOK, Event
    <2>2. CalendarGrows /\ \A t \in SessionIds : RowMoves(t)
      BY <1>0, <2>1 DEF CalendarGrows, RowMoves
    <2>3. ASSUME NEW g \in Handlers PROVE EventOK(g)'
      BY <1>0, <1>2, <2>1, <2>2, AtWrite, GotoWriteOK, OthersEvents DEF At
    <2>4. ASSUME NEW d \in Events PROVE Accounted(d)'
      <3>1. \A g \in Handlers : Holds(g, d) => Holds(g, d)' /\ handler'[g].s = handler[g].s
        BY <1>0, <1>2, AtWrite DEF Holds, At
      <3> QED
        BY <2>1, <2>2, <3>1, AccountedKept
    <2>5. ASSUME NEW t \in SessionIds PROVE Points(t)'
      <3>1. \A g \in Handlers : Cancels(g, t) => Cancels(g, t)'
        BY <1>0, <1>2, AtWrite DEF Cancels, At
      <3> QED
        BY <1>0, <2>1, <3>1, EventTypes, PointsKept
    <2>6. ScheduledEventIsLive'
      BY <2>5 DEF ScheduledEventIsLive, Points, Cancels, At
    <2>7. ASSUME NEW t \in SessionIds PROVE MadeFor(row[t].event, t)'
      BY <1>0, <2>2, EventTypes DEF EventsInv, MadeFor, CalendarGrows
    <2> QED
      BY <2>3, <2>4, <2>6, <2>7 DEF EventsInv
  <1> QED
    BY <1>1, <1>2 DEF MoveEvent

\* What a step that ends its handler and writes one row has to show.
LEMMA RowEvents ==
  ASSUME EventsInv, SessionsInv', NEW h \in Handlers, Finish(h), UNCHANGED calendar,
         NEW s \in SessionIds, NEW w \in SessionRow, row' = [row EXCEPT ![s] = w],
         handler[h].s = s, RowMoves(s), MadeFor(w.event, s), w.status # "NONE",
         \A e \in Events : Holds(h, e) => w.event = e,
         row[s].status = "NONE" => \A g \in Handlers : handler[g].s = s => g = h,
         Points(s)'
  PROVE  EventsInv'
  <1>1. \A t \in SessionIds : row'[t] = IF t = s THEN w ELSE row[t]
    BY DEF EventsInv, SessionsInv, TypeOK
  <1>2. \A g \in Handlers : handler'[g] = IF g = h THEN Idle ELSE handler[g]
    BY EventTypes DEF Finish
  <1>3. CalendarGrows /\ \A t \in SessionIds : RowMoves(t)
    BY <1>1 DEF CalendarGrows, RowMoves
  <1>4. ASSUME NEW g \in Handlers PROVE EventOK(g)'
    <2>1. CASE g = h
      BY <1>2, <2>1 DEF EventOK, Idle, NoSession, MadeFor, Holds, At
    <2>2. CASE g # h
      BY <1>2, <1>3, <2>2, OthersEvents
    <2> QED
      BY <2>1, <2>2
  <1>5. ASSUME NEW e \in Events PROVE Accounted(e)'
    <2>1. ASSUME NEW g \in Handlers, Holds(g, e), calendar[e].state = "live"
          PROVE  \/ Holds(g, e)' /\ handler'[g].s = handler[g].s
                 \/ handler[g].s = calendar[e].session /\ row'[calendar[e].session].event = e
      <3>1. CASE g = h
        <4>1. calendar[e].session = s
          BY <2>1, <3>1, EventTypes DEF EventsInv, EventOK, MadeFor, Holds
        <4> QED
          BY <1>1, <2>1, <3>1, <4>1
      <3>2. CASE g # h
        BY <1>2, <2>1, <3>2 DEF Holds
      <3> QED
        BY <3>1, <3>2
    <2> QED
      BY <1>3, <2>1, AccountedKept
  <1>6. ASSUME NEW t \in SessionIds PROVE Points(t)'
    <2>1. CASE t = s
      BY <2>1
    <2>2. CASE t # s
      <3>1. \A g \in Handlers : Cancels(g, t) => Cancels(g, t)'
        BY <1>2, <2>2 DEF Cancels, At
      <3> QED
        BY <1>1, <2>2, <3>1, PointsKept
    <2> QED
      BY <2>1, <2>2
  <1>7. ScheduledEventIsLive'
    BY <1>6 DEF ScheduledEventIsLive, Points, Cancels, At
  <1>8. ASSUME NEW t \in SessionIds PROVE MadeFor(row[t].event, t)'
    BY <1>1 DEF EventsInv, MadeFor
  <1> QED
    BY <1>4, <1>5, <1>7, <1>8 DEF EventsInv

\* The new row takes over the event of its handler, which is live.
LEMMA InsertEvents ==
  ASSUME Faults = FALSE, EventsInv, SessionsInv', NEW h \in Handlers, Insert(h)
  PROVE  EventsInv'
  <1>0. PICK s \in SessionIds, old \in SessionRow :
        /\ s = handler[h].s /\ old = handler[h].old /\ row[s].status = "NONE"
        /\ old.status = "SCHEDULED" /\ At(h, "insert") /\ UNCHANGED calendar
        /\ \A g \in Handlers : handler[g].s = s => g = h
        /\ old.event \in Events \cup {None} /\ MadeFor(old.event, s)
        /\ old.event # None => calendar[old.event].state = "live"
    <2>1. EventOK(h) /\ HandlerOK(h) /\ At(h, "insert") /\ UNCHANGED calendar
      BY DEF Insert, EventsInv, SessionsInv
    <2>2. handler[h].old \in SessionRow /\ (~At(h, "idle") => handler[h].s \in SessionIds)
      BY HandlerTypes DEF EventsInv
    <2>3. handler[h].old.event \in Events \cup {None}
      BY EventTypes
    <2> QED
      BY <2>1, <2>2, <2>3 DEF HandlerOK, EventOK, Holds, At
  <1>1. CASE UNCHANGED row /\ InsertRefused(h)
    <2>1. CASE old.event = None /\ Finish(h)
      BY <1>0, <1>1, <2>1, EventTypes, QuietFinish DEF Holds, Cancels, At
    <2>2. CASE Goto(h, "undoEvent")
      <3>1. /\ handler' = [handler EXCEPT ![h] = [handler[h] EXCEPT !.pc = "undoEvent"]]
            /\ handler'[h].pc = "undoEvent" /\ handler'[h].s = s /\ handler'[h].old = old
        BY <1>0, <2>2, EventTypes DEF Goto, Handler
      <3>2. EventOK(h)'
        BY <1>0, <3>1, EventTypes DEF EventOK, MadeFor, Holds, At
      <3>3. [handler[h] EXCEPT !.pc = "undoEvent"].s = handler[h].s
        BY EventTypes DEF Handler
      <3> QED
        BY <1>0, <1>1, <3>1, <3>2, <3>3, QuietEvents, ZenonT(40) DEF Holds, Cancels, At
    <2> QED
      BY <1>0, <1>1, <2>1, <2>2 DEF InsertRefused
  <1>2. CASE row' = [row EXCEPT ![s] = old] /\ Finish(h)
    <2>1. row'[s] = old
      BY <1>0, <1>2 DEF EventsInv, SessionsInv, TypeOK
    <2>2. Points(s)'
      BY <1>0, <2>1 DEF Points
    <2> QED
      BY <1>0, <1>2, <2>2, RowEvents DEF RowMoves, Holds
  <1> QED
    BY <1>0, <1>1, <1>2 DEF Insert

\* The update that finds the status it read leaves the event as it is, or cancels; one
\* that does not find it read an earlier status, of a session no longer SCHEDULED.
LEMMA WriteEvents ==
  ASSUME Faults = FALSE, EventsInv, SessionsInv', NEW h \in Handlers, Write(h)
  PROVE  EventsInv'
  <1>0. PICK s \in SessionIds :
        /\ s = handler[h].s /\ At(h, "write") /\ Finish(h) /\ UNCHANGED calendar
        /\ row[s].status # "NONE" /\ Allowed(handler[h].old, handler[h].new)
        /\ row[s].status = "SCHEDULED" => handler[h].old.status = "SCHEDULED"
        /\ row[s].status # "CANCELLED" => handler[h].old.event = row[s].event
    <2>1. EventOK(h) /\ HandlerOK(h) /\ At(h, "write") /\ Finish(h) /\ UNCHANGED calendar
      BY DEF Write, EventsInv, SessionsInv
    <2>2. ~At(h, "idle") => handler[h].s \in SessionIds
      BY HandlerTypes DEF EventsInv
    <2> QED
      BY <2>1, <2>2 DEF HandlerOK, EventOK, At
  <1>1. CASE ~Unchanged(h) /\ UNCHANGED row
    <2>1. row[s].status # "SCHEDULED"
      BY <1>0, <1>1 DEF Unchanged
    <2> QED
      BY <1>0, <1>1, <2>1, QuietFinish DEF Holds, Cancels, At
  <1>2. CASE Unchanged(h) /\ row' = [row EXCEPT ![s] = Written(h)]
    <2> DEFINE old == handler[h].old
               new == handler[h].new
    <2>0. PICK w \in SessionRow :
          /\ w = Written(h) /\ w.status # "NONE"
          /\ row[s].status \in {"SCHEDULED", "IN_PROGRESS"}
          /\ w.status = "SCHEDULED" => row[s].status = "SCHEDULED"
      <3>1. /\ Written(h) \in SessionRow
            /\ \/ Written(h).status = row[s].status /\ row[s].status = "SCHEDULED"
               \/ <<row[s].status, Written(h).status>> \in Transitions
        BY <1>0, <1>2, WrittenFacts DEF EventsInv
      <3> QED
        BY <3>1 DEF Transitions
    <2>1. w.event = EventWritten(h) /\ (new.status = "CANCELLED" => w.status = "CANCELLED")
      BY <1>0, <2>0, EventTypes DEF Written, SessionRow
    <2>2. w.event = row[s].event \/ (w.event = None /\ w.status = "CANCELLED")
      BY <1>0, <2>0, <2>1 DEF EventWritten, FirstCall
    <2>3. MadeFor(row[s].event, s)
      BY DEF EventsInv
    <2>4. MadeFor(w.event, s) /\ \A e \in Events : ~Holds(h, e)
      BY <1>0, <2>2, <2>3 DEF MadeFor, Holds, At
    <2>5. row'[s] = w
      BY <1>2, <2>0 DEF EventsInv, SessionsInv, TypeOK
    <2>6. RowMoves(s)
      BY <2>0, <2>2, <2>5 DEF RowMoves
    <2>7. \A g \in Handlers : handler'[g] = IF g = h THEN Idle ELSE handler[g]
      BY <1>0, EventTypes DEF Finish
    <2>8. Points(s)'
      <3>1. \A g \in Handlers : Cancels(g, s) /\ w.status = "SCHEDULED" => Cancels(g, s)'
        BY <1>0, <2>0, <2>1, <2>7 DEF Cancels, At
      <3> QED
        BY <1>0, <2>0, <2>2, <2>5, <3>1, PointsKept
    <2> QED
      BY <1>0, <1>2, <2>0, <2>4, <2>6, <2>8, RowEvents
  <1> QED
    BY <1>0, <1>1, <1>2 DEF Write

\* EventsInv is inductive when there are no faults.
LEMMA NextEvents ==
  ASSUME Faults = FALSE, EventsInv, [Next]_vars PROVE EventsInv'
  <1>0. SessionsInv'
    BY NextInv DEF EventsInv
  <1>1. ASSUME UNCHANGED <<row, handler, calendar>> PROVE EventsInv'
    BY <1>0, <1>1 DEF EventsInv, EventOK, Accounted, MadeFor, Holds, ScheduledEventIsLive, At
  <1>2. ASSUME NEW h \in Handlers, Request(h) PROVE EventsInv'
    BY <1>0, <1>2, StartCreateEvents, StartUpdateEvents DEF Request
  <1>3. ASSUME NEW h \in Handlers, HandlerStep(h) PROVE EventsInv'
    BY <1>0, <1>3, CreateEventEvents, InsertEvents, UndoEventEvents, DeleteEventEvents,
       MoveEventEvents, WriteEvents DEF HandlerStep
  <1> QED
    BY <1>1, <1>2, <1>3 DEF Next, Crash, RequestsNext, vars

\* The inductive invariant holds in every reachable state, when there are no faults.
THEOREM EventsInvariance == ASSUME Faults = FALSE PROVE Spec => []EventsInv
  BY InitEvents, NextEvents, PTL DEF Spec

\* No calendar event is left behind, unless its session was cancelled by the participant
\* who cannot see it or a request that will store it or take it back is running.
THEOREM NoStrayEventWithoutFaults == ASSUME Faults = FALSE PROVE Spec => []NoStrayEvent
  <1>1. EventsInv => NoStrayEvent
    BY DEF EventsInv, Accounted, NoStrayEvent, Busy
  <1> QED
    BY <1>1, EventsInvariance, PTL

\* A SCHEDULED session has a live event, or none, or is about to be cancelled.
THEOREM ScheduledEventIsLiveWithoutFaults ==
  ASSUME Faults = FALSE PROVE Spec => []ScheduledEventIsLive
  <1>1. EventsInv => ScheduledEventIsLive
    BY DEF EventsInv
  <1> QED
    BY <1>1, EventsInvariance, PTL
=============================================================================
