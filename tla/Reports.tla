------------------------------ MODULE Reports ------------------------------
(***************************************************************************)
(* The reports of the API (modules/reports), on the outbox: a report and   *)
(* its event are written in one transaction, and moderators change its     *)
(* status, more than one of them at a time.  A report has the id of its    *)
(* event here.  The other components are any writers of the outbox.        *)
(***************************************************************************)
EXTENDS Outbox

VARIABLE report  \* [EventIds -> reports row, or None]

reportsVars == <<outboxVars, report>>

-----------------------------------------------------------------------------
ReportStatus == {"OPEN", "UNDER_REVIEW", "RESOLVED", "DISMISSED"}
SettledStatus == {"RESOLVED", "DISMISSED"}
Report == [status : ReportStatus, resolved : BOOLEAN]

ASSUME ReportsAssumption == None \notin Report

ReportsHandler == {Idle} \cup Writing \cup [pc : {"settle"}, id : EventIds, status : ReportStatus]

ReportsTypeOK ==
  /\ OutboxTypeOK
  /\ report \in [EventIds -> Report \cup {None}]
  /\ handler \in [Handlers -> ReportsHandler]

ReportsInit == OutboxInit /\ report = [i \in EventIds |-> None]

\* One cannot report oneself: guest and host differ in Event.
CreateReport(h, i, e) ==
  /\ e.kind = "REPORT_CREATED"
  /\ Enqueue(h, i, e)
  /\ UNCHANGED report

CommitReport(h) ==
  LET r == handler[h] IN
  /\ Commit(h)
  /\ report' = IF r.event.kind = "REPORT_CREATED" /\ ~r.aborted
               THEN [report EXCEPT ![r.id] = [status |-> "OPEN", resolved |-> FALSE]]
               ELSE report

\* updateStatus of an ADMIN: the report is looked for, and written by id.
StartUpdateStatus(h, i, status) ==
  /\ report[i] # None
  /\ Begin(h, [pc |-> "settle", id |-> i, status |-> status])
  /\ UNCHANGED <<outbox, notification, swallowed, report>>

UpdateReportStatus(h) ==
  LET r == handler[h] IN
  /\ At(h, "settle")
  /\ report' = [report EXCEPT ![r.id] =
       [status |-> r.status, resolved |-> r.status \in SettledStatus]]
  /\ Finish(h)
  /\ UNCHANGED <<outbox, notification, swallowed>>

ReportsNext ==
  \/ \E h \in Handlers :
       \/ \E i \in EventIds, e \in Event :
            \/ CreateReport(h, i, e)
            \/ e.kind # "REPORT_CREATED" /\ Enqueue(h, i, e) /\ UNCHANGED report
       \/ Project(h) /\ UNCHANGED report
       \/ CommitReport(h)
       \/ \E i \in EventIds, status \in ReportStatus : StartUpdateStatus(h, i, status)
       \/ UpdateReportStatus(h)
       \/ OutboxCrash(h) /\ UNCHANGED report
  \/ \E u \in People :
       \/ \E i \in EventIds : MarkRead(u, i) /\ UNCHANGED report
       \/ MarkAllRead(u) /\ UNCHANGED report

ReportsSpec == ReportsInit /\ [][ReportsNext]_reportsVars

-----------------------------------------------------------------------------
\* There is an event for a report exactly when there is the report, and the time of its
\* resolution goes with the status that stands, whoever settled or reopened it last.
ReportsAgree ==
  \A i \in EventIds :
    /\ report[i] # None <=> (outbox[i] # None /\ outbox[i].kind = "REPORT_CREATED")
    /\ report[i] # None => (report[i].resolved <=> report[i].status \in SettledStatus)

\* What the outbox tells of is what is stored, and the users are told of it.
OutboxAgrees == NotificationsAgree /\ ReportsAgree

\* What a handler relies on: the id of the event that a transaction writes is its own and
\* was in no other transaction that ended; it tells whom the event concerns, or none.
ReportsHandlerOK(h) ==
  LET r == handler[h] IN
  /\ r.pc \in {"project", "commit"} =>
       /\ outbox[r.id] = None /\ r.id \notin swallowed
       /\ \A g \in Handlers : (handler[g].pc \in {"project", "commit"} /\ handler[g].id = r.id) => g = h
       /\ r.aborted => r.failed
  /\ At(h, "project") => ~r.failed /\ r.users = {}
  /\ At(h, "commit") => r.users = IF r.failed THEN {} ELSE Recipients(r.event)
  /\ At(h, "settle") => report[r.id] # None

ReportsInv ==
  /\ ReportsTypeOK
  /\ OutboxAgrees
  /\ \A h \in Handlers : ReportsHandlerOK(h)
=============================================================================
