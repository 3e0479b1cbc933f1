------------------------------- MODULE Outbox -------------------------------
(***************************************************************************)
(* The outbox and the notifications (platform/events, and the module       *)
(* notifications of the API).  A component writes its rows and an event in *)
(* one transaction; the writer of the outbox makes notifications of the    *)
(* event in the same transaction, and swallows an error of that.  Users    *)
(* read their notifications meanwhile.                                     *)
(***************************************************************************)
EXTENDS Api

CONSTANTS
  People,   \* users
  EventIds

VARIABLES
  outbox,        \* [EventIds -> outbox_events row, or None]
  notification,  \* [EventIds -> [People -> notifications row of that event]]
  swallowed      \* events of transactions that ended after an error was swallowed

outboxVars == <<outbox, notification, swallowed, handler>>

-----------------------------------------------------------------------------
\* An event is of a host and a guest: a requester is a guest, so is a payer, a reporter and
\* who earns a badge.  SESSION_CHANGED: SCHEDULED or UPDATED; REFUND: REQUESTED or COMPLETED;
\* OTHER: those that the projector does not know, as that a request is cancelled.
Kind == {"REQUEST_SENT", "REQUEST_ANSWERED", "SESSION_CHANGED", "SESSION_CANCELLED",
         "PAYMENT_CAPTURED", "PAYMENT_FAILED", "REFUND", "BADGE_EARNED", "REPORT_CREATED", "OTHER"}

\* The actor, as each component fills it in: of a payment and of all that becomes of it, the
\* payer.
Actors(kind, host, guest) ==
  CASE kind = "REQUEST_ANSWERED" -> {host}
    [] kind \in {"SESSION_CHANGED", "SESSION_CANCELLED"} -> {host, guest}
    [] kind = "BADGE_EARNED" -> {None}
    [] kind = "OTHER" -> {host, guest, None}
    [] OTHER -> {guest}

Event ==
  {e \in [kind : Kind, host : People, guest : People, actor : People \cup {None}] :
     e.host # e.guest /\ e.actor \in Actors(e.kind, e.host, e.guest)}

ASSUME OutboxAssumption == None \notin People /\ None \notin Event

\* Who is told, kind by kind.
Recipients(e) ==
  CASE e.kind \in {"REQUEST_SENT", "PAYMENT_CAPTURED", "REFUND"} -> {e.host}
    [] e.kind \in {"REQUEST_ANSWERED", "PAYMENT_FAILED", "BADGE_EARNED"} -> {e.guest}
    [] e.kind = "SESSION_CHANGED" -> {e.host, e.guest} \ {e.actor}
    [] e.kind = "SESSION_CANCELLED" -> IF e.actor = e.host THEN {e.guest} ELSE {e.host}
    [] OTHER -> {}

Notification == {"none", "unread", "read"}

\* pc: "project", "commit".  aborted: PostgreSQL takes nothing more in this transaction
\* and rolls it back in the end.
Writing == [pc : {"project", "commit"}, id : EventIds, event : Event, users : SUBSET People,
            failed : BOOLEAN, aborted : BOOLEAN]

OutboxTypeOK ==
  /\ outbox \in [EventIds -> Event \cup {None}]
  /\ notification \in [EventIds -> [People -> Notification]]
  /\ swallowed \in SUBSET EventIds

OutboxInit ==
  /\ outbox = [i \in EventIds |-> None]
  /\ notification = [i \in EventIds |-> [u \in People |-> "none"]]
  /\ swallowed = {}
  /\ handler = [h \in Handlers |-> Idle]

-----------------------------------------------------------------------------
(* enqueue, in the transaction of the component *)

\* A random id is of no event and of no other transaction.
Enqueue(h, i, e) ==
  /\ outbox[i] = None /\ i \notin swallowed
  /\ \A g \in Handlers : handler[g].pc \in {"project", "commit"} => handler[g].id # i
  /\ Begin(h, [pc |-> "project", id |-> i, event |-> e, users |-> {},
               failed |-> FALSE, aborted |-> FALSE])
  /\ UNCHANGED <<outbox, notification, swallowed>>

\* createMany with skipDuplicates, over the unique (user_id, source_event_id).
Added(i, users) ==
  [notification EXCEPT ![i] = [u \in People |-> IF u \in users /\ @[u] = "none" THEN "unread" ELSE @[u]]]

\* What others see before the commit.  (Mutation: without the transaction's client.)
VisibleAtOnce(i, users) == Added(i, users)
VisibleYet(i, users) == notification

\* project makes the rows, or throws: in the process, or because PostgreSQL refuses the
\* statement, after which the transaction is aborted, though the error is swallowed.
Project(h) ==
  LET r == handler[h] IN
  /\ At(h, "project")
  /\ \/ /\ Goto(h, [r EXCEPT !.pc = "commit", !.users = Recipients(r.event)])
        /\ notification' = VisibleYet(r.id, Recipients(r.event))
     \/ /\ Recipients(r.event) # {}
        /\ \E aborted \in BOOLEAN :
             Goto(h, [r EXCEPT !.pc = "commit", !.failed = TRUE, !.aborted = aborted])
        /\ UNCHANGED notification
  /\ UNCHANGED <<outbox, swallowed>>

Commit(h) ==
  LET r == handler[h] IN
  /\ At(h, "commit")
  /\ IF r.aborted
     THEN UNCHANGED <<outbox, notification>>
     ELSE /\ outbox' = [outbox EXCEPT ![r.id] = r.event]
          /\ notification' = Added(r.id, r.users)
  /\ swallowed' = IF r.failed THEN swallowed \cup {r.id} ELSE swallowed
  /\ Finish(h)

-----------------------------------------------------------------------------
(* PATCH /notifications/:id/read and /notifications/read-all: one statement each, of *)
(* the rows of the user that are not read.                                           *)

MarkRead(u, i) ==
  /\ notification[i][u] = "unread"
  /\ notification' = [notification EXCEPT ![i][u] = "read"]
  /\ UNCHANGED <<outbox, swallowed, handler>>

MarkAllRead(u) ==
  /\ \E i \in EventIds : notification[i][u] = "unread"
  /\ notification' = [i \in EventIds |->
       [notification[i] EXCEPT ![u] = IF @ = "unread" THEN "read" ELSE @]]
  /\ UNCHANGED <<outbox, swallowed, handler>>

OutboxCrash(h) == Crash(h) /\ UNCHANGED <<outbox, notification, swallowed>>

-----------------------------------------------------------------------------
\* Who is to be told: of what two users are in, the one who did not act.  Apart from that
\* who pays is told that it failed, who earns a badge of the badge, and of a report or a
\* cancelled request no one is told.  Of a refund, which follows what the payer asks for,
\* this is the one who was paid, though the text speaks of money "refunded to you".
ToBeTold(e) ==
  CASE e.kind \in {"REPORT_CREATED", "OTHER"} -> {}
    [] e.kind = "PAYMENT_FAILED" -> {e.actor}
    [] e.kind = "BADGE_EARNED" -> {e.guest}
    [] OTHER -> {e.host, e.guest} \ {e.actor}

\* A notification is of an event that was committed, also when the process stops between
\* the two; and all who are to be told of a committed event are, or, after an error, none.
NotificationsAgree ==
  \A i \in EventIds :
    LET told == {u \in People : notification[i][u] # "none"} IN
    /\ outbox[i] = None => told = {}
    /\ outbox[i] # None => told = IF i \in swallowed THEN {} ELSE ToBeTold(outbox[i])

\* "Failures are contained so a notification can never roll back a real domain write":
\* who swallows an error goes on to commit the event, and with it what it is about.
ContainedFailures == \A i \in swallowed : outbox[i] # None
=============================================================================
