------------------------------ MODULE Feedback ------------------------------
(***************************************************************************)
(* What is said of a user after a session, and what is derived from it     *)
(* (src/apps/api/src/modules/ratings, assessments, badges, reputation).    *)
(* Each side of a completed session may rate and assess the other once;    *)
(* badges are awarded once; the reputation of a user counts these rows.    *)
(* Sessions change under it as SessionLife allows.                         *)
(***************************************************************************)
EXTENDS Naturals, FiniteSets

CONSTANTS
  Sessions,
  Users,
  Parties,   \* [Sessions -> the host and the participant of the session]
  Badges,    \* badge definitions
  Ids,       \* ids of the rows of ratings, assessments and user_badges
  Handlers,  \* the requests the API runs at the same time
  None

ASSUME FeedbackAssumption ==
  /\ Parties \in [Sessions -> SUBSET Users]
  /\ \A s \in Sessions : \E host, participant \in Users :
       host # participant /\ Parties[s] = {host, participant}
  /\ None \notin Ids \cup Sessions \cup Users \cup Badges \cup Nat
  /\ IsFiniteSet(Sessions) /\ IsFiniteSet(Ids)

VARIABLES
  stage,     \* [Sessions -> status of the session], see SessionLife
  row,       \* [Ids -> the row with this id, of one of the three tables]
  announced, \* [Ids -> payload of the outbox event about this id]
  handler    \* [Handlers -> what the request has read and does next]

vars == <<stage, row, announced, handler>>

Life == INSTANCE SessionLife WITH Requests <- Sessions

-----------------------------------------------------------------------------
Feedbacks == {"RATING", "ASSESSMENT"}

NoRow == [table |-> "NONE", session |-> None, by |-> None, about |-> None, badge |-> None]

About(table, s, user, other) ==
  [table |-> table, session |-> s, by |-> user, about |-> other, badge |-> None]
Award(user, badge) ==
  [table |-> "BADGE", session |-> None, by |-> None, about |-> user, badge |-> badge]

Row == [table : {"NONE", "RATING", "ASSESSMENT", "BADGE"}, session : Sessions \cup {None},
        by : Users \cup {None}, about : Users \cup {None}, badge : Badges \cup {None}]

Counted == {"completed"} \cup Feedbacks
NothingRead == [c \in Counted |-> None]

Idle == [pc |-> "idle", id |-> None, new |-> NoRow, count |-> NothingRead]
Handler == [pc : {"idle", "look", "insert", "reread", "count"}, id : Ids \cup {None},
            new : Row, count : [Counted -> Nat \cup {None}]]

TypeOK ==
  /\ stage \in [Sessions -> Life!Stage]
  /\ row \in [Ids -> Row]
  /\ announced \in [Ids -> Row]
  /\ handler \in [Handlers -> Handler]

Init ==
  /\ Life!StageInit
  /\ row = [i \in Ids |-> NoRow]
  /\ announced = [i \in Ids |-> NoRow]
  /\ handler = [h \in Handlers |-> Idle]

Finish(h) == handler' = [handler EXCEPT ![h] = Idle]

SessionStep ==
  /\ \E s \in Sessions : Life!Step(s)
  /\ UNCHANGED <<row, announced, handler>>

\* The process stops, or the database is lost, between two steps of a request.
Crash(h) ==
  /\ handler[h].pc # "idle"
  /\ Finish(h)
  /\ UNCHANGED <<stage, row, announced>>

\* randomUUID
Fresh(i) == row[i] = NoRow /\ \A h \in Handlers : handler[h].id # i

Begin(h, i, pc, new) ==
  /\ handler[h].pc = "idle"
  /\ Fresh(i)
  /\ handler' = [handler EXCEPT ![h] = [Idle EXCEPT !.pc = pc, !.id = i, !.new = new]]
  /\ UNCHANGED <<stage, row, announced>>

-----------------------------------------------------------------------------
(* POST /ratings and POST /assessments *)

\* The session is over and was held, and the user was in it.
\* (Mutation: it need only have begun.)
EligibleOnceBegun(s, user) == stage[s] \in {"IN_PROGRESS", "COMPLETED"} /\ user \in Parties[s]
Eligible(s, user) == stage[s] = "COMPLETED" /\ user \in Parties[s]

StartRating(h, i, s, user, other) ==
  /\ Eligible(s, user)
  /\ other \in Parties[s] \ {user}
  /\ Begin(h, i, "look", About("RATING", s, user, other))

StartAssessment(h, i, s, user, other) ==
  /\ Eligible(s, user)
  /\ other \in Parties[s] \ {user}
  /\ Begin(h, i, "look", About("ASSESSMENT", s, user, other))

\* The unique keys of the tables: of ratings (session, rater), of assessments (session,
\* assessor, assessed), of user_badges (user, definition).
Key(r) == CASE r.table = "RATING" -> <<r.session, r.by>>
            [] r.table = "ASSESSMENT" -> <<r.session, r.by, r.about>>
            [] OTHER -> <<r.about, r.badge>>

Duplicates(new) == {i \in Ids : row[i].table = new.table /\ Key(row[i]) = Key(new)}

\* In the transaction the session is read again, and a duplicate is looked for.
Look(h, table) ==
  LET new == handler[h].new IN
  /\ handler[h].pc = "look" /\ new.table = table
  /\ \/ /\ Eligible(new.session, new.by)
        /\ Duplicates(new) = {}
        /\ handler' = [handler EXCEPT ![h].pc = "insert"]
     \/ /\ ~Eligible(new.session, new.by) \/ Duplicates(new) # {}
        /\ Finish(h)
  /\ UNCHANGED <<stage, row, announced>>

LookRating(h) == Look(h, "RATING")
LookAssessment(h) == Look(h, "ASSESSMENT")

\* The unique indexes, which also refuse what another transaction has inserted since.
\* (Mutations: no index; an index of badges on the user alone.)
AdmittedAlways(new) == TRUE
AdmittedByUser(new) ==
  IF new.table = "BADGE"
  THEN {i \in Ids : row[i].table = "BADGE" /\ row[i].about = new.about} = {}
  ELSE Duplicates(new) = {}
Admitted(new) == Duplicates(new) = {}

\* The row and its event are written in one transaction.  (Mutation: the event is
\* written outside of it, and stays when the row is refused.)
EnqueuedRegardless(i, new) == announced' = [announced EXCEPT ![i] = new]
Enqueued(i, new) == announced' = IF Admitted(new) THEN [announced EXCEPT ![i] = new] ELSE announced

Store(h) ==
  LET new == handler[h].new IN
  /\ row' = IF Admitted(new) THEN [row EXCEPT ![handler[h].id] = new] ELSE row
  /\ Enqueued(handler[h].id, new)
  /\ UNCHANGED stage

InsertRating(h) ==
  /\ handler[h].pc = "insert" /\ handler[h].new.table = "RATING"
  /\ Store(h)
  /\ Finish(h)

InsertAssessment(h) ==
  /\ handler[h].pc = "insert" /\ handler[h].new.table = "ASSESSMENT"
  /\ Store(h)
  /\ Finish(h)

-----------------------------------------------------------------------------
(* awardBadge *)

\* The badge is there already and is the answer, or it is made.
StartAward(h, i, user, badge) ==
  /\ Duplicates(Award(user, badge)) = {}
  /\ Begin(h, i, "insert", Award(user, badge))

\* An award that is refused by the index goes on to read the badge that is there.
InsertAward(h) ==
  LET new == handler[h].new IN
  /\ handler[h].pc = "insert" /\ new.table = "BADGE"
  /\ Store(h)
  /\ IF Admitted(new) THEN Finish(h) ELSE handler' = [handler EXCEPT ![h].pc = "reread"]

RereadAward(h) ==
  /\ handler[h].pc = "reread"
  /\ Finish(h)
  /\ UNCHANGED <<stage, row, announced>>

-----------------------------------------------------------------------------
(* GET /users/:id/reputation: four counts, read at the same time but not in one
   transaction; that of the badges is left out, as nothing bounds it. *)

CompletedWith(user) == {s \in Sessions : stage[s] = "COMPLETED" /\ user \in Parties[s]}
FeedbackOn(table, user) == {i \in Ids : row[i].table = table /\ row[i].about = user}

Count(c, user) ==
  IF c = "completed" THEN Cardinality(CompletedWith(user)) ELSE Cardinality(FeedbackOn(c, user))

StartSummary(h, user) ==
  /\ handler[h].pc = "idle"
  /\ handler' = [handler EXCEPT ![h] = [Idle EXCEPT !.pc = "count", !.new.about = user]]
  /\ UNCHANGED <<stage, row, announced>>

ReadCount(h, c) ==
  /\ handler[h].pc = "count"
  /\ handler[h].count[c] = None
  /\ handler' = [handler EXCEPT ![h].count[c] = Count(c, handler[h].new.about)]
  /\ UNCHANGED <<stage, row, announced>>

AnswerSummary(h) ==
  /\ handler[h].pc = "count"
  /\ \A c \in Counted : handler[h].count[c] # None
  /\ Finish(h)
  /\ UNCHANGED <<stage, row, announced>>

-----------------------------------------------------------------------------
Next ==
  \/ SessionStep
  \/ \E h \in Handlers :
       \/ \E i \in Ids, s \in Sessions, user, other \in Users :
            StartRating(h, i, s, user, other) \/ StartAssessment(h, i, s, user, other)
       \/ LookRating(h) \/ InsertRating(h)
       \/ LookAssessment(h) \/ InsertAssessment(h)
       \/ \E i \in Ids, user \in Users, badge \in Badges : StartAward(h, i, user, badge)
       \/ InsertAward(h) \/ RereadAward(h)
       \/ \E user \in Users : StartSummary(h, user)
       \/ \E c \in Counted : ReadCount(h, c)
       \/ AnswerSummary(h)
       \/ Crash(h)

Spec == Init /\ [][Next]_vars

-----------------------------------------------------------------------------
\* Of two requests sent at the same moment (a double click, two tabs) one is refused: one
\* rating and one assessment by each side of a session, one badge of a kind for each user.
OnePerKey == \A i \in Ids : row[i] # NoRow => Duplicates(row[i]) = {i}

\* One party of a session that was held says it about the other one.
Earned(r) ==
  /\ r.session \in Sessions
  /\ stage[r.session] = "COMPLETED"
  /\ r.by # r.about
  /\ Parties[r.session] = {r.by, r.about}

\* Whatever the session does between the check and the write, feedback stands only about
\* one party of a session that was held, by the other one.
FeedbackIsEarned == \A i \in Ids : row[i].table \in Feedbacks => Earned(row[i])

\* The outbox tells of exactly the rows that were written, and as they were written.
AnnouncedIsRow == \A i \in Ids : announced[i] = row[i]

\* An award that lost against another finds the badge the other one made, so that it is
\* answered with it and not with an error.
LoserFindsBadge ==
  \A h \in Handlers : handler[h].pc = "reread" => Duplicates(handler[h].new) # {}

\* Nobody has more ratings, or more assessments, than sessions that were held; and as the
\* counts of a summary are read one by one while rows are added, none that it has read
\* exceeds what the sessions held by then account for.
ReputationIsBacked ==
  /\ \A user \in Users, table \in Feedbacks : Count(table, user) <= Count("completed", user)
  /\ \A h \in Handlers, table \in Feedbacks :
       (handler[h].pc = "count" /\ handler[h].count[table] # None) =>
         handler[h].count[table] <= Count("completed", handler[h].new.about)

\* What a handler may rely on: the id it inserts is its own, what it says was earned and
\* will stay so, and the badge it goes on to read is there.
HandlerOK(h) ==
  LET id == handler[h].id
      new == handler[h].new IN
  /\ id # None => row[id] = NoRow /\ \A g \in Handlers : handler[g].id = id => g = h
  /\ handler[h].pc \in {"look", "insert"} => id # None
  /\ handler[h].pc = "look" => new.table \in Feedbacks
  /\ handler[h].pc = "insert" => new.table \in Feedbacks \cup {"BADGE"}
  /\ handler[h].pc \in {"look", "insert"} /\ new.table \in Feedbacks => Earned(new)
  /\ handler[h].pc = "reread" => new.table = "BADGE" /\ Duplicates(new) # {}
  /\ handler[h].pc = "count" => new.about \in Users

\* The inductive invariant: the types, rows that are unique and earned, events that agree
\* with them, and what each handler relies on since it read.
FeedbackInv ==
  /\ TypeOK
  /\ OnePerKey
  /\ FeedbackIsEarned
  /\ AnnouncedIsRow
  /\ \A h \in Handlers : HandlerOK(h)
=============================================================================
