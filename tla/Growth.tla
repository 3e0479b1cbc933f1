------------------------------- MODULE Growth -------------------------------
(***************************************************************************)
(* The growth module of the API (modules/growth): the learning goals,      *)
(* availability slots, certifications and projects of one user.  A PATCH   *)
(* names some columns of a row; it is validated by itself, the row is      *)
(* looked up, and those columns are written by id.  The constraints of the *)
(* table decide on what becomes of the row when two PATCHes, or a PATCH    *)
(* and a DELETE, overlap.  The controllers do not await what POST and      *)
(* PATCH do: the answer is sent before, and what fails later ends the      *)
(* process, as an unhandled rejection.                                     *)
(***************************************************************************)
EXTENDS Api, Integers

CONSTANTS
  Rows,   \* ids
  Times   \* of day, or dates

ASSUME GrowthAssumption == Times \subseteq Nat

VARIABLES
  kind,     \* the table
  growth,   \* [Rows -> row, a function of its columns]
  named,    \* [Rows -> the same of what the user, or a review, last said of each column]
  deleted,  \* ids of deleted rows
  saved     \* ids of the rows whose POST was answered with 201

growthVars == <<kind, growth, named, deleted, saved, handler>>

-----------------------------------------------------------------------------
(* The tables: the columns that matter here, and their constraints *)

Goal == [skill : Skills, level : {"BEGINNER", "EXPERT"}]
Slot == [from : Times, to : Times, timezone : {"UTC", "Asia/Kolkata"}]
Dates == [from : Times \cup {None}, to : Times \cup {None}]

\* The status of a certification is a column of no request.  REVIEWED: VERIFIED or REJECTED.
Statuses == {"PENDING", "REVIEWED"}
Certification == [from : Times \cup {None}, to : Times \cup {None}, status : Statuses]

ProjectRow == [from : Times \cup {None}, to : Times \cup {None}, technologies : SUBSET {"React"}]

Table == [goal |-> Goal, slot |-> Slot, certification |-> Certification, project |-> ProjectRow]

\* What tells two rows apart.  Certifications and projects may repeat.
SameKey(row, other) ==
  CASE kind = "goal" -> row.skill = other.skill
    [] kind = "slot" -> row = other
    [] OTHER -> FALSE

\* A slot starts before it ends; of two dates, the second is not before the first.
SlotCheck(row) == row.from < row.to
DatesCheck(row) == None \notin {row.from, row.to} => row.from <= row.to
Check(row) ==
  CASE kind = "slot" -> SlotCheck(row)
    [] kind \in {"certification", "project"} -> DatesCheck(row)
    [] OTHER -> TRUE

\* Columns that are given, over those of a row.
Merged(given, row) ==
  [c \in DOMAIN given \cup DOMAIN row |-> IF c \in DOMAIN given THEN given[c] ELSE row[c]]

-----------------------------------------------------------------------------
(* Validation of what a request names *)

\* The level of a goal, the timezone of a slot and the technologies of a project (and the
\* priority of a goal, the activity of a slot, which are alike) have defaults, which also
\* a PATCH gets for what it does not name.
Default ==
  CASE kind = "goal" -> [level |-> "BEGINNER"]
    [] kind = "slot" -> [timezone |-> "UTC"]
    [] kind = "project" -> [technologies |-> {}]
    [] OTHER -> <<>>

\* What each table's requests may consist of: some columns of a row.
Parts(rows) == UNION {{[c \in C |-> row[c]] : C \in SUBSET DOMAIN row} : row \in rows}
GoalBodies == Parts(Goal)
SlotBodies == Parts(Slot)
CertificationBodies == Parts(Dates)
ProjectBodies == Parts(ProjectRow)

InOrder(body) == {"from", "to"} \subseteq DOMAIN body => Check(body)

\* The body with its defaults; it is accepted if some field is named, by the user or by
\* default, and the ends that are named are in order.
Parsed(body) == Merged(body, Default)
Accepted(body) == DOMAIN Parsed(body) # {} /\ InOrder(body)

\* A new certification is PENDING.
NewRow(data) == IF kind = "certification" THEN Merged(data, [status |-> "PENDING"]) ELSE data

-----------------------------------------------------------------------------
Stored(i) == growth[i] # <<>>

\* "insert": a POST that was answered.  "write": a PATCH that found its row, and what its
\* user named.
GrowthHandler ==
  {Idle}
  \cup [pc : {"insert"}, row : Rows, data : UNION {Table[k] : k \in DOMAIN Table}]
  \cup [pc : {"write"}, row : Rows,
       body : UNION {GoalBodies, SlotBodies, CertificationBodies, ProjectBodies}]

\* A promise is rejected that nobody awaits: the process ends with all its requests.
EndProcess == handler' = [h \in Handlers |-> Idle]

GrowthTypeOK ==
  /\ kind \in DOMAIN Table
  /\ growth \in [Rows -> Table[kind] \cup {<<>>}]
  /\ handler \in [Handlers -> GrowthHandler]

GrowthInit ==
  /\ kind \in DOMAIN Table
  /\ growth = [i \in Rows |-> <<>>]
  /\ named = growth
  /\ deleted = {}
  /\ saved = {}
  /\ handler = [h \in Handlers |-> Idle]

\* The unique index, and the CHECK.  (Mutation: what was validated is in order.)
AdmittedUnchecked(i, row) == \A j \in Rows \ {i} : Stored(j) => ~SameKey(growth[j], row)
Admitted(i, row) == Check(row) /\ \A j \in Rows \ {i} : Stored(j) => ~SameKey(growth[j], row)

\* POST: answered, and then one statement.  A random id is of no other row.
StartCreate(h, i, body) ==
  /\ i \notin saved
  /\ Accepted(body) /\ NewRow(Parsed(body)) \in Table[kind]
  /\ Begin(h, [pc |-> "insert", row |-> i, data |-> NewRow(Parsed(body))])
  /\ saved' = saved \cup {i}
  /\ UNCHANGED <<kind, growth, named, deleted>>

InsertRow(h) ==
  LET i == handler[h].row
      row == handler[h].data IN
  /\ At(h, "insert")
  /\ IF Admitted(i, row)
     THEN /\ growth' = [growth EXCEPT ![i] = row]
          /\ named' = [named EXCEPT ![i] = row]
          /\ Finish(h)
     ELSE EndProcess /\ UNCHANGED <<growth, named>>
  /\ UNCHANGED <<kind, deleted, saved>>

\* PATCH: the user's row of that id is looked for, and used for nothing else.
StartPatch(h, i, body) ==
  /\ Stored(i)
  /\ Accepted(body)
  /\ Begin(h, [pc |-> "write", row |-> i, body |-> body])
  /\ UNCHANGED <<kind, growth, named, deleted, saved>>

PatchMissing(h, i) ==
  /\ ~Stored(i) /\ At(h, "idle")
  /\ EndProcess
  /\ UNCHANGED <<kind, growth, named, deleted, saved>>

\* update by id writes the columns that are named or have a default, and fails when the
\* row is gone.  (Mutation: an upsert.)
UpsertTo(i, data) == IF Stored(i) THEN Merged(data, growth[i]) ELSE NewRow(data)
UpdateTo(i, data) == IF Stored(i) THEN Merged(data, growth[i]) ELSE <<>>

WritePatch(h) ==
  LET i == handler[h].row
      row == UpdateTo(i, Parsed(handler[h].body)) IN
  /\ At(h, "write")
  /\ IF row \in Table[kind] /\ Admitted(i, row)
     THEN /\ growth' = [growth EXCEPT ![i] = row]
          /\ named' = [named EXCEPT ![i] = Merged(handler[h].body, @)]
          /\ Finish(h)
     ELSE EndProcess /\ UNCHANGED <<growth, named>>
  /\ UNCHANGED <<kind, deleted, saved>>

\* DELETE: deleteMany of that id and user, one statement, which is awaited.
DeleteRow(h, i) ==
  /\ At(h, "idle")
  /\ Stored(i)
  /\ growth' = [growth EXCEPT ![i] = <<>>]
  /\ deleted' = deleted \cup {i}
  /\ named' = [named EXCEPT ![i] = <<>>]
  /\ UNCHANGED <<kind, saved, handler>>

\* The database is lost, or the process stops.
GrowthCrash(h) ==
  /\ ~At(h, "idle")
  /\ EndProcess
  /\ UNCHANGED <<kind, growth, named, deleted, saved>>

\* Outside of the API: an operator of the database reviews a certification.
Review(i) ==
  /\ kind = "certification" /\ Stored(i)
  /\ growth' = [growth EXCEPT ![i].status = "REVIEWED"]
  /\ named' = [named EXCEPT ![i].status = "REVIEWED"]
  /\ UNCHANGED <<kind, deleted, saved, handler>>

\* The routes of each table.
Routes(bodies) ==
  \E h \in Handlers, i \in Rows :
    \/ \E body \in bodies : StartCreate(h, i, body) \/ StartPatch(h, i, body)
    \/ PatchMissing(h, i)
    \/ DeleteRow(h, i)

LearningGoals == kind = "goal" /\ Routes(GoalBodies)
Availability == kind = "slot" /\ Routes(SlotBodies)
Certifications == kind = "certification" /\ Routes(CertificationBodies)
Projects == kind = "project" /\ Routes(ProjectBodies)

GrowthNext ==
  \/ LearningGoals \/ Availability \/ Certifications \/ Projects
  \/ \E h \in Handlers : InsertRow(h) \/ WritePatch(h) \/ GrowthCrash(h)
  \/ \E i \in Rows : Review(i)

GrowthSpec == GrowthInit /\ [][GrowthNext]_growthVars

-----------------------------------------------------------------------------
\* Two PATCHes that are each in order and overlap leave a row that is in order.
PeriodsInOrder == \A i \in Rows : Stored(i) => Check(growth[i])

\* What was last named for a column is what the row has, whatever PATCHes, reviews and
\* deletions come between a PATCH's lookup and its write: a PATCH takes back nothing it
\* does not name, but for the columns that have a default.  Those it resets, also over
\* what another PATCH named.  And none brings back a row that was deleted.
AsNamed(i, c) ==
  \/ growth[i][c] = named[i][c]
  \/ c \in DOMAIN Default /\ growth[i][c] = Default[c]
PatchesSurvive ==
  \A i \in Rows : Stored(i) => i \notin deleted /\ \A c \in DOMAIN growth[i] : AsNamed(i, c)

\* Who was told that a row was created has it, once the request has ended, until it is
\* deleted: that a row exists already is answered with an error ("CONFLICT, The resource
\* already exists").
SavedIsStored ==
  \A i \in saved : Stored(i) \/ i \in deleted \/ \E h \in Handlers : At(h, "insert") /\ handler[h].row = i

GrowthAgrees == PeriodsInOrder /\ PatchesSurvive

\* The id of a row, and that of a POST which is to insert one, was answered; a POST has
\* its id to itself, and its row is one of the table.
InsertsAreNew ==
  /\ deleted \subseteq saved
  /\ \A i \in Rows : Stored(i) => i \in saved
  /\ \A h \in Handlers : At(h, "insert") =>
       /\ handler[h].data \in Table[kind]
       /\ handler[h].row \in saved \ deleted /\ ~Stored(handler[h].row)
       /\ \A g \in Handlers \ {h} : At(g, "insert") => handler[g].row # handler[h].row

\* Of a row that is stored all columns were named once.
NamedColumns ==
  /\ DOMAIN named = Rows
  /\ \A i \in Rows : Stored(i) => DOMAIN named[i] = DOMAIN growth[i]

\* The inductive invariant.
GrowthInv ==
  /\ GrowthTypeOK
  /\ NamedColumns
  /\ InsertsAreNew
  /\ GrowthAgrees
=============================================================================
