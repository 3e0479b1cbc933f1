--------------------------- MODULE FeedbackProofs ---------------------------
(***************************************************************************)
(* Proofs about Feedback: what is said of a user was earned and is said    *)
(* once, whatever requests overlap, and reputation counts no more of it    *)
(* than the sessions account for.                                          *)
(***************************************************************************)
EXTENDS Feedback, FiniteSetTheorems, TLAPS

-----------------------------------------------------------------------------
(* What every step leaves true *)

\* A held session stays held, a row stays, and the id of a new row is of one handler.
Keeps ==
  /\ \A s \in Sessions : stage[s] = "COMPLETED" => stage'[s] = "COMPLETED"
  /\ \A i \in Ids : row[i] # NoRow => row'[i] = row[i]

\* The session of a request steps as SessionLife allows: never out of COMPLETED.
LEMMA StageKeeps ==
  ASSUME stage \in [Sessions -> Life!Stage], NEW s \in Sessions, Life!Step(s)
  PROVE  /\ stage' \in [Sessions -> Life!Stage]
         /\ \A t \in Sessions : stage[t] = "COMPLETED" => stage'[t] = "COMPLETED"
  <1>1. PICK arrow \in Life!Forward :
          stage[s] = arrow[1] /\ stage' = [stage EXCEPT ![s] = arrow[2]]
    BY DEF Life!Step
  <1>2. arrow[1] # "COMPLETED" /\ arrow[2] \in Life!Stage
    BY DEF Life!Forward, Life!Stage
  <1> QED
    BY <1>1, <1>2

\* Duplicates of a row that is one are never lost.
LEMMA DuplicatesStay ==
  ASSUME Keeps, NEW new, new.table # "NONE", NEW i \in Duplicates(new)
  PROVE  i \in Duplicates(new)'
  <1>1. i \in Ids /\ row[i] # NoRow
    BY DEF Duplicates, NoRow
  <1>2. row'[i] = row[i]
    BY <1>1 DEF Keeps
  <1> QED
    BY <1>1, <1>2 DEF Duplicates

\* What was earned stays earned.
LEMMA EarnedStays ==
  ASSUME Keeps, NEW r, Earned(r) PROVE Earned(r)'
  BY DEF Keeps, Earned

\* A handler that waits relies on nothing that others take away.
LEMMA WaitingHandler ==
  ASSUME Keeps, NEW h \in Handlers, HandlerOK(h), handler'[h] = handler[h],
         handler[h].id # None =>
           /\ row'[handler[h].id] = row[handler[h].id]
           /\ \A g \in Handlers : handler'[g].id = handler[h].id => g = h
  PROVE  HandlerOK(h)'
  <1> DEFINE new == handler[h].new
  <1>1. Earned(new) => Earned(new)'
    BY EarnedStays
  <1>2. new.table = "BADGE" /\ Duplicates(new) # {} => Duplicates(new)' # {}
    <2> SUFFICES ASSUME new.table = "BADGE", NEW i \in Duplicates(new)
                 PROVE  i \in Duplicates(new)'
      OBVIOUS
    <2> QED
      BY DuplicatesStay
  <1>3. Earned(handler[h].new)' = Earned(new)' /\ Duplicates(handler[h].new)' = Duplicates(new)'
    BY DEF Earned, Duplicates
  <1> QED
    BY <1>1, <1>2, <1>3 DEF HandlerOK

-----------------------------------------------------------------------------
(* Steps that write no row *)

\* A step of handler h that writes no row and is in order itself keeps the invariant.
LEMMA QuietStep ==
  ASSUME FeedbackInv, NEW h \in Handlers, NEW next \in Handler,
         handler' = [handler EXCEPT ![h] = next],
         UNCHANGED <<stage, row, announced>>,
         next.id # None => \A g \in Handlers \ {h} : handler[g].id # next.id,
         HandlerOK(h)'
  PROVE  FeedbackInv'
  <1>1. TypeOK'
    BY DEF FeedbackInv, TypeOK
  <1>2. handler'[h] = next /\ \A g \in Handlers \ {h} : handler'[g] = handler[g]
    BY DEF FeedbackInv, TypeOK
  <1>3. Keeps
    BY DEF Keeps
  <1>4. ASSUME NEW g \in Handlers PROVE HandlerOK(g)'
    <2>1. CASE g = h
      BY <2>1
    <2>2. CASE g # h
      <3>1. HandlerOK(g)
        BY DEF FeedbackInv
      <3>2. handler[g].id # None =>
              \A f \in Handlers : handler'[f].id = handler[g].id => f = g
        BY <2>2, <1>2, <3>1 DEF HandlerOK
      <3>3. handler'[g] = handler[g]
        BY <2>2, <1>2
      <3> QED
        BY <1>3, <3>1, <3>2, <3>3, WaitingHandler
    <2> QED
      BY <2>1, <2>2
  <1>5. OnePerKey' /\ FeedbackIsEarned' /\ AnnouncedIsRow'
    BY DEF FeedbackInv, OnePerKey, FeedbackIsEarned, AnnouncedIsRow, Duplicates, Earned
  <1> QED
    BY <1>1, <1>4, <1>5 DEF FeedbackInv

\* A handler that ends, relies on nothing.
LEMMA FinishInv ==
  ASSUME FeedbackInv, NEW h \in Handlers, Finish(h), UNCHANGED <<stage, row, announced>>
  PROVE  FeedbackInv'
  <1>1. Idle \in Handler /\ Idle.id = None /\ Idle.pc = "idle"
    BY DEF Idle, Handler, NoRow, Row, NothingRead
  <1>2. handler'[h] = Idle
    BY DEF Finish, FeedbackInv, TypeOK
  <1>3. HandlerOK(h)'
    BY <1>1, <1>2 DEF HandlerOK
  <1> QED
    BY <1>1, <1>3, QuietStep DEF Finish

\* A request that begins has an id of its own, and is about something that is in order.
LEMMA BeginInv ==
  ASSUME FeedbackInv, NEW h \in Handlers, NEW i \in Ids, NEW pc \in {"look", "insert"},
         NEW new \in Row, Begin(h, i, pc, new),
         pc = "look" => new.table \in Feedbacks,
         new.table \in Feedbacks \cup {"BADGE"},
         new.table \in Feedbacks => Earned(new)
  PROVE  FeedbackInv'
  <1> DEFINE next == [Idle EXCEPT !.pc = pc, !.id = i, !.new = new]
  <1>1. next \in Handler /\ next.pc = pc /\ next.id = i /\ next.new = new
    BY DEF Idle, Handler, NothingRead
  <1>2. /\ handler' = [handler EXCEPT ![h] = next]
        /\ UNCHANGED <<stage, row, announced>>
        /\ row[i] = NoRow /\ \A g \in Handlers : handler[g].id # i
    BY DEF Begin, Fresh
  <1>3. handler'[h] = next /\ \A g \in Handlers \ {h} : handler'[g] = handler[g]
    BY <1>2 DEF FeedbackInv, TypeOK
  <1> HIDE DEF next
  <1>4. Earned(new) => Earned(new)'
    BY <1>2 DEF Earned
  <1>5. \A g \in Handlers : handler'[g].id = i => g = h
    BY <1>2, <1>3
  <1>6. i # None /\ row'[i] = NoRow
    BY <1>2, FeedbackAssumption
  <1>7. HandlerOK(h)'
    BY <1>1, <1>3, <1>4, <1>5, <1>6 DEF HandlerOK, Earned
  <1> QED
    BY <1>1, <1>2, <1>7, QuietStep

LEMMA StartRatingInv ==
  ASSUME FeedbackInv, NEW h \in Handlers, NEW i \in Ids, NEW s \in Sessions,
         NEW user \in Users, NEW other \in Users, StartRating(h, i, s, user, other)
  PROVE  FeedbackInv'
  <1> DEFINE new == About("RATING", s, user, other)
  <1>1. new \in Row /\ new.table = "RATING" /\ Earned(new) /\ Begin(h, i, "look", new)
    BY FeedbackAssumption DEF StartRating, About, Row, Earned, Eligible
  <1> HIDE DEF new
  <1> QED
    BY <1>1, BeginInv DEF Feedbacks

LEMMA StartAssessmentInv ==
  ASSUME FeedbackInv, NEW h \in Handlers, NEW i \in Ids, NEW s \in Sessions,
         NEW user \in Users, NEW other \in Users, StartAssessment(h, i, s, user, other)
  PROVE  FeedbackInv'
  <1> DEFINE new == About("ASSESSMENT", s, user, other)
  <1>1. new \in Row /\ new.table = "ASSESSMENT" /\ Earned(new) /\ Begin(h, i, "look", new)
    BY FeedbackAssumption DEF StartAssessment, About, Row, Earned, Eligible
  <1> HIDE DEF new
  <1> QED
    BY <1>1, BeginInv DEF Feedbacks

LEMMA StartAwardInv ==
  ASSUME FeedbackInv, NEW h \in Handlers, NEW i \in Ids, NEW user \in Users,
         NEW badge \in Badges, StartAward(h, i, user, badge)
  PROVE  FeedbackInv'
  <1> DEFINE new == Award(user, badge)
  <1>1. new \in Row /\ new.table = "BADGE" /\ Begin(h, i, "insert", new)
    BY DEF StartAward, Award, Row
  <1> HIDE DEF new
  <1> QED
    BY <1>1, BeginInv DEF Feedbacks

LEMMA LookInv ==
  ASSUME FeedbackInv, NEW h \in Handlers, NEW table, Look(h, table) PROVE FeedbackInv'
  <1>1. CASE Finish(h)
    BY <1>1, FinishInv DEF Look
  <1>2. CASE handler' = [handler EXCEPT ![h].pc = "insert"]
    <2> DEFINE next == [handler[h] EXCEPT !.pc = "insert"]
    <2>1. handler[h] \in Handler /\ handler[h].pc = "look" /\ HandlerOK(h)
      BY DEF Look, FeedbackInv, TypeOK
    <2>2. /\ next \in Handler /\ next.pc = "insert"
          /\ next.id = handler[h].id /\ next.new = handler[h].new
      BY <2>1 DEF Handler
    <2>3. handler' = [handler EXCEPT ![h] = next]
      BY <1>2
    <2>4. UNCHANGED <<stage, row, announced>>
      BY DEF Look
    <2>5. handler'[h] = next /\ \A g \in Handlers \ {h} : handler'[g] = handler[g]
      BY <2>3 DEF FeedbackInv, TypeOK
    <2> HIDE DEF next
    <2>6. HandlerOK(h)'
      BY <2>1, <2>2, <2>4, <2>5 DEF HandlerOK, Earned
    <2>7. next.id # None => \A g \in Handlers \ {h} : handler[g].id # next.id
      BY <2>1, <2>2 DEF HandlerOK
    <2> QED
      BY <2>2, <2>3, <2>4, <2>6, <2>7, QuietStep
  <1> QED
    BY <1>1, <1>2 DEF Look

LEMMA StartSummaryInv ==
  ASSUME FeedbackInv, NEW h \in Handlers, NEW user \in Users, StartSummary(h, user)
  PROVE  FeedbackInv'
  <1> DEFINE next == [Idle EXCEPT !.pc = "count", !.new.about = user]
  <1>1. /\ next \in Handler /\ next.pc = "count" /\ next.id = None
        /\ next.new.about = user
    BY DEF Idle, Handler, NothingRead, NoRow, Row
  <1>2. handler' = [handler EXCEPT ![h] = next] /\ UNCHANGED <<stage, row, announced>>
    BY DEF StartSummary
  <1>3. handler'[h] = next
    BY <1>2 DEF FeedbackInv, TypeOK
  <1> HIDE DEF next
  <1>4. HandlerOK(h)'
    BY <1>1, <1>3 DEF HandlerOK
  <1> QED
    BY <1>1, <1>2, <1>4, QuietStep

\* Counts are natural numbers.
LEMMA CountType ==
  ASSUME NEW c, NEW user
  PROVE  /\ IsFiniteSet(CompletedWith(user)) /\ IsFiniteSet(FeedbackOn(c, user))
         /\ Count(c, user) \in Nat
  <1>1. IsFiniteSet(CompletedWith(user))
    BY FeedbackAssumption, FS_Subset DEF CompletedWith
  <1>2. IsFiniteSet(FeedbackOn(c, user))
    BY FeedbackAssumption, FS_Subset DEF FeedbackOn
  <1> QED
    BY <1>1, <1>2, FS_CardinalityType DEF Count

LEMMA ReadCountInv ==
  ASSUME FeedbackInv, NEW h \in Handlers, NEW c \in Counted, ReadCount(h, c)
  PROVE  FeedbackInv'
  <1> DEFINE n == Count(c, handler[h].new.about)
             next == [handler[h] EXCEPT !.count[c] = n]
  <1>1. handler[h] \in Handler /\ handler[h].pc = "count" /\ HandlerOK(h)
    BY DEF ReadCount, FeedbackInv, TypeOK
  <1>2. n \in Nat
    BY CountType
  <1>3. /\ handler' = [handler EXCEPT ![h] = next] /\ UNCHANGED <<stage, row, announced>>
    BY DEF ReadCount
  <1> HIDE DEF n
  <1>4. /\ next \in Handler /\ next.pc = "count"
        /\ next.id = handler[h].id /\ next.new = handler[h].new
    BY <1>1, <1>2 DEF Handler
  <1>5. handler'[h] = next /\ \A g \in Handlers \ {h} : handler'[g] = handler[g]
    BY <1>3 DEF FeedbackInv, TypeOK
  <1> HIDE DEF next
  <1>6. HandlerOK(h)'
    BY <1>1, <1>3, <1>4, <1>5 DEF HandlerOK
  <1>7. next.id # None => \A g \in Handlers \ {h} : handler[g].id # next.id
    BY <1>1, <1>4 DEF HandlerOK
  <1> QED
    BY <1>3, <1>4, <1>6, <1>7, QuietStep

-----------------------------------------------------------------------------
(* Steps that change a row or a session *)

LEMMA SessionStepInv ==
  ASSUME FeedbackInv, SessionStep PROVE FeedbackInv' /\ Keeps
  <1>1. UNCHANGED <<row, announced, handler>>
    BY DEF SessionStep
  <1>2. /\ stage' \in [Sessions -> Life!Stage]
        /\ \A s \in Sessions : stage[s] = "COMPLETED" => stage'[s] = "COMPLETED"
    BY StageKeeps DEF SessionStep, FeedbackInv, TypeOK
  <1>3. Keeps
    BY <1>1, <1>2 DEF Keeps
  <1>4. ASSUME NEW h \in Handlers PROVE HandlerOK(h)'
    <2>1. HandlerOK(h)
      BY DEF FeedbackInv
    <2>2. handler[h].id # None => \A g \in Handlers : handler'[g].id = handler[h].id => g = h
      BY <1>1, <2>1 DEF HandlerOK
    <2> QED
      BY <1>1, <1>3, <2>1, <2>2, WaitingHandler
  <1>5. FeedbackIsEarned'
    <2> SUFFICES ASSUME NEW i \in Ids, row[i].table \in Feedbacks PROVE Earned(row[i])'
      BY <1>1 DEF FeedbackIsEarned
    <2>1. Earned(row[i])
      BY DEF FeedbackInv, FeedbackIsEarned
    <2> QED
      BY <1>1, <1>3, <2>1 DEF Keeps, Earned
  <1>6. TypeOK' /\ OnePerKey' /\ AnnouncedIsRow'
    BY <1>1, <1>2 DEF FeedbackInv, TypeOK, OnePerKey, AnnouncedIsRow, Duplicates
  <1> QED
    BY <1>3, <1>4, <1>5, <1>6 DEF FeedbackInv

\* A row is written when it has no duplicate, under the id of its handler, with its event.
LEMMA StoreInv ==
  ASSUME FeedbackInv, NEW h \in Handlers, handler[h].pc = "insert", Store(h),
         \/ Finish(h)
         \/ /\ handler' = [handler EXCEPT ![h].pc = "reread"]
            /\ ~Admitted(handler[h].new) /\ handler[h].new.table = "BADGE"
  PROVE  FeedbackInv' /\ Keeps
  <1> DEFINE id == handler[h].id
             new == handler[h].new
  <1>1. /\ HandlerOK(h) /\ id \in Ids /\ row[id] = NoRow /\ new \in Row
        /\ new.table \in Feedbacks \cup {"BADGE"} /\ new # NoRow
    <2>1. HandlerOK(h) /\ handler[h] \in Handler
      BY DEF FeedbackInv, TypeOK
    <2>2. id # None /\ id \in Ids \cup {None} /\ new \in Row
      BY <2>1 DEF HandlerOK, Handler
    <2>3. new.table \in Feedbacks \cup {"BADGE"} /\ row[id] = NoRow
      BY <2>1, <2>2 DEF HandlerOK
    <2>4. new # NoRow
      BY <2>3 DEF NoRow, Feedbacks
    <2> QED
      BY <2>1, <2>2, <2>3, <2>4
  <1>2. CASE ~Admitted(new)
    <2>1. UNCHANGED <<stage, row, announced>>
      BY <1>2 DEF Store, Enqueued
    <2>2. CASE Finish(h)
      BY <2>1, <2>2, FinishInv DEF Keeps
    <2>3. CASE handler' = [handler EXCEPT ![h].pc = "reread"] /\ new.table = "BADGE"
      <3> DEFINE next == [handler[h] EXCEPT !.pc = "reread"]
      <3>1. /\ next \in Handler /\ next.pc = "reread" /\ next.id = id /\ next.new = new
            /\ handler' = [handler EXCEPT ![h] = next]
        BY <2>3 DEF FeedbackInv, TypeOK, Handler
      <3>2. handler'[h] = next /\ \A g \in Handlers \ {h} : handler'[g] = handler[g]
        BY <3>1 DEF FeedbackInv, TypeOK
      <3> HIDE DEF next
      <3>3. Duplicates(handler[h].new)' # {}
        <4>1. PICK i \in Duplicates(new) : TRUE
          BY <1>2 DEF Admitted
        <4>2. i \in Duplicates(handler[h].new)'
          BY <2>1, <3>1, <3>2, <4>1 DEF Duplicates
        <4> QED
          BY <4>2
      <3>4. \A g \in Handlers \ {h} : handler[g].id # id
        BY <1>1, FeedbackAssumption DEF HandlerOK
      <3>5. HandlerOK(h)'
        BY <1>1, <2>1, <2>3, <3>1, <3>2, <3>3, <3>4 DEF HandlerOK
      <3>6. FeedbackInv'
        BY <2>1, <3>1, <3>4, <3>5, QuietStep
      <3> QED
        BY <2>1, <3>6 DEF Keeps
    <2> QED
      BY <2>2, <2>3
  <1>3. CASE Admitted(new)
    <2>1. /\ row' = [row EXCEPT ![id] = new] /\ announced' = [announced EXCEPT ![id] = new]
          /\ stage' = stage /\ handler' = [handler EXCEPT ![h] = Idle]
      BY <1>3 DEF Store, Enqueued, Finish
    <2>2. /\ row'[id] = new /\ \A i \in Ids \ {id} : row'[i] = row[i]
          /\ \A i \in Ids : announced'[i] = row'[i]
          /\ handler'[h] = Idle /\ \A g \in Handlers \ {h} : handler'[g] = handler[g]
      BY <1>1, <2>1 DEF FeedbackInv, TypeOK, AnnouncedIsRow
    <2>3. Idle \in Handler /\ Idle.id = None /\ Idle.pc = "idle"
      BY DEF Idle, Handler, NoRow, Row, NothingRead
    <2>4. TypeOK'
      BY <1>1, <2>1, <2>3 DEF FeedbackInv, TypeOK
    <2>5. Keeps
      BY <1>1, <2>1, <2>2 DEF Keeps
    <2>6. ASSUME NEW g \in Handlers PROVE HandlerOK(g)'
      <3>1. CASE g = h
        BY <2>2, <2>3, <3>1 DEF HandlerOK
      <3>2. CASE g # h
        <4>1. HandlerOK(g) /\ handler'[g] = handler[g] /\ handler[g] \in Handler
          BY <2>2, <3>2 DEF FeedbackInv, TypeOK
        <4>2. handler[g].id # id
          BY <1>1, <3>2, FeedbackAssumption DEF HandlerOK
        <4>3. handler[g].id # None =>
                /\ row'[handler[g].id] = row[handler[g].id]
                /\ \A f \in Handlers : handler'[f].id = handler[g].id => f = g
          BY <2>2, <2>3, <3>2, <4>1, <4>2 DEF HandlerOK, Handler
        <4> QED
          BY <2>5, <4>1, <4>3, WaitingHandler
      <3> QED
        BY <3>1, <3>2
    <2>7. FeedbackIsEarned'
      <3>1. ASSUME NEW i \in Ids, row'[i].table \in Feedbacks PROVE Earned(row[i])'
        <4>1. Earned(row'[i])
          <5>1. CASE i = id
            <6>1. Earned(new)
              BY <1>1, <2>2, <3>1, <5>1 DEF HandlerOK
            <6> QED
              BY <2>2, <5>1, <6>1
          <5>2. CASE i # id
            BY <2>2, <3>1, <5>2 DEF FeedbackInv, FeedbackIsEarned
          <5> QED
            BY <5>1, <5>2
        <4> QED
          BY <2>1, <4>1 DEF Earned
      <3> QED
        BY <3>1 DEF FeedbackIsEarned
    <2>8. OnePerKey'
      <3>1. ASSUME NEW i \in Ids, row'[i] # NoRow, NEW j \in Duplicates(row[i])' PROVE j = i
        <4>1. j \in Ids /\ row'[j].table = row'[i].table /\ Key(row'[j]) = Key(row'[i])
          BY <3>1 DEF Duplicates, Key
        <4>2. CASE i # id /\ j # id
          <5>1. row[i] # NoRow /\ j \in Duplicates(row[i])
            BY <2>2, <3>1, <4>1, <4>2 DEF Duplicates
          <5> QED
            BY <5>1 DEF FeedbackInv, OnePerKey
        <4>3. CASE i = id /\ j # id
          <5>1. j \in Duplicates(new)
            BY <2>2, <4>1, <4>3 DEF Duplicates
          <5> QED
            BY <1>3, <5>1 DEF Admitted
        <4>4. CASE i # id /\ j = id
          <5>1. i \in Duplicates(new)
            BY <2>2, <4>1, <4>4 DEF Duplicates
          <5> QED
            BY <1>3, <5>1 DEF Admitted
        <4> QED
          BY <4>2, <4>3, <4>4
      <3>2. ASSUME NEW i \in Ids PROVE i \in Duplicates(row[i])'
        BY DEF Duplicates
      <3> QED
        BY <3>1, <3>2 DEF OnePerKey
    <2>9. AnnouncedIsRow'
      BY <2>2 DEF AnnouncedIsRow
    <2> QED
      BY <2>4, <2>5, <2>6, <2>7, <2>8, <2>9 DEF FeedbackInv
  <1> QED
    BY <1>2, <1>3

-----------------------------------------------------------------------------
(* The specification *)

LEMMA InitInv == Init => FeedbackInv
  <1> SUFFICES ASSUME Init PROVE FeedbackInv
    OBVIOUS
  <1>1. /\ stage = [s \in Sessions |-> "NONE"]
        /\ row = [i \in Ids |-> NoRow] /\ announced = row
        /\ handler = [h \in Handlers |-> Idle]
    BY DEF Init, Life!StageInit
  <1>2. NoRow \in Row /\ NoRow.table = "NONE" /\ "NONE" \notin Feedbacks
    BY DEF NoRow, Row, Feedbacks
  <1>3. Idle \in Handler /\ Idle.id = None /\ Idle.pc = "idle"
    BY <1>2 DEF Idle, Handler, NothingRead
  <1>4. TypeOK
    BY <1>1, <1>2, <1>3 DEF TypeOK, Life!Stage
  <1>5. OnePerKey /\ FeedbackIsEarned /\ AnnouncedIsRow
    BY <1>1, <1>2 DEF OnePerKey, FeedbackIsEarned, AnnouncedIsRow
  <1>6. \A h \in Handlers : HandlerOK(h)
    BY <1>1, <1>3 DEF HandlerOK
  <1> QED
    BY <1>4, <1>5, <1>6 DEF FeedbackInv

LEMMA NextInv == FeedbackInv /\ [Next]_vars => FeedbackInv' /\ Keeps
  <1> SUFFICES ASSUME FeedbackInv, [Next]_vars PROVE FeedbackInv' /\ Keeps
    OBVIOUS
  <1>1. CASE UNCHANGED vars
    <2>1. UNCHANGED <<stage, row, announced, handler>>
      BY <1>1 DEF vars
    <2>2. TypeOK' /\ OnePerKey' /\ FeedbackIsEarned' /\ AnnouncedIsRow' /\ Keeps
      BY <2>1 DEF FeedbackInv, TypeOK, OnePerKey, FeedbackIsEarned, AnnouncedIsRow,
                  Duplicates, Earned, Keeps
    <2>3. ASSUME NEW h \in Handlers PROVE HandlerOK(h)'
      <3>1. HandlerOK(h)
        BY DEF FeedbackInv
      <3> QED
        BY <2>1, <2>2, <3>1, WaitingHandler DEF HandlerOK
    <2> QED
      BY <2>2, <2>3 DEF FeedbackInv
  <1>2. CASE SessionStep
    BY <1>2, SessionStepInv
  <1>3. ASSUME NEW h \in Handlers, InsertRating(h) \/ InsertAssessment(h) \/ InsertAward(h)
        PROVE  FeedbackInv' /\ Keeps
    <2>1. handler[h].pc = "insert" /\ Store(h)
      BY <1>3 DEF InsertRating, InsertAssessment, InsertAward
    <2>2. CASE Finish(h)
      BY <2>1, <2>2, StoreInv
    <2>3. CASE ~Finish(h)
      <3>1. /\ handler' = [handler EXCEPT ![h].pc = "reread"]
            /\ ~Admitted(handler[h].new) /\ handler[h].new.table = "BADGE"
        BY <1>3, <2>3 DEF InsertRating, InsertAssessment, InsertAward
      <3> QED
        BY <2>1, <3>1, StoreInv
    <2> QED
      BY <2>2, <2>3
  <1>4. ASSUME NEW h \in Handlers,
               \/ \E i \in Ids, s \in Sessions, user, other \in Users :
                    StartRating(h, i, s, user, other) \/ StartAssessment(h, i, s, user, other)
               \/ \E i \in Ids, user \in Users, badge \in Badges : StartAward(h, i, user, badge)
               \/ \E user \in Users : StartSummary(h, user)
        PROVE  FeedbackInv' /\ Keeps
    <2>1. FeedbackInv'
      BY <1>4, StartRatingInv, StartAssessmentInv, StartAwardInv, StartSummaryInv
    <2>2. UNCHANGED <<stage, row>>
      BY <1>4 DEF StartRating, StartAssessment, StartAward, StartSummary, Begin
    <2> QED
      BY <2>1, <2>2 DEF Keeps
  <1>5. ASSUME NEW h \in Handlers,
               \/ LookRating(h) \/ LookAssessment(h)
               \/ RereadAward(h) \/ AnswerSummary(h) \/ Crash(h)
               \/ \E c \in Counted : ReadCount(h, c)
        PROVE  FeedbackInv' /\ Keeps
    <2>1. UNCHANGED <<stage, row, announced>>
      BY <1>5 DEF LookRating, LookAssessment, Look, RereadAward, AnswerSummary, Crash, ReadCount
    <2>2. CASE LookRating(h) \/ LookAssessment(h)
      BY <2>1, <2>2, LookInv DEF LookRating, LookAssessment, Keeps
    <2>3. CASE RereadAward(h) \/ AnswerSummary(h) \/ Crash(h)
      <3>1. Finish(h)
        BY <2>3 DEF RereadAward, AnswerSummary, Crash
      <3> QED
        BY <2>1, <3>1, FinishInv DEF Keeps
    <2>4. CASE \E c \in Counted : ReadCount(h, c)
      BY <2>1, <2>4, ReadCountInv DEF Keeps
    <2> QED
      BY <1>5, <2>2, <2>3, <2>4
  <1> QED
    BY <1>1, <1>2, <1>3, <1>4, <1>5 DEF Next

\* The inductive invariant holds in every reachable state, for any users, sessions and ids.
THEOREM Invariance == Spec => []FeedbackInv
  <1> QED
    BY InitInv, NextInv, PTL DEF Spec

\* Concurrent requests leave one rating and one assessment per side of a session, and one
\* badge of a kind per user.
THEOREM Uniqueness == Spec => []OnePerKey
  <1>1. FeedbackInv => OnePerKey
    BY DEF FeedbackInv
  <1> QED
    BY <1>1, Invariance, PTL

\* Feedback stands only about one party of a held session, by the other one, whatever the
\* session did between the check and the write.
THEOREM EarnedFeedback == Spec => []FeedbackIsEarned
  <1>1. FeedbackInv => FeedbackIsEarned
    BY DEF FeedbackInv
  <1> QED
    BY <1>1, Invariance, PTL

\* The outbox tells of exactly the rows there are.
THEOREM AgreeingOutbox == Spec => []AnnouncedIsRow
  <1>1. FeedbackInv => AnnouncedIsRow
    BY DEF FeedbackInv
  <1> QED
    BY <1>1, Invariance, PTL

\* An award that the index refuses finds the badge it lost against.
THEOREM AwardAnswered == Spec => []LoserFindsBadge
  <1>1. FeedbackInv => LoserFindsBadge
    BY DEF FeedbackInv, HandlerOK, LoserFindsBadge
  <1> QED
    BY <1>1, Invariance, PTL

-----------------------------------------------------------------------------
(* Reputation *)

\* Two pieces of feedback of one kind on a user are about different sessions.
LEMMA BackedBySessions ==
  ASSUME FeedbackInv, NEW table \in Feedbacks, NEW user \in Users
  PROVE  Count(table, user) <= Count("completed", user)
  <1> DEFINE S == FeedbackOn(table, user)
             T == CompletedWith(user)
             f == [i \in S |-> row[i].session]
  <1>1. ASSUME NEW i \in S
        PROVE  /\ i \in Ids /\ row[i].table = table /\ row[i].about = user
               /\ Earned(row[i])
    BY DEF FeedbackOn, FeedbackInv, FeedbackIsEarned
  <1>2. f \in [S -> T]
    BY <1>1 DEF CompletedWith, Earned
  <1>3. ASSUME NEW i \in S, NEW j \in S, f[i] = f[j] PROVE i = j
    <2>1. row[i].session = row[j].session /\ row[i].by = row[j].by
      BY <1>1, <1>3 DEF Earned
    <2>2. j \in Duplicates(row[i]) /\ row[i] # NoRow
      BY <1>1, <2>1 DEF Duplicates, Key, NoRow, Feedbacks
    <2> QED
      BY <1>1, <2>2 DEF FeedbackInv, OnePerKey
  <1>4. f \in Injection(S, T)
    BY <1>2, <1>3 DEF Injection, IsInjective
  <1>5. IsFiniteSet(T)
    BY CountType
  <1> HIDE DEF S, T, f
  <1>6. Cardinality(S) <= Cardinality(T)
    BY <1>4, <1>5, FS_Injection
  <1> QED
    BY <1>6 DEF S, T, Count, Feedbacks

\* What a summary has read so far is accounted for by the sessions held by now.
SummaryOK(h) ==
  handler[h].pc = "count" =>
    \A table \in Feedbacks : handler[h].count[table] # None =>
      handler[h].count[table] <= Count("completed", handler[h].new.about)

\* Held sessions only become more.
LEMMA CompletedGrows ==
  ASSUME Keeps, NEW user
  PROVE  /\ Count("completed", user) \in Nat /\ Count("completed", user)' \in Nat
         /\ Count("completed", user) <= Count("completed", user)'
  <1>1. CompletedWith(user) \subseteq CompletedWith(user)'
    BY DEF CompletedWith, Keeps
  <1>2. IsFiniteSet(CompletedWith(user)')
    BY FeedbackAssumption, FS_Subset DEF CompletedWith
  <1>3. /\ Cardinality(CompletedWith(user)) <= Cardinality(CompletedWith(user)')
        /\ Cardinality(CompletedWith(user)') \in Nat
    BY <1>1, <1>2, FS_Subset, FS_CardinalityType
  <1>4. Count("completed", user) \in Nat
    BY CountType
  <1> QED
    BY <1>3, <1>4 DEF Count

\* A summary reads one count at a time, or nothing.
LEMMA SummarySteps ==
  ASSUME FeedbackInv, [Next]_vars, NEW h \in Handlers, handler'[h].pc = "count"
  PROVE  \/ \A table \in Feedbacks : handler'[h].count[table] = None
         \/ /\ handler[h].pc = "count" /\ handler'[h].new = handler[h].new
            /\ \A table \in Feedbacks :
                 \/ handler'[h].count[table] = handler[h].count[table]
                 \/ /\ handler'[h].count[table] = Count(table, handler[h].new.about)
                    /\ UNCHANGED <<stage, row>>
  <1> DEFINE Goal ==
         \/ \A table \in Feedbacks : handler'[h].count[table] = None
         \/ /\ handler[h].pc = "count" /\ handler'[h].new = handler[h].new
            /\ \A table \in Feedbacks :
                 \/ handler'[h].count[table] = handler[h].count[table]
                 \/ /\ handler'[h].count[table] = Count(table, handler[h].new.about)
                    /\ UNCHANGED <<stage, row>>
  <1>0. handler \in [Handlers -> Handler]
    BY DEF FeedbackInv, TypeOK
  <1>1. ASSUME UNCHANGED vars \/ SessionStep PROVE Goal
    BY <1>1 DEF vars, SessionStep
  <1>2. ASSUME NEW g \in Handlers, NEW c \in Counted, ReadCount(g, c) PROVE Goal
    <2>1. CASE g = h
      <3> DEFINE n == Count(c, handler[h].new.about)
      <3>1. /\ handler' = [handler EXCEPT ![h].count[c] = n]
            /\ UNCHANGED <<stage, row>> /\ handler[h].pc = "count"
        BY <1>2, <2>1 DEF ReadCount
      <3> HIDE DEF n
      <3>2. /\ handler'[h].new = handler[h].new
            /\ \A table \in Feedbacks :
                 handler'[h].count[table] = IF table = c THEN n ELSE handler[h].count[table]
        BY <1>0, <3>1 DEF Handler, Counted
      <3> QED
        BY <3>1, <3>2 DEF n
    <2>2. CASE g # h
      BY <1>0, <1>2, <2>2 DEF ReadCount
    <2> QED
      BY <2>1, <2>2
  <1>3. ASSUME NEW g \in Handlers, NEW user \in Users, StartSummary(g, user) PROVE Goal
    BY <1>0, <1>3 DEF StartSummary, Idle, NothingRead, Counted
  <1>4. ASSUME NEW g \in Handlers,
               \/ \E i \in Ids, s \in Sessions, user, other \in Users :
                    StartRating(g, i, s, user, other) \/ StartAssessment(g, i, s, user, other)
               \/ \E i \in Ids, user \in Users, badge \in Badges : StartAward(g, i, user, badge)
        PROVE  Goal
    <2>1. PICK new : \E i \in Ids, pc \in {"look", "insert"} : Begin(g, i, pc, new)
      BY <1>4 DEF StartRating, StartAssessment, StartAward
    <2> QED
      BY <1>0, <2>1 DEF Begin, Idle
  <1>5. ASSUME NEW g \in Handlers, Finish(g) PROVE Goal
    BY <1>0, <1>5 DEF Finish, Idle
  <1>6. ASSUME NEW g \in Handlers, NEW pc \in {"insert", "reread"},
               handler' = [handler EXCEPT ![g].pc = pc]
        PROVE  Goal
    BY <1>0, <1>6
  <1>7. ASSUME NEW g \in Handlers,
               \/ LookRating(g) \/ InsertRating(g) \/ LookAssessment(g) \/ InsertAssessment(g)
               \/ InsertAward(g) \/ RereadAward(g) \/ AnswerSummary(g) \/ Crash(g)
        PROVE  Goal
    <2>1. \/ Finish(g)
          \/ \E pc \in {"insert", "reread"} : handler' = [handler EXCEPT ![g].pc = pc]
      BY <1>7 DEF LookRating, InsertRating, LookAssessment, InsertAssessment, Look,
                  InsertAward, RereadAward, AnswerSummary, Crash
    <2> QED
      BY <1>5, <1>6, <2>1
  <1> HIDE DEF Goal
  <1>8. Goal
    <2>1. CASE UNCHANGED vars \/ SessionStep
      BY <1>1, <2>1
    <2>2. CASE Next /\ ~SessionStep
      <3>1. PICK g \in Handlers :
              \/ \E i \in Ids, s \in Sessions, user, other \in Users :
                   StartRating(g, i, s, user, other) \/ StartAssessment(g, i, s, user, other)
              \/ LookRating(g) \/ InsertRating(g)
              \/ LookAssessment(g) \/ InsertAssessment(g)
              \/ \E i \in Ids, user \in Users, badge \in Badges : StartAward(g, i, user, badge)
              \/ InsertAward(g) \/ RereadAward(g)
              \/ \E user \in Users : StartSummary(g, user)
              \/ \E c \in Counted : ReadCount(g, c)
              \/ AnswerSummary(g)
              \/ Crash(g)
        BY <2>2 DEF Next
      <3> QED
        BY <1>2, <1>3, <1>4, <1>7, <3>1
    <2> QED
      BY <2>1, <2>2
  <1> QED
    BY <1>8 DEF Goal

LEMMA SummaryInv ==
  ASSUME FeedbackInv, [Next]_vars, NEW h \in Handlers, SummaryOK(h) PROVE SummaryOK(h)'
  <1> SUFFICES ASSUME handler'[h].pc = "count", NEW table \in Feedbacks,
                      handler'[h].count[table] # None
               PROVE  handler'[h].count[table] <= Count("completed", handler[h].new.about)'
    BY DEF SummaryOK
  <1> DEFINE user == handler[h].new.about
  <1>1. /\ handler[h].pc = "count" /\ handler'[h].new = handler[h].new
        /\ \/ handler'[h].count[table] = handler[h].count[table]
           \/ handler'[h].count[table] = Count(table, user)
    BY SummarySteps
  <1>2. user \in Users /\ handler'[h].new.about = user
    BY <1>1 DEF FeedbackInv, HandlerOK
  <1>3. Keeps
    BY NextInv
  <1>4. handler[h].count[table] # None => handler[h].count[table] \in Nat
    BY DEF FeedbackInv, TypeOK, Handler, Counted
  <1>5. Count(table, user) \in Nat /\ Count(table, user) <= Count("completed", user)
    BY <1>2, BackedBySessions, CountType
  <1>6. /\ Count("completed", user) \in Nat
        /\ Count("completed", user) <= Cardinality({s \in Sessions :
                                         stage'[s] = "COMPLETED" /\ user \in Parties[s]})
        /\ Cardinality({s \in Sessions : stage'[s] = "COMPLETED" /\ user \in Parties[s]}) \in Nat
    BY <1>3, CompletedGrows DEF Count, CompletedWith
  <1> QED
    BY <1>1, <1>2, <1>4, <1>5, <1>6 DEF SummaryOK, Count, CompletedWith

\* Reputation counts no more ratings or assessments of a user than sessions the user held,
\* in the tables and in every number that a summary has read.
THEOREM BackedReputation == Spec => []ReputationIsBacked
  <1> DEFINE I == FeedbackInv /\ \A h \in Handlers : SummaryOK(h)
  <1>1. Init => I
    BY InitInv DEF Init, Idle, SummaryOK
  <1>2. I /\ [Next]_vars => I'
    BY NextInv, SummaryInv
  <1>3. I => ReputationIsBacked
    BY BackedBySessions DEF ReputationIsBacked, SummaryOK
  <1> QED
    BY <1>1, <1>2, <1>3, PTL DEF Spec
=============================================================================
