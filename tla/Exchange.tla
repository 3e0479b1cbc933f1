------------------------------ MODULE Exchange ------------------------------
(***************************************************************************)
(* An exchange from the request to the feedback.  The modules of the API   *)
(* (app.module.ts) share one database: sessions and feedback read the rows *)
(* of the module before them, and each row is written by one module only.  *)
(* Requests, Sessions and Feedback are put together here over one table of *)
(* requests and one of sessions, in place of what each assumes the other   *)
(* tables to do.  The theorems of their proofs then hold of the whole, and *)
(* what is said of a user is traced to the requests the user accepted.     *)
(***************************************************************************)
EXTENDS Naturals, FiniteSets, FiniteSetTheorems, TLAPS

CONSTANTS
  Requests, Users, Skills, SessionIds, Events, Schedules, Badges, Ids,
  Requester, Recipient, \* [Requests -> Users]: who sends the request with this id, and to whom
  Faults,               \* may a process die, a database or Google be unavailable?
  Handlers,             \* the requests each module runs at the same time
  None

ExchangeAssumption ==
  /\ Requester \in [Requests -> Users] /\ Recipient \in [Requests -> Users]
  /\ \A q \in Requests : Requester[q] # Recipient[q]
  /\ Faults \in BOOLEAN
  /\ IsFiniteSet(Requests) /\ IsFiniteSet(Ids)
  /\ None \notin Requests \cup Users \cup Skills \cup SessionIds \cup Events \cup Schedules
                   \cup Badges \cup Ids \cup Nat

VARIABLES
  request, announced, answering,        \* of Requests, with its handlers
  session, reminder, calendar, meeting, \* of Sessions, with its handlers
  feedback, published, rating           \* of Feedback, with its handlers

requestsVars == <<request, announced, answering>>
sessionsVars == <<session, reminder, calendar, meeting>>
feedbackVars == <<feedback, published, rating>>
vars == <<requestsVars, sessionsVars, feedbackVars>>

\* What a module reads of the table of another.
life == [q \in Requests |-> request[q].status]

\* The modules, each with the theorems that were proved about it.
RequestsOf == INSTANCE RequestsProofs WITH handler <- answering
SessionsOf == INSTANCE SessionsProofs WITH row <- session, handler <- meeting

stage == [q \in Requests |-> SessionsOf!StageIn(session, q)]
Parties == [q \in Requests |-> SessionsOf!Party(q)]

FeedbackOf == INSTANCE FeedbackProofs WITH
  Sessions <- Requests, row <- feedback, announced <- published, handler <- rating

-----------------------------------------------------------------------------
Init ==
  /\ RequestsOf!RequestsInit
  /\ SessionsOf!Init
  /\ FeedbackOf!Init

\* Who a request is from and to is fixed with its id.
SentAsNamed ==
  \A h \in Handlers : answering'[h].pc = "insert" =>
    /\ answering'[h].about.from = Requester[answering'[h].q]
    /\ answering'[h].about.to = Recipient[answering'[h].q]

RequestsStep ==
  /\ UNCHANGED <<sessionsVars, feedbackVars>>
  /\ RequestsOf!RequestsNext
  /\ SentAsNamed

SessionsStep ==
  /\ UNCHANGED <<requestsVars, feedbackVars>>
  /\ \E h \in Handlers :
       SessionsOf!Request(h) \/ SessionsOf!HandlerStep(h) \/ SessionsOf!Crash(h)

\* A step of a handler of Feedback, and none of the sessions.
FeedbackStep ==
  /\ UNCHANGED <<requestsVars, sessionsVars>>
  /\ FeedbackOf!Next

Next == RequestsStep \/ SessionsStep \/ FeedbackStep

Spec == Init /\ [][Next]_vars

-----------------------------------------------------------------------------
\* A row of session_requests is between the two that its id names.
AsNamed ==
  /\ \A q \in Requests : request[q].status # "NONE" =>
       request[q].about.from = Requester[q] /\ request[q].about.to = Recipient[q]
  /\ \A h \in Handlers : answering[h].pc = "insert" =>
       /\ answering[h].about.from = Requester[answering[h].q]
       /\ answering[h].about.to = Recipient[answering[h].q]

\* What is said of a user comes of a request that was accepted and of the session that
\* was made of it and held, and is between the two that the request was between.
FeedbackComesOfRequest ==
  \A i \in Ids : feedback[i].table \in {"RATING", "ASSESSMENT"} =>
    LET q == feedback[i].session IN
    /\ request[q].status = "ACCEPTED"
    /\ {feedback[i].by, feedback[i].about} = {request[q].about.from, request[q].about.to}
    /\ \E s \in SessionIds : session[s].request = q /\ session[s].status = "COMPLETED"

\* Nobody is rated, or assessed, more often than requests of theirs were accepted.
AcceptedWith(user) ==
  {q \in Requests : /\ request[q].status = "ACCEPTED"
                    /\ user \in {request[q].about.from, request[q].about.to}}

ReputationComesOfRequests ==
  \A user \in Users, table \in {"RATING", "ASSESSMENT"} :
    Cardinality({i \in Ids : feedback[i].table = table /\ feedback[i].about = user})
      <= Cardinality(AcceptedWith(user))

-----------------------------------------------------------------------------
(* What each module assumes *)

\* The theorems of the modules hold here: what they assume of their constants does.
LEMMA AssumptionsHold ==
  ASSUME ExchangeAssumption
  PROVE  /\ SessionsOf!SessionsAssumption
         /\ FeedbackOf!FeedbackAssumption
  <1>1. SessionsOf!SessionsAssumption
    BY DEF ExchangeAssumption
  <1>2. FeedbackOf!FeedbackAssumption
    <2>1. IsFiniteSet(Requests) <=> FeedbackOf!IsFiniteSet(Requests)
      BY DEF IsFiniteSet, FeedbackOf!IsFiniteSet
    <2>2. IsFiniteSet(Ids) <=> FeedbackOf!IsFiniteSet(Ids)
      BY DEF IsFiniteSet, FeedbackOf!IsFiniteSet
    <2>3. Parties \in [Requests -> SUBSET Users]
      BY DEF ExchangeAssumption, Parties, SessionsOf!Party
    <2>4. \A s \in Requests : \E host, participant \in Users :
             host # participant /\ Parties[s] = {host, participant}
      BY DEF ExchangeAssumption, Parties, SessionsOf!Party
    <2> QED
      BY <2>1, <2>2, <2>3, <2>4 DEF ExchangeAssumption
  <1> QED
    BY <1>1, <1>2

\* Requests runs in the whole as it runs by itself: nothing in sessions or feedback
\* writes session_requests.
THEOREM RunsRequests == Spec => RequestsOf!RequestsSpec
  <1>1. Init => RequestsOf!RequestsInit
    BY DEF Init
  <1>2. [Next]_vars => [RequestsOf!RequestsNext]_(RequestsOf!requestsVars)
    BY DEF Next, vars, requestsVars, RequestsStep, SessionsStep, FeedbackStep, RequestsOf!requestsVars
  <1> QED
    BY <1>1, <1>2, PTL DEF Spec, RequestsOf!RequestsSpec

LEMMA RequestsHold == ASSUME ExchangeAssumption PROVE Spec => []RequestsOf!RequestsInv
  <1>1. RequestsOf!RequestsSpec => []RequestsOf!RequestsInv
    BY AssumptionsHold, RequestsOf!RequestsInvariance
  <1> QED
    BY <1>1, RunsRequests, PTL

\* Sessions, which reads session_requests while the requests module writes it, runs as
\* it runs on any table that keeps RequestLife: what Sessions assumes is what Requests does.
THEOREM RunsSessions == ASSUME ExchangeAssumption PROVE Spec => SessionsOf!Spec
  <1>1. Init => SessionsOf!Init
    BY DEF Init
  <1>2. RequestsOf!RequestsInv /\ [Next]_vars => [SessionsOf!Next]_(SessionsOf!vars)
    <2> SUFFICES ASSUME RequestsOf!RequestsInv, [Next]_vars
                 PROVE  [SessionsOf!Next]_(SessionsOf!vars)
      OBVIOUS
    <2>1. CASE RequestsStep
      <3>1. [RequestsOf!Life!LifeNext]_(RequestsOf!Life!lifeVars)
        BY <2>1, AssumptionsHold, RequestsOf!StepKeepsLife DEF RequestsStep
      <3>2. SessionsOf!LifeNext \/ UNCHANGED life
        BY <3>1 DEF RequestsOf!Life!LifeNext, RequestsOf!Life!lifeVars, RequestsOf!Life!Send,
             RequestsOf!Life!Reply, RequestsOf!Life!Answerable, RequestsOf!Life!Answer,
             SessionsOf!LifeNext, SessionsOf!Send, SessionsOf!Reply, SessionsOf!Answerable,
             SessionsOf!Answer, life
      <3> QED
        BY <2>1, <3>2 DEF RequestsStep, sessionsVars, SessionsOf!Next, SessionsOf!RequestsNext,
             SessionsOf!vars
    <2>2. CASE SessionsStep
      BY <2>2 DEF SessionsStep, SessionsOf!Next
    <2>3. CASE FeedbackStep \/ UNCHANGED vars
      BY <2>3 DEF FeedbackStep, vars, requestsVars, sessionsVars, SessionsOf!vars, life
    <2> QED
      BY <2>1, <2>2, <2>3 DEF Next
  <1> QED
    BY <1>1, <1>2, RequestsHold, PTL DEF Spec, SessionsOf!Spec

LEMMA SessionsHold == ASSUME ExchangeAssumption PROVE Spec => []SessionsOf!SessionsInv
  <1>1. SessionsOf!Spec => []SessionsOf!SessionsInv
    BY AssumptionsHold, SessionsOf!SessionsInvariance
  <1> QED
    BY <1>1, RunsSessions, PTL

\* Feedback, which reads learning_sessions while the sessions module writes it, runs as
\* it runs on any sessions that keep SessionLife: what Feedback assumes is what Sessions does.
THEOREM RunsFeedback == ASSUME ExchangeAssumption PROVE Spec => FeedbackOf!Spec
  <1>1. Init => FeedbackOf!Init
    BY DEF Init
  <1>2. SessionsOf!SessionsInv /\ [SessionsOf!Next]_(SessionsOf!vars) /\ [Next]_vars
          => [FeedbackOf!Next]_(FeedbackOf!vars)
    <2> SUFFICES ASSUME SessionsOf!SessionsInv, [SessionsOf!Next]_(SessionsOf!vars), [Next]_vars
                 PROVE  [FeedbackOf!Next]_(FeedbackOf!vars)
      OBVIOUS
    <2>1. CASE SessionsStep
      <3>1. [SessionsOf!Life!StageNext]_(SessionsOf!Life!stageVars)
        BY AssumptionsHold, SessionsOf!StepKeepsLife
      <3>2. (\E q \in Requests : FeedbackOf!Life!Step(q)) \/ UNCHANGED stage
        BY <3>1 DEF SessionsOf!Life!StageNext, SessionsOf!Life!stageVars, SessionsOf!Life!Step,
             SessionsOf!Life!Forward, FeedbackOf!Life!Step, FeedbackOf!Life!Forward, stage
      <3> QED
        BY <2>1, <3>2 DEF SessionsStep, feedbackVars, FeedbackOf!Next, FeedbackOf!SessionStep,
             FeedbackOf!vars
    <2>2. CASE FeedbackStep
      BY <2>2 DEF FeedbackStep
    <2>3. CASE RequestsStep \/ UNCHANGED vars
      <3>1. UNCHANGED <<session, feedback, published, rating>>
        BY <2>3 DEF RequestsStep, vars, sessionsVars, feedbackVars
      <3>2. UNCHANGED stage
        BY <3>1 DEF stage, SessionsOf!StageIn
      <3> QED
        BY <3>1, <3>2 DEF FeedbackOf!vars
    <2> QED
      BY <2>1, <2>2, <2>3 DEF Next
  <1> QED
    BY <1>1, <1>2, RunsSessions, SessionsHold, PTL DEF Spec, SessionsOf!Spec, FeedbackOf!Spec

-----------------------------------------------------------------------------
(* What holds of the whole *)

\* The invariants of the three modules, and the count behind the summary of a reputation,
\* hold while all three work on one database and their requests interleave.
THEOREM EveryPartIsSafe ==
  ASSUME ExchangeAssumption
  PROVE  Spec => [](/\ RequestsOf!RequestsInv
                    /\ SessionsOf!SessionsInv
                    /\ FeedbackOf!FeedbackInv
                    /\ FeedbackOf!ReputationIsBacked)
  <1>1. /\ FeedbackOf!Spec => []FeedbackOf!FeedbackInv
        /\ FeedbackOf!Spec => []FeedbackOf!ReputationIsBacked
    BY AssumptionsHold, FeedbackOf!Invariance, FeedbackOf!BackedReputation
  <1> QED
    BY <1>1, RequestsHold, SessionsHold, RunsFeedback, PTL

\* A row of session_requests keeps the two users it was sent between: an answer changes
\* the status only.
THEOREM RequestsAreAsNamed == ASSUME ExchangeAssumption PROVE Spec => []AsNamed
  <1>1. Init => AsNamed
    BY DEF Init, AsNamed, RequestsOf!RequestsInit, RequestsOf!NoRequest, RequestsOf!Idle
  <1>2. RequestsOf!RequestsInv /\ AsNamed /\ [Next]_vars => AsNamed'
    <2> SUFFICES ASSUME RequestsOf!RequestsInv, AsNamed, [Next]_vars PROVE AsNamed'
      OBVIOUS
    <2> USE DEF AsNamed
    <2>1. CASE UNCHANGED requestsVars
      BY <2>1 DEF requestsVars
    <2>2. CASE RequestsStep
      <3>1. \A h \in Handlers : answering'[h].pc = "insert" =>
              /\ answering'[h].about.from = Requester[answering'[h].q]
              /\ answering'[h].about.to = Recipient[answering'[h].q]
        BY <2>2 DEF RequestsStep, SentAsNamed
      <3>2. /\ request \in [Requests -> RequestsOf!RequestRow]
            /\ answering \in [Handlers -> RequestsOf!RequestsHandler]
        BY DEF RequestsOf!RequestsInv, RequestsOf!RequestsTypeOK
      <3>3. ASSUME NEW h \in Handlers, RequestsOf!InsertRequest(h), NEW q \in Requests,
                   request'[q].status # "NONE"
            PROVE  request'[q].about.from = Requester[q] /\ request'[q].about.to = Recipient[q]
        <4>1. \/ request'[q] = request[q]
              \/ q = answering[h].q /\ request'[q].about = answering[h].about
          BY <3>2, <3>3 DEF RequestsOf!InsertRequest
        <4>2. answering[h].pc = "insert"
          BY <3>3 DEF RequestsOf!InsertRequest, RequestsOf!At
        <4> QED
          BY <3>3, <4>1, <4>2
      <3>4. ASSUME NEW h \in Handlers, RequestsOf!UpdateRequestStatus(h), NEW q \in Requests,
                   request'[q].status # "NONE"
            PROVE  request'[q].about.from = Requester[q] /\ request'[q].about.to = Recipient[q]
        <4>1. request'[q].about = request[q].about
          <5>1. request[q] \in RequestsOf!RequestRow
            BY <3>2
          <5>2. \/ request' = request
                \/ request' = [request EXCEPT ![answering[h].q].status = answering[h].answer]
            BY <3>4 DEF RequestsOf!UpdateRequestStatus
          <5> QED
            BY <3>2, <5>1, <5>2 DEF RequestsOf!RequestRow
        <4>2. request[q].status # "NONE"
          BY <3>2, <3>4 DEF RequestsOf!UpdateRequestStatus, RequestsOf!StillPending
        <4> QED
          BY <4>1, <4>2
      <3>5. CASE UNCHANGED request
        BY <3>1, <3>5
      <3> QED
        BY <2>2, <3>1, <3>3, <3>4, <3>5 DEF RequestsStep, RequestsOf!RequestsNext,
           RequestsOf!StartCreateRequest, RequestsOf!StartUpdateRequest, RequestsOf!RequestsCrash
    <2> QED
      BY <2>1, <2>2 DEF Next, vars, SessionsStep, FeedbackStep
  <1> QED
    BY <1>1, <1>2, RequestsHold, PTL DEF Spec

\* The session of a request that has one is a row, and the request was accepted.
LEMMA StageIsOfRow ==
  ASSUME SessionsOf!SessionsInv, NEW q \in Requests, stage[q] = "COMPLETED"
  PROVE  /\ request[q].status = "ACCEPTED"
         /\ \E s \in SessionIds : session[s].request = q /\ session[s].status = "COMPLETED"
  <1>1. PICK s \in SessionIds : session[s].request = q /\ session[s].status = "COMPLETED"
    BY DEF stage, SessionsOf!StageIn
  <1>2. life[session[s].request] = "ACCEPTED"
    BY <1>1 DEF SessionsOf!SessionsInv, SessionsOf!OneSessionPerRequest
  <1> QED
    BY <1>1, <1>2 DEF life

\* Who rates or assesses whom: the two of an accepted request whose session was held, and
\* nobody else, however the requests to /requests, /sessions, /ratings and /assessments
\* interleave, fail and are repeated.
THEOREM FeedbackAlwaysComesOfRequest ==
  ASSUME ExchangeAssumption PROVE Spec => []FeedbackComesOfRequest
  <1>1. SessionsOf!SessionsInv /\ FeedbackOf!FeedbackInv /\ AsNamed => FeedbackComesOfRequest
    <2> SUFFICES ASSUME SessionsOf!SessionsInv, FeedbackOf!FeedbackInv, AsNamed,
                        NEW i \in Ids, feedback[i].table \in {"RATING", "ASSESSMENT"}
                 PROVE  LET q == feedback[i].session IN
                        /\ request[q].status = "ACCEPTED"
                        /\ {feedback[i].by, feedback[i].about} =
                              {request[q].about.from, request[q].about.to}
                        /\ \E s \in SessionIds : /\ session[s].request = q
                                                  /\ session[s].status = "COMPLETED"
      BY DEF FeedbackComesOfRequest
    <2> DEFINE q == feedback[i].session
    <2>1. /\ q \in Requests /\ stage[q] = "COMPLETED"
          /\ Parties[q] = {feedback[i].by, feedback[i].about}
      BY DEF FeedbackOf!FeedbackInv, FeedbackOf!FeedbackIsEarned, FeedbackOf!Earned,
             FeedbackOf!Feedbacks
    <2>2. Parties[q] = {Requester[q], Recipient[q]}
      BY <2>1 DEF Parties, SessionsOf!Party
    <2> HIDE DEF q
    <2>3. /\ request[q].status = "ACCEPTED"
          /\ \E s \in SessionIds : session[s].request = q /\ session[s].status = "COMPLETED"
      BY <2>1, StageIsOfRow
    <2>4. request[q].about.from = Requester[q] /\ request[q].about.to = Recipient[q]
      BY <2>1, <2>3 DEF AsNamed
    <2> QED
      BY <2>1, <2>2, <2>3, <2>4 DEF q
  <1> QED
    BY <1>1, EveryPartIsSafe, RequestsAreAsNamed, PTL

\* Nobody has more ratings, or assessments, than accepted requests, however the requests
\* to send, accept, hold and rate interleave.
THEOREM ReputationAlwaysComesOfRequests ==
  ASSUME ExchangeAssumption PROVE Spec => []ReputationComesOfRequests
  <1>1. SessionsOf!SessionsInv /\ FeedbackOf!ReputationIsBacked /\ AsNamed
          => ReputationComesOfRequests
    <2> SUFFICES ASSUME SessionsOf!SessionsInv, FeedbackOf!ReputationIsBacked, AsNamed,
                        NEW user \in Users, NEW table \in {"RATING", "ASSESSMENT"}
                 PROVE  Cardinality({i \in Ids : /\ feedback[i].table = table
                                                 /\ feedback[i].about = user})
                          <= Cardinality(AcceptedWith(user))
      BY DEF ReputationComesOfRequests
    <2> DEFINE said == {i \in Ids : feedback[i].table = table /\ feedback[i].about = user}
               held == {q \in Requests : stage[q] = "COMPLETED" /\ user \in Parties[q]}
    <2>1. FeedbackOf!Cardinality(said) = Cardinality(said)
      BY DEF Cardinality, FeedbackOf!Cardinality
    <2>2. FeedbackOf!Cardinality(held) = Cardinality(held)
      BY DEF Cardinality, FeedbackOf!Cardinality
    <2>3. FeedbackOf!Cardinality(said) <= FeedbackOf!Cardinality(held)
      <3>1. FeedbackOf!Count(table, user) <= FeedbackOf!Count("completed", user)
        BY DEF FeedbackOf!ReputationIsBacked, FeedbackOf!Feedbacks
      <3>2. FeedbackOf!Count(table, user) = FeedbackOf!Cardinality(said)
        BY DEF FeedbackOf!Count, FeedbackOf!FeedbackOn
      <3>3. FeedbackOf!Count("completed", user) = FeedbackOf!Cardinality(held)
        BY DEF FeedbackOf!Count, FeedbackOf!CompletedWith
      <3> QED
        BY <3>1, <3>2, <3>3
    <2>4. held \subseteq AcceptedWith(user)
      <3> SUFFICES ASSUME NEW q \in Requests, stage[q] = "COMPLETED", user \in Parties[q]
                   PROVE  q \in AcceptedWith(user)
        OBVIOUS
      <3>1. request[q].status = "ACCEPTED"
        BY StageIsOfRow
      <3>2. user \in {request[q].about.from, request[q].about.to}
        BY <3>1 DEF AsNamed, Parties, SessionsOf!Party
      <3> QED
        BY <3>1, <3>2 DEF AcceptedWith
    <2>5. Cardinality(held) <= Cardinality(AcceptedWith(user))
          /\ Cardinality(held) \in Nat /\ Cardinality(AcceptedWith(user)) \in Nat
          /\ Cardinality(said) \in Nat
      <3>1. IsFiniteSet(Requests) /\ IsFiniteSet(Ids)
        BY DEF ExchangeAssumption
      <3>2. AcceptedWith(user) \in SUBSET Requests /\ said \in SUBSET Ids
        BY DEF AcceptedWith
      <3>3. IsFiniteSet(AcceptedWith(user)) /\ IsFiniteSet(said)
        BY <3>1, <3>2, FS_Subset
      <3> HIDE DEF held, said
      <3> QED
        BY <2>4, <3>3, FS_Subset, FS_CardinalityType
    <2> HIDE DEF held, said
    <2>6. Cardinality(said) <= Cardinality(AcceptedWith(user))
      BY <2>1, <2>2, <2>3, <2>5
    <2> QED
      BY <2>6 DEF said
  <1> QED
    BY <1>1, EveryPartIsSafe, RequestsAreAsNamed, PTL
=============================================================================
