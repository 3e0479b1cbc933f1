--------------------------- MODULE RequestsProofs ---------------------------
(***************************************************************************)
(* Proofs about Requests, for any sets of ids, users, skills and handlers. *)
(***************************************************************************)
EXTENDS Requests, TLAPS

USE DEF Answer, Active, At, Begin, Goto, Finish, Idle

\* An id that none of the handlers holds is free to be inserted by one of them.
LEMMA InitInv == RequestsInit => RequestsInv
  <1> SUFFICES ASSUME RequestsInit PROVE RequestsInv
    OBVIOUS
  <1>1. RequestsTypeOK
    BY DEF RequestsInit, RequestsTypeOK, RequestRow, NoRequest, RequestsHandler
  <1> QED
    BY <1>1
       DEF RequestsInit, RequestsInv, OneActivePerSubject, AnnouncedIsRow,
           RequestsHandlerOK, NoRequest

\* What every action does to the handlers: one of them changes.
LEMMA StartCreateInv ==
  ASSUME RequestsInv, NEW h \in Handlers, NEW q \in Requests, NEW about \in Subject,
         StartCreateRequest(h, q, about)
  PROVE  RequestsInv'
  <1> DEFINE new == [pc |-> "insert", q |-> q, about |-> about]
  <1>0. new \in RequestsHandler
    BY DEF RequestsHandler
  <1>1. handler' = [handler EXCEPT ![h] = new] /\ request' = request /\ announced' = announced
    BY DEF StartCreateRequest
  <1>2. RequestsTypeOK'
    BY <1>0, <1>1 DEF RequestsInv, RequestsTypeOK
  <1>3. ASSUME NEW g \in Handlers PROVE RequestsHandlerOK(g)'
    <2>1. CASE g = h
      BY <1>1, <2>1 DEF RequestsInv, RequestsTypeOK, RequestsHandlerOK, StartCreateRequest
    <2>2. CASE g # h
      BY <1>1, <2>2 DEF RequestsInv, RequestsTypeOK, RequestsHandlerOK, StartCreateRequest
    <2> QED
      BY <2>1, <2>2
  <1> QED
    BY <1>1, <1>2, <1>3 DEF RequestsInv, OneActivePerSubject, AnnouncedIsRow

\* An update is begun on a request that exists, with an answer.
LEMMA StartUpdateInv ==
  ASSUME RequestsInv, NEW h \in Handlers, NEW q \in Requests, NEW user \in Users,
         NEW answer \in Answer, StartUpdateRequest(h, q, user, answer)
  PROVE  RequestsInv'
  <1> DEFINE new == [pc |-> "answer", q |-> q, answer |-> answer]
  <1>0. new \in RequestsHandler
    BY DEF RequestsHandler
  <1>1. handler' = [handler EXCEPT ![h] = new] /\ request' = request /\ announced' = announced
    BY DEF StartUpdateRequest
  <1>2. RequestsTypeOK'
    BY <1>0, <1>1 DEF RequestsInv, RequestsTypeOK
  <1>3. ASSUME NEW g \in Handlers PROVE RequestsHandlerOK(g)'
    <2>1. CASE g = h
      BY <1>1, <2>1 DEF RequestsInv, RequestsTypeOK, RequestsHandlerOK, StartUpdateRequest
    <2>2. CASE g # h
      BY <1>1, <2>2 DEF RequestsInv, RequestsTypeOK, RequestsHandlerOK, StartUpdateRequest
    <2> QED
      BY <2>1, <2>2
  <1> QED
    BY <1>1, <1>2, <1>3 DEF RequestsInv, OneActivePerSubject, AnnouncedIsRow

\* A handler that ends leaves the others what they rely on.
LEMMA FinishKeeps ==
  ASSUME RequestsInv, NEW h \in Handlers, Finish(h), UNCHANGED <<request, announced>>
  PROVE  RequestsInv'
  <1>1. RequestsTypeOK'
    BY DEF RequestsInv, RequestsTypeOK, RequestsHandler
  <1>2. ASSUME NEW g \in Handlers PROVE RequestsHandlerOK(g)'
    BY DEF RequestsInv, RequestsTypeOK, RequestsHandlerOK
  <1> QED
    BY <1>1, <1>2 DEF RequestsInv, OneActivePerSubject, AnnouncedIsRow

\* The insert makes a PENDING request of an id that had none, if the index admits it.
LEMMA InsertInv ==
  ASSUME RequestsInv, NEW h \in Handlers, InsertRequest(h)
  PROVE  RequestsInv'
  <1> DEFINE q == handler[h].q
             about == handler[h].about
  <1>0. /\ q \in Requests /\ about \in Subject /\ request[q].status = "NONE"
        /\ \A g \in Handlers : (At(g, "insert") /\ handler[g].q = q) => g = h
    BY DEF RequestsInv, RequestsTypeOK, RequestsHandler, RequestsHandlerOK, InsertRequest
  <1>1. CASE RequestAdmitted(about)
    <2>1. /\ request' = [request EXCEPT ![q] = [status |-> "PENDING", about |-> about]]
          /\ announced' = [announced EXCEPT ![q] = @ \cup {"PENDING"}]
          /\ handler' = [handler EXCEPT ![h] = Idle]
      BY <1>1 DEF InsertRequest
    <2>2. [status |-> "PENDING", about |-> about] \in RequestRow /\ Idle \in RequestsHandler
      BY <1>0 DEF RequestRow, RequestsHandler
    <2>3. RequestsTypeOK'
      BY <2>1, <2>2 DEF RequestsInv, RequestsTypeOK
    <2>4. OneActivePerSubject'
      BY <1>0, <1>1, <2>1
         DEF RequestsInv, RequestsTypeOK, OneActivePerSubject, RequestAdmitted, ActiveFor
    <2>5. AnnouncedIsRow'
      BY <1>0, <2>1 DEF RequestsInv, RequestsTypeOK, AnnouncedIsRow
    <2>6. ASSUME NEW g \in Handlers PROVE RequestsHandlerOK(g)'
      BY <1>0, <2>1 DEF RequestsInv, RequestsTypeOK, RequestsHandlerOK
    <2> QED
      BY <2>3, <2>4, <2>5, <2>6 DEF RequestsInv
  <1>2. CASE ~RequestAdmitted(about)
    BY <1>2, FinishKeeps DEF InsertRequest
  <1> QED
    BY <1>1, <1>2

\* The answer is written where the request is still PENDING, or not at all.
LEMMA UpdateStatusInv ==
  ASSUME RequestsInv, NEW h \in Handlers, UpdateRequestStatus(h)
  PROVE  RequestsInv'
  <1> DEFINE q == handler[h].q
             answer == handler[h].answer
  <1>0. q \in Requests /\ answer \in Answer
    BY DEF RequestsInv, RequestsTypeOK, RequestsHandler, RequestsHandlerOK,
       UpdateRequestStatus
  <1>1. CASE StillPending(q)
    <2>1. /\ request' = [request EXCEPT ![q].status = answer]
          /\ announced' = [announced EXCEPT ![q] = @ \cup {answer}]
          /\ handler' = [handler EXCEPT ![h] = Idle]
      BY <1>1 DEF UpdateRequestStatus
    <2>2. [request[q] EXCEPT !.status = answer] \in RequestRow /\ Idle \in RequestsHandler
      BY <1>0 DEF RequestsInv, RequestsTypeOK, RequestRow, RequestsHandler
    <2>3. request' = [request EXCEPT ![q] = [request[q] EXCEPT !.status = answer]]
      BY <1>0, <2>1 DEF RequestsInv, RequestsTypeOK
    <2>4. RequestsTypeOK'
      BY <1>0, <2>1, <2>2, <2>3 DEF RequestsInv, RequestsTypeOK
    <2>5. OneActivePerSubject'
      BY <1>0, <1>1, <2>1
         DEF RequestsInv, RequestsTypeOK, RequestRow, OneActivePerSubject, StillPending
    <2>6. AnnouncedIsRow'
      <3>1. announced[q] = {"PENDING"}
        BY <1>0, <1>1 DEF RequestsInv, AnnouncedIsRow, StillPending
      <3>2. request'[q].status = answer /\ announced'[q] = {"PENDING", answer}
        BY <1>0, <2>1, <3>1 DEF RequestsInv, RequestsTypeOK, RequestRow
      <3>3. \A r \in Requests : r # q => request'[r] = request[r] /\ announced'[r] = announced[r]
        BY <2>1 DEF RequestsInv, RequestsTypeOK
      <3> QED
        BY <1>0, <3>2, <3>3 DEF RequestsInv, AnnouncedIsRow
    <2>7. ASSUME NEW g \in Handlers PROVE RequestsHandlerOK(g)'
      BY <1>0, <1>1, <2>1
         DEF RequestsInv, RequestsTypeOK, RequestRow, RequestsHandlerOK, StillPending
    <2> QED
      BY <2>4, <2>5, <2>6, <2>7 DEF RequestsInv
  <1>2. CASE ~StillPending(q)
    BY <1>2, FinishKeeps DEF UpdateRequestStatus
  <1> QED
    BY <1>1, <1>2

\* RequestsInv is inductive: one lemma for each action.
THEOREM RequestsInvariance == RequestsSpec => []RequestsInv
  <1>1. ASSUME RequestsInv, [RequestsNext]_requestsVars PROVE RequestsInv'
    <2>1. CASE UNCHANGED requestsVars
      BY <1>1, <2>1
         DEF requestsVars, RequestsInv, RequestsTypeOK, OneActivePerSubject,
             AnnouncedIsRow, RequestsHandlerOK
    <2>2. CASE RequestsNext
      BY <1>1, <2>2, StartCreateInv, StartUpdateInv, InsertInv, UpdateStatusInv, FinishKeeps
         DEF RequestsNext, RequestsCrash, Crash
    <2> QED
      BY <1>1, <2>1, <2>2
  <1> QED
    BY <1>1, InitInv, PTL DEF RequestsSpec

\* No interleaving of two creates makes two active requests about one subject.
THEOREM OneActivePerSubjectAlways == RequestsSpec => []OneActivePerSubject
  <1>1. RequestsInv => OneActivePerSubject
    BY DEF RequestsInv
  <1> QED
    BY <1>1, RequestsInvariance, PTL

\* No interleaving of answers announces one that the row does not have.
THEOREM AnnouncedIsRowAlways == RequestsSpec => []AnnouncedIsRow
  <1>1. RequestsInv => AnnouncedIsRow
    BY DEF RequestsInv
  <1> QED
    BY <1>1, RequestsInvariance, PTL

\* A row that changes in one id, from one status to the next, is a step of RequestLife.
LEMMA StatusStep ==
  ASSUME RequestsTypeOK, NEW q \in Requests, NEW row \in RequestRow,
         request' = [request EXCEPT ![q] = row],
         \/ request[q].status = "NONE" /\ row.status = "PENDING"
         \/ request[q].status = "PENDING" /\ row.status \in Answer
  PROVE  Life!LifeNext
  <1> DEFINE status == [r \in Requests |-> request[r].status]
  <1>1. [r \in Requests |-> request'[r].status] = [status EXCEPT ![q] = row.status]
    <2>1. \A r \in Requests : request'[r] = IF r = q THEN row ELSE request[r]
      BY DEF RequestsTypeOK
    <2>2. \A r \in Requests : request'[r].status = IF r = q THEN row.status ELSE status[r]
      BY <2>1
    <2> QED
      BY <2>2
  <1>2. CASE request[q].status = "NONE" /\ row.status = "PENDING"
    BY <1>1, <1>2 DEF Life!LifeNext, Life!Send
  <1>3. CASE request[q].status = "PENDING" /\ row.status \in Answer
    BY <1>1, <1>3 DEF Life!LifeNext, Life!Reply, Life!Answerable, Life!Answer
  <1> QED
    BY <1>2, <1>3

\* Each step is a step of RequestLife or leaves it as it is.
LEMMA StepKeepsLife ==
  ASSUME RequestsInv, [RequestsNext]_requestsVars
  PROVE  [Life!LifeNext]_(Life!lifeVars)
  <1>1. ASSUME UNCHANGED request PROVE UNCHANGED Life!lifeVars
    BY <1>1 DEF Life!lifeVars
  <1>2. ASSUME NEW h \in Handlers, InsertRequest(h), RequestAdmitted(handler[h].about)
        PROVE  Life!LifeNext
    <2>1. handler[h].q \in Requests /\ request[handler[h].q].status = "NONE"
          /\ handler[h].about \in Subject
      BY <1>2
         DEF RequestsInv, RequestsTypeOK, RequestsHandler, RequestsHandlerOK, InsertRequest
    <2>2. [status |-> "PENDING", about |-> handler[h].about] \in RequestRow
      BY <2>1 DEF RequestRow
    <2> QED
      BY <1>2, <2>1, <2>2, StatusStep DEF InsertRequest, RequestsInv
  <1>3. ASSUME NEW h \in Handlers, UpdateRequestStatus(h), StillPending(handler[h].q)
        PROVE  Life!LifeNext
    <2> DEFINE q == handler[h].q
               row == [request[q] EXCEPT !.status = handler[h].answer]
    <2>1. q \in Requests /\ handler[h].answer \in Answer
      BY <1>3
         DEF RequestsInv, RequestsTypeOK, RequestsHandler, RequestsHandlerOK,
             UpdateRequestStatus
    <2>2. row \in RequestRow /\ row.status = handler[h].answer
      BY <2>1 DEF RequestsInv, RequestsTypeOK, RequestRow
    <2>3. request' = [request EXCEPT ![q] = row]
      BY <1>3, <2>1 DEF UpdateRequestStatus, RequestsInv, RequestsTypeOK
    <2> QED
      BY <1>3, <2>1, <2>2, <2>3, StatusStep DEF RequestsInv, StillPending
  <1> QED
    BY <1>1, <1>2, <1>3
       DEF RequestsNext, requestsVars, StartCreateRequest, StartUpdateRequest,
           RequestsCrash, Crash, InsertRequest, UpdateRequestStatus

\* Requests implements what sessions rely on: sent once, answered once, for good.
THEOREM ImplementsLife == RequestsSpec => KeepsLife
  <1>1. RequestsInit => Life!LifeInit
    BY DEF RequestsInit, NoRequest, Life!LifeInit
  <1>2. RequestsInv /\ [RequestsNext]_requestsVars => [Life!LifeNext]_(Life!lifeVars)
    BY StepKeepsLife
  <1> QED
    BY <1>1, <1>2, RequestsInvariance, PTL DEF RequestsSpec, KeepsLife, Life!LifeSpec
=============================================================================
