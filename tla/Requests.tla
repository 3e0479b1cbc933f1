------------------------------ MODULE Requests ------------------------------
(***************************************************************************)
(* The requests module of the API (src/apps/api/src/modules/requests): a   *)
(* user asks another for a session, and one of the two answers.  Requests  *)
(* of the API overlap: between the look for a duplicate and the insert, and *)
(* between the reading of a request and the writing of its answer, another *)
(* handler may run.                                                        *)
(***************************************************************************)
EXTENDS Api

CONSTANT Requests  \* ids of session_requests rows

VARIABLES
  request,   \* [Requests -> session_requests row], status "NONE" when there is none
  announced  \* [Requests -> statuses whose event is in the outbox]

requestsVars == <<request, announced, handler>>

-----------------------------------------------------------------------------
Active == {"PENDING", "ACCEPTED"}
Answer == {"ACCEPTED", "DECLINED", "CANCELLED"}

\* What makes a request a duplicate: who asks whom, for which skill or for none.
Subject == {t \in [from : Users, to : Users, skill : Skills \cup {None}] : t.from # t.to}

RequestRow == [status : {"NONE", "PENDING"} \cup Answer, about : Subject \cup {None}]
NoRequest == [status |-> "NONE", about |-> None]

RequestsHandler ==
  {Idle}
  \cup [pc : {"insert"}, q : Requests, about : Subject]
  \cup [pc : {"answer"}, q : Requests, answer : Answer]

RequestsTypeOK ==
  /\ request \in [Requests -> RequestRow]
  /\ announced \in [Requests -> SUBSET ({"PENDING"} \cup Answer)]
  /\ handler \in [Handlers -> RequestsHandler]

RequestsInit ==
  /\ request = [q \in Requests |-> NoRequest]
  /\ announced = [q \in Requests |-> {}]
  /\ handler = [h \in Handlers |-> Idle]

-----------------------------------------------------------------------------
(* POST /requests: create *)

ActiveFor(about) == {q \in Requests : request[q].status \in Active /\ request[q].about = about}

\* A new id, a recipient other than the requester, and no active duplicate.
StartCreateRequest(h, q, about) ==
  /\ request[q].status = "NONE"
  /\ \A g \in Handlers : At(g, "insert") => handler[g].q # q
  /\ ActiveFor(about) = {}
  /\ Begin(h, [pc |-> "insert", q |-> q, about |-> about])
  /\ UNCHANGED <<request, announced>>

\* The partial unique index on the active requests of a subject, in which no skill
\* counts as a skill.  (Mutation: as an SQL NULL, which is equal to nothing.)
RequestAdmittedNullsDistinct(about) == about.skill = None \/ ActiveFor(about) = {}
RequestAdmitted(about) == ActiveFor(about) = {}

InsertRequest(h) ==
  LET q == handler[h].q IN
  /\ At(h, "insert")
  /\ \/ /\ RequestAdmitted(handler[h].about)
        /\ request' = [request EXCEPT ![q] = [status |-> "PENDING", about |-> handler[h].about]]
        /\ announced' = [announced EXCEPT ![q] = @ \cup {"PENDING"}]
     \/ /\ ~RequestAdmitted(handler[h].about)
        /\ UNCHANGED <<request, announced>>
  /\ Finish(h)

-----------------------------------------------------------------------------
(* PATCH /requests/:id: update *)

\* The requester may cancel; the recipient may accept or decline.
CanTransition(q, user, answer) ==
  IF answer = "CANCELLED" THEN user = request[q].about.from ELSE user = request[q].about.to

StartUpdateRequest(h, q, user, answer) ==
  /\ request[q].status = "PENDING"
  /\ CanTransition(q, user, answer)
  /\ Begin(h, [pc |-> "answer", q |-> q, answer |-> answer])
  /\ UNCHANGED <<request, announced>>

\* updateMany where the request is still PENDING.  (Mutation: where it is this one.)
StillAny(q) == request[q].status # "NONE"
StillPending(q) == request[q].status = "PENDING"

UpdateRequestStatus(h) ==
  LET q == handler[h].q IN
  /\ At(h, "answer")
  /\ \/ /\ StillPending(q)
        /\ request' = [request EXCEPT ![q].status = handler[h].answer]
        /\ announced' = [announced EXCEPT ![q] = @ \cup {handler[h].answer}]
     \/ /\ ~StillPending(q)
        /\ UNCHANGED <<request, announced>>
  /\ Finish(h)

RequestsCrash(h) == Crash(h) /\ UNCHANGED <<request, announced>>

RequestsNext ==
  \E h \in Handlers :
    \/ \E q \in Requests, about \in Subject : StartCreateRequest(h, q, about)
    \/ InsertRequest(h)
    \/ \E q \in Requests, user \in Users, answer \in Answer : StartUpdateRequest(h, q, user, answer)
    \/ UpdateRequestStatus(h)
    \/ RequestsCrash(h)

RequestsSpec == RequestsInit /\ [][RequestsNext]_requestsVars

-----------------------------------------------------------------------------
\* Two users cannot have two active requests from the one to the other about the same
\* skill, or about none, also when both are sent at the same moment.
OneActivePerSubject ==
  \A q, r \in Requests :
    (/\ request[q].status \in Active /\ request[r].status \in Active
     /\ request[q].about = request[r].about) => q = r

\* When requester and recipient answer at the same moment, one answer is announced, and
\* it is the one the row has: nobody is told of an acceptance that did not happen.
AnnouncedIsRow ==
  \A q \in Requests :
    announced[q] = IF request[q].status = "NONE" THEN {} ELSE {"PENDING", request[q].status}

\* What a handler relies on: the id it inserts is its own, the request it answers exists.
RequestsHandlerOK(h) ==
  /\ At(h, "insert") =>
       /\ request[handler[h].q].status = "NONE"
       /\ \A g \in Handlers : (At(g, "insert") /\ handler[g].q = handler[h].q) => g = h
  /\ At(h, "answer") => request[handler[h].q].status # "NONE"

\* The inductive invariant: the types, one active request per subject, outbox events
\* that agree with the rows, and what each handler relies on since it read.
RequestsInv ==
  /\ RequestsTypeOK
  /\ OneActivePerSubject
  /\ AnnouncedIsRow
  /\ \A h \in Handlers : RequestsHandlerOK(h)

\* What sessions rely on (RequestLife): sent once, answered at most once, and for good.
Life == INSTANCE RequestLife WITH life <- [q \in Requests |-> request[q].status]

KeepsLife == Life!LifeSpec
=============================================================================
