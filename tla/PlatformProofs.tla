--------------------------- MODULE PlatformProofs ---------------------------
(***************************************************************************)
(* Proofs about the components of MCPlatform, each by itself:              *)
(*   - Auth, for any sets of requests, users, mailboxes and tokens, and    *)
(*     Connection, for any sets of requests and flows;                     *)
(*   - Profiles, for any sets of requests, users, ids and texts;           *)
(*   - the outbox with the reports that are written with it, for any sets  *)
(*     of requests, people and events;                                     *)
(*   - Growth, for any number of requests and rows;                        *)
(*   - Matching, for any finite sets of members and topics, any number of  *)
(*     requests and pages of any size.                                     *)
(* The pages of the browser have a module of their own, BrowsingProofs.    *)
(***************************************************************************)
EXTENDS Auth, Connection, Growth, Profiles, Reports, Matching,
        FiniteSetTheorems, SequenceTheorems, WellFoundedInduction, TLAPS

-----------------------------------------------------------------------------
(* Auth: what every step leaves true *)

\* An account keeps its address and, once suspended, is so for good; a session keeps its
\* user, and what has ended it.
AccountsKeep ==
  /\ \A u \in Users : Exists(u) =>
       /\ account'[u].email = account[u].email /\ Exists(u)'
       /\ account[u].status = "SUSPENDED" => account'[u].status = "SUSPENDED"
  /\ \A t \in Tokens : session[t].user # None =>
       /\ session'[t].user = session[t].user
       /\ session[t].revoked => session'[t].revoked
       /\ session[t].expired => session'[t].expired

\* A session that is over stays so.
LEMMA OverStays ==
  ASSUME AuthInv, AccountsKeep, NEW t \in Tokens, session[t].user # None, Over(t)
  PROVE  Over(t)'
  <1>1. session[t].user \in Users /\ Exists(session[t].user)
    BY DEF AuthInv, AuthTypeOK, Session
  <1> QED
    BY <1>1 DEF AccountsKeep, Over

\* A handler that waits relies on nothing that others take away, unless they make the
\* account it is about to make.
LEMMA WaitingHandler ==
  ASSUME AuthInv, AccountsKeep, NEW h \in Handlers, handler'[h] = handler[h],
         At(h, "insert") =>
           /\ ~Exists(handler[h].user)'
           /\ \A g \in Handlers \ {h} :
                At(g, "insert")' => handler'[g].user # handler[h].user
  PROVE  AuthHandlerOK(h)'
  <1> USE DEF At
  <1>1. AuthHandlerOK(h) /\ handler[h] \in AuthHandler
    BY DEF AuthInv, AuthTypeOK
  <1>2. At(h, "insert") => handler[h].email.lower
    BY <1>1 DEF AuthHandlerOK
  <1>3. handler[h].pc \in {"sent", "authenticate", "serve", "logout"} =>
          /\ session'[handler[h].token].user # None
          /\ handler[h].late => Over(handler[h].token)'
    <2> SUFFICES ASSUME handler[h].pc \in {"sent", "authenticate", "serve", "logout"}
                 PROVE  /\ session'[handler[h].token].user # None
                        /\ handler[h].late => Over(handler[h].token)'
      OBVIOUS
    <2>1. handler[h].token \in Tokens
      BY <1>1 DEF AuthHandler, Idle
    <2>2. /\ session[handler[h].token].user # None
          /\ handler[h].late => Over(handler[h].token)
      BY <1>1 DEF AuthHandlerOK
    <2> QED
      BY <2>1, <2>2, OverStays DEF AccountsKeep
  <1>4. At(h, "open") => Exists(handler[h].user)'
    <2> SUFFICES ASSUME At(h, "open") PROVE Exists(handler[h].user)'
      OBVIOUS
    <2>1. handler[h].user \in Users
      BY <1>1 DEF AuthHandler, Idle
    <2> QED
      BY <1>1, <2>1 DEF AuthHandlerOK, AccountsKeep
  <1>5. At(h, "verify") /\ handler[h].user # None => Exists(handler[h].user)'
    <2> SUFFICES ASSUME At(h, "verify"), handler[h].user # None PROVE Exists(handler[h].user)'
      OBVIOUS
    <2>1. handler[h].user \in Users
      BY <1>1 DEF AuthHandler, Idle
    <2> QED
      BY <1>1, <2>1 DEF AuthHandlerOK, AccountsKeep
  <1> QED
    BY <1>2, <1>3, <1>4, <1>5 DEF AuthHandlerOK

\* After a step of one handler the others are in order, if it is and if it made none of
\* the accounts they are about to make.
LEMMA AuthHandlersOK ==
  ASSUME AuthInv, AccountsKeep, NEW h \in Handlers, NEW next \in AuthHandler,
         handler' = [handler EXCEPT ![h] = next],
         \A g \in Handlers \ {h} : At(g, "insert") => ~Exists(handler[g].user)',
         AuthHandlerOK(h)'
  PROVE  \A g \in Handlers : AuthHandlerOK(g)'
  <1>1. /\ handler'[h] = next
        /\ \A g \in Handlers \ {h} : handler'[g] = handler[g]
    BY DEF AuthInv, AuthTypeOK
  <1> SUFFICES ASSUME NEW g \in Handlers \ {h} PROVE AuthHandlerOK(g)'
    OBVIOUS
  <1>2. ASSUME At(g, "insert"), NEW f \in Handlers \ {g}, At(f, "insert")'
        PROVE  handler'[f].user # handler[g].user
    <2>1. CASE f = h
      BY <1>1, <1>2, <2>1 DEF AuthHandlerOK, At
    <2>2. CASE f # h
      BY <1>1, <1>2, <2>2 DEF AuthInv, AuthHandlerOK, At
    <2> QED
      BY <2>1, <2>2
  <1> QED
    BY <1>1, <1>2, WaitingHandler

\* A step of one handler that makes no account and opens or ends no session.
LEMMA AuthQuietStep ==
  ASSUME AuthInv, NEW h \in Handlers, NEW next \in AuthHandler,
         handler' = [handler EXCEPT ![h] = next],
         UNCHANGED <<account, session>>, CookiesOK',
         taken' \in SUBSET Emails, TakenHasAccount', AuthHandlerOK(h)',
         next.pc \in {"serve", "logout"} => ~next.late
  PROVE  AuthInv'
  <1>1. AccountsKeep
    BY DEF AccountsKeep, Exists
  <1>2. \A g \in Handlers \ {h} : At(g, "insert") => ~Exists(handler[g].user)'
    BY DEF AuthInv, AuthHandlerOK, Exists
  <1>3. \A g \in Handlers : AuthHandlerOK(g)'
    BY <1>1, <1>2, AuthHandlersOK
  <1>4. AuthTypeOK'
    BY DEF AuthInv, AuthTypeOK, CookiesOK
  <1>5. NothingServedLate'
    BY DEF AuthInv, AuthTypeOK, NothingServedLate
  <1> QED
    BY <1>3, <1>4, <1>5 DEF AuthInv, OneAccountPerMailbox, Exists

\* A handler may end at any time.
LEMMA AuthEnds ==
  ASSUME AuthInv, NEW h \in Handlers, Finish(h), UNCHANGED <<account, session>>,
         CookiesOK', taken' \in SUBSET Emails, TakenHasAccount'
  PROVE  AuthInv'
  <1>1. Idle \in AuthHandler /\ Idle.pc = "idle"
    BY DEF Idle, AuthHandler
  <1>2. handler' = [handler EXCEPT ![h] = Idle] /\ handler'[h] = Idle
    BY DEF Finish, Goto, AuthInv, AuthTypeOK
  <1>3. AuthHandlerOK(h)'
    BY <1>1, <1>2 DEF AuthHandlerOK, At
  <1> QED
    BY <1>1, <1>2, <1>3, AuthQuietStep

-----------------------------------------------------------------------------
(* The steps *)

LEMMA StartRegisterInv ==
  ASSUME AuthInv, NEW h \in Handlers, NEW typed \in Spelling, NEW u \in Users,
         StartRegister(h, typed, u)
  PROVE  AuthInv'
  <1> DEFINE email == NormalizeEmail(typed)
  <1>1. email \in Spelling /\ email.lower
    BY DEF NormalizeEmail, Spelling
  <1>2. ~Exists(u) /\ \A g \in Handlers : At(g, "insert") => handler[g].user # u
    BY DEF StartRegister, Unused
  <1>3. CASE FindByEmail(email) # {} /\ taken' = taken \cup {email.mailbox} /\ UNCHANGED handler
    <2>1. PICK v \in Users : Exists(v) /\ account[v].email = email
      BY <1>3 DEF FindByEmail
    <2>2. TakenHasAccount' /\ taken' \in SUBSET Emails
      BY <1>1, <1>3, <2>1 DEF StartRegister, AuthInv, AuthTypeOK, TakenHasAccount, Exists, Spelling
    <2>3. UNCHANGED <<account, session, cookie, handler>>
      BY <1>3 DEF StartRegister
    <2> QED
      BY <2>2, <2>3 DEF AuthInv, AuthTypeOK, OneAccountPerMailbox, NothingServedLate,
                        AuthHandlerOK, CookiesOK, Exists, At, Over
  <1>4. CASE Begin(h, [pc |-> "insert", user |-> u, email |-> email]) /\ UNCHANGED taken
    <2> DEFINE next == [pc |-> "insert", user |-> u, email |-> email]
    <2>1. next \in AuthHandler /\ next.pc = "insert"
      BY <1>1 DEF AuthHandler
    <2>2. handler' = [handler EXCEPT ![h] = next] /\ UNCHANGED <<account, session, cookie, taken>>
      BY <1>4 DEF Begin, Goto, StartRegister
    <2>3. handler'[h] = next /\ \A g \in Handlers \ {h} : handler'[g] = handler[g]
      BY <2>2 DEF AuthInv, AuthTypeOK
    <2>4. AuthHandlerOK(h)'
      BY <1>1, <1>2, <2>2, <2>3 DEF AuthHandlerOK, At, Exists
    <2>5. TakenHasAccount' /\ CookiesOK' /\ taken' \in SUBSET Emails
      BY <2>2 DEF AuthInv, AuthTypeOK, CookiesOK, TakenHasAccount, Exists
    <2> QED
      BY <2>1, <2>2, <2>4, <2>5, AuthQuietStep
  <1> QED
    BY <1>3, <1>4 DEF StartRegister

LEMMA InsertUserInv ==
  ASSUME AuthInv, NEW h \in Handlers, InsertUser(h)
  PROVE  AuthInv'
  <1>1. PICK u \in Users, email \in Spelling :
          handler[h] = [pc |-> "insert", user |-> u, email |-> email]
    <2>1. handler[h] \in [pc : {"insert"}, user : Users, email : Spelling]
      BY DEF InsertUser, At, AuthInv, AuthTypeOK, AuthHandler, Idle
    <2> QED
      BY <2>1
  <1>2. /\ ~Exists(u)
        /\ \A g \in Handlers : (At(g, "insert") /\ handler[g].user = u) => g = h
    BY <1>1 DEF InsertUser, AuthInv, AuthHandlerOK
  <1>3. UNCHANGED <<session, cookie>>
    BY DEF InsertUser
  <1>4. CASE /\ Vacant(email) /\ email.lower /\ UNCHANGED taken
             /\ account' = [account EXCEPT ![u] = [email |-> email, status |-> "ACTIVE"]]
             /\ Goto(h, [pc |-> "open", user |-> u])
    <2> DEFINE next == [pc |-> "open", user |-> u]
    <2>1. next \in AuthHandler /\ next.pc = "open"
      BY <1>1 DEF AuthHandler
    <2>2. handler' = [handler EXCEPT ![h] = next] /\ handler'[h] = next
      BY <1>4 DEF Goto, AuthInv, AuthTypeOK
    <2>3. /\ account'[u] = [email |-> email, status |-> "ACTIVE"]
          /\ \A v \in Users \ {u} : account'[v] = account[v]
      BY <1>1, <1>4 DEF AuthInv, AuthTypeOK
    <2>4. /\ Exists(u)'
          /\ \A v \in Users \ {u} : Exists(v)' <=> Exists(v)
      BY <2>3 DEF Exists
    <2>5. AccountsKeep
      BY <1>1, <1>2, <1>3, <2>3, <2>4 DEF AccountsKeep, Exists
    <2>6. \A g \in Handlers \ {h} : At(g, "insert") => ~Exists(handler[g].user)'
      <3> SUFFICES ASSUME NEW g \in Handlers \ {h}, At(g, "insert")
                   PROVE  ~Exists(handler[g].user)'
        OBVIOUS
      <3>1. PICK v \in Users : v = handler[g].user
        BY DEF At, AuthInv, AuthTypeOK, AuthHandler, Idle
      <3>2. v # u /\ ~Exists(v)
        BY <1>2, <3>1 DEF AuthInv, AuthHandlerOK
      <3>3. handler'[g].user = v
        BY <2>2, <3>1 DEF AuthInv, AuthTypeOK
      <3> QED
        BY <2>4, <3>2, <3>3 DEF Exists
    <2>7. AuthHandlerOK(h)'
      BY <2>2, <2>4 DEF AuthHandlerOK, At
    <2>8. \A g \in Handlers : AuthHandlerOK(g)'
      BY <2>1, <2>2, <2>5, <2>6, <2>7, AuthHandlersOK
    <2>9. AuthTypeOK'
      <3>1. [email |-> email, status |-> "ACTIVE"] \in Account
        BY <1>1 DEF Account
      <3> QED
        BY <1>1, <1>3, <1>4, <2>1, <2>2, <3>1 DEF AuthInv, AuthTypeOK
    <2>10. \A v \in Users : Exists(v)' => account'[v].email.lower
      BY <1>1, <1>4, <2>3, <2>4 DEF AuthInv
    <2>11. \A t \in Tokens : session'[t].user # None => Exists(session[t].user)'
      BY <1>1, <1>3, <2>4 DEF AuthInv, AuthTypeOK, Session, Exists
    <2>12. OneAccountPerMailbox'
      <3>1. \A v \in Users : Exists(v) => account[v].email # email
        BY <1>4 DEF Vacant, FindByEmail
      <3>2. \A v \in Users : Exists(v) => account[v].email \in Spelling
        BY DEF AuthInv, AuthTypeOK, Account, Exists, NoAccount
      <3>3. \A v \in Users : Exists(v) => account[v].email.mailbox # email.mailbox
        BY <1>1, <1>4, <3>1, <3>2 DEF AuthInv, Spelling
      <3> QED
        BY <1>1, <2>3, <2>4, <3>3 DEF AuthInv, OneAccountPerMailbox
    <2>13. TakenHasAccount'
      BY <1>1, <1>2, <1>4, <2>3, <2>4 DEF AuthInv, TakenHasAccount
    <2>14. NothingServedLate' /\ CookiesOK'
      BY <1>3, <2>1, <2>2 DEF AuthInv, AuthTypeOK, NothingServedLate, CookiesOK
    <2> QED
      BY <2>8, <2>9, <2>10, <2>11, <2>12, <2>13, <2>14 DEF AuthInv
  <1>5. CASE taken' = taken \cup TakenOnError(email) /\ Finish(h) /\ UNCHANGED account
    <2>1. TakenHasAccount'
      <3>1. \A e \in TakenOnError(email) :
              \E v \in Users : Exists(v) /\ account[v].email.mailbox = e
        BY DEF TakenOnError, Vacant, FindByEmail
      <3> QED
        BY <1>5, <3>1 DEF AuthInv, TakenHasAccount, Exists
    <2>2. taken' \in SUBSET Emails
      BY <1>1, <1>5 DEF TakenOnError, AuthInv, AuthTypeOK, Spelling
    <2>3. CookiesOK'
      BY <1>3 DEF AuthInv, CookiesOK
    <2> QED
      BY <1>3, <1>5, <2>1, <2>2, <2>3, AuthEnds
  <1> QED
    BY <1>1, <1>4, <1>5 DEF InsertUser

LEMMA OpenSessionInv ==
  ASSUME AuthInv, NEW h \in Handlers, NEW b \in Browsers, NEW t \in Tokens, OpenSession(h, b, t)
  PROVE  AuthInv'
  <1>1. PICK u \in Users : handler[h].user = u /\ Exists(u)
    BY DEF OpenSession, At, AuthInv, AuthTypeOK, AuthHandler, Idle, AuthHandlerOK
  <1>2. SessionOf(u) \in Session /\ SessionOf(u).user = u
    BY DEF SessionOf, NoSession, Session
  <1>3. session[t].user = None /\ UNCHANGED <<account, taken>>
    BY DEF OpenSession, NoSession
  <1>4. /\ session'[t] = SessionOf(u)
        /\ \A s \in Tokens \ {t} : session'[s] = session[s]
    BY <1>1 DEF OpenSession, AuthInv, AuthTypeOK
  <1>5. AccountsKeep
    BY <1>3, <1>4 DEF AccountsKeep, Exists
  <1>6. /\ Idle \in AuthHandler /\ Idle.pc = "idle"
        /\ handler' = [handler EXCEPT ![h] = Idle] /\ handler'[h] = Idle
    BY DEF Idle, AuthHandler, OpenSession, Finish, Goto, AuthInv, AuthTypeOK
  <1>7. \A g \in Handlers : AuthHandlerOK(g)'
    <2>1. AuthHandlerOK(h)'
      BY <1>6 DEF AuthHandlerOK, At
    <2>2. \A g \in Handlers \ {h} : At(g, "insert") => ~Exists(handler[g].user)'
      BY <1>3, <1>6 DEF AuthInv, AuthTypeOK, AuthHandlerOK, Exists
    <2> QED
      BY <1>5, <1>6, <2>1, <2>2, AuthHandlersOK
  <1>8. AuthTypeOK'
    <2>1. cookie' \in [Browsers -> Tokens \cup {None}]
      BY DEF OpenSession, SetCookie, AuthInv, AuthTypeOK
    <2>3. session' \in [Tokens -> Session]
      BY <1>1, <1>2 DEF OpenSession, AuthInv, AuthTypeOK
    <2> QED
      BY <1>3, <1>6, <2>1, <2>3 DEF AuthInv, AuthTypeOK
  <1>9. \A s \in Tokens : session'[s].user # None => Exists(session[s].user)'
    BY <1>1, <1>2, <1>3, <1>4 DEF AuthInv, Exists
  <1>10. NothingServedLate'
    BY <1>6 DEF AuthInv, AuthTypeOK, NothingServedLate
  <1>11. CookiesOK'
    <2>1. \A c \in Browsers : cookie'[c] = cookie[c] \/ cookie'[c] = t
      BY DEF OpenSession, SetCookie, AuthInv, AuthTypeOK
    <2>2. u # None
      BY <1>1, AuthAssumption
    <2> QED
      BY <1>2, <1>4, <1>8, <2>1, <2>2 DEF AuthInv, AuthTypeOK, CookiesOK
  <1> QED
    BY <1>3, <1>7, <1>8, <1>9, <1>10, <1>11
       DEF AuthInv, OneAccountPerMailbox, TakenHasAccount, Exists

LEMMA StartLoginInv ==
  ASSUME AuthInv, NEW h \in Handlers, NEW typed \in Spelling, StartLogin(h, typed)
  PROVE  AuthInv'
  <1> DEFINE found == FindByEmail(NormalizeEmail(typed))
  <1>1. PICK u \in Users \cup {None}, suspended \in BOOLEAN :
          /\ u # None => Exists(u)
          /\ Begin(h, [pc |-> "verify", user |-> u, suspended |-> suspended])
    <2>1. CASE Begin(h, [pc |-> "verify", user |-> None, suspended |-> FALSE])
      BY <2>1
    <2>2. ASSUME NEW u \in found,
                 Begin(h, [pc |-> "verify", user |-> u, suspended |-> account[u].status = "SUSPENDED"])
          PROVE  \E v \in Users \cup {None}, suspended \in BOOLEAN :
                   /\ v # None => Exists(v)
                   /\ Begin(h, [pc |-> "verify", user |-> v, suspended |-> suspended])
      <3>1. u \in Users /\ Exists(u)
        BY <2>2 DEF FindByEmail
      <3>2. (account[u].status = "SUSPENDED") \in BOOLEAN
        OBVIOUS
      <3> QED
        BY <2>2, <3>1, <3>2
    <2> QED
      BY <2>1, <2>2 DEF StartLogin
  <1> DEFINE next == [pc |-> "verify", user |-> u, suspended |-> suspended]
  <1>2. next \in AuthHandler /\ next.pc = "verify"
    BY DEF AuthHandler
  <1>3. handler' = [handler EXCEPT ![h] = next] /\ handler'[h] = next
    BY <1>1 DEF Begin, Goto, AuthInv, AuthTypeOK
  <1>4. UNCHANGED <<account, session, cookie, taken>>
    BY DEF StartLogin
  <1>5. AuthHandlerOK(h)'
    BY <1>1, <1>3, <1>4 DEF AuthHandlerOK, At, Exists
  <1>6. TakenHasAccount' /\ CookiesOK' /\ taken' \in SUBSET Emails
    BY <1>4 DEF AuthInv, AuthTypeOK, CookiesOK, TakenHasAccount, Exists
  <1> QED
    BY <1>2, <1>3, <1>4, <1>5, <1>6, AuthQuietStep

LEMMA VerifyPasswordInv ==
  ASSUME AuthInv, NEW h \in Handlers, VerifyPassword(h)
  PROVE  AuthInv'
  <1>1. UNCHANGED <<account, session, cookie, taken>>
    BY DEF VerifyPassword
  <1>2. TakenHasAccount' /\ CookiesOK' /\ taken' \in SUBSET Emails
    BY <1>1 DEF AuthInv, AuthTypeOK, CookiesOK, TakenHasAccount, Exists
  <1>3. CASE handler[h].user # None /\ Goto(h, [pc |-> "open", user |-> handler[h].user])
    <2>1. PICK u \in Users : handler[h].user = u /\ Exists(u)
      BY <1>3 DEF VerifyPassword, At, AuthInv, AuthTypeOK, AuthHandler, Idle, AuthHandlerOK
    <2> DEFINE next == [pc |-> "open", user |-> u]
    <2>2. next \in AuthHandler /\ next.pc = "open"
      BY DEF AuthHandler
    <2>3. handler' = [handler EXCEPT ![h] = next] /\ handler'[h] = next
      BY <1>3, <2>1 DEF Goto, AuthInv, AuthTypeOK
    <2>4. AuthHandlerOK(h)'
      BY <1>1, <2>1, <2>3 DEF AuthHandlerOK, At, Exists
    <2> QED
      BY <1>1, <1>2, <2>2, <2>3, <2>4, AuthQuietStep
  <1>4. CASE Finish(h)
    BY <1>1, <1>2, <1>4, AuthEnds
  <1> QED
    BY <1>3, <1>4 DEF VerifyPassword

-----------------------------------------------------------------------------
(* The guard and what is behind it *)

\* What a browser has is the token of a session.
LEMMA SendRequestInv ==
  ASSUME AuthInv, NEW h \in Handlers, NEW b \in Browsers, SendRequest(h, b)
  PROVE  AuthInv'
  <1> DEFINE next == [pc |-> "sent", browser |-> b, token |-> cookie[b], late |-> FALSE]
  <1>1. /\ cookie[b] \in Tokens /\ session[cookie[b]].user # None
        /\ UNCHANGED <<account, session, cookie, taken>>
    BY DEF SendRequest, AuthInv, CookiesOK
  <1>2. next \in AuthHandler /\ next.pc = "sent" /\ ~next.late
    BY <1>1 DEF AuthHandler
  <1>3. handler' = [handler EXCEPT ![h] = next] /\ handler'[h] = next
    BY DEF SendRequest, Begin, Goto, AuthInv, AuthTypeOK
  <1>4. AuthHandlerOK(h)'
    BY <1>1, <1>3 DEF AuthHandlerOK, At
  <1>5. TakenHasAccount' /\ CookiesOK' /\ taken' \in SUBSET Emails
    BY <1>1 DEF AuthInv, AuthTypeOK, CookiesOK, TakenHasAccount, Exists
  <1> QED
    BY <1>1, <1>2, <1>3, <1>4, <1>5, AuthQuietStep

LEMMA ArriveInv ==
  ASSUME AuthInv, NEW h \in Handlers, Arrive(h)
  PROVE  AuthInv'
  <1> DEFINE t == handler[h].token
  <1>1. handler[h] \in [pc : {"sent"}, browser : Browsers, token : Tokens, late : BOOLEAN]
    BY DEF Arrive, At, AuthInv, AuthTypeOK, AuthHandler, Idle
  <1>2. session[t].user # None /\ UNCHANGED <<account, session, cookie, taken>>
    BY <1>1 DEF Arrive, AuthInv, AuthHandlerOK
  <1>3. PICK late \in BOOLEAN : late = Over(t)
    BY DEF Over
  <1> DEFINE next == [handler[h] EXCEPT !.pc = "authenticate", !.late = late]
  <1>4. /\ next \in AuthHandler /\ next.pc = "authenticate"
        /\ next.token = t /\ next.late = late
    <2>1. next.pc = "authenticate" /\ next.token = t
      BY <1>1
    <2>2. next.late = late
      BY <1>1
    <2>3. next \in [pc : {"sent", "authenticate", "serve", "logout"}, browser : Browsers,
                    token : Tokens, late : BOOLEAN]
      BY <1>1
    <2> QED
      BY <2>1, <2>2, <2>3 DEF AuthHandler
  <1>6. handler' = [handler EXCEPT ![h] = next] /\ handler'[h] = next
    <2>1. handler' = [handler EXCEPT ![h] = next]
      BY <1>3, Zenon DEF Arrive, Goto
    <2> QED
      BY <2>1 DEF AuthInv, AuthTypeOK
  <1>7. AuthHandlerOK(h)'
    <2>1. handler'[h].token = t /\ handler'[h].late = late /\ session'[t].user # None
      BY <1>2, <1>4, <1>6
    <2>2. handler'[h].late => Over(handler[h].token)'
      BY <1>2, <1>3, <2>1 DEF Over
    <2> QED
      BY <1>4, <1>6, <2>1, <2>2 DEF AuthHandlerOK, At
  <1>8. TakenHasAccount' /\ CookiesOK' /\ taken' \in SUBSET Emails
    BY <1>2 DEF AuthInv, AuthTypeOK, CookiesOK, TakenHasAccount, Exists
  <1> QED
    BY <1>2, <1>4, <1>6, <1>7, <1>8, AuthQuietStep

\* What the guard honours was not over when it came.
LEMMA AuthenticateInv ==
  ASSUME AuthInv, NEW h \in Handlers, NEW route \in {"serve", "logout"},
         Authenticate(h, route)
  PROVE  AuthInv'
  <1>1. UNCHANGED <<account, session, cookie, taken>>
    BY DEF Authenticate
  <1>2. TakenHasAccount' /\ CookiesOK' /\ taken' \in SUBSET Emails
    BY <1>1 DEF AuthInv, AuthTypeOK, CookiesOK, TakenHasAccount, Exists
  <1>3. CASE Honoured(handler[h].token) /\ Continue(h, route)
    <2>1. PICK b \in Browsers, t \in Tokens, late \in BOOLEAN :
            handler[h] = [pc |-> "authenticate", browser |-> b, token |-> t, late |-> late]
      BY DEF Authenticate, At, AuthInv, AuthTypeOK, AuthHandler, Idle
    <2> DEFINE next == [handler[h] EXCEPT !.pc = route]
    <2>2. next \in AuthHandler /\ next.pc = route /\ next.token = t /\ next.late = late
      BY <2>1 DEF AuthHandler
    <2>3. handler' = [handler EXCEPT ![h] = next] /\ handler'[h] = next
      BY <1>3 DEF Continue, AuthInv, AuthTypeOK
    <2>4. session[t].user # None /\ (late => Over(t))
      BY <2>1 DEF AuthInv, AuthHandlerOK
    <2>5. ~late
      BY <1>3, <2>1, <2>4 DEF Honoured, Over
    <2>6. AuthHandlerOK(h)'
      BY <1>1, <2>2, <2>3, <2>4, <2>5 DEF AuthHandlerOK, At
    <2> QED
      BY <1>1, <1>2, <2>2, <2>3, <2>5, <2>6, AuthQuietStep
  <1>4. CASE Finish(h)
    BY <1>1, <1>2, <1>4, AuthEnds
  <1> QED
    BY <1>3, <1>4 DEF Authenticate

\* When a session ends or an account is suspended, and nothing else of them changes.
LEMMA EndInv ==
  ASSUME AuthInv, AccountsKeep, AuthTypeOK', UNCHANGED <<taken, handler>>,
         \A u \in Users : account'[u].email = account[u].email /\ (Exists(u)' <=> Exists(u)),
         \A t \in Tokens : session'[t].user = session[t].user,
         \A b \in Browsers : cookie'[b] \in {cookie[b], None}
  PROVE  AuthInv'
  <1>1. \A h \in Handlers : AuthHandlerOK(h)'
    <2> SUFFICES ASSUME NEW h \in Handlers PROVE AuthHandlerOK(h)'
      OBVIOUS
    <2>1. ASSUME At(h, "insert") PROVE ~Exists(handler[h].user)'
      <3>1. PICK v \in Users : v = handler[h].user
        BY <2>1 DEF At, AuthInv, AuthTypeOK, AuthHandler, Idle
      <3>2. ~Exists(v)'
        BY <2>1, <3>1 DEF AuthInv, AuthHandlerOK
      <3> QED
        BY <3>1, <3>2 DEF Exists
    <2>2. ASSUME At(h, "insert"), NEW g \in Handlers \ {h}, At(g, "insert")'
          PROVE  handler'[g].user # handler[h].user
      BY <2>2 DEF AuthInv, AuthHandlerOK, At
    <2> QED
      BY <2>1, <2>2, WaitingHandler
  <1>2. \A t \in Tokens : session'[t].user # None => Exists(session[t].user)'
    <2> SUFFICES ASSUME NEW t \in Tokens, session[t].user # None PROVE Exists(session[t].user)'
      OBVIOUS
    <2>1. PICK v \in Users : v = session[t].user /\ Exists(v)
      BY DEF AuthInv, AuthTypeOK, Session
    <2> QED
      BY <2>1 DEF Exists
  <1>3. \A u \in Users : Exists(u)' => account'[u].email.lower
    BY DEF AuthInv
  <1>4. OneAccountPerMailbox' /\ TakenHasAccount'
    BY DEF AuthInv, OneAccountPerMailbox, TakenHasAccount
  <1>5. CookiesOK'
    BY DEF AuthInv, AuthTypeOK, CookiesOK
  <1> QED
    BY <1>1, <1>2, <1>3, <1>4, <1>5 DEF AuthInv, NothingServedLate

LEMMA LogoutInv ==
  ASSUME AuthInv, NEW h \in Handlers, Logout(h)
  PROVE  AuthInv'
  <1>1. PICK t \in Tokens : handler[h].token = t
    BY DEF Logout, At, AuthInv, AuthTypeOK, AuthHandler, Idle
  <1>2. UNCHANGED <<account, taken>> /\ session' = [session EXCEPT ![t].revoked = TRUE]
    BY <1>1 DEF Logout, RevokeSession
  <1>3. \A s \in Tokens :
          /\ session'[s].user = session[s].user /\ session'[s].expired = session[s].expired
          /\ session[s].revoked => session'[s].revoked
    BY <1>2 DEF AuthInv, AuthTypeOK, Session
  <1>4. AccountsKeep
    BY <1>2, <1>3 DEF AccountsKeep, Exists
  <1>5. /\ Idle \in AuthHandler /\ Idle.pc = "idle"
        /\ handler' = [handler EXCEPT ![h] = Idle] /\ handler'[h] = Idle
    BY DEF Idle, AuthHandler, Logout, Finish, Goto, AuthInv, AuthTypeOK
  <1>6. \A g \in Handlers : AuthHandlerOK(g)'
    <2>1. AuthHandlerOK(h)'
      BY <1>5 DEF AuthHandlerOK, At
    <2>2. \A g \in Handlers \ {h} : At(g, "insert") => ~Exists(handler[g].user)'
      BY <1>2, <1>5 DEF AuthInv, AuthTypeOK, AuthHandlerOK, Exists
    <2> QED
      BY <1>4, <1>5, <2>1, <2>2, AuthHandlersOK
  <1>7. AuthTypeOK'
    <2>1. session' \in [Tokens -> Session]
      BY <1>2 DEF AuthInv, AuthTypeOK, Session
    <2>2. cookie' \in [Browsers -> Tokens \cup {None}]
      BY DEF Logout, ClearCookie, AuthInv, AuthTypeOK
    <2> QED
      BY <1>2, <1>5, <2>1, <2>2 DEF AuthInv, AuthTypeOK
  <1>8. NothingServedLate'
    BY <1>5 DEF AuthInv, AuthTypeOK, NothingServedLate
  <1>9. \A s \in Tokens : session'[s].user # None => Exists(session[s].user)'
    BY <1>2, <1>3 DEF AuthInv, Exists
  <1>10. CookiesOK'
    <2>1. \A b \in Browsers : cookie'[b] \in {cookie[b], None}
      BY DEF Logout, ClearCookie, AuthInv, AuthTypeOK
    <2> QED
      BY <1>3, <1>7, <2>1 DEF AuthInv, AuthTypeOK, CookiesOK
  <1> QED
    BY <1>2, <1>6, <1>7, <1>8, <1>9, <1>10
       DEF AuthInv, OneAccountPerMailbox, TakenHasAccount, Exists

LEMMA ExpireInv ==
  ASSUME AuthInv, NEW t \in Tokens, Expire(t)
  PROVE  AuthInv'
  <1>1. UNCHANGED <<account, taken, handler>> /\ session' = [session EXCEPT ![t].expired = TRUE]
    BY DEF Expire
  <1>2. \A s \in Tokens :
          /\ session'[s].user = session[s].user /\ session'[s].revoked = session[s].revoked
          /\ session[s].expired => session'[s].expired
    BY <1>1 DEF AuthInv, AuthTypeOK, Session
  <1>3. AccountsKeep /\ \A u \in Users : Exists(u)' <=> Exists(u)
    BY <1>1, <1>2 DEF AccountsKeep, Exists
  <1>4. session' \in [Tokens -> Session]
    BY <1>1 DEF AuthInv, AuthTypeOK, Session
  <1>5. /\ cookie' \in [Browsers -> Tokens \cup {None}]
        /\ \A b \in Browsers : cookie'[b] \in {cookie[b], None}
    BY DEF Expire, AuthInv, AuthTypeOK
  <1>6. AuthTypeOK'
    BY <1>1, <1>4, <1>5 DEF AuthInv, AuthTypeOK
  <1> QED
    BY <1>1, <1>2, <1>3, <1>5, <1>6, EndInv

LEMMA SuspendInv ==
  ASSUME AuthInv, NEW u \in Users, Suspend(u)
  PROVE  AuthInv'
  <1>1. /\ UNCHANGED <<session, cookie, taken, handler>>
        /\ account[u].status = "ACTIVE"
        /\ account' = [account EXCEPT ![u].status = "SUSPENDED"]
    BY DEF Suspend
  <1>2. account[u] \in [email : Spelling, status : {"ACTIVE", "SUSPENDED"}]
    BY <1>1 DEF AuthInv, AuthTypeOK, Account, NoAccount
  <1>3. account'[u] \in [email : Spelling, status : {"ACTIVE", "SUSPENDED"}]
    BY <1>1, <1>2 DEF AuthInv, AuthTypeOK
  <1>4. \A v \in Users :
          /\ account'[v].email = account[v].email /\ (Exists(v)' <=> Exists(v))
          /\ account[v].status = "SUSPENDED" => account'[v].status = "SUSPENDED"
    BY <1>1, <1>2 DEF AuthInv, AuthTypeOK, Exists
  <1>5. AccountsKeep
    BY <1>1, <1>4 DEF AccountsKeep
  <1>6. AuthTypeOK'
    BY <1>1, <1>3 DEF AuthInv, AuthTypeOK, Account
  <1> QED
    BY <1>1, <1>4, <1>5, <1>6, EndInv

-----------------------------------------------------------------------------
\* The inductive invariant holds at the start, when there is nothing.
LEMMA AuthInvInit == AuthInit => AuthInv
  <1> SUFFICES ASSUME AuthInit PROVE AuthInv
    OBVIOUS
  <1>1. NoAccount \in Account /\ NoSession \in Session /\ Idle \in AuthHandler
    BY DEF Account, NoSession, Session, AuthHandler
  <1>2. /\ \A u \in Users : ~Exists(u)
        /\ \A t \in Tokens : session[t].user = None
        /\ \A h \in Handlers : handler[h].pc = "idle"
    BY DEF AuthInit, Exists, NoAccount, NoSession, Idle
  <1>3. AuthTypeOK
    BY <1>1 DEF AuthInit, AuthTypeOK
  <1>4. \A h \in Handlers : AuthHandlerOK(h)
    BY <1>2 DEF AuthHandlerOK, At
  <1> QED
    BY <1>2, <1>3, <1>4
       DEF AuthInit, AuthInv, CookiesOK, OneAccountPerMailbox, TakenHasAccount, NothingServedLate

\* Every step keeps it.
LEMMA AuthInvNext == AuthInv /\ [AuthNext]_authVars => AuthInv'
  <1> SUFFICES ASSUME AuthInv, [AuthNext]_authVars PROVE AuthInv'
    OBVIOUS
  <1>1. ASSUME NEW h \in Handlers, Serve(h) PROVE AuthInv'
    <2>1. UNCHANGED <<account, session, cookie, taken>> /\ Finish(h)
      BY <1>1 DEF Serve
    <2>2. TakenHasAccount' /\ CookiesOK' /\ taken' \in SUBSET Emails
      BY <2>1 DEF AuthInv, AuthTypeOK, CookiesOK, TakenHasAccount, Exists
    <2> QED
      BY <2>1, <2>2, AuthEnds
  <1>2. ASSUME NEW h \in Handlers, AuthCrash(h) PROVE AuthInv'
    <2>1. UNCHANGED <<account, session, cookie, taken>> /\ Finish(h)
      BY <1>2 DEF AuthCrash, Crash
    <2>2. TakenHasAccount' /\ CookiesOK' /\ taken' \in SUBSET Emails
      BY <2>1 DEF AuthInv, AuthTypeOK, CookiesOK, TakenHasAccount, Exists
    <2> QED
      BY <2>1, <2>2, AuthEnds
  <1>3. CASE UNCHANGED authVars
    BY <1>3 DEF authVars, AuthInv, AuthTypeOK, OneAccountPerMailbox, TakenHasAccount,
                NothingServedLate, AuthHandlerOK, CookiesOK, Exists, At, Over
  <1> QED
    BY <1>1, <1>2, <1>3, StartRegisterInv, InsertUserInv, OpenSessionInv, StartLoginInv,
       VerifyPasswordInv, SendRequestInv, ArriveInv, AuthenticateInv, LogoutInv, ExpireInv, SuspendInv DEF AuthNext

LEMMA AuthInvariant == AuthSpec => []AuthInv
  BY AuthInvInit, AuthInvNext, PTL DEF AuthSpec

\* However long the hashes of overlapping registrations take, a mailbox has one account
\* in one spelling, and who is told that it has one can log in to it (AuthService.register
\* and the index users_email_key).
THEOREM AccountsAgreeAlways == AuthSpec => []AccountsAgree
  <1>1. AuthInv => AccountsAgree
    BY DEF AuthInv, AccountsAgree
  <1> QED
    BY <1>1, AuthInvariant, PTL

\* A request that comes after its session ended or its user was suspended is not served
\* (SessionService.authenticate).
THEOREM NothingIsServedLate == AuthSpec => []NothingServedLate
  <1>1. AuthInv => NothingServedLate
    BY DEF AuthInv
  <1> QED
    BY <1>1, AuthInvariant, PTL

-----------------------------------------------------------------------------
(* Connection: what every step leaves true *)

\* A handler that waits is in order still, if what it relies on stands.
LEMMA WaitingConnection ==
  ASSUME ConnectionInv, NEW h \in Handlers, handler'[h] = handler[h],
         Completing(h) =>
           /\ flow'[handler[h].flow] = "granted"
           /\ handler[h].flow \notin disconnected'
           /\ connection' # None => connection'.access # handler[h].flow
           /\ \A g \in Handlers : Completing(g)' /\ handler'[g].flow = handler[h].flow => g = h
           /\ \A g \in Handlers : Removing(g)' => handler'[g].flow # handler[h].flow,
         Given \subseteq Given', disconnected \subseteq disconnected'
  PROVE  ConnectionHandlerOK(h)'
  <1>1. ConnectionHandlerOK(h)
    BY DEF ConnectionInv
  <1> QED
    BY <1>1 DEF ConnectionHandlerOK, Completing, Removing, At

\* A step of one handler that leaves the rows as they are and is in order itself.
LEMMA QuietConnection ==
  ASSUME ConnectionInv, NEW h \in Handlers, NEW next \in ConnectionHandler,
         handler' = [handler EXCEPT ![h] = next],
         oauthState' \in Flows \cup {None}, flow' \in [Flows -> FlowState],
         Given \subseteq Given', UNCHANGED <<connection, disconnected>>,
         \A g \in Handlers \ {h} : Completing(g) => flow'[handler[g].flow] = "granted",
         \A g \in Handlers \ {h} : Completing(g) /\ next.pc \in {"look", "upsert", "revoke", "delete"}
                                     => handler[g].flow # next.flow,
         ConnectionHandlerOK(h)',
         next.pc = "call" => next.with.access \notin next.before
  PROVE  ConnectionInv'
  <1>1. /\ handler'[h] = next
        /\ \A g \in Handlers \ {h} : handler'[g] = handler[g]
    BY DEF ConnectionInv, ConnectionTypeOK
  <1>2. ASSUME NEW g \in Handlers \ {h} PROVE ConnectionHandlerOK(g)'
    <2>1. ConnectionHandlerOK(g) /\ handler'[g] = handler[g]
      BY <1>1 DEF ConnectionInv
    <2>2. ASSUME Completing(g), NEW f \in Handlers \ {g}, Completing(f)' \/ Removing(f)'
          PROVE  handler'[f].flow # handler[g].flow
      <3>1. CASE f = h
        BY <1>1, <2>2, <3>1 DEF Completing, Removing
      <3>2. CASE f # h
        BY <1>1, <2>1, <2>2, <3>2 DEF ConnectionHandlerOK, Completing, Removing
      <3> QED
        BY <3>1, <3>2
    <2>3. Completing(g) => ~Removing(g)'
      BY <2>1 DEF Completing, Removing
    <2> QED
      BY <2>1, <2>2, <2>3, WaitingConnection DEF ConnectionHandlerOK
  <1>3. ConnectionTypeOK'
    BY DEF ConnectionInv, ConnectionTypeOK
  <1>4. DisconnectedStaysGone'
    BY <1>1 DEF ConnectionInv, DisconnectedStaysGone, At
  <1> QED
    BY <1>1, <1>2, <1>3, <1>4 DEF ConnectionInv

\* A handler may end at any time.
LEMMA ConnectionEnds ==
  ASSUME ConnectionInv, NEW h \in Handlers, Finish(h), oauthState' \in Flows \cup {None},
         UNCHANGED <<flow, connection, disconnected>>
  PROVE  ConnectionInv'
  <1>1. Idle \in ConnectionHandler /\ Idle.pc = "idle"
    BY DEF Idle, ConnectionHandler
  <1>2. handler' = [handler EXCEPT ![h] = Idle] /\ handler'[h] = Idle
    BY DEF Finish, Goto, ConnectionInv, ConnectionTypeOK
  <1>3. ConnectionHandlerOK(h)'
    BY <1>1, <1>2 DEF ConnectionHandlerOK, Completing, Removing, At
  <1>4. flow' \in [Flows -> FlowState] /\ Given \subseteq Given'
    BY DEF ConnectionInv, ConnectionTypeOK, Given
  <1>5. \A g \in Handlers \ {h} : Completing(g) => flow'[handler[g].flow] = "granted"
    BY DEF ConnectionInv, ConnectionHandlerOK
  <1> QED
    BY <1>1, <1>2, <1>3, <1>4, <1>5, QuietConnection

\* A step of the browser or of Google that no handler takes.
LEMMA OutsideStep ==
  ASSUME ConnectionInv, UNCHANGED <<connection, disconnected, handler>>,
         oauthState' \in Flows \cup {None}, flow' \in [Flows -> FlowState],
         \A f \in Given : flow'[f] = flow[f]
  PROVE  ConnectionInv'
  <1>1. Given \subseteq Given'
    BY DEF Given
  <1>2. ASSUME NEW h \in Handlers PROVE ConnectionHandlerOK(h)'
    <2>1. ConnectionHandlerOK(h) /\ handler[h] \in ConnectionHandler
      BY DEF ConnectionInv, ConnectionTypeOK
    <2>2. Completing(h) => handler[h].flow \in Flows
      BY <2>1 DEF ConnectionHandler, Idle, Completing
    <2>3. Completing(h) => handler[h].flow \in Given
      BY <2>1, <2>2 DEF ConnectionHandlerOK, Given
    <2> QED
      BY <1>1, <2>1, <2>3, WaitingConnection DEF ConnectionHandlerOK, Completing, Removing
  <1>3. ConnectionTypeOK'
    BY DEF ConnectionInv, ConnectionTypeOK
  <1> QED
    BY <1>1, <1>2, <1>3 DEF ConnectionInv, DisconnectedStaysGone, At

-----------------------------------------------------------------------------
(* The steps *)

LEMMA ConnectInv ==
  ASSUME ConnectionInv, NEW f \in Flows, Connect(f)
  PROVE  ConnectionInv'
  <1>1. flow' \in [Flows -> FlowState] /\ \A g \in Given : flow'[g] = flow[g]
    BY DEF Connect, Given, FlowState, ConnectionInv, ConnectionTypeOK
  <1> QED
    BY <1>1, OutsideStep DEF Connect, IssueState

LEMMA ConsentInv ==
  ASSUME ConnectionInv, NEW f \in Flows, Consent(f)
  PROVE  ConnectionInv'
  <1>1. flow' \in [Flows -> FlowState] /\ \A g \in Given : flow'[g] = flow[g]
    BY DEF Consent, Given, FlowState, ConnectionInv, ConnectionTypeOK
  <1> QED
    BY <1>1, OutsideStep DEF Consent, ConnectionInv, ConnectionTypeOK

LEMMA CallbackInv ==
  ASSUME ConnectionInv, NEW h \in Handlers, NEW f \in Flows, Callback(h, f)
  PROVE  ConnectionInv'
  <1>1. UNCHANGED <<flow, connection, disconnected>>
    BY DEF Callback
  <1>2. flow' \in [Flows -> FlowState] /\ Given \subseteq Given'
    BY <1>1 DEF ConnectionInv, ConnectionTypeOK, Given
  <1>3. CASE ClearState /\ UNCHANGED handler
    BY <1>1, <1>2, <1>3, OutsideStep DEF ClearState
  <1>4. CASE Begin(h, [pc |-> "exchange", flow |-> f]) /\ UNCHANGED oauthState
    <2> DEFINE next == [pc |-> "exchange", flow |-> f]
    <2>1. next \in ConnectionHandler /\ next.pc = "exchange"
      BY DEF ConnectionHandler
    <2>2. handler' = [handler EXCEPT ![h] = next] /\ handler'[h] = next
      BY <1>4 DEF Begin, Goto, ConnectionInv, ConnectionTypeOK
    <2>3. ConnectionHandlerOK(h)'
      BY <2>2 DEF ConnectionHandlerOK, Completing, Removing, At
    <2>4. oauthState' \in Flows \cup {None}
      BY <1>4 DEF ConnectionInv, ConnectionTypeOK
    <2>5. \A g \in Handlers \ {h} : Completing(g) => flow'[handler[g].flow] = "granted"
      BY <1>1 DEF ConnectionInv, ConnectionHandlerOK
    <2> QED
      BY <1>1, <1>2, <2>1, <2>2, <2>3, <2>4, <2>5, QuietConnection
  <1> QED
    BY <1>3, <1>4 DEF Callback

\* A flow whose code Google takes is completed by no one else, and was never stored.
LEMMA ExchangeInv ==
  ASSUME ConnectionInv, NEW h \in Handlers, Exchange(h)
  PROVE  ConnectionInv'
  <1>1. PICK f \in Flows : handler[h].flow = f
    BY DEF Exchange, At, ConnectionInv, ConnectionTypeOK, ConnectionHandler, Idle
  <1>2. UNCHANGED <<connection, disconnected>>
    BY DEF Exchange
  <1>3. ASSUME flow[f] = "consented", flow' = [flow EXCEPT ![f] = "granted"],
               UNCHANGED oauthState, NEW refresh \in {f, None},
               Goto(h, [pc |-> "look", flow |-> f, refresh |-> refresh, existing |-> None])
        PROVE  ConnectionInv'
    <2> DEFINE next == [pc |-> "look", flow |-> f, refresh |-> refresh, existing |-> None]
    <2>1. next \in ConnectionHandler /\ next.pc = "look" /\ next.flow = f
      BY DEF ConnectionHandler
    <2>2. /\ handler' = [handler EXCEPT ![h] = next] /\ handler'[h] = next
          /\ \A g \in Handlers \ {h} : handler'[g] = handler[g]
      BY <1>3 DEF Goto, ConnectionInv, ConnectionTypeOK
    <2>3. /\ flow' \in [Flows -> FlowState] /\ flow'[f] = "granted"
          /\ \A g \in Flows \ {f} : flow'[g] = flow[g]
      BY <1>3 DEF FlowState, ConnectionInv, ConnectionTypeOK
    <2>4. Given \subseteq Given' /\ f \notin Given
      BY <1>3, <2>3 DEF Given
    <2>5. \A g \in Handlers \ {h} : Completing(g) => handler[g].flow \in Flows \ {f}
      BY <1>3 DEF ConnectionInv, ConnectionTypeOK, ConnectionHandler, Idle, ConnectionHandlerOK, Completing
    <2>6. \A g \in Handlers \ {h} : Removing(g) => handler[g].flow # f
      BY <2>4 DEF ConnectionInv, ConnectionHandlerOK
    <2>7. f \notin disconnected /\ (connection # None => connection.access # f)
      BY <2>4 DEF ConnectionInv
    <2>8. ConnectionHandlerOK(h)'
      BY <1>2, <2>1, <2>2, <2>3, <2>5, <2>6, <2>7
      DEF ConnectionHandlerOK, Completing, Removing, At
    <2>9. \A g \in Handlers \ {h} : Completing(g) => flow'[handler[g].flow] = "granted"
      BY <2>3, <2>5 DEF ConnectionInv, ConnectionHandlerOK
    <2>10. oauthState' \in Flows \cup {None}
      BY <1>3 DEF ConnectionInv, ConnectionTypeOK
    <2> QED
      BY <1>2, <2>1, <2>2, <2>3, <2>4, <2>5, <2>8, <2>9, <2>10, QuietConnection
  <1>4. CASE ClearState /\ Finish(h) /\ UNCHANGED flow
    BY <1>2, <1>4, ConnectionEnds DEF ClearState
  <1> QED
    BY <1>1, <1>3, <1>4 DEF Exchange

LEMMA LookForConnectionInv ==
  ASSUME ConnectionInv, NEW h \in Handlers, LookForConnection(h)
  PROVE  ConnectionInv'
  <1> DEFINE next == [handler[h] EXCEPT !.pc = "upsert", !.existing = RefreshOf(connection)]
  <1>1. RefreshOf(connection) \in Flows \cup {None}
    BY DEF RefreshOf, ConnectionInv, ConnectionTypeOK, Connected
  <1>2. handler[h] \in [pc : {"look", "upsert"}, flow : Flows, refresh : Flows \cup {None},
                        existing : Flows \cup {None}]
    BY DEF LookForConnection, At, ConnectionInv, ConnectionTypeOK, ConnectionHandler, Idle
  <1>3. PICK f \in Flows : handler[h].flow = f
    BY <1>2
  <1>4. next \in ConnectionHandler /\ next.pc = "upsert" /\ next.flow = f
    BY <1>1, <1>2, <1>3 DEF ConnectionHandler
  <1>5. UNCHANGED <<flow, oauthState, connection, disconnected>>
    BY DEF LookForConnection
  <1>6. handler' = [handler EXCEPT ![h] = next]
    BY DEF LookForConnection, Goto
  <1> HIDE DEF next
  <1>7. handler'[h] = next /\ \A g \in Handlers \ {h} : handler'[g] = handler[g]
    BY <1>6 DEF ConnectionInv, ConnectionTypeOK
  <1>8. /\ flow[f] = "granted" /\ f \notin disconnected
        /\ connection # None => connection.access # f
        /\ \A g \in Handlers \ {h} : (Completing(g) \/ Removing(g)) => handler[g].flow # f
    BY <1>3 DEF LookForConnection, At, Completing, ConnectionInv, ConnectionHandlerOK
  <1>9. ConnectionHandlerOK(h)'
    <2>1. \A g \in Handlers \ {h} : (Completing(g)' \/ Removing(g)') => handler'[g].flow # f
      BY <1>7, <1>8 DEF Completing, Removing
    <2>2. handler'[h].flow = f /\ handler'[h].pc = "upsert"
      BY <1>4, <1>7
    <2> QED
      BY <1>5, <1>8, <2>1, <2>2 DEF ConnectionHandlerOK, Completing, Removing, At
  <1>10. \A g \in Handlers \ {h} : Completing(g) => flow'[handler[g].flow] = "granted"
    BY <1>5 DEF ConnectionInv, ConnectionHandlerOK
  <1>11. /\ flow' \in [Flows -> FlowState] /\ Given \subseteq Given'
         /\ oauthState' \in Flows \cup {None}
    BY <1>5 DEF ConnectionInv, ConnectionTypeOK, Given
  <1> QED
    BY <1>4, <1>5, <1>6, <1>8, <1>9, <1>10, <1>11, QuietConnection

\* What is stored was being completed, by this handler only, and is not a removed one.
LEMMA UpsertInv ==
  ASSUME ConnectionInv, NEW h \in Handlers, Upsert(h)
  PROVE  ConnectionInv'
  <1>1. PICK f \in Flows, refresh \in Flows \cup {None}, existing \in Flows \cup {None} :
          handler[h].flow = f /\ handler[h].refresh = refresh /\ handler[h].existing = existing
    BY DEF Upsert, At, ConnectionInv, ConnectionTypeOK, ConnectionHandler, Idle
  <1> DEFINE stored == StoredRefresh(refresh, existing)
             new == [access |-> f, refresh |-> stored]
  <1>2. stored \in Flows \cup {None}
    BY DEF StoredRefresh, RefreshOf, ConnectionInv, ConnectionTypeOK, Connected
  <1>3. new \in Connected /\ new.access = f
    BY <1>2 DEF Connected
  <1>4. connection' = new /\ oauthState' = None /\ UNCHANGED <<flow, disconnected>>
    BY <1>1 DEF Upsert, ClearState
  <1>5. /\ Idle \in ConnectionHandler /\ Idle.pc = "idle"
        /\ handler' = [handler EXCEPT ![h] = Idle] /\ handler'[h] = Idle
        /\ \A g \in Handlers \ {h} : handler'[g] = handler[g]
    BY DEF Idle, ConnectionHandler, Upsert, Finish, Goto, ConnectionInv, ConnectionTypeOK
  <1> HIDE DEF new
  <1>6. /\ flow[f] = "granted" /\ f \notin disconnected
        /\ \A g \in Handlers \ {h} : Completing(g) => handler[g].flow # f
    BY <1>1 DEF Upsert, At, Completing, ConnectionInv, ConnectionHandlerOK
  <1>7. Given' = Given /\ f \in Given
    BY <1>4, <1>6 DEF Given
  <1>8. ASSUME NEW g \in Handlers \ {h} PROVE ConnectionHandlerOK(g)'
    <2>1. ConnectionHandlerOK(g) /\ handler'[g] = handler[g]
      BY <1>5 DEF ConnectionInv
    <2>2. \A e \in Handlers : (Completing(e)' => Completing(e) /\ handler'[e] = handler[e])
                              /\ (Removing(e)' => Removing(e) /\ handler'[e] = handler[e])
      BY <1>5 DEF Completing, Removing
    <2> QED
      BY <1>3, <1>4, <1>6, <1>7, <2>1, <2>2, WaitingConnection DEF ConnectionHandlerOK
  <1>9. ConnectionHandlerOK(h)'
    BY <1>5 DEF ConnectionHandlerOK, Completing, Removing, At
  <1>10. ConnectionTypeOK'
    BY <1>3, <1>4, <1>5 DEF ConnectionInv, ConnectionTypeOK
  <1>11. DisconnectedStaysGone'
    BY <1>3, <1>4, <1>5, <1>6 DEF ConnectionInv, DisconnectedStaysGone, At
  <1> QED
    BY <1>3, <1>4, <1>7, <1>8, <1>9, <1>10, <1>11 DEF ConnectionInv

LEMMA StartDisconnectInv ==
  ASSUME ConnectionInv, NEW h \in Handlers, StartDisconnect(h)
  PROVE  ConnectionInv'
  <1>1. UNCHANGED <<flow, oauthState, connection, disconnected>> /\ connection # None
    BY DEF StartDisconnect
  <1>2. PICK f \in Given : connection.access = f
    BY <1>1 DEF ConnectionInv
  <1> DEFINE next == [pc |-> "revoke", flow |-> f]
  <1>3. next \in ConnectionHandler /\ next.pc = "revoke" /\ next.flow = f
    BY DEF ConnectionHandler, Given
  <1>4. handler' = [handler EXCEPT ![h] = next] /\ handler'[h] = next
    BY <1>2 DEF StartDisconnect, Begin, Goto, ConnectionInv, ConnectionTypeOK
  <1>5. \A g \in Handlers \ {h} : Completing(g) =>
          flow'[handler[g].flow] = "granted" /\ handler[g].flow # f
    BY <1>1, <1>2 DEF ConnectionInv, ConnectionHandlerOK
  <1>6. /\ flow' \in [Flows -> FlowState] /\ Given' = Given
        /\ oauthState' \in Flows \cup {None}
    BY <1>1 DEF ConnectionInv, ConnectionTypeOK, Given
  <1>7. ConnectionHandlerOK(h)'
    BY <1>3, <1>4, <1>6 DEF ConnectionHandlerOK, Completing, Removing, At
  <1> QED
    BY <1>1, <1>3, <1>4, <1>5, <1>6, <1>7, QuietConnection

LEMMA RevokeInv ==
  ASSUME ConnectionInv, NEW h \in Handlers, Revoke(h)
  PROVE  ConnectionInv'
  <1>1. PICK f \in Flows : handler[h].flow = f
    BY DEF Revoke, At, ConnectionInv, ConnectionTypeOK, ConnectionHandler, Idle
  <1> DEFINE next == [handler[h] EXCEPT !.pc = "delete"]
  <1>2. next \in ConnectionHandler /\ next.pc = "delete" /\ next.flow = f
    BY <1>1 DEF Revoke, At, ConnectionInv, ConnectionTypeOK, ConnectionHandler, Idle
  <1>3. handler' = [handler EXCEPT ![h] = next]
    BY DEF Revoke, Continue
  <1> HIDE DEF next
  <1>4. handler'[h] = next
    BY <1>3 DEF ConnectionInv, ConnectionTypeOK
  <1>5. /\ UNCHANGED <<oauthState, connection, disconnected>>
        /\ flow' \in {flow, [flow EXCEPT ![f] = "revoked"]}
    BY <1>1 DEF Revoke
  <1>6. /\ flow' \in [Flows -> FlowState] /\ Given \subseteq Given'
        /\ \A g \in Flows \ {f} : flow'[g] = flow[g]
        /\ oauthState' \in Flows \cup {None}
    BY <1>5 DEF FlowState, Given, ConnectionInv, ConnectionTypeOK
  <1>7. f \in Given
    BY <1>1 DEF Revoke, At, Removing, ConnectionInv, ConnectionHandlerOK
  <1>8. \A g \in Handlers \ {h} : Completing(g) => handler[g].flow \in Flows \ {f}
    <2> SUFFICES ASSUME NEW g \in Handlers \ {h}, Completing(g)
                 PROVE  handler[g].flow \in Flows \ {f}
      OBVIOUS
    <2>1. handler[g].flow \in Flows
      BY DEF ConnectionInv, ConnectionTypeOK, ConnectionHandler, Idle, Completing
    <2>2. handler[g].flow # f
      BY <1>1 DEF Revoke, At, Removing, ConnectionInv, ConnectionHandlerOK
    <2> QED
      BY <2>1, <2>2
  <1>9. \A g \in Handlers \ {h} : Completing(g) => flow'[handler[g].flow] = "granted"
    BY <1>6, <1>8 DEF ConnectionInv, ConnectionHandlerOK
  <1>10. ConnectionHandlerOK(h)'
    <2>1. handler'[h].flow \in Given'
      BY <1>2, <1>4, <1>6, <1>7
    <2> QED
      BY <1>2, <1>4, <2>1 DEF ConnectionHandlerOK, Completing, Removing, At
  <1> QED
    BY <1>2, <1>3, <1>5, <1>6, <1>8, <1>9, <1>10, QuietConnection

\* What is being completed is of a flow that is not removed here.
LEMMA DeleteConnectionInv ==
  ASSUME ConnectionInv, NEW h \in Handlers, DeleteConnection(h)
  PROVE  ConnectionInv'
  <1>1. UNCHANGED <<flow, oauthState>> /\ Finish(h)
    BY DEF DeleteConnection
  <1>2. CASE connection = None /\ UNCHANGED <<connection, disconnected>>
    <2>1. oauthState' \in Flows \cup {None}
      BY <1>1 DEF ConnectionInv, ConnectionTypeOK
    <2> QED
      BY <1>1, <1>2, <2>1, ConnectionEnds
  <1>3. CASE /\ connection # None /\ connection' = LeftAfterRevoking(handler[h].flow)
             /\ disconnected' = disconnected \cup {handler[h].flow, connection.access}
    <2>1. PICK f \in Given, access \in Given : handler[h].flow = f /\ connection.access = access
      BY <1>3 DEF DeleteConnection, At, Removing, ConnectionInv, ConnectionHandlerOK
    <2>2. connection' = None /\ disconnected' = disconnected \cup {f, access}
      BY <1>3, <2>1 DEF LeftAfterRevoking
    <2>3. /\ Idle \in ConnectionHandler /\ Idle.pc = "idle"
          /\ handler' = [handler EXCEPT ![h] = Idle] /\ handler'[h] = Idle
          /\ \A g \in Handlers \ {h} : handler'[g] = handler[g]
      BY <1>1 DEF Idle, ConnectionHandler, Finish, Goto, ConnectionInv, ConnectionTypeOK
    <2>4. Given' = Given /\ disconnected' \subseteq Given'
      BY <1>1, <2>2 DEF Given, ConnectionInv
    <2>5. ASSUME NEW g \in Handlers \ {h} PROVE ConnectionHandlerOK(g)'
      <3>1. ConnectionHandlerOK(g) /\ handler'[g] = handler[g]
        BY <2>3 DEF ConnectionInv
      <3>2. \A e \in Handlers : (Completing(e)' => Completing(e) /\ handler'[e] = handler[e])
                                /\ (Removing(e)' => Removing(e) /\ handler'[e] = handler[e])
        BY <2>3 DEF Completing, Removing
      <3>3. Completing(g) => handler[g].flow # f /\ handler[g].flow # access
        BY <1>3, <2>1, <3>1 DEF DeleteConnection, At, Removing, ConnectionHandlerOK
      <3> QED
        BY <1>1, <2>2, <2>4, <3>1, <3>2, <3>3, WaitingConnection DEF ConnectionHandlerOK
    <2>6. ConnectionHandlerOK(h)'
      BY <2>3 DEF ConnectionHandlerOK, Completing, Removing, At
    <2>7. ConnectionTypeOK'
      BY <1>1, <2>2, <2>3 DEF ConnectionInv, ConnectionTypeOK, Given
    <2>8. DisconnectedStaysGone'
      BY <2>2, <2>3 DEF ConnectionInv, DisconnectedStaysGone, At
    <2> QED
      BY <2>2, <2>4, <2>5, <2>6, <2>7, <2>8 DEF ConnectionInv
  <1> QED
    BY <1>2, <1>3 DEF DeleteConnection

LEMMA StartCallInv ==
  ASSUME ConnectionInv, NEW h \in Handlers, StartCall(h)
  PROVE  ConnectionInv'
  <1> DEFINE next == [pc |-> "authorize", before |-> disconnected]
  <1>1. next \in ConnectionHandler /\ next.pc = "authorize" /\ next.before = disconnected
    BY DEF ConnectionHandler, ConnectionInv, ConnectionTypeOK
  <1>2. UNCHANGED <<flow, oauthState, connection, disconnected>>
    BY DEF StartCall
  <1>3. handler' = [handler EXCEPT ![h] = next]
    BY DEF StartCall, Begin, Goto
  <1> HIDE DEF next
  <1>4. handler'[h] = next
    BY <1>3 DEF ConnectionInv, ConnectionTypeOK
  <1>5. ConnectionHandlerOK(h)'
    BY <1>1, <1>2, <1>4 DEF ConnectionHandlerOK, Completing, Removing, At
  <1>6. /\ flow' \in [Flows -> FlowState] /\ Given \subseteq Given'
        /\ oauthState' \in Flows \cup {None}
    BY <1>2 DEF ConnectionInv, ConnectionTypeOK, Given
  <1>7. \A g \in Handlers \ {h} : Completing(g) => flow'[handler[g].flow] = "granted"
    BY <1>2 DEF ConnectionInv, ConnectionHandlerOK
  <1> QED
    BY <1>1, <1>2, <1>3, <1>5, <1>6, <1>7, QuietConnection

\* The tokens that are read are of no connection that was removed, then or before.
LEMMA AuthorizationForInv ==
  ASSUME ConnectionInv, NEW h \in Handlers, AuthorizationFor(h)
  PROVE  ConnectionInv'
  <1>1. UNCHANGED <<flow, oauthState, connection, disconnected>>
    BY DEF AuthorizationFor
  <1>2. oauthState' \in Flows \cup {None}
    BY <1>1 DEF ConnectionInv, ConnectionTypeOK
  <1>3. CASE Finish(h)
    BY <1>1, <1>2, <1>3, ConnectionEnds
  <1> DEFINE next == [pc |-> "call", with |-> connection, before |-> handler[h].before]
  <1>4. CASE connection # None /\ Goto(h, next)
    <2>2. /\ handler[h].before \subseteq Flows /\ handler[h].before \subseteq disconnected
          /\ connection \in Connected
      BY <1>4 DEF AuthorizationFor, At, ConnectionInv, ConnectionTypeOK, ConnectionHandler, Idle,
                  ConnectionHandlerOK
    <2>3. next \in ConnectionHandler /\ next.pc = "call" /\ next.with.access \notin next.before
      BY <1>4, <2>2 DEF ConnectionHandler, ConnectionInv, DisconnectedStaysGone
    <2>4. handler' = [handler EXCEPT ![h] = next]
      BY <1>4 DEF Goto
    <2> HIDE DEF next
    <2>5. handler'[h] = next
      BY <2>4 DEF ConnectionInv, ConnectionTypeOK
    <2>6. ConnectionHandlerOK(h)'
      BY <2>3, <2>5 DEF ConnectionHandlerOK, Completing, Removing, At
    <2>7. flow' \in [Flows -> FlowState] /\ Given \subseteq Given'
      BY <1>1 DEF ConnectionInv, ConnectionTypeOK, Given
    <2>8. \A g \in Handlers \ {h} : Completing(g) => flow'[handler[g].flow] = "granted"
      BY <1>1 DEF ConnectionInv, ConnectionHandlerOK
    <2> QED
      BY <1>1, <1>2, <2>3, <2>4, <2>6, <2>7, <2>8, QuietConnection
  <1> QED
    BY <1>3, <1>4 DEF AuthorizationFor

-----------------------------------------------------------------------------
\* The inductive invariant holds at the start, when there is nothing.
LEMMA ConnectionInvInit == ConnectionInit => ConnectionInv
  <1> SUFFICES ASSUME ConnectionInit PROVE ConnectionInv
    OBVIOUS
  <1>1. Idle \in ConnectionHandler /\ Idle.pc = "idle"
    BY DEF Idle, ConnectionHandler
  <1>2. ConnectionTypeOK
    BY <1>1 DEF ConnectionInit, ConnectionTypeOK, FlowState
  <1> QED
    BY <1>1, <1>2 DEF ConnectionInit, ConnectionInv, DisconnectedStaysGone, ConnectionHandlerOK,
                      Completing, Removing, At

\* Every step keeps it.
LEMMA ConnectionInvNext == ConnectionInv /\ [ConnectionNext]_connectionVars => ConnectionInv'
  <1> SUFFICES ASSUME ConnectionInv, [ConnectionNext]_connectionVars PROVE ConnectionInv'
    OBVIOUS
  <1>1. ASSUME NEW h \in Handlers, CallGoogle(h) \/ ConnectionCrash(h) PROVE ConnectionInv'
    <2>1. UNCHANGED <<flow, oauthState, connection, disconnected>> /\ Finish(h)
      BY <1>1 DEF CallGoogle, ConnectionCrash, Crash
    <2>2. oauthState' \in Flows \cup {None}
      BY <2>1 DEF ConnectionInv, ConnectionTypeOK
    <2> QED
      BY <2>1, <2>2, ConnectionEnds
  <1>2. CASE UNCHANGED connectionVars
    BY <1>2 DEF connectionVars, ConnectionInv, ConnectionTypeOK, DisconnectedStaysGone,
                ConnectionHandlerOK, Completing, Removing, Given, At
  <1> QED
    BY <1>1, <1>2, ConnectInv, ConsentInv, CallbackInv, ExchangeInv, LookForConnectionInv,
       UpsertInv, StartDisconnectInv, RevokeInv, DeleteConnectionInv, StartCallInv,
       AuthorizationForInv DEF ConnectionNext

\* The access token of a connection that the user was told is removed is neither stored
\* again by an authorization that was being completed, nor used by a request that came
\* afterwards (GoogleIntegrationService.disconnect, completeAuthorization, authorizationFor).
THEOREM RemovedConnectionsStayGone == ConnectionSpec => []DisconnectedStaysGone
  <1>1. ConnectionInv => DisconnectedStaysGone
    BY DEF ConnectionInv
  <1> QED
    BY <1>1, ConnectionInvInit, ConnectionInvNext, PTL DEF ConnectionSpec

-----------------------------------------------------------------------------
(* Profiles *)

\* A row after an update: a row of the same user, with the visibility that was named.
LEMMA UpdatedRow ==
  ASSUME NEW old \in Profile, NEW input \in Update
  PROVE  LET new == [f \in DOMAIN old |-> IF f \in DOMAIN input THEN input[f] ELSE old[f]] IN
         /\ new \in Profile /\ new.user = old.user
         /\ "visibility" \in DOMAIN input => new.visibility = input.visibility
  <1> DEFINE new == [f \in DOMAIN old |-> IF f \in DOMAIN input THEN input[f] ELSE old[f]]
  <1>1. DOMAIN old = {"user", "text", "visibility"}
    BY DEF Profile
  <1>2. /\ "user" \notin DOMAIN input
        /\ "text" \in DOMAIN input => input["text"] \in Texts \cup {None}
        /\ "visibility" \in DOMAIN input => input["visibility"] \in Visibility
    BY DEF Update
  <1>3. /\ old["user"] \in Owners \cup {None} /\ old["text"] \in Texts \cup {None}
        /\ old["visibility"] \in Visibility
    BY DEF Profile
  <1>4. /\ new["user"] = old["user"] /\ new["text"] \in Texts \cup {None}
        /\ new["visibility"] \in Visibility
        /\ "visibility" \in DOMAIN input => new["visibility"] = input["visibility"]
    BY <1>1, <1>2, <1>3
  <1>5. new \in Profile
    BY <1>1, <1>3, <1>4 DEF Profile
  <1> QED
    BY <1>4, <1>5
-----------------------------------------------------------------------------
(* What every step leaves true *)

\* A profile stays its user's.
Keeps == \A i \in Profiles : Made(i) => profile'[i].user = profile[i].user

\* What a running update may have read is remembered while it runs.
LEMMA Remembers ==
  ASSUME ProfilesInv, NEW rows \in [Profiles -> Profile], was' = Remembered(handler', rows)
  PROVE  /\ was' \in [Profiles -> SUBSET Visibility]
         /\ \A g \in Handlers, i \in Profiles : (At(g, "update")' /\ handler'[g].id = i) =>
              was[i] \subseteq was'[i] /\ rows[i].visibility \in was'[i]
  <1>1. \A i \in Profiles : rows[i].visibility \in Visibility /\ was[i] \subseteq Visibility
    BY DEF Profile, ProfilesInv, ProfilesTypeOK
  <1> QED
    BY <1>1 DEF Remembered, At

\* After a step of one handler the others are in order, if it is, made none of the
\* profiles they are about to make, and what they read is still remembered.
LEMMA HandlersOK ==
  ASSUME ProfilesInv, Keeps, NEW h \in Handlers, NEW next \in ProfilesHandler,
         handler' = [handler EXCEPT ![h] = next],
         \A g \in Handlers \ {h}, i \in Profiles :
           /\ (At(g, "create") /\ handler[g].id = i) => ~Made(i)'
           /\ (At(g, "update") /\ handler[g].id = i) => was[i] \subseteq was'[i],
         ProfilesHandlerOK(h)'
  PROVE  \A g \in Handlers : ProfilesHandlerOK(g)'
  <1> USE DEF At
  <1>1. /\ handler'[h] = next
        /\ \A g \in Handlers \ {h} : handler'[g] = handler[g]
    BY DEF ProfilesInv, ProfilesTypeOK
  <1> SUFFICES ASSUME NEW g \in Handlers \ {h} PROVE ProfilesHandlerOK(g)'
    OBVIOUS
  <1>2. ProfilesHandlerOK(g) /\ handler[g] \in ProfilesHandler /\ handler'[g] = handler[g]
    BY <1>1 DEF ProfilesInv, ProfilesTypeOK
  <1>3. CASE At(g, "create")
    <2>1. PICK i \in Profiles : i = handler[g].id
      BY <1>2, <1>3 DEF ProfilesHandler, Idle
    <2>2. ~Made(i)' /\ handler'[g].row.user # None
      BY <1>2, <1>3, <2>1 DEF ProfilesHandlerOK
    <2>3. ASSUME NEW f \in Handlers \ {g}, At(f, "create")' PROVE handler'[f].id # i
      <3>1. CASE f = h
        BY <1>1, <1>2, <1>3, <2>1, <2>3, <3>1 DEF ProfilesHandlerOK
      <3>2. CASE f # h
        BY <1>1, <1>2, <1>3, <2>1, <2>3, <3>2 DEF ProfilesHandlerOK
      <3> QED
        BY <3>1, <3>2
    <2> QED
      BY <1>2, <1>3, <2>1, <2>2, <2>3 DEF ProfilesHandlerOK, Made
  <1>4. CASE At(g, "update")
    <2>1. PICK i \in Profiles : i = handler[g].id
      BY <1>2, <1>4 DEF ProfilesHandler, Idle
    <2>2. Made(i) /\ was[i] \subseteq was'[i]
      BY <1>2, <1>4, <2>1 DEF ProfilesHandlerOK
    <2>3. Made(i)'
      BY <2>2 DEF Keeps, Made
    <2> QED
      BY <1>2, <1>4, <2>1, <2>2, <2>3 DEF ProfilesHandlerOK, Made
  <1> QED
    BY <1>2, <1>3, <1>4 DEF ProfilesHandlerOK

-----------------------------------------------------------------------------
(* The steps *)

LEMMA StartCreateProfileInv ==
  ASSUME ProfilesInv, NEW h \in Handlers, NEW i \in Profiles, NEW u \in Owners,
         NEW text \in Texts \cup {None}, NEW v \in Visibility,
         StartCreateProfile(h, i, u, text, v)
  PROVE  ProfilesInv'
  <1> DEFINE new == [user |-> u, text |-> text, visibility |-> v]
             next == [pc |-> "create", id |-> i, row |-> new]
  <1>1. new \in Profile /\ new.user # None
    BY ProfilesAssumption DEF Profile
  <1>2. next \in ProfilesHandler /\ next.pc = "create" /\ next.id = i /\ next.row.user # None
    BY <1>1 DEF ProfilesHandler
  <1>3. handler' = [handler EXCEPT ![h] = next] /\ UNCHANGED <<profile, told, was>>
    BY DEF StartCreateProfile, Begin, Goto
  <1>4. handler'[h] = next /\ \A g \in Handlers \ {h} : handler'[g] = handler[g]
    BY <1>3 DEF ProfilesInv, ProfilesTypeOK
  <1>5. Keeps /\ \A j \in Profiles : Made(j)' <=> Made(j)
    BY <1>3 DEF Keeps, Made
  <1>6. ProfilesHandlerOK(h)'
    <2>1. ~Made(i) /\ \A g \in Handlers : At(g, "create") => handler[g].id # i
      BY DEF StartCreateProfile
    <2> QED
      BY <1>2, <1>3, <1>4, <2>1 DEF ProfilesHandlerOK, At, Made
  <1>7. \A g \in Handlers : ProfilesHandlerOK(g)'
    <2>1. \A g \in Handlers \ {h}, j \in Profiles :
            /\ (At(g, "create") /\ handler[g].id = j) => ~Made(j)'
            /\ (At(g, "update") /\ handler[g].id = j) => was[j] \subseteq was'[j]
      BY <1>3, <1>5 DEF ProfilesInv, ProfilesHandlerOK
    <2> QED
      BY <1>2, <1>3, <1>5, <1>6, <2>1, HandlersOK
  <1>8. ProfilesTypeOK'
    BY <1>2, <1>3 DEF ProfilesInv, ProfilesTypeOK
  <1> QED
    BY <1>3, <1>7, <1>8 DEF ProfilesInv, OneProfilePerUser, Made

LEMMA InsertProfileInv ==
  ASSUME ProfilesInv, NEW h \in Handlers, InsertProfile(h)
  PROVE  ProfilesInv'
  <1>1. PICK i \in Profiles, new \in Profile :
          handler[h].id = i /\ handler[h].row = new
    BY DEF InsertProfile, At, ProfilesInv, ProfilesTypeOK, ProfilesHandler, Idle
  <1>2. /\ ~Made(i) /\ new.user # None
        /\ \A g \in Handlers : (At(g, "create") /\ handler[g].id = i) => g = h
    BY <1>1 DEF InsertProfile, ProfilesInv, ProfilesHandlerOK
  <1>3. /\ profile' = IF Unclaimed(new.user) THEN [profile EXCEPT ![i] = new] ELSE profile
        /\ UNCHANGED <<told, was>>
    BY <1>1 DEF InsertProfile
  <1>4. /\ Idle \in ProfilesHandler /\ Idle.pc = "idle"
        /\ handler' = [handler EXCEPT ![h] = Idle] /\ handler'[h] = Idle
    BY DEF Idle, ProfilesHandler, InsertProfile, Finish, Goto, ProfilesInv, ProfilesTypeOK
  <1>5. /\ \A j \in Profiles \ {i} : profile'[j] = profile[j]
        /\ profile'[i] = profile[i] \/ (profile'[i] = new /\ Unclaimed(new.user))
    BY <1>3 DEF ProfilesInv, ProfilesTypeOK
  <1>6. Keeps /\ \A j \in Profiles \ {i} : Made(j)' <=> Made(j)
    BY <1>2, <1>5 DEF Keeps, Made
  <1>7. \A g \in Handlers : ProfilesHandlerOK(g)'
    <2>1. ProfilesHandlerOK(h)'
      BY <1>4 DEF ProfilesHandlerOK, At
    <2>2. \A g \in Handlers \ {h}, j \in Profiles :
            (At(g, "create") /\ handler[g].id = j) => ~Made(j)'
      BY <1>2, <1>6 DEF ProfilesInv, ProfilesHandlerOK
    <2> QED
      BY <1>3, <1>4, <1>6, <2>1, <2>2, HandlersOK
  <1>8. ProfilesTypeOK'
    BY <1>1, <1>3, <1>4 DEF ProfilesInv, ProfilesTypeOK
  <1>9. OneProfilePerUser'
    <2>1. Unclaimed(new.user) => \A j \in Profiles : Made(j) => profile[j].user # new.user
      BY DEF Unclaimed, ProfileOf
    <2> QED
      BY <1>2, <1>5, <1>6, <2>1 DEF ProfilesInv, OneProfilePerUser, Made
  <1> QED
    BY <1>7, <1>8, <1>9 DEF ProfilesInv

LEMMA StartUpdateProfileInv ==
  ASSUME ProfilesInv, NEW h \in Handlers, NEW i \in Profiles, NEW input \in Update,
         StartUpdateProfile(h, i, input)
  PROVE  ProfilesInv'
  <1> DEFINE v == ToldVisibility(i, input)
             next == [pc |-> "update", id |-> i, input |-> input, visibility |-> v]
  <1>1. v \in Visibility
    BY DEF ToldVisibility, Update, ProfilesInv, ProfilesTypeOK, Profile
  <1>2. next \in ProfilesHandler /\ next.pc = "update"
    BY <1>1 DEF ProfilesHandler
  <1>3. /\ handler' = [handler EXCEPT ![h] = next] /\ UNCHANGED <<profile, told>>
        /\ was' = Remembered(handler', profile) /\ Made(i)
    BY DEF StartUpdateProfile, Begin, Goto
  <1>4. handler'[h] = next /\ \A g \in Handlers \ {h} : handler'[g] = handler[g]
    BY <1>3 DEF ProfilesInv, ProfilesTypeOK
  <1>5. /\ was' \in [Profiles -> SUBSET Visibility]
        /\ \A g \in Handlers, j \in Profiles : (At(g, "update")' /\ handler'[g].id = j) =>
             was[j] \subseteq was'[j] /\ profile[j].visibility \in was'[j]
    BY <1>3, Remembers DEF ProfilesInv, ProfilesTypeOK
  <1>6. ProfilesHandlerOK(h)'
    <2>1. v \in was'[i] \cup (IF "visibility" \in DOMAIN input THEN {input.visibility} ELSE {})
      BY <1>2, <1>4, <1>5 DEF ToldVisibility, At
    <2>2. Made(i)'
      BY <1>3 DEF Made
    <2> QED
      BY <1>2, <1>4, <2>1, <2>2 DEF ProfilesHandlerOK, At, Made
  <1>7. \A g \in Handlers : ProfilesHandlerOK(g)'
    <2>1. Keeps
      BY <1>3 DEF Keeps
    <2>2. \A g \in Handlers \ {h}, j \in Profiles :
            /\ (At(g, "create") /\ handler[g].id = j) => ~Made(j)'
            /\ (At(g, "update") /\ handler[g].id = j) => was[j] \subseteq was'[j]
      BY <1>3, <1>4, <1>5, ZenonT(40) DEF ProfilesInv, ProfilesHandlerOK, Made, At
    <2> QED
      BY <1>2, <1>3, <1>6, <2>1, <2>2, HandlersOK
  <1>8. ProfilesTypeOK'
    BY <1>2, <1>3, <1>5 DEF ProfilesInv, ProfilesTypeOK
  <1> QED
    BY <1>3, <1>7, <1>8 DEF ProfilesInv, OneProfilePerUser, Made

\* What an update does to its profile and tells of it.
LEMMA Written ==
  ASSUME ProfilesInv, NEW h \in Handlers, WriteUpdate(h)
  PROVE  \E i \in Profiles, new \in Profile :
           /\ handler[h].id = i /\ Made(i)
           /\ profile' = [profile EXCEPT ![i] = new] /\ new.user = profile[i].user
           /\ told' = [told EXCEPT ![i] = handler[h].visibility]
           /\ handler[h].visibility \in Visibility
           /\ handler[h].visibility \in was[i] \cup {new.visibility}
  <1>1. /\ handler[h].id \in Profiles /\ handler[h].input \in Update
        /\ handler[h].visibility \in Visibility
    BY DEF WriteUpdate, At, ProfilesInv, ProfilesTypeOK, ProfilesHandler, Idle
  <1>2. PICK i \in Profiles, input \in Update : handler[h].id = i /\ handler[h].input = input
    BY <1>1
  <1> DEFINE new == [f \in DOMAIN profile[i] |->
                      IF f \in DOMAIN input THEN input[f] ELSE profile[i][f]]
  <1>3. profile[i] \in Profile
    BY DEF ProfilesInv, ProfilesTypeOK
  <1>4. /\ new \in Profile /\ new.user = profile[i].user
        /\ "visibility" \in DOMAIN input => new.visibility = input.visibility
    BY <1>3, UpdatedRow
  <1>5. /\ Made(i)
        /\ handler[h].visibility \in was[i] \cup
             (IF "visibility" \in DOMAIN input THEN {input.visibility} ELSE {})
    BY <1>2 DEF WriteUpdate, ProfilesInv, ProfilesHandlerOK
  <1>6. /\ profile' = [profile EXCEPT ![i] = new]
        /\ told' = [told EXCEPT ![i] = handler[h].visibility]
    BY <1>2 DEF WriteUpdate
  <1>7. handler[h].visibility \in was[i] \cup {new.visibility}
    BY <1>4, <1>5
  <1> HIDE DEF new
  <1> QED
    BY <1>1, <1>2, <1>4, <1>5, <1>6, <1>7

\* A step that ends a handler, keeps each profile its user's, and remembers.
LEMMA EndsInv ==
  ASSUME ProfilesInv, NEW h \in Handlers, Finish(h), Keeps,
         profile' \in [Profiles -> Profile], told' \in [Profiles -> Visibility \cup {None}],
         \A i \in Profiles : Made(i)' <=> Made(i),
         was' = Remembered(handler', profile')
  PROVE  ProfilesInv'
  <1>1. /\ Idle \in ProfilesHandler /\ Idle.pc = "idle"
        /\ handler' = [handler EXCEPT ![h] = Idle] /\ handler'[h] = Idle
        /\ \A g \in Handlers \ {h} : handler'[g] = handler[g]
    BY DEF Idle, ProfilesHandler, Finish, Goto, ProfilesInv, ProfilesTypeOK
  <1>2. /\ was' \in [Profiles -> SUBSET Visibility]
        /\ \A g \in Handlers, j \in Profiles : (At(g, "update")' /\ handler'[g].id = j) =>
             was[j] \subseteq was'[j]
    BY Remembers
  <1>3. ProfilesHandlerOK(h)'
    BY <1>1 DEF ProfilesHandlerOK, At
  <1>4. \A g \in Handlers \ {h}, j \in Profiles :
          /\ (At(g, "create") /\ handler[g].id = j) => ~Made(j)'
          /\ (At(g, "update") /\ handler[g].id = j) => was[j] \subseteq was'[j]
    BY <1>1, <1>2, ZenonT(40) DEF ProfilesInv, ProfilesHandlerOK, At
  <1>5. \A g \in Handlers : ProfilesHandlerOK(g)'
    BY <1>1, <1>3, <1>4, HandlersOK
  <1>6. ProfilesTypeOK'
    BY <1>1, <1>2 DEF ProfilesInv, ProfilesTypeOK
  <1>7. OneProfilePerUser'
    BY DEF Keeps, ProfilesInv, OneProfilePerUser
  <1> QED
    BY <1>5, <1>6, <1>7 DEF ProfilesInv

LEMMA WriteUpdateInv ==
  ASSUME ProfilesInv, NEW h \in Handlers, WriteUpdate(h)
  PROVE  ProfilesInv'
  <1>1. PICK i \in Profiles, new \in Profile :
           /\ profile' = [profile EXCEPT ![i] = new] /\ new.user = profile[i].user
           /\ told' = [told EXCEPT ![i] = handler[h].visibility]
           /\ handler[h].visibility \in Visibility
    BY Written
  <1>2. /\ profile' \in [Profiles -> Profile]
        /\ \A j \in Profiles : profile'[j].user = profile[j].user
        /\ told' \in [Profiles -> Visibility \cup {None}]
    BY <1>1 DEF ProfilesInv, ProfilesTypeOK
  <1>3. Keeps /\ \A j \in Profiles : Made(j)' <=> Made(j)
    BY <1>2 DEF Keeps, Made
  <1>4. Finish(h) /\ was' = Remembered(handler', profile')
    BY DEF WriteUpdate
  <1> QED
    BY <1>2, <1>3, <1>4, EndsInv

LEMMA ProfilesCrashInv ==
  ASSUME ProfilesInv, NEW h \in Handlers, ProfilesCrash(h)
  PROVE  ProfilesInv'
  <1>1. /\ Finish(h) /\ UNCHANGED <<profile, told>>
        /\ was' = Remembered(handler', profile')
    BY DEF ProfilesCrash, Crash
  <1>2. Keeps /\ \A j \in Profiles : Made(j)' <=> Made(j)
    BY <1>1 DEF Keeps, Made
  <1>3. /\ profile' \in [Profiles -> Profile]
        /\ told' \in [Profiles -> Visibility \cup {None}]
    BY <1>1 DEF ProfilesInv, ProfilesTypeOK
  <1> QED
    BY <1>1, <1>2, <1>3, EndsInv

-----------------------------------------------------------------------------
\* The inductive invariant holds at the start, when there is nothing.
LEMMA ProfilesInvInit == ProfilesInit => ProfilesInv
  <1> SUFFICES ASSUME ProfilesInit PROVE ProfilesInv
    OBVIOUS
  <1>1. NoProfile \in Profile /\ Idle \in ProfilesHandler
    BY DEF NoProfile, Profile, Visibility, ProfilesHandler
  <1>2. \A i \in Profiles : ~Made(i)
    BY DEF ProfilesInit, Made, NoProfile
  <1>3. \A h \in Handlers : handler[h].pc = "idle"
    BY DEF ProfilesInit, Idle
  <1>4. ProfilesTypeOK
    BY <1>1 DEF ProfilesInit, ProfilesTypeOK
  <1> QED
    BY <1>2, <1>3, <1>4 DEF ProfilesInv, OneProfilePerUser, ProfilesHandlerOK, At

\* Every step keeps it.
LEMMA ProfilesInvNext == ProfilesInv /\ [ProfilesNext]_profilesVars => ProfilesInv'
  <1> SUFFICES ASSUME ProfilesInv, [ProfilesNext]_profilesVars PROVE ProfilesInv'
    OBVIOUS
  <1>1. CASE UNCHANGED profilesVars
    BY <1>1 DEF profilesVars, ProfilesInv, ProfilesTypeOK, OneProfilePerUser, ProfilesHandlerOK,
                Made, At
  <1> QED
    BY <1>1, StartCreateProfileInv, InsertProfileInv, StartUpdateProfileInv, WriteUpdateInv,
       ProfilesCrashInv DEF ProfilesNext

LEMMA ProfilesInvariant == ProfilesSpec => []ProfilesInv
  BY ProfilesInvInit, ProfilesInvNext, PTL DEF ProfilesSpec

\* Two requests at once that both find no profile of their user make one
\* (ProfileService.createProfile and the index profiles_user_id_key).
THEOREM UsersHaveOneProfile == ProfilesSpec => []OneProfilePerUser
  <1>1. ProfilesInv => OneProfilePerUser
    BY DEF ProfilesInv
  <1> QED
    BY <1>1, ProfilesInvariant, PTL

\* The event of an update is made of a read before its transaction, and yet tells nothing
\* but what the update set or the profile was while it ran (ProfileService.updateProfile).
THEOREM EventsTellWhatWasSo == ProfilesSpec => ToldWhatWasSo
  <1> DEFINE Told == \A i \in Profiles :
               told'[i] # told[i] => told'[i] \in was[i] \cup {profile'[i].visibility}
  <1>1. ProfilesInv /\ [ProfilesNext]_profilesVars => [Told]_profilesVars
    <2> SUFFICES ASSUME ProfilesInv, ProfilesNext PROVE Told
      OBVIOUS
    <2>1. ASSUME NEW h \in Handlers, WriteUpdate(h) PROVE Told
      <3>1. PICK i \in Profiles, new \in Profile :
              /\ profile' = [profile EXCEPT ![i] = new]
              /\ told' = [told EXCEPT ![i] = handler[h].visibility]
              /\ handler[h].visibility \in was[i] \cup {new.visibility}
        BY <2>1, Written
      <3> QED
        BY <3>1 DEF ProfilesInv, ProfilesTypeOK
    <2> QED
      BY <2>1 DEF ProfilesNext, StartCreateProfile, InsertProfile, StartUpdateProfile, ProfilesCrash
  <1> QED
    BY <1>1, ProfilesInvariant, PTL DEF ProfilesSpec, ToldWhatWasSo

-----------------------------------------------------------------------------
(* The outbox and reports *)

Holds(g) == handler[g].pc \in {"project", "commit"}

\* Kind by kind, the projector tells whom it is to tell, who are users.
LEMMA RecipientsOK ==
  ASSUME NEW e \in Event
  PROVE  Recipients(e) = ToBeTold(e) /\ Recipients(e) \subseteq People
  <1>1. /\ e.host \in People /\ e.guest \in People /\ e.host # e.guest /\ e.kind \in Kind
        /\ e.actor \in Actors(e.kind, e.host, e.guest) /\ None \notin People
    BY OutboxAssumption DEF Event
  <1>2. CASE e.kind \in {"SESSION_CHANGED", "SESSION_CANCELLED"}
    BY <1>1, <1>2 DEF Recipients, ToBeTold, Actors
  <1>3. CASE e.kind \in {"REQUEST_SENT", "PAYMENT_CAPTURED", "REFUND", "PAYMENT_FAILED"}
    BY <1>1, <1>3 DEF Recipients, ToBeTold, Actors
  <1>4. CASE e.kind = "REQUEST_ANSWERED"
    BY <1>1, <1>4 DEF Recipients, ToBeTold, Actors
  <1>5. CASE e.kind \in {"BADGE_EARNED", "REPORT_CREATED", "OTHER"}
    BY <1>1, <1>5 DEF Recipients, ToBeTold
  <1> QED
    BY <1>1, <1>2, <1>3, <1>4, <1>5 DEF Kind

\* The notifications of one event after some are added: those that were, and the new.
Told(i) == {u \in People : notification[i][u] # "none"}

LEMMA AddedOK ==
  ASSUME ReportsTypeOK, NEW i \in EventIds, NEW users \in SUBSET People,
         notification' = Added(i, users)
  PROVE  /\ notification' \in [EventIds -> [People -> Notification]]
         /\ Told(i)' = Told(i) \cup users
         /\ \A j \in EventIds \ {i} : Told(j)' = Told(j)
  <1>1. notification \in [EventIds -> [People -> Notification]]
    BY DEF ReportsTypeOK, OutboxTypeOK
  <1> DEFINE new == [u \in People |->
               IF u \in users /\ notification[i][u] = "none" THEN "unread" ELSE notification[i][u]]
  <1>2. new \in [People -> Notification]
    BY <1>1 DEF Notification
  <1>3. notification' = [notification EXCEPT ![i] = new]
    BY DEF Added
  <1>4. {u \in People : new[u] # "none"} = Told(i) \cup users
    BY DEF Told
  <1> HIDE DEF new
  <1>5. notification' \in [EventIds -> [People -> Notification]]
    BY <1>1, <1>2, <1>3
  <1>6. notification'[i] = new /\ \A j \in EventIds \ {i} : notification'[j] = notification[j]
    BY <1>1, <1>3
  <1> QED
    BY <1>4, <1>5, <1>6 DEF Told

\* The agreement on one event.
LEMMA AgreeByEvent ==
  OutboxAgrees <=>
    \A i \in EventIds :
      /\ outbox[i] = None => Told(i) = {}
      /\ outbox[i] # None =>
           Told(i) = IF i \in swallowed THEN {} ELSE ToBeTold(outbox[i])
      /\ report[i] # None <=> (outbox[i] # None /\ outbox[i].kind = "REPORT_CREATED")
      /\ report[i] # None => (report[i].resolved <=> report[i].status \in SettledStatus)
  BY DEF OutboxAgrees, NotificationsAgree, ReportsAgree, Told

-----------------------------------------------------------------------------
(* The steps *)

\* A step of one handler that changes no row, and is in order itself.
LEMMA QuietStep ==
  ASSUME ReportsInv, NEW h \in Handlers, NEW next \in ReportsHandler,
         handler' = [handler EXCEPT ![h] = next],
         UNCHANGED <<outbox, notification, swallowed, report>>,
         next.pc \in {"project", "commit"} =>
           \A g \in Handlers \ {h} : Holds(g) => handler[g].id # next.id,
         ReportsHandlerOK(h)'
  PROVE  ReportsInv'
  <1>1. /\ handler'[h] = next
        /\ \A g \in Handlers \ {h} : handler'[g] = handler[g]
    BY DEF ReportsInv, ReportsTypeOK
  <1>2. ASSUME NEW g \in Handlers \ {h} PROVE ReportsHandlerOK(g)'
    <2>1. ReportsHandlerOK(g) /\ handler'[g] = handler[g]
      BY <1>1 DEF ReportsInv
    <2>2. ASSUME Holds(g), NEW f \in Handlers \ {g}, Holds(f)' PROVE handler'[f].id # handler[g].id
      <3>1. CASE f = h
        BY <1>1, <2>2, <3>1 DEF Holds
      <3>2. CASE f # h
        BY <1>1, <2>1, <2>2, <3>2 DEF ReportsHandlerOK, Holds
      <3> QED
        BY <3>1, <3>2
    <2> QED
      BY <2>1, <2>2 DEF ReportsHandlerOK, Holds, At
  <1>3. ReportsTypeOK'
    BY DEF ReportsInv, ReportsTypeOK, OutboxTypeOK
  <1>4. OutboxAgrees'
    BY DEF ReportsInv, OutboxAgrees, NotificationsAgree, ReportsAgree
  <1> QED
    BY <1>2, <1>3, <1>4 DEF ReportsInv

\* A step that ends handler h and may change the rows of event i, which no other holds.
LEMMA EndStep ==
  ASSUME ReportsInv, NEW h \in Handlers, Finish(h), NEW i \in EventIds,
         outbox' \in [EventIds -> Event \cup {None}],
         notification' \in [EventIds -> [People -> Notification]],
         report' \in [EventIds -> Report \cup {None}],
         \A j \in EventIds \ {i} :
           outbox'[j] = outbox[j] /\ Told(j)' = Told(j) /\ report'[j] = report[j],
         swallowed \subseteq swallowed', swallowed' \subseteq swallowed \cup {i},
         outbox'[i] # outbox[i] \/ swallowed' # swallowed =>
           \A g \in Handlers \ {h} : Holds(g) => handler[g].id # i,
         report[i] # None => report'[i] # None,
         outbox'[i] = None => Told(i)' = {},
         outbox'[i] # None => Told(i)' = IF i \in swallowed' THEN {} ELSE ToBeTold(outbox'[i]),
         report'[i] # None <=> (outbox'[i] # None /\ outbox'[i].kind = "REPORT_CREATED"),
         report'[i] # None => (report'[i].resolved <=> report'[i].status \in SettledStatus)
  PROVE  ReportsInv'
  <1>1. Idle \in ReportsHandler /\ Idle.pc = "idle"
    BY DEF Idle, ReportsHandler
  <1>2. /\ handler' = [handler EXCEPT ![h] = Idle] /\ handler'[h] = Idle
        /\ \A g \in Handlers \ {h} : handler'[g] = handler[g]
    BY DEF Finish, Goto, ReportsInv, ReportsTypeOK
  <1>3. ReportsHandlerOK(h)'
    BY <1>1, <1>2 DEF ReportsHandlerOK, At
  <1>4. ASSUME NEW g \in Handlers \ {h} PROVE ReportsHandlerOK(g)'
    <2>1. ReportsHandlerOK(g) /\ handler'[g] = handler[g] /\ handler[g] \in ReportsHandler
      BY <1>2 DEF ReportsInv, ReportsTypeOK
    <2>2. ASSUME Holds(g)
          PROVE  outbox'[handler[g].id] = None /\ handler[g].id \notin swallowed'
      <3>1. handler[g].id \in EventIds
        BY <2>1, <2>2 DEF Holds, ReportsHandler, Writing, Idle
      <3>2. outbox[handler[g].id] = None /\ handler[g].id \notin swallowed
        BY <2>1, <2>2 DEF Holds, ReportsHandlerOK
      <3>3. CASE handler[g].id = i
        BY <2>2, <3>2, <3>3
      <3>4. CASE handler[g].id # i
        BY <3>1, <3>2, <3>4
      <3> QED
        BY <3>3, <3>4
    <2>3. ASSUME Holds(g), NEW f \in Handlers \ {g}, Holds(f)' PROVE handler'[f].id # handler[g].id
      <3>1. f # h
        BY <1>1, <1>2, <2>3 DEF Holds
      <3> QED
        BY <1>2, <2>1, <2>3, <3>1 DEF ReportsHandlerOK, Holds
    <2>4. ASSUME At(g, "settle") PROVE report'[handler[g].id] # None
      <3>1. handler[g].id \in EventIds
        BY <2>1, <2>4 DEF At, ReportsHandler, Writing, Idle
      <3> QED
        BY <2>1, <2>4, <3>1 DEF ReportsHandlerOK
    <2> QED
      BY <2>1, <2>2, <2>3, <2>4 DEF ReportsHandlerOK, Holds, At
  <1>5. ReportsTypeOK'
    BY <1>1, <1>2 DEF ReportsInv, ReportsTypeOK, OutboxTypeOK
  <1>6. OutboxAgrees'
    <2>1. \A j \in EventIds : j \in swallowed' <=> j \in swallowed \/ (j = i /\ i \in swallowed')
      OBVIOUS
    <2>3. ASSUME NEW j \in EventIds \ {i}
          PROVE  /\ outbox'[j] = None => Told(j)' = {}
                 /\ outbox'[j] # None =>
                      Told(j)' = IF j \in swallowed' THEN {} ELSE ToBeTold(outbox'[j])
                 /\ report'[j] # None <=> (outbox'[j] # None /\ outbox'[j].kind = "REPORT_CREATED")
                 /\ report'[j] # None => (report'[j].resolved <=> report'[j].status \in SettledStatus)
      BY <2>1, AgreeByEvent DEF ReportsInv
    <2> QED
      BY <2>3 DEF OutboxAgrees, NotificationsAgree, ReportsAgree, Told
  <1> QED
    BY <1>3, <1>4, <1>5, <1>6 DEF ReportsInv

\* A handler may end at any time.
LEMMA Ends ==
  ASSUME ReportsInv, NEW h \in Handlers, Finish(h),
         UNCHANGED <<outbox, notification, swallowed, report>>
  PROVE  ReportsInv'
  <1>1. Idle \in ReportsHandler /\ Idle.pc = "idle"
    BY DEF Idle, ReportsHandler
  <1>2. handler' = [handler EXCEPT ![h] = Idle] /\ handler'[h] = Idle
    BY DEF Finish, Goto, ReportsInv, ReportsTypeOK
  <1>3. ReportsHandlerOK(h)'
    BY <1>1, <1>2 DEF ReportsHandlerOK, At
  <1> QED
    BY <1>1, <1>2, <1>3, QuietStep

LEMMA EnqueueInv ==
  ASSUME ReportsInv, NEW h \in Handlers, NEW i \in EventIds, NEW e \in Event,
         Enqueue(h, i, e), UNCHANGED report
  PROVE  ReportsInv'
  <1> DEFINE next == [pc |-> "project", id |-> i, event |-> e, users |-> {},
                      failed |-> FALSE, aborted |-> FALSE]
  <1>1. next \in ReportsHandler
    BY DEF ReportsHandler, Writing
  <1>2. next.pc = "project" /\ next.id = i /\ ~next.failed /\ ~next.aborted /\ next.users = {}
    OBVIOUS
  <1>3. /\ handler' = [handler EXCEPT ![h] = next]
        /\ UNCHANGED <<outbox, notification, swallowed, report>>
        /\ outbox[i] = None /\ i \notin swallowed
        /\ \A g \in Handlers : Holds(g) => handler[g].id # i
    BY DEF Enqueue, Begin, Goto, Holds
  <1> HIDE DEF next
  <1>4. handler'[h] = next /\ \A g \in Handlers \ {h} : handler'[g] = handler[g]
    BY <1>3 DEF ReportsInv, ReportsTypeOK
  <1>5. ReportsHandlerOK(h)'
    <2>1. \A g \in Handlers \ {h} : Holds(g)' => handler'[g].id # i
      BY <1>3, <1>4 DEF Holds
    <2> QED
      BY <1>2, <1>3, <1>4, <2>1 DEF ReportsHandlerOK, Holds, At
  <1> QED
    BY <1>1, <1>2, <1>3, <1>5, QuietStep

\* A projection that fails tells no one, and only then is the transaction aborted.
LEMMA ProjectInv ==
  ASSUME ReportsInv, NEW h \in Handlers, Project(h), UNCHANGED report
  PROVE  ReportsInv'
  <1>1. PICK i \in EventIds, e \in Event :
          /\ handler[h] \in Writing /\ handler[h].id = i /\ handler[h].event = e
    <2>1. handler[h] \in Writing
      <3>1. handler[h].pc = "project" /\ handler[h] \in ReportsHandler
        BY DEF Project, At, ReportsInv, ReportsTypeOK
      <3>2. handler[h] # Idle /\ handler[h] \notin [pc : {"settle"}, id : EventIds, status : ReportStatus]
        BY <3>1 DEF Idle
      <3> QED
        BY <3>1, <3>2 DEF ReportsHandler
    <2>2. handler[h].id \in EventIds /\ handler[h].event \in Event
      BY <2>1 DEF Writing
    <2> QED
      BY <2>1, <2>2
  <1>2. /\ outbox[i] = None /\ i \notin swallowed /\ ~handler[h].failed
        /\ handler[h].aborted => handler[h].failed
        /\ \A g \in Handlers \ {h} : Holds(g) => handler[g].id # i
    BY <1>1 DEF Project, At, Holds, ReportsInv, ReportsHandlerOK
  <1>3. UNCHANGED <<outbox, notification, swallowed, report>>
    BY DEF Project, VisibleYet
  <1>4. ASSUME NEW next \in Writing, next.pc = "commit", next.id = i,
               next.aborted => next.failed,
               next.users = IF next.failed THEN {} ELSE Recipients(next.event),
               Goto(h, next)
        PROVE  ReportsInv'
    <2>1. handler' = [handler EXCEPT ![h] = next] /\ next \in ReportsHandler
      BY <1>4 DEF Goto, ReportsHandler
    <2>2. handler'[h] = next /\ \A g \in Handlers \ {h} : handler'[g] = handler[g]
      BY <2>1 DEF ReportsInv, ReportsTypeOK
    <2>3. ReportsHandlerOK(h)'
      <3>1. \A g \in Handlers \ {h} : Holds(g)' => handler'[g].id # i
        BY <1>2, <2>2 DEF Holds
      <3> QED
        BY <1>2, <1>3, <1>4, <2>2, <3>1 DEF ReportsHandlerOK, Holds, At
    <2> QED
      BY <1>2, <1>3, <1>4, <2>1, <2>3, QuietStep
  <1>5. CASE Goto(h, [handler[h] EXCEPT !.pc = "commit", !.users = Recipients(handler[h].event)])
    <2> DEFINE next == [handler[h] EXCEPT !.pc = "commit", !.users = Recipients(e)]
    <2>1. Recipients(e) \in SUBSET People
      BY RecipientsOK
    <2>2. /\ next \in Writing /\ next.pc = "commit" /\ next.id = i /\ next.event = e
          /\ next.users = Recipients(e) /\ ~next.failed /\ (next.aborted => next.failed)
      BY <1>1, <1>2, <2>1 DEF Writing
    <2>3. Goto(h, next)
      BY <1>1, <1>5
    <2> HIDE DEF next
    <2> QED
      BY <1>4, <2>2, <2>3
  <1>6. ASSUME NEW aborted \in BOOLEAN,
               Goto(h, [handler[h] EXCEPT !.pc = "commit", !.failed = TRUE, !.aborted = aborted])
        PROVE  ReportsInv'
    <2> DEFINE next == [handler[h] EXCEPT !.pc = "commit", !.failed = TRUE, !.aborted = aborted]
    <2>1. handler[h].users = {}
      BY DEF Project, At, ReportsInv, ReportsHandlerOK
    <2>2. /\ next \in Writing /\ next.pc = "commit" /\ next.id = i
          /\ next.users = {} /\ next.failed
      BY <1>1, <2>1 DEF Writing
    <2>3. Goto(h, next)
      BY <1>6
    <2> HIDE DEF next
    <2> QED
      BY <1>4, <2>2, <2>3
  <1> QED
    BY <1>5, <1>6 DEF Project

\* A commit writes the event, whom it tells and the report, or nothing of them.
LEMMA CommitReportInv ==
  ASSUME ReportsInv, NEW h \in Handlers, CommitReport(h)
  PROVE  ReportsInv'
  <1>1. PICK i \in EventIds, e \in Event, users \in SUBSET People :
          /\ handler[h].id = i /\ handler[h].event = e /\ handler[h].users = users
    BY DEF CommitReport, Commit, At, ReportsInv, ReportsTypeOK, ReportsHandler, Writing, Idle
  <1>2. /\ outbox[i] = None /\ i \notin swallowed
        /\ \A g \in Handlers \ {h} : Holds(g) => handler[g].id # i
        /\ handler[h].aborted => handler[h].failed
        /\ users = IF handler[h].failed THEN {} ELSE ToBeTold(e)
    BY <1>1, RecipientsOK DEF CommitReport, Commit, At, Holds, ReportsInv, ReportsHandlerOK
  <1>3. /\ outbox \in [EventIds -> Event \cup {None}] /\ Finish(h)
        /\ notification \in [EventIds -> [People -> Notification]]
        /\ report \in [EventIds -> Report \cup {None}] /\ ReportsTypeOK
    BY DEF CommitReport, Commit, ReportsInv, ReportsTypeOK, OutboxTypeOK
  <1>4. Told(i) = {} /\ report[i] = None
    BY <1>2, AgreeByEvent DEF ReportsInv
  <1>5. swallowed' = IF handler[h].failed THEN swallowed \cup {i} ELSE swallowed
    BY <1>1 DEF CommitReport, Commit
  <1>6. CASE handler[h].aborted
    <2>1. UNCHANGED <<outbox, notification, report>>
      BY <1>6 DEF CommitReport, Commit
    <2>2. Told(i)' = {} /\ \A j \in EventIds \ {i} : Told(j)' = Told(j)
      BY <1>4, <2>1 DEF Told
    <2> QED
      BY <1>2, <1>3, <1>4, <1>5, <2>1, <2>2, EndStep
  <1>7. CASE ~handler[h].aborted
    <2>1. /\ outbox' = [outbox EXCEPT ![i] = e] /\ notification' = Added(i, users)
          /\ report' = IF e.kind = "REPORT_CREATED"
                       THEN [report EXCEPT ![i] = [status |-> "OPEN", resolved |-> FALSE]]
                       ELSE report
      BY <1>1, <1>7 DEF CommitReport, Commit
    <2>2. /\ notification' \in [EventIds -> [People -> Notification]]
          /\ Told(i)' = users
          /\ \A j \in EventIds \ {i} : Told(j)' = Told(j)
      <3>1. /\ notification' \in [EventIds -> [People -> Notification]]
            /\ Told(i)' = Told(i) \cup users
            /\ \A j \in EventIds \ {i} : Told(j)' = Told(j)
        BY <1>3, <2>1, AddedOK
      <3> QED
        BY <1>4, <3>1
    <2>3. /\ outbox' \in [EventIds -> Event \cup {None}] /\ outbox'[i] = e
          /\ \A j \in EventIds \ {i} : outbox'[j] = outbox[j]
      BY <1>3, <2>1
    <2> DEFINE new == [status |-> "OPEN", resolved |-> FALSE]
    <2>4. new \in Report /\ (new.resolved <=> new.status \in SettledStatus)
      BY DEF Report, ReportStatus, SettledStatus
    <2>5. /\ report' \in [EventIds -> Report \cup {None}]
          /\ report'[i] = IF e.kind = "REPORT_CREATED" THEN new ELSE None
          /\ \A j \in EventIds \ {i} : report'[j] = report[j]
      BY <1>3, <1>4, <2>1, <2>4
    <2> HIDE DEF new
    <2>6. (report'[i] # None <=> (outbox'[i] # None /\ outbox'[i].kind = "REPORT_CREATED"))
      BY <2>3, <2>4, <2>5, OutboxAssumption, ReportsAssumption
    <2> QED
      BY <1>2, <1>3, <1>4, <1>5, <2>2, <2>3, <2>4, <2>5, <2>6, EndStep, OutboxAssumption, SMTT(30)
  <1> QED
    BY <1>6, <1>7
LEMMA StartUpdateStatusInv ==
  ASSUME ReportsInv, NEW h \in Handlers, NEW i \in EventIds, NEW status \in ReportStatus,
         StartUpdateStatus(h, i, status)
  PROVE  ReportsInv'
  <1> DEFINE next == [pc |-> "settle", id |-> i, status |-> status]
  <1>1. next \in ReportsHandler /\ next.pc = "settle" /\ next.id = i
    BY DEF ReportsHandler
  <1>2. /\ handler' = [handler EXCEPT ![h] = next] /\ report[i] # None
        /\ UNCHANGED <<outbox, notification, swallowed, report>>
    BY DEF StartUpdateStatus, Begin, Goto
  <1> HIDE DEF next
  <1>3. handler'[h] = next
    BY <1>2 DEF ReportsInv, ReportsTypeOK
  <1>4. ReportsHandlerOK(h)'
    BY <1>1, <1>2, <1>3 DEF ReportsHandlerOK, At
  <1> QED
    BY <1>1, <1>2, <1>4, QuietStep

LEMMA UpdateReportStatusInv ==
  ASSUME ReportsInv, NEW h \in Handlers, UpdateReportStatus(h)
  PROVE  ReportsInv'
  <1>1. PICK i \in EventIds, status \in ReportStatus :
          handler[h].id = i /\ handler[h].status = status
    BY DEF UpdateReportStatus, At, ReportsInv, ReportsTypeOK, ReportsHandler, Writing, Idle
  <1>2. PICK settled \in BOOLEAN : settled = (status \in SettledStatus)
    <2>1. (status \in SettledStatus) \in BOOLEAN
      OBVIOUS
    <2> QED
      BY <2>1, Zenon
  <1> DEFINE new == [status |-> status, resolved |-> settled]
  <1>3. new \in Report /\ (new.resolved <=> new.status \in SettledStatus)
    BY <1>2 DEF Report
  <1>4. report' = [report EXCEPT ![i] = new] /\ Finish(h)
    BY <1>1, <1>2 DEF UpdateReportStatus
  <1> HIDE DEF new
  <1>5. /\ UNCHANGED <<outbox, notification, swallowed>> /\ report[i] # None
        /\ outbox' \in [EventIds -> Event \cup {None}]
        /\ notification' \in [EventIds -> [People -> Notification]]
    BY <1>1 DEF UpdateReportStatus, At, ReportsInv, ReportsTypeOK, OutboxTypeOK, ReportsHandlerOK
  <1>6. /\ report' \in [EventIds -> Report \cup {None}] /\ report'[i] = new /\ new # None
        /\ \A j \in EventIds \ {i} : report'[j] = report[j]
    BY <1>3, <1>4, ReportsAssumption DEF ReportsInv, ReportsTypeOK
  <1>7. \A j \in EventIds : Told(j)' = Told(j)
    BY <1>5 DEF Told
  <1>8. /\ outbox[i] = None => Told(i) = {}
        /\ outbox[i] # None => Told(i) = IF i \in swallowed THEN {} ELSE ToBeTold(outbox[i])
        /\ outbox[i] # None /\ outbox[i].kind = "REPORT_CREATED"
    BY <1>5, AgreeByEvent DEF ReportsInv
  <1> QED
    BY <1>3, <1>4, <1>5, <1>6, <1>7, <1>8, EndStep

\* Reading makes no one be told of more or less.
LEMMA ReadInv ==
  ASSUME ReportsInv, UNCHANGED <<outbox, swallowed, report, handler>>,
         notification' \in [EventIds -> [People -> Notification]],
         \A i \in EventIds : Told(i)' = Told(i)
  PROVE  ReportsInv'
  <1>1. \A h \in Handlers : ReportsHandlerOK(h)'
    BY DEF ReportsInv, ReportsHandlerOK, At
  <1>2. ReportsTypeOK'
    BY DEF ReportsInv, ReportsTypeOK, OutboxTypeOK
  <1>3. OutboxAgrees'
    BY AgreeByEvent DEF ReportsInv, OutboxAgrees, NotificationsAgree, ReportsAgree, Told
  <1> QED
    BY <1>1, <1>2, <1>3 DEF ReportsInv

LEMMA MarkReadInv ==
  ASSUME ReportsInv, NEW u \in People, NEW i \in EventIds, MarkRead(u, i), UNCHANGED report
  PROVE  ReportsInv'
  <1>1. /\ notification \in [EventIds -> [People -> Notification]]
        /\ notification[i][u] = "unread"
        /\ notification' = [notification EXCEPT ![i][u] = "read"]
    BY DEF MarkRead, ReportsInv, ReportsTypeOK, OutboxTypeOK
  <1>2. notification' \in [EventIds -> [People -> Notification]]
    BY <1>1 DEF Notification
  <1>3. \A j \in EventIds, v \in People : notification'[j][v] # "none" <=> notification[j][v] # "none"
    BY <1>1
  <1> QED
    BY <1>2, <1>3, ReadInv DEF MarkRead, Told

LEMMA MarkAllReadInv ==
  ASSUME ReportsInv, NEW u \in People, MarkAllRead(u), UNCHANGED report
  PROVE  ReportsInv'
  <1>1. /\ notification \in [EventIds -> [People -> Notification]]
        /\ notification' = [j \in EventIds |->
             [notification[j] EXCEPT ![u] = IF @ = "unread" THEN "read" ELSE @]]
    BY DEF MarkAllRead, ReportsInv, ReportsTypeOK, OutboxTypeOK
  <1>2. notification' \in [EventIds -> [People -> Notification]]
    BY <1>1 DEF Notification
  <1>3. \A j \in EventIds, v \in People : notification'[j][v] # "none" <=> notification[j][v] # "none"
    BY <1>1
  <1> QED
    BY <1>2, <1>3, ReadInv DEF MarkAllRead, Told

-----------------------------------------------------------------------------
\* The inductive invariant holds at the start, when there is nothing.
LEMMA ReportsInvInit == ReportsInit => ReportsInv
  <1> SUFFICES ASSUME ReportsInit PROVE ReportsInv
    OBVIOUS
  <1>1. Idle \in ReportsHandler /\ Idle.pc = "idle"
    BY DEF Idle, ReportsHandler
  <1>2. ReportsTypeOK
    BY <1>1 DEF ReportsInit, OutboxInit, ReportsTypeOK, OutboxTypeOK, Notification
  <1>3. OutboxAgrees
    BY DEF ReportsInit, OutboxInit, OutboxAgrees, NotificationsAgree, ReportsAgree
  <1>4. \A h \in Handlers : ReportsHandlerOK(h)
    BY <1>1 DEF ReportsInit, OutboxInit, ReportsHandlerOK, At
  <1> QED
    BY <1>2, <1>3, <1>4 DEF ReportsInv

\* Every step keeps it.
LEMMA ReportsInvNext == ReportsInv /\ [ReportsNext]_reportsVars => ReportsInv'
  <1> SUFFICES ASSUME ReportsInv, [ReportsNext]_reportsVars PROVE ReportsInv'
    OBVIOUS
  <1>1. ASSUME NEW h \in Handlers, OutboxCrash(h), UNCHANGED report PROVE ReportsInv'
    BY <1>1, Ends DEF OutboxCrash, Crash
  <1>2. ASSUME NEW h \in Handlers, NEW i \in EventIds, NEW e \in Event,
               CreateReport(h, i, e) \/ (Enqueue(h, i, e) /\ UNCHANGED report)
        PROVE  ReportsInv'
    BY <1>2, EnqueueInv DEF CreateReport
  <1>3. CASE UNCHANGED reportsVars
    BY <1>3 DEF reportsVars, outboxVars, ReportsInv, ReportsTypeOK, OutboxTypeOK, OutboxAgrees,
                NotificationsAgree, ReportsAgree, ReportsHandlerOK, At
  <1> QED
    BY <1>1, <1>2, <1>3, ProjectInv, CommitReportInv, StartUpdateStatusInv,
       UpdateReportStatusInv, MarkReadInv, MarkAllReadInv DEF ReportsNext

\* Of a committed event all who are to be told are told, or none of them when an error of
\* the projection was swallowed, and of no other event anybody; and a report is there
\* exactly when its event is (OutboxWriter.enqueue, NotificationProjector.project,
\* createReport).  That the error leaves the event to be committed is not said: see the
\* run of ContainedFailures.
THEOREM OutboxAlwaysAgrees == ReportsSpec => []OutboxAgrees
  <1>1. ReportsInv => OutboxAgrees
    BY DEF ReportsInv
  <1> QED
    BY <1>1, ReportsInvInit, ReportsInvNext, PTL DEF ReportsSpec

-----------------------------------------------------------------------------
(* Growth: rows and what a request names of them *)

\* A row is not the value that stands for none.
LEMMA RowsAreRows ==
  ASSUME NEW k \in DOMAIN Table
  PROVE  <<>> \notin Table[k]
  <1>1. DOMAIN <<>> = {}
    OBVIOUS
  <1>2. <<>> \notin Goal /\ <<>> \notin Slot
    BY DEF Goal, Slot
  <1>3. \A r \in ProjectRow : "from" \in DOMAIN r
    BY DEF ProjectRow
  <1>4. \A r \in Certification : "from" \in DOMAIN r
    BY DEF Certification
  <1>5. <<>> \notin ProjectRow /\ <<>> \notin Certification
    BY <1>1, <1>3, <1>4
  <1>6. Table[k] \in {Goal, Slot, ProjectRow, Certification}
    BY DEF Table
  <1> QED
    BY <1>2, <1>5, <1>6

\* The rows of a table have the same columns.
LEMMA SameColumns ==
  ASSUME NEW k \in DOMAIN Table, NEW r \in Table[k], NEW s \in Table[k]
  PROVE  DOMAIN r = DOMAIN s
  <1>1. \A x, y \in Goal : DOMAIN x = DOMAIN y
    BY DEF Goal
  <1>2. \A x, y \in Slot : DOMAIN x = DOMAIN y
    BY DEF Slot
  <1>3. \A x, y \in Certification : DOMAIN x = DOMAIN y
    BY DEF Certification
  <1>4. \A x, y \in ProjectRow : DOMAIN x = DOMAIN y
    BY DEF ProjectRow
  <1>5. Table[k] \in {Goal, Slot, Certification, ProjectRow}
    BY DEF Table
  <1> QED
    BY <1>1, <1>2, <1>3, <1>4, <1>5

-----------------------------------------------------------------------------
(* Growth: the inductive invariant *)

LEMMA GrowthInvInit == GrowthInit => GrowthInv
  <1> SUFFICES ASSUME GrowthInit PROVE GrowthInv
    OBVIOUS
  <1>1. Idle \in GrowthHandler
    BY DEF GrowthHandler
  <1>2. GrowthTypeOK
    BY <1>1 DEF GrowthInit, GrowthTypeOK
  <1>3. \A i \in Rows : ~Stored(i)
    BY DEF GrowthInit, Stored
  <1>5. NamedColumns
    BY <1>3 DEF GrowthInit, NamedColumns
  <1>4. InsertsAreNew
    BY <1>3 DEF InsertsAreNew, GrowthInit, At, Idle
  <1> QED
    BY <1>2, <1>3, <1>4, <1>5 DEF GrowthInv, GrowthAgrees, PeriodsInOrder, PatchesSurvive

\* The process ends: the rows are as they were, and no request is left.
LEMMA EndProcessInv ==
  ASSUME GrowthInv, EndProcess, UNCHANGED <<kind, growth, named, deleted, saved>>
  PROVE  GrowthInv'
  <1>1. Idle \in GrowthHandler
    BY DEF GrowthHandler
  <1>2. GrowthTypeOK'
    BY <1>1 DEF GrowthInv, GrowthTypeOK, EndProcess
  <1>3. InsertsAreNew'
    BY DEF GrowthInv, InsertsAreNew, Stored, EndProcess, At, Idle
  <1> QED
    BY <1>2, <1>3
       DEF GrowthInv, GrowthAgrees, PeriodsInOrder, PatchesSurvive, NamedColumns, AsNamed,
           Default, Stored, Check, SlotCheck, DatesCheck

\* A request begins: the rows are as they were, and what it will insert is new.
LEMMA BeginsInv ==
  ASSUME GrowthInv, NEW h \in Handlers, NEW next \in GrowthHandler, Begin(h, next),
         UNCHANGED <<kind, growth, named, deleted>>, saved \subseteq saved',
         next.pc = "insert" =>
           /\ next.data \in Table[kind]
           /\ next.row \in saved' \ saved
  PROVE  GrowthInv'
  <1>1. /\ \A g \in Handlers : handler'[g] = IF g = h THEN next ELSE handler[g]
        /\ handler' \in [Handlers -> GrowthHandler]
    BY DEF GrowthInv, GrowthTypeOK, Begin, Goto
  <1>2. GrowthTypeOK'
    BY <1>1 DEF GrowthInv, GrowthTypeOK
  <1>3. InsertsAreNew'
    <2>1. (/\ deleted \subseteq saved
           /\ \A i \in Rows : Stored(i) => i \in saved)'
      BY DEF GrowthInv, InsertsAreNew, Stored
    <2>2. ASSUME NEW g \in Handlers, handler'[g].pc = "insert"
          PROVE  /\ handler'[g].data \in Table[kind]
                 /\ handler'[g].row \in saved' \ deleted /\ growth[handler'[g].row] = <<>>
                 /\ \A f \in Handlers \ {g} :
                      handler'[f].pc = "insert" => handler'[f].row # handler'[g].row
      <3>1. \A f \in Handlers : handler[f].pc = "insert" =>
              /\ handler[f].data \in Table[kind]
              /\ handler[f].row \in saved \ deleted /\ growth[handler[f].row] = <<>>
              /\ \A e \in Handlers \ {f} :
                   handler[e].pc = "insert" => handler[e].row # handler[f].row
        BY DEF GrowthInv, InsertsAreNew, Stored, At
      <3>2. next.pc = "insert" => next.row \in Rows
        BY DEF GrowthHandler, Idle
      <3>3. \A i \in Rows : growth[i] # <<>> => i \in saved
        BY DEF GrowthInv, InsertsAreNew, Stored
      <3>4. deleted \subseteq saved
        BY DEF GrowthInv, InsertsAreNew
      <3> QED
        BY <1>1, <2>2, <3>1, <3>2, <3>3, <3>4
    <2> QED
      BY <2>1, <2>2 DEF InsertsAreNew, Stored, At
  <1> QED
    BY <1>2, <1>3
       DEF GrowthInv, GrowthAgrees, PeriodsInOrder, PatchesSurvive, NamedColumns, AsNamed,
           Default, Stored, Check, SlotCheck, DatesCheck

\* What a POST or a PATCH begins with.
LEMMA RoutesInv ==
  ASSUME GrowthInv, NEW h \in Handlers, NEW i \in Rows, NEW bodies, NEW body \in bodies,
         StartCreate(h, i, body) \/ StartPatch(h, i, body),
         \/ kind = "goal" /\ bodies = GoalBodies
         \/ kind = "slot" /\ bodies = SlotBodies
         \/ kind = "certification" /\ bodies = CertificationBodies
         \/ kind = "project" /\ bodies = ProjectBodies
  PROVE  GrowthInv'
  <1>1. CASE StartCreate(h, i, body)
    <2>1. Begin(h, [pc |-> "insert", row |-> i, data |-> NewRow(Parsed(body))])
      BY <1>1 DEF StartCreate
    <2>2. PICK row \in Table[kind] : row = NewRow(Parsed(body))
      BY <1>1 DEF StartCreate
    <2>3. [pc |-> "insert", row |-> i, data |-> row] \in GrowthHandler
      BY DEF GrowthHandler, GrowthInv, GrowthTypeOK
    <2> QED
      BY <1>1, <2>1, <2>2, <2>3, BeginsInv DEF StartCreate
  <1>2. CASE StartPatch(h, i, body)
    <2>1. body \in UNION {GoalBodies, SlotBodies, CertificationBodies, ProjectBodies}
      OBVIOUS
    <2>2. [pc |-> "write", row |-> i, body |-> body] \in GrowthHandler
      BY <2>1 DEF GrowthHandler
    <2> QED
      BY <1>2, <2>2, BeginsInv DEF StartPatch
  <1> QED
    BY <1>1, <1>2

\* One row changes, or is deleted, and no request is left that will insert it.
LEMMA OneRowInv ==
  ASSUME GrowthInv, NEW i \in saved, i \in Rows, NEW row \in Table[kind] \cup {<<>>},
         NEW columns, growth' = [growth EXCEPT ![i] = row],
         named' = [named EXCEPT ![i] = columns],
         row # <<>> => DOMAIN columns = DOMAIN row /\ \A c \in DOMAIN row : AsNamed(i, c)',
         UNCHANGED <<kind, saved>>,
         \/ row = <<>> /\ deleted' = deleted \cup {i}
         \/ Check(row) /\ i \notin deleted /\ UNCHANGED deleted,
         UNCHANGED handler \/ \E h \in Handlers : Finish(h),
         \A g \in Handlers : At(g, "insert")' => handler[g].row # i
  PROVE  GrowthInv'
  <1>1. /\ \A j \in Rows : growth'[j] = IF j = i THEN row ELSE growth[j]
        /\ \A j \in Rows : named'[j] = IF j = i THEN columns ELSE named[j]
        /\ DOMAIN named' = Rows
    BY DEF GrowthInv, GrowthTypeOK, NamedColumns
  <1>2. /\ handler' \in [Handlers -> GrowthHandler]
        /\ \A g \in Handlers : handler'[g] = handler[g] \/ handler'[g].pc = "idle"
    <2>1. Idle \in GrowthHandler /\ Idle.pc = "idle"
      BY DEF GrowthHandler, Idle
    <2> QED
      BY <2>1 DEF GrowthInv, GrowthTypeOK, Finish, Goto
  <1>3. GrowthTypeOK'
    BY <1>2 DEF GrowthInv, GrowthTypeOK
  <1>4. InsertsAreNew'
    <2>1. (/\ deleted \subseteq saved
           /\ \A j \in Rows : Stored(j) => j \in saved)'
      BY <1>1 DEF GrowthInv, InsertsAreNew, Stored
    <2>2. ASSUME NEW g \in Handlers, At(g, "insert")'
          PROVE  (/\ handler[g].data \in Table[kind]
                  /\ handler[g].row \in saved \ deleted /\ ~Stored(handler[g].row)
                  /\ \A f \in Handlers \ {g} : At(f, "insert") => handler[f].row # handler[g].row)'
      <3>1. /\ handler'[g] = handler[g] /\ At(g, "insert") /\ handler[g].row # i
            /\ \A f \in Handlers : At(f, "insert")' => At(f, "insert") /\ handler'[f] = handler[f]
        BY <1>2, <2>2 DEF At
      <3>2. /\ handler[g].data \in Table[kind]
            /\ handler[g].row \in saved \ deleted /\ growth[handler[g].row] = <<>>
            /\ \A f \in Handlers \ {g} : At(f, "insert") => handler[f].row # handler[g].row
        BY <3>1 DEF GrowthInv, InsertsAreNew, Stored
      <3>3. handler[g] \in GrowthHandler /\ handler[g].pc = "insert"
        BY <3>1 DEF GrowthInv, GrowthTypeOK, At
      <3>4. handler[g].row \in Rows
        BY <3>3 DEF GrowthHandler, Idle
      <3>5. growth'[handler[g].row] = <<>>
        BY <1>1, <3>1, <3>2, <3>4
      <3> QED
        BY <3>1, <3>2, <3>5 DEF Stored
    <2> QED
      BY <2>1, <2>2 DEF InsertsAreNew
  <1>5. PeriodsInOrder'
    <2>1. \A j \in Rows : growth[j] # <<>> => Check(growth[j])
      BY DEF GrowthInv, GrowthAgrees, PeriodsInOrder, Stored
    <2>2. ASSUME NEW j \in Rows, growth'[j] # <<>>
          PROVE  Check(growth'[j])
      BY <1>1, <2>1, <2>2
    <2> QED
      BY <2>2 DEF PeriodsInOrder, Stored, Check, SlotCheck, DatesCheck
  <1>6. PatchesSurvive'
    <2>1. ASSUME NEW j \in Rows, growth'[j] # <<>>
          PROVE  j \notin deleted' /\ \A c \in DOMAIN growth'[j] : AsNamed(j, c)'
      <3>1. CASE j = i
        BY <1>1, <2>1, <3>1
      <3>2. CASE j # i
        <4>1. growth'[j] = growth[j] /\ named'[j] = named[j] /\ Default' = Default
          BY <1>1, <3>2 DEF Default
        <4>2. j \notin deleted /\ \A c \in DOMAIN growth[j] : AsNamed(j, c)
          BY <2>1, <4>1 DEF GrowthInv, GrowthAgrees, PatchesSurvive, Stored
        <4> QED
          BY <3>2, <4>1, <4>2 DEF AsNamed
      <3> QED
        BY <3>1, <3>2
    <2> QED
      BY <2>1 DEF PatchesSurvive, Stored
  <1>7. NamedColumns'
    BY <1>1 DEF GrowthInv, NamedColumns, Stored
  <1> QED
    BY <1>3, <1>4, <1>5, <1>6, <1>7 DEF GrowthInv, GrowthAgrees

\* The row a POST inserts is of the table, in order, and not deleted.
LEMMA InsertRowInv ==
  ASSUME GrowthInv, NEW h \in Handlers, InsertRow(h)
  PROVE  GrowthInv'
  <1>0. PICK i \in Rows, row \in Table[kind] :
        /\ At(h, "insert") /\ i = handler[h].row /\ row = handler[h].data
        /\ i \in saved \ deleted
        /\ \A g \in Handlers \ {h} : At(g, "insert") => handler[g].row # i
    <2>1. handler[h] \in GrowthHandler /\ handler[h].pc = "insert"
      BY DEF InsertRow, GrowthInv, GrowthTypeOK, At
    <2>2. handler[h].row \in Rows
      BY <2>1 DEF GrowthHandler, Idle
    <2> QED
      BY <2>1, <2>2 DEF GrowthInv, InsertsAreNew, At
  <1>1. CASE EndProcess /\ UNCHANGED <<growth, named>>
    BY <1>1, EndProcessInv DEF InsertRow
  <1>2. CASE Admitted(i, row)
    <2>1. /\ growth' = [growth EXCEPT ![i] = row] /\ named' = [named EXCEPT ![i] = row]
          /\ UNCHANGED <<kind, deleted, saved>> /\ Finish(h) /\ Check(row)
      BY <1>0, <1>2 DEF InsertRow, Admitted
    <2>2. \A g \in Handlers : At(g, "insert")' => handler[g].row # i
      BY <1>0, <2>1 DEF Finish, Goto, At, Idle, GrowthInv, GrowthTypeOK
    <2>3. \A c \in DOMAIN row : AsNamed(i, c)'
      BY <1>0, <2>1 DEF AsNamed, GrowthInv, GrowthTypeOK, NamedColumns
    <2> QED
      BY <1>0, <2>1, <2>2, <2>3, OneRowInv
  <1> QED
    BY <1>0, <1>1, <1>2 DEF InsertRow

\* The row a PATCH writes is stored, and each of its columns is named, is a default, or
\* is as it was.
LEMMA WritePatchInv ==
  ASSUME GrowthInv, NEW h \in Handlers, WritePatch(h)
  PROVE  GrowthInv'
  <1>0. PICK i \in Rows : i = handler[h].row /\ At(h, "write")
    <2>1. handler[h] \in GrowthHandler /\ handler[h].pc = "write"
      BY DEF WritePatch, GrowthInv, GrowthTypeOK, At
    <2>2. handler[h].row \in Rows
      BY <2>1 DEF GrowthHandler, Idle
    <2> QED
      BY <2>1, <2>2 DEF At
  <1> DEFINE body == handler[h].body
             row == UpdateTo(i, Parsed(body))
             columns == Merged(body, named[i])
  <1>1. CASE EndProcess /\ UNCHANGED <<growth, named>>
    BY <1>1, EndProcessInv DEF WritePatch
  <1>2. CASE /\ row \in Table[kind] /\ Admitted(i, row)
             /\ growth' = [growth EXCEPT ![i] = row] /\ named' = [named EXCEPT ![i] = columns]
             /\ Finish(h)
    <2>1. kind \in DOMAIN Table /\ <<>> \notin Table[kind] /\ kind' = kind
      BY RowsAreRows DEF GrowthInv, GrowthTypeOK, WritePatch
    <2>2. Stored(i) /\ row = Merged(Parsed(body), growth[i])
      BY <1>2, <2>1 DEF UpdateTo
    <2>3. growth[i] \in Table[kind] /\ i \in saved \ deleted
      BY <2>2 DEF Stored, GrowthInv, GrowthTypeOK, InsertsAreNew, GrowthAgrees, PatchesSurvive
    <2>4. DOMAIN row = DOMAIN growth[i]
      BY <1>2, <2>1, <2>3, SameColumns
    <2>5. DOMAIN named[i] = DOMAIN growth[i] /\ DOMAIN named = Rows
      BY <2>2 DEF GrowthInv, NamedColumns
    <2>6. DOMAIN row = DOMAIN body \cup DOMAIN Default \cup DOMAIN growth[i]
      BY <2>2 DEF Merged, Parsed
    <2>7. DOMAIN columns = DOMAIN row
      BY <2>4, <2>5, <2>6 DEF Merged
    <2>8. ASSUME NEW c \in DOMAIN row PROVE AsNamed(i, c)'
      <3>1. growth'[i] = row /\ named'[i] = columns /\ Default' = Default
        BY <1>2, <2>1, <2>5 DEF Default, GrowthInv, GrowthTypeOK
      <3>2. CASE c \in DOMAIN body
        <4>1. row[c] = body[c] /\ columns[c] = body[c]
          BY <2>2, <3>2 DEF Merged, Parsed
        <4> QED
          BY <3>1, <4>1 DEF AsNamed
      <3>3. CASE c \in DOMAIN Default \ DOMAIN body
        <4>1. row[c] = Default[c]
          BY <2>2, <3>3 DEF Merged, Parsed
        <4> QED
          BY <3>1, <3>3, <4>1 DEF AsNamed
      <3>4. CASE c \notin DOMAIN body \cup DOMAIN Default
        <4>1. row[c] = growth[i][c] /\ columns[c] = named[i][c]
          BY <2>2, <2>4, <2>5, <3>4 DEF Merged, Parsed
        <4>2. growth[i][c] = named[i][c]
          BY <2>2, <2>4, <3>4 DEF GrowthInv, GrowthAgrees, PatchesSurvive, AsNamed
        <4> QED
          BY <3>1, <4>1, <4>2 DEF AsNamed
      <3> QED
        BY <3>2, <3>3, <3>4
    <2>9. \A g \in Handlers : At(g, "insert")' => handler[g].row # i
      <3>1. \A g \in Handlers : At(g, "insert")' => At(g, "insert")
        BY <1>2 DEF Finish, Goto, At, Idle, GrowthInv, GrowthTypeOK
      <3> QED
        BY <2>2, <3>1 DEF GrowthInv, InsertsAreNew
    <2>10. Check(row)
      BY <1>2 DEF Admitted
    <2> HIDE DEF row, columns
    <2> QED
      BY <1>2, <2>3, <2>7, <2>8, <2>9, <2>10, OneRowInv DEF WritePatch
  <1> QED
    BY <1>0, <1>1, <1>2 DEF WritePatch

\* A deleted row was answered, and no POST inserts it again.
LEMMA DeleteRowInv ==
  ASSUME GrowthInv, NEW h \in Handlers, NEW i \in Rows, DeleteRow(h, i)
  PROVE  GrowthInv'
  <1>1. i \in saved /\ \A g \in Handlers : At(g, "insert") => handler[g].row # i
    BY DEF DeleteRow, GrowthInv, InsertsAreNew
  <1> QED
    BY <1>1, OneRowInv DEF DeleteRow, At

\* A review changes no date, and names the status.
LEMMA ReviewInv ==
  ASSUME GrowthInv, NEW i \in Rows, Review(i)
  PROVE  GrowthInv'
  <1> DEFINE row == [growth[i] EXCEPT !.status = "REVIEWED"]
             columns == [named[i] EXCEPT !.status = "REVIEWED"]
  <1>1. /\ Table[kind] = Certification /\ growth[i] \in Certification /\ Check(growth[i])
        /\ kind = "certification" /\ i \in saved \ deleted
        /\ \A c \in DOMAIN growth[i] : AsNamed(i, c)
    BY DEF Review, Table, GrowthInv, GrowthTypeOK, GrowthAgrees, PeriodsInOrder,
           PatchesSurvive, InsertsAreNew, Stored
  <1>2. /\ row \in Certification /\ row.from = growth[i].from /\ row.to = growth[i].to
        /\ DOMAIN row = DOMAIN growth[i]
    BY <1>1 DEF Certification, Statuses
  <1>3. Check(row)
    BY <1>1, <1>2 DEF Check, DatesCheck
  <1>4. DOMAIN named = Rows /\ DOMAIN named[i] = DOMAIN growth[i]
    BY DEF Review, GrowthInv, NamedColumns
  <1>5. growth' = [growth EXCEPT ![i] = row] /\ named' = [named EXCEPT ![i] = columns]
    BY <1>1, <1>4 DEF Review, GrowthInv, GrowthTypeOK
  <1>6. DOMAIN columns = DOMAIN row
    BY <1>2, <1>4
  <1>7. ASSUME NEW c \in DOMAIN row PROVE AsNamed(i, c)'
    <2>1. growth'[i] = row /\ named'[i] = columns /\ Default' = Default
      BY <1>4, <1>5 DEF Default, Review, GrowthInv, GrowthTypeOK
    <2>2. /\ row[c] = IF c = "status" THEN "REVIEWED" ELSE growth[i][c]
          /\ columns[c] = IF c = "status" THEN "REVIEWED" ELSE named[i][c]
      BY <1>2, <1>4
    <2>3. AsNamed(i, c)
      BY <1>1, <1>2
    <2> HIDE DEF row, columns
    <2> QED
      BY <2>1, <2>2, <2>3 DEF AsNamed
  <1>8. \A g \in Handlers : At(g, "insert") => handler[g].row # i
    BY DEF Review, GrowthInv, InsertsAreNew
  <1>9. /\ \A g \in Handlers : At(g, "insert")' => handler[g].row # i
        /\ UNCHANGED <<kind, saved, deleted, handler>>
    BY <1>8 DEF Review, At
  <1> HIDE DEF row, columns
  <1>10. row \in Table[kind] \cup {<<>>} /\ i \in saved /\ i \notin deleted
    BY <1>1, <1>2
  <1> QED
    BY <1>3, <1>5, <1>6, <1>7, <1>9, <1>10, OneRowInv, ZenonT(40)

\* GrowthInv is inductive: one lemma for each action.
LEMMA GrowthInvNext == GrowthInv /\ [GrowthNext]_growthVars => GrowthInv'
  <1> SUFFICES ASSUME GrowthInv, [GrowthNext]_growthVars PROVE GrowthInv'
    OBVIOUS
  <1>1. CASE UNCHANGED growthVars
    BY <1>1 DEF growthVars, GrowthInv, GrowthTypeOK, InsertsAreNew, GrowthAgrees,
                PeriodsInOrder, PatchesSurvive, NamedColumns, AsNamed, Default, Stored, Check,
                SlotCheck, DatesCheck, At
  <1>2. ASSUME NEW bodies, Routes(bodies),
               \/ kind = "goal" /\ bodies = GoalBodies
               \/ kind = "slot" /\ bodies = SlotBodies
               \/ kind = "certification" /\ bodies = CertificationBodies
               \/ kind = "project" /\ bodies = ProjectBodies
        PROVE  GrowthInv'
    BY <1>2, RoutesInv, DeleteRowInv, EndProcessInv DEF Routes, PatchMissing
  <1>3. ASSUME NEW h \in Handlers, InsertRow(h) \/ WritePatch(h) \/ GrowthCrash(h)
        PROVE  GrowthInv'
    BY <1>3, InsertRowInv, WritePatchInv, EndProcessInv DEF GrowthCrash
  <1>4. ASSUME NEW i \in Rows, Review(i) PROVE GrowthInv'
    BY <1>4, ReviewInv
  <1> QED
    BY <1>1, <1>2, <1>3, <1>4
       DEF GrowthNext, LearningGoals, Availability, Certifications, Projects

\* PATCHes that overlap leave rows that are in order, whose columns are what was last named
\* for them or, where they have one, the default; none brings a deleted row back.
THEOREM PatchesAgree == GrowthSpec => []GrowthAgrees
  <1>1. GrowthInv => GrowthAgrees
    BY DEF GrowthInv
  <1> QED
    BY <1>1, GrowthInvInit, GrowthInvNext, PTL DEF GrowthSpec

-----------------------------------------------------------------------------
(* Matching: sorting *)

\* What the comparisons of the answers are: one of two people comes first, and never itself.
StrictlyOrders(order, people) ==
  /\ \A a \in people : <<a, a>> \notin order
  /\ \A a, b, c \in people : <<a, b>> \in order /\ <<b, c>> \in order => <<a, c>> \in order
  /\ \A a, b \in people : a = b \/ <<a, b>> \in order \/ <<b, a>> \in order

\* Of finitely many people each has a place of its own, after those that come before it.
LEMMA Places ==
  ASSUME NEW people, IsFiniteSet(people), NEW order, StrictlyOrders(order, people)
  PROVE  LET upTo(a) == {b \in people : b = a \/ <<b, a>> \in order}
             place == [a \in people |-> Cardinality(upTo(a))]
         IN  /\ place \in Injection(people, 1..Cardinality(people))
             /\ \A a, b \in people : place[a] < place[b] => <<a, b>> \in order
  <1> DEFINE upTo(a) == {b \in people : b = a \/ <<b, a>> \in order}
             n == Cardinality(people)
             place == [a \in people |-> Cardinality(upTo(a))]
  <1>1. n \in Nat
    BY FS_CardinalityType
  <1>2. ASSUME NEW a \in people
        PROVE  IsFiniteSet(upTo(a)) /\ Cardinality(upTo(a)) \in 1..n
    <2>1. IsFiniteSet(upTo(a)) /\ Cardinality(upTo(a)) <= n
      BY FS_Subset, upTo(a) \in SUBSET people
    <2>2. Cardinality(upTo(a)) \in Nat
      BY <2>1, FS_CardinalityType
    <2>3. Cardinality(upTo(a)) # 0
      BY <2>1, FS_EmptySet, a \in upTo(a)
    <2> QED
      BY <1>1, <2>1, <2>2, <2>3
  <1>3. ASSUME NEW a \in people, NEW b \in people, <<a, b>> \in order
        PROVE  Cardinality(upTo(a)) < Cardinality(upTo(b))
    <2>1. upTo(a) \in SUBSET upTo(b)
      BY <1>3 DEF StrictlyOrders
    <2>2. b \in upTo(b) /\ b \notin upTo(a)
      BY <1>3 DEF StrictlyOrders
    <2>3. IsFiniteSet(upTo(b))
      BY <1>2
    <2>4. /\ Cardinality(upTo(a)) <= Cardinality(upTo(b))
          /\ Cardinality(upTo(b)) = Cardinality(upTo(a)) => upTo(b) = upTo(a)
      <3> HIDE DEF upTo
      <3> QED
        BY <2>1, <2>3, FS_Subset
    <2>5. Cardinality(upTo(a)) \in Nat /\ Cardinality(upTo(b)) \in Nat
      BY <1>2, <1>1
    <2>6. upTo(b) # upTo(a)
      BY <2>2
    <2> HIDE DEF upTo
    <2> QED
      BY <2>4, <2>5, <2>6
  <1> HIDE DEF upTo
  <1>4. place \in [people -> 1..n]
    BY <1>2
  <1>5. \A a, b \in people : place[a] = place[b] => a = b
    <2> SUFFICES ASSUME NEW a \in people, NEW b \in people, place[a] = place[b], a # b
                 PROVE  FALSE
      OBVIOUS
    <2>1. <<a, b>> \in order \/ <<b, a>> \in order
      BY DEF StrictlyOrders
    <2>2. place[a] \in Nat /\ place[b] \in Nat
      BY <1>1, <1>4
    <2> QED
      BY <2>1, <2>2, <1>3
  <1>6. \A a, b \in people : place[a] < place[b] => <<a, b>> \in order
    <2> SUFFICES ASSUME NEW a \in people, NEW b \in people, place[a] < place[b]
                 PROVE  <<a, b>> \in order
      OBVIOUS
    <2>1. place[a] \in Nat /\ place[b] \in Nat
      BY <1>1, <1>4
    <2>2. a # b
      BY <2>1
    <2>3. ~(<<b, a>> \in order)
      BY <2>1, <1>3
    <2> QED
      BY <2>2, <2>3 DEF StrictlyOrders
  <1>7. place \in Injection(people, 1..n)
    BY <1>4, <1>5 DEF Injection, IsInjective
  <1> QED
    BY <1>6, <1>7 DEF upTo

\* A sequence that is in order holds nobody twice, and so everybody.
LEMMA SortedHoldsAll ==
  ASSUME NEW people, IsFiniteSet(people), NEW order, StrictlyOrders(order, people)
  PROVE  LET seq == Sorted(people, order)
             places == 1..Cardinality(people)
         IN  /\ seq \in Seq(people)
             /\ DOMAIN seq = places
             /\ \A i, j \in places : i < j => <<seq[i], seq[j]>> \in order
             /\ ToSet(seq) = people
  <1> DEFINE n == Cardinality(people)
             places == 1..n
             Ascends(seq) == \A i, j \in places : i < j => <<seq[i], seq[j]>> \in order
  <1>1. n \in Nat /\ IsFiniteSet(places) /\ Cardinality(places) = n
    <2>1. n \in Nat
      BY FS_CardinalityType
    <2> QED
      BY <2>1, FS_Interval
  <1>2. PICK place \in Injection(people, places) :
          \A a, b \in people : place[a] < place[b] => <<a, b>> \in order
    BY Places
  <1>3. place \in Surjection(people, places)
    BY <1>1, FS_Injection
  <1>4. \A i \in places : \E a \in people : place[a] = i
    BY <1>3 DEF Surjection
  <1> DEFINE found == [i \in places |-> CHOOSE a \in people : place[a] = i]
  <1>5. \A i \in places : found[i] \in people /\ place[found[i]] = i
    BY <1>4
  <1>6. found \in [places -> people]
    BY <1>5
  <1>7. Ascends(found)
    BY <1>2, <1>5
  <1>8. \E seq \in [places -> people] : Ascends(seq)
    BY <1>6, <1>7
  <1> DEFINE seq == Sorted(people, order)
  <1>9. seq \in [places -> people] /\ Ascends(seq)
    <2>1. seq = CHOOSE s \in [places -> people] : Ascends(s)
      BY DEF Sorted
    <2> HIDE DEF Ascends, seq, n
    <2> QED
      BY <1>8, <2>1
  <1> HIDE DEF seq
  <1>10. \A i, j \in places : seq[i] = seq[j] => i = j
    <2> SUFFICES ASSUME NEW i \in places, NEW j \in places, seq[i] = seq[j], i < j
                 PROVE  FALSE
      BY <1>1
    <2>1. <<seq[i], seq[i]>> \in order /\ seq[i] \in people
      BY <1>9
    <2> QED
      BY <2>1 DEF StrictlyOrders
  <1>11. seq \in Injection(places, people)
    BY <1>9, <1>10 DEF Injection, IsInjective
  <1>12. seq \in Surjection(places, people)
    BY <1>1, <1>11, FS_Injection
  <1>13. ToSet(seq) = people
    <2>1. \A a \in people : \E i \in places : seq[i] = a
      BY <1>12 DEF Surjection
    <2> QED
      BY <1>9, <2>1 DEF ToSet
  <1>14. seq \in Seq(people)
    BY <1>1, <1>9
  <1> QED
    BY <1>9, <1>13, <1>14 DEF seq

-----------------------------------------------------------------------------
(* Matching: pages *)

\* Every set of numbers that is not empty has a least one.
LEMMA Least ==
  ASSUME NEW T \in SUBSET Nat, T # {}
  PROVE  \E x \in T : \A y \in T : x <= y
  <1> DEFINE R == OpToRel(<, Nat)
  <1>1. IsWellFoundedOn(R, Nat)
    BY NatLessThanWellFounded
  <1> HIDE DEF R
  <1>2. PICK x \in T : \A y \in T : ~(<<y, x>> \in R)
    BY <1>1, WFMin
  <1>3. \A y \in T : y < x => <<y, x>> \in R
    BY DEF R, OpToRel
  <1>4. \A y \in T : ~(y < x) /\ x \in Nat /\ y \in Nat
    BY <1>2, <1>3
  <1> QED
    BY <1>4

\* What the recursion of FlattenSeq makes of pages.
Flattens(f, pages, n) == f = [i \in 1..n |-> IF i = 1 THEN pages[i] ELSE f[i - 1] \o pages[i]]

\* Where a page ends: at its last item, or where the answer does.
LEMMA SmallerOfTwo ==
  ASSUME NEW a \in Int, NEW b \in Int
  PROVE  Min({a, b}) = IF a <= b THEN a ELSE b
  <1> DEFINE small == IF a <= b THEN a ELSE b
  <1>1. small \in {a, b} /\ \A y \in {a, b} : small <= y
    OBVIOUS
  <1>2. ASSUME NEW x \in {a, b}, \A y \in {a, b} : x <= y
        PROVE  x = small
    BY <1>2
  <1> QED
    BY <1>1, <1>2 DEF Min

\* A page continues where the pages before it end.
LEMMA NextPage ==
  ASSUME NEW T, NEW items \in Seq(T), NEW p \in Nat \ {0}, NEW limit \in Nat \ {0}
  PROVE  LET upTo(k) == SubSeq(items, 1, Min({k * limit, Len(items)}))
         IN  /\ upTo(1) = Page(items, 1, limit)
             /\ p # 1 => upTo(p) = upTo(p - 1) \o Page(items, p, limit)
  <1> DEFINE len == Len(items)
             end(k) == IF k * limit <= len THEN k * limit ELSE len
             before == (p - 1) * limit
  <1>1. len \in Nat /\ before \in Nat /\ p * limit \in Nat /\ p * limit = before + limit
    OBVIOUS
  <1>2. Min({p * limit, len}) = end(p) /\ end(p) \in Nat
    BY <1>1, SmallerOfTwo
  <1>3. p # 1 => Min({(p - 1) * limit, len}) = end(p - 1) /\ end(p - 1) \in Nat
    BY <1>1, SmallerOfTwo
  <1>4. SubSeq(items, 1, Min({1 * limit, len})) = Page(items, 1, limit)
    <2>1. (1 - 1) * limit + 1 = 1
      OBVIOUS
    <2> QED
      BY <2>1 DEF Page
  <1>5. ASSUME p # 1
        PROVE  SubSeq(items, 1, end(p)) = SubSeq(items, 1, end(p - 1)) \o SubSeq(items, before + 1, end(p))
    <2>1. CASE before >= len
      <3>1. end(p) = len /\ end(p - 1) = len
        BY <1>1, <2>1
      <3>2. SubSeq(items, before + 1, len) = <<>>
        BY <1>1, <2>1, SubSeqEmpty
      <3>3. SubSeq(items, 1, len) = items
        BY SubSeqFull
      <3> HIDE DEF end, before, len
      <3> QED
        BY <3>1, <3>2, <3>3, ConcatEmptySeq
    <2>2. CASE before < len
      <3>1. end(p - 1) = before /\ before \in 0..len /\ end(p) \in before..len
        BY <1>1, <2>2
      <3>2. ASSUME NEW k \in 0..len, NEW m \in k..len
            PROVE  SubSeq(items, 1, m) = SubSeq(items, 1, k) \o SubSeq(items, k + 1, m)
        <4>1. 1 \in 1..Len(items) + 1 /\ k \in (1 - 1)..Len(items)
          BY <1>1
        <4> QED
          BY <4>1, ConcatAdjacentSubSeq
      <3> HIDE DEF end, before, len
      <3> QED
        BY <3>1, <3>2
    <2>3. before >= len \/ before < len
      BY <1>1
    <2> QED
      BY <2>1, <2>2, <2>3
  <1> QED
    BY <1>2, <1>3, <1>4, <1>5 DEF Page

\* The pages of an answer, one after the other, are the answer.
LEMMA PagesHoldAll ==
  ASSUME NEW T, NEW items \in Seq(T), NEW n \in Nat \ {0}, Len(items) <= n,
         NEW limit \in Nat \ {0}
  PROVE  FlattenSeq([p \in 1..n |-> Page(items, p, limit)]) = items
  <1> DEFINE pages == [p \in 1..n |-> Page(items, p, limit)]
             upTo(k) == SubSeq(items, 1, Min({k * limit, Len(items)}))
             all == [p \in 1..n |-> upTo(p)]
             flat == CHOOSE f : Flattens(f, pages, n)
  <1>1. Flattens(all, pages, n)
    <2>1. ASSUME NEW p \in 1..n
          PROVE  all[p] = IF p = 1 THEN pages[p] ELSE all[p - 1] \o pages[p]
      <3>1. /\ upTo(1) = Page(items, 1, limit)
            /\ p # 1 => upTo(p) = upTo(p - 1) \o Page(items, p, limit)
        BY NextPage, p \in Nat \ {0}
      <3> HIDE DEF upTo
      <3> QED
        BY <3>1
    <2> HIDE DEF all, pages
    <2>2. all = [p \in 1..n |-> upTo(p)]
      BY DEF all
    <2> QED
      BY <2>1, <2>2 DEF Flattens
  <1>2. Flattens(flat, pages, n)
    BY <1>1 DEF Flattens
  <1>3. Len(pages) = n
    OBVIOUS
  <1> HIDE DEF upTo
  <1>4. FlattenSeq(pages) = flat[n]
    <2> HIDE DEF pages
    <2> QED
      BY <1>3 DEF FlattenSeq, Flattens
  <1>5. flat[n] = all[n]
    <2> DEFINE wrong == {i \in 1..n : flat[i] # all[i]}
    <2> HIDE DEF flat, all, pages
    <2> SUFFICES ASSUME wrong # {} PROVE FALSE
      OBVIOUS
    <2>1. PICK i \in wrong : \A j \in wrong : i <= j
      BY Least, wrong \in SUBSET Nat
    <2>2. i = 1 \/ flat[i - 1] = all[i - 1]
      BY <2>1
    <2>3. /\ flat[i] = IF i = 1 THEN pages[i] ELSE flat[i - 1] \o pages[i]
          /\ all[i] = IF i = 1 THEN pages[i] ELSE all[i - 1] \o pages[i]
      BY <1>1, <1>2 DEF Flattens
    <2> QED
      BY <2>1, <2>2, <2>3
  <1>6. all[n] = items
    <2>1. n * limit >= n /\ n * limit \in Nat
      OBVIOUS
    <2>2. Min({n * limit, Len(items)}) = Len(items)
      BY <2>1, SmallerOfTwo
    <2>3. all[n] = upTo(n)
      OBVIOUS
    <2> HIDE DEF all
    <2> QED
      BY <2>2, <2>3 DEF upTo
  <1> QED
    BY <1>4, <1>5, <1>6

-----------------------------------------------------------------------------
(* Matching: people and their scores *)

Somebody == [id : Members, teaches : SUBSET Topics, learns : SUBSET Topics]

\* A row of the users table appears once among those a query finds.
Distinct(people) == people \in SUBSET Somebody /\ \A a, b \in people : a.id = b.id => a = b

\* Nobody is found twice, so that no more are found than there are.
LEMMA FoundIsDistinct ==
  ASSUME NEW people, Distinct(people)
  PROVE  IsFiniteSet(people) /\ Cardinality(people) <= Cardinality(Members)
  <1> DEFINE ids == [a \in people |-> a.id]
  <1>1. ids \in [people -> Members]
    BY DEF Distinct, Somebody
  <1>2. ids \in Injection(people, Members)
    BY <1>1 DEF Distinct, Injection, IsInjective
  <1> QED
    BY <1>2, FS_Injection, MatchingAssumption

\* A score counts finitely many skills.
LEMMA ScoreIsNumber ==
  ASSUME NEW me \in Somebody, NEW c \in Somebody
  PROVE  MatchScore(me, c) \in Nat
  <1>1. Offers(c, me) \in SUBSET Topics /\ Offers(me, c) \in SUBSET Topics
    BY DEF Offers, Somebody
  <1>2. Cardinality(Offers(c, me)) \in Nat /\ Cardinality(Offers(me, c)) \in Nat
    BY <1>1, FS_Subset, FS_CardinalityType, MatchingAssumption
  <1> QED
    BY <1>2 DEF MatchScore

\* The comparison by name orders people, and so does the one by score.
LEMMA ByNameOrders ==
  ASSUME NEW people, Distinct(people)
  PROVE  StrictlyOrders(ByName(people), people)
  <1>1. \A a \in people : a.id \in Nat
    BY MatchingAssumption DEF Distinct, Somebody
  <1>2. \A a, b \in people : <<a, b>> \in ByName(people) <=> a.id < b.id
    BY DEF ByName
  <1> QED
    BY <1>1, <1>2 DEF StrictlyOrders, Distinct

LEMMA ByScoreOrders ==
  ASSUME NEW me \in Somebody, NEW people, Distinct(people)
  PROVE  StrictlyOrders(ByScore(me, people), people)
  <1> DEFINE score == [a \in people |-> MatchScore(me, a)]
  <1>1. \A a \in people : a.id \in Nat /\ score[a] \in Nat
    BY MatchingAssumption, ScoreIsNumber DEF Distinct, Somebody
  <1>2. ASSUME NEW a \in people, NEW b \in people
        PROVE  <<a, b>> \in ByScore(me, people) <=>
                 score[a] > score[b] \/ (score[a] = score[b] /\ a.id < b.id)
    <2> DEFINE p == <<a, b>>
    <2>1. p \in people \X people /\ p[1] = a /\ p[2] = b
      OBVIOUS
    <2> HIDE DEF p
    <2>2. p \in ByName(people) <=> a.id < b.id
      BY <2>1 DEF ByName
    <2>3. /\ MatchScore(me, p[1]) = score[a]
          /\ MatchScore(me, p[2]) = score[b]
      BY <2>1
    <2> HIDE DEF score
    <2>4. p \in ByScore(me, people) <=>
            score[a] > score[b] \/ (score[a] = score[b] /\ p \in ByName(people))
      <3>1. p \in ByScore(me, people) <=>
              \/ MatchScore(me, p[1]) > MatchScore(me, p[2])
              \/ MatchScore(me, p[1]) = MatchScore(me, p[2]) /\ p \in ByName(people)
        BY <2>1, Zenon DEF ByScore
      <3> QED
        BY <2>3, <3>1
    <2> QED
      BY <2>2, <2>4 DEF p
  <1> HIDE DEF score
  <1>3. \A a \in people : <<a, a>> \notin ByScore(me, people)
    BY <1>1, <1>2
  <1>4. ASSUME NEW a \in people, NEW b \in people, NEW c \in people,
               <<a, b>> \in ByScore(me, people), <<b, c>> \in ByScore(me, people)
        PROVE  <<a, c>> \in ByScore(me, people)
    BY <1>1, <1>2, <1>4
  <1>5. ASSUME NEW a \in people, NEW b \in people, a # b
        PROVE  <<a, b>> \in ByScore(me, people) \/ <<b, a>> \in ByScore(me, people)
    <2>1. a.id # b.id
      BY <1>5 DEF Distinct
    <2>2. a.id \in Nat /\ b.id \in Nat /\ score[a] \in Nat /\ score[b] \in Nat
      BY <1>1
    <2>3. /\ <<a, b>> \in ByScore(me, people) <=>
                score[a] > score[b] \/ (score[a] = score[b] /\ a.id < b.id)
          /\ <<b, a>> \in ByScore(me, people) <=>
                score[b] > score[a] \/ (score[b] = score[a] /\ b.id < a.id)
      BY <1>2
    <2> QED
      BY ONLY <2>1, <2>2, <2>3
  <1> QED
    BY <1>3, <1>4, <1>5 DEF StrictlyOrders

-----------------------------------------------------------------------------
(* Matching: answers *)

\* The pairs of one side, seen from the other.
LEMMA SwappedPairs ==
  ASSUME NEW S, NEW T
  PROVE  T \X S = {<<p[2], p[1]>> : p \in S \X T}
  <1> DEFINE swapped == {<<p[2], p[1]>> : p \in S \X T}
  <1>1. ASSUME NEW q \in T \X S PROVE q \in swapped
    <2>1. <<q[2], q[1]>> \in S \X T /\ q = <<q[1], q[2]>>
      OBVIOUS
    <2> QED
      BY <2>1
  <1>2. ASSUME NEW p \in S \X T PROVE <<p[2], p[1]>> \in T \X S
    OBVIOUS
  <1> QED
    BY <1>1, <1>2

\* What one can do for the other the other sees as well.
LEMMA BothSides ==
  ASSUME NEW me \in Somebody, NEW c \in Somebody
  PROVE  SeenFromBothSides(me, c)
  <1>1. Pairs(c, me) = {<<p[2], p[1]>> : p \in Pairs(me, c)}
    BY SwappedPairs DEF Pairs
  <1>2. Pairs(c, me) = {} <=> Pairs(me, c) = {}
    BY <1>1
  <1>3. Offers(c, me) \in SUBSET Topics /\ Offers(me, c) \in SUBSET Topics
    BY DEF Offers, Somebody
  <1>4. Cardinality(Offers(c, me)) \in Nat /\ Cardinality(Offers(me, c)) \in Nat
    BY <1>3, FS_Subset, FS_CardinalityType, MatchingAssumption
  <1>5. MatchScore(me, c) = MatchScore(c, me)
    BY <1>2, <1>4 DEF MatchScore
  <1> QED
    BY <1>1, <1>5 DEF SeenFromBothSides

\* There are pairs exactly when each can teach the other something; and a candidate is
\* relevant when one of them can.
LEMMA PairsOfPartners ==
  ASSUME NEW me \in Somebody, NEW c \in Somebody
  PROVE  /\ Pairs(me, c) # {} <=> CanTeach(me, c) /\ CanTeach(c, me)
         /\ Relevant(me, c) <=> CanTeach(me, c) \/ CanTeach(c, me)
  <1>1. Pairs(me, c) # {} <=> Offers(me, c) # {} /\ Offers(c, me) # {}
    <2>1. ASSUME NEW x \in Offers(me, c), NEW y \in Offers(c, me)
          PROVE  <<x, y>> \in Pairs(me, c)
      BY DEF Pairs
    <2> QED
      BY <2>1 DEF Pairs
  <1>2. Offers(me, c) # {} <=> CanTeach(me, c)
    BY DEF Offers, CanTeach, Somebody
  <1>3. Offers(c, me) # {} <=> CanTeach(c, me)
    BY DEF Offers, CanTeach, Somebody
  <1> QED
    BY <1>1, <1>2, <1>3 DEF Relevant

\* An answer holds everyone it is about, in order, and so do its pages.
LEMMA AnswerHoldsAll ==
  ASSUME NEW people, Distinct(people), NEW order, StrictlyOrders(order, people), Members # {}
  PROVE  LET answer == Sorted(people, order)
         IN  /\ ToSet(answer) = people
             /\ DOMAIN answer \subseteq Nat
             /\ \A i \in DOMAIN answer : answer[i] \in people
             /\ \A i, j \in DOMAIN answer : i < j => <<answer[i], answer[j]>> \in order
             /\ \A limit \in Nat \ {0} : answer = Paged(answer, limit)
  <1> DEFINE answer == Sorted(people, order)
             n == Cardinality(Members)
  <1>1. IsFiniteSet(people) /\ Cardinality(people) \in Nat /\ Cardinality(people) <= n
    BY FoundIsDistinct, FS_CardinalityType
  <1>2. /\ answer \in Seq(people) /\ DOMAIN answer = 1..Cardinality(people) /\ ToSet(answer) = people
        /\ \A i, j \in DOMAIN answer : i < j => <<answer[i], answer[j]>> \in order
    BY <1>1, SortedHoldsAll
  <1>3. n \in Nat \ {0}
    BY MatchingAssumption, FS_CardinalityType, FS_EmptySet
  <1> HIDE DEF answer, n
  <1>4. Len(answer) <= n
    BY <1>1, <1>2, <1>3, LenProperties
  <1>5. ASSUME NEW limit \in Nat \ {0}
        PROVE  FlattenSeq([p \in 1..n |-> Page(answer, p, limit)]) = answer
    BY <1>2, <1>3, <1>4, PagesHoldAll
  <1>6. \A limit \in Nat \ {0} : answer = Paged(answer, limit)
    BY <1>5 DEF n, Paged
  <1>7. DOMAIN answer \subseteq Nat /\ \A i \in DOMAIN answer : answer[i] \in people
    BY <1>1, <1>2 DEF ToSet
  <1> QED
    BY <1>2, <1>6, <1>7 DEF answer

\* The two comparisons, of two people that are found.
LEMMA Comparisons ==
  ASSUME NEW me, NEW people, NEW a \in people, NEW b \in people
  PROVE  /\ <<a, b>> \in ByName(people) => a.id < b.id
         /\ <<a, b>> \in ByScore(me, people) =>
              \/ MatchScore(me, a) > MatchScore(me, b)
              \/ MatchScore(me, a) = MatchScore(me, b) /\ a.id < b.id
  <1> DEFINE p == <<a, b>>
  <1>1. p[1] = a /\ p[2] = b
    OBVIOUS
  <1> HIDE DEF p
  <1>2. p \in ByName(people) => a.id < b.id
    BY <1>1 DEF ByName
  <1>3. p \in ByScore(me, people) =>
          \/ MatchScore(me, p[1]) > MatchScore(me, p[2])
          \/ MatchScore(me, p[1]) = MatchScore(me, p[2]) /\ p \in ByName(people)
    BY Zenon DEF ByScore
  <1> QED
    BY <1>1, <1>2, <1>3 DEF p

\* Whoever asks, and whoever is found, the answer is sound.
LEMMA SomeoneAnswered ==
  ASSUME NEW me \in Somebody, NEW candidates, Distinct(candidates)
  PROVE  AnswerSound(me, candidates)
  <1> DEFINE matched == Matched(me, candidates)
             partners == Partners(me, candidates)
             matches == Matches(me, candidates)
             exchanges == Exchanges(me, candidates)
  <1>1. Distinct(matched) /\ Distinct(partners)
    BY DEF Distinct, Matched, Partners
  <1>2. /\ StrictlyOrders(ByScore(me, matched), matched)
        /\ StrictlyOrders(ByName(partners), partners)
    BY <1>1, ByScoreOrders, ByNameOrders
  <1>3. Members # {}
    BY DEF Somebody
  <1>4. /\ ToSet(matches) = matched /\ \A i \in DOMAIN matches : matches[i] \in matched
        /\ \A i, j \in DOMAIN matches : i < j => <<matches[i], matches[j]>> \in ByScore(me, matched)
        /\ \A limit \in Nat \ {0} : matches = Paged(matches, limit)
    <2> HIDE DEF matched
    <2> QED
      BY <1>1, <1>2, <1>3, AnswerHoldsAll DEF Matches, matched
  <1>5. /\ ToSet(exchanges) = partners /\ \A i \in DOMAIN exchanges : exchanges[i] \in partners
        /\ \A i, j \in DOMAIN exchanges : i < j => <<exchanges[i], exchanges[j]>> \in ByName(partners)
        /\ \A limit \in Nat \ {0} : exchanges = Paged(exchanges, limit)
    <2> HIDE DEF partners
    <2> QED
      BY <1>1, <1>2, <1>3, AnswerHoldsAll DEF Exchanges, partners
  <1>6. \A c \in candidates : SeenFromBothSides(me, c)
    BY BothSides DEF Distinct
  <1>7. /\ matched = {c \in candidates : CanTeach(me, c) \/ CanTeach(c, me)}
        /\ partners = {c \in candidates : CanTeach(me, c) /\ CanTeach(c, me)}
    <2>1. \A c \in candidates : c \in Somebody
      BY DEF Distinct
    <2> QED
      BY <2>1, PairsOfPartners DEF Matched, Partners
  <1> HIDE DEF matched, partners, matches, exchanges
  <1>8. BestFirst(me, matches)
    <2> SUFFICES ASSUME NEW i \in DOMAIN matches, NEW j \in DOMAIN matches, i < j
                 PROVE  \/ MatchScore(me, matches[i]) > MatchScore(me, matches[j])
                        \/ /\ MatchScore(me, matches[i]) = MatchScore(me, matches[j])
                           /\ matches[i].id < matches[j].id
      BY DEF BestFirst
    <2> QED
      BY <1>4, Comparisons
  <1>9. InNameOrder(exchanges)
    BY <1>5, Comparisons DEF InNameOrder
  <1>10. \A limit \in 1..Cardinality(Members) :
           matches = Paged(matches, limit) /\ exchanges = Paged(exchanges, limit)
    <2>1. 1..Cardinality(Members) \subseteq Nat \ {0}
      BY FS_CardinalityType, MatchingAssumption
    <2> QED
      BY <2>1, <1>4, <1>5
  <1> QED
    BY <1>4, <1>5, <1>6, <1>7, <1>8, <1>9, <1>10 DEF AnswerSound, matches, exchanges

-----------------------------------------------------------------------------
(* Matching: requests *)

\* Requests of matching, and what they know of the requester, have their types.
THEOREM MatchingTypeCorrect == MatchingSpec => []MatchingTypeOK
  <1>1. MatchingInit => MatchingTypeOK
    BY DEF MatchingInit, MatchingTypeOK, MatchingHandler
  <1>2. MatchingTypeOK /\ [MatchingNext]_matchingVars => MatchingTypeOK'
    <2> SUFFICES ASSUME MatchingTypeOK, [MatchingNext]_matchingVars PROVE MatchingTypeOK'
      OBVIOUS
    <2>1. ASSUME NEW m \in Members, Change(m) PROVE MatchingTypeOK'
      BY <2>1 DEF Change, MatchingTypeOK
    <2>2. ASSUME NEW h \in Handlers, NEW m \in Members, LoadRequester(h, m)
          PROVE  MatchingTypeOK'
      <3>1. [pc |-> "candidates", me |-> Person(m)] \in MatchingHandler
        BY DEF MatchingTypeOK, MatchingHandler, Person
      <3> QED
        BY <2>2, <3>1 DEF LoadRequester, MatchingTypeOK, Begin, Goto
    <2>3. ASSUME NEW h \in Handlers, LoadCandidates(h) PROVE MatchingTypeOK'
      BY <2>3 DEF LoadCandidates, MatchingTypeOK, MatchingHandler, Finish, Goto
    <2>4. CASE UNCHANGED matchingVars
      BY <2>4 DEF matchingVars, MatchingTypeOK
    <2> QED
      BY <2>1, <2>2, <2>3, <2>4 DEF MatchingNext
  <1> QED
    BY <1>1, <1>2, PTL DEF MatchingSpec

\* Of the rows that were read, an answer of findMatches or listMutualExchanges lists the
\* candidates it is about, all of them and no others, each once and in order, and so do its
\* pages; and the other of the two would see the same score and exchanges.
THEOREM MatchesAlwaysAgree == MatchingSpec => []MatchesAgree
  <1>1. MatchingTypeOK => MatchesAgree
    <2> SUFFICES ASSUME MatchingTypeOK, NEW h \in Handlers, At(h, "candidates")
                 PROVE  AnswerSound(handler[h].me, Candidates(handler[h].me.id))
      BY DEF MatchesAgree
    <2> DEFINE me == handler[h].me
    <2>1. me \in Somebody
      BY DEF MatchingTypeOK, MatchingHandler, Somebody, At, Idle
    <2>2. Distinct(Candidates(me.id))
      BY DEF MatchingTypeOK, Distinct, Somebody, Candidates, Person
    <2> HIDE DEF me
    <2>3. AnswerSound(me, Candidates(me.id))
      BY <2>1, <2>2, SomeoneAnswered
    <2> QED
      BY <2>3 DEF me
  <1> QED
    BY <1>1, MatchingTypeCorrect, PTL
=============================================================================
