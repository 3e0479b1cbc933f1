-------------------------------- MODULE Auth --------------------------------
(***************************************************************************)
(* The auth module of the API (src/apps/api/src/modules/auth): accounts,   *)
(* login sessions, and the guard in front of every other route.  Passwords *)
(* are hashed and verified for a long time, in which accounts are made,    *)
(* suspended and logged out of.  A session has one token, here of the same *)
(* name.  A browser keeps one token, in its cookie, and the next login or  *)
(* registration in that browser puts another one in its place: the session *)
(* it had goes on, and no browser has its token.                           *)
(***************************************************************************)
EXTENDS Api

CONSTANTS
  Emails,   \* mailboxes
  Tokens,   \* ids of sessions rows
  Browsers

ASSUME AuthAssumption == None \notin Users

VARIABLES
  account,  \* [Users -> users row with its role, identity and credential]
  session,  \* [Tokens -> sessions row]
  cookie,   \* [Browsers -> the token in its cookie cse_session, or None]
  taken     \* the mailboxes of which a registration was told that they have an account

authVars == <<account, session, cookie, taken, handler>>

-----------------------------------------------------------------------------
\* An address as it may be typed, and as it is stored.
Spelling == [mailbox : Emails, lower : BOOLEAN]
NormalizeEmail(typed) == [typed EXCEPT !.lower = TRUE]

NoAccount == [email |-> None, status |-> "NONE"]
Account == {NoAccount} \cup [email : Spelling, status : {"ACTIVE", "SUSPENDED"}]

NoSession == [user |-> None, revoked |-> FALSE, expired |-> FALSE]
Session == [user : Users \cup {None}, revoked : BOOLEAN, expired : BOOLEAN]

Exists(u) == account[u].status # "NONE"
FindByEmail(email) == {u \in Users : Exists(u) /\ account[u].email = email}

\* "insert": a registration hashed its password.  "verify": a login read its user, or
\* none.  "open": an account's session is created.  "sent": a request with a token is on
\* its way.  "authenticate": it has come to the guard; late says whether its token was of
\* no use any more when it came.  "serve", "logout": behind the guard, a route or the logout.
AuthHandler ==
  {Idle}
  \cup [pc : {"insert"}, user : Users, email : Spelling]
  \cup [pc : {"verify"}, user : Users \cup {None}, suspended : BOOLEAN]
  \cup [pc : {"open"}, user : Users]
  \cup [pc : {"sent", "authenticate", "serve", "logout"}, browser : Browsers, token : Tokens,
        late : BOOLEAN]

AuthTypeOK ==
  /\ account \in [Users -> Account]
  /\ session \in [Tokens -> Session]
  /\ cookie \in [Browsers -> Tokens \cup {None}]
  /\ taken \in SUBSET Emails
  /\ handler \in [Handlers -> AuthHandler]

AuthInit ==
  /\ account = [u \in Users |-> NoAccount]
  /\ session = [t \in Tokens |-> NoSession]
  /\ cookie = [b \in Browsers |-> None]
  /\ taken = {}
  /\ handler = [h \in Handlers |-> Idle]

-----------------------------------------------------------------------------
(* POST /auth/register *)

\* A random id is of no row and of no other request.
Unused(u) == ~Exists(u) /\ \A g \in Handlers : At(g, "insert") => handler[g].user # u

StartRegister(h, typed, u) ==
  LET email == NormalizeEmail(typed) IN
  /\ Unused(u)
  /\ \/ /\ FindByEmail(email) # {}
        /\ At(h, "idle")
        /\ taken' = taken \cup {email.mailbox}
        /\ UNCHANGED handler
     \/ /\ FindByEmail(email) = {}
        /\ Begin(h, [pc |-> "insert", user |-> u, email |-> email])
        /\ UNCHANGED taken
  /\ UNCHANGED <<account, session, cookie>>

\* users_email_key.  (Mutation: no index, the lookup before the hash decides.)
VacantUnlessLooked(email) == TRUE
Vacant(email) == FindByEmail(email) = {}

\* An error of the insert becomes a 409 if it is a unique violation.  (Mutation: any.)
TakenOnAnyError(email) == {email.mailbox}
TakenOnError(email) == IF Vacant(email) THEN {} ELSE {email.mailbox}

\* The user, its role, its identity and its credential in one transaction, which
\* the index or a lost database may refuse.
InsertUser(h) ==
  LET r == handler[h] IN
  /\ At(h, "insert")
  /\ \/ /\ Vacant(r.email) /\ r.email.lower
        /\ account' = [account EXCEPT ![r.user] = [email |-> r.email, status |-> "ACTIVE"]]
        /\ Goto(h, [pc |-> "open", user |-> r.user])
        /\ UNCHANGED taken
     \/ /\ taken' = taken \cup TakenOnError(r.email)
        /\ Finish(h)
        /\ UNCHANGED account
  /\ UNCHANGED <<session, cookie>>

\* The cookie is set or cleared, whatever it holds by now, unless the answer is lost on
\* the way to the browser.
SetCookie(b, t) == cookie' \in {cookie, [cookie EXCEPT ![b] = t]}
ClearCookie(b) == cookie' \in {cookie, [cookie EXCEPT ![b] = None]}

SessionOf(u) == [NoSession EXCEPT !.user = u]

\* The session of an account that registered or logged in, and the cookie of the browser
\* that asked; unless the session is not created (AuthCrash).
OpenSession(h, b, t) ==
  /\ At(h, "open")
  /\ session[t] = NoSession
  /\ session' = [session EXCEPT ![t] = SessionOf(handler[h].user)]
  /\ SetCookie(b, t)
  /\ Finish(h)
  /\ UNCHANGED <<account, taken>>

-----------------------------------------------------------------------------
(* POST /auth/login *)

StartLogin(h, typed) ==
  LET found == FindByEmail(NormalizeEmail(typed)) IN
  /\ \/ /\ found = {}
        /\ Begin(h, [pc |-> "verify", user |-> None, suspended |-> FALSE])
     \/ \E u \in found :
          Begin(h, [pc |-> "verify", user |-> u, suspended |-> account[u].status = "SUSPENDED"])
  /\ UNCHANGED <<account, session, cookie, taken>>

\* The password may be wrong; without a user it is, after the same time.
VerifyPassword(h) ==
  /\ At(h, "verify")
  /\ \/ /\ handler[h].user # None /\ ~handler[h].suspended
        /\ Goto(h, [pc |-> "open", user |-> handler[h].user])
     \/ Finish(h)
  /\ UNCHANGED <<account, session, cookie, taken>>

-----------------------------------------------------------------------------
(* The guard, a route behind it, and POST /auth/logout *)

\* A session that must not be honoured, whatever the guard reads.
Over(t) == session[t].revoked \/ session[t].expired \/ account[session[t].user].status = "SUSPENDED"

\* A browser sends what is in its cookie.
SendRequest(h, b) ==
  /\ cookie[b] # None
  /\ Begin(h, [pc |-> "sent", browser |-> b, token |-> cookie[b], late |-> FALSE])
  /\ UNCHANGED <<account, session, cookie, taken>>

Arrive(h) ==
  LET r == handler[h] IN
  /\ At(h, "sent")
  /\ Goto(h, [r EXCEPT !.pc = "authenticate", !.late = Over(r.token)])
  /\ UNCHANGED <<account, session, cookie, taken>>

\* authenticate: one query for the session and its user, then the checks in order.
\* (Mutation: trusts that a login refuses a suspended user.)
HonouredUnlessEnded(t) == ~session[t].revoked /\ ~session[t].expired
Honoured(t) ==
  /\ ~session[t].revoked
  /\ ~session[t].expired
  /\ account[session[t].user].status # "SUSPENDED"

Authenticate(h, route) ==
  /\ At(h, "authenticate")
  /\ IF Honoured(handler[h].token) THEN Continue(h, route) ELSE Finish(h)
  /\ UNCHANGED <<account, session, cookie, taken>>

Serve(h) ==
  /\ At(h, "serve")
  /\ Finish(h)
  /\ UNCHANGED <<account, session, cookie, taken>>

\* updateMany where the session is not revoked; then the cookie is cleared.
\* (Mutation: the cookie alone.)
RevokeNothing(t) == session
RevokeSession(t) == [session EXCEPT ![t].revoked = TRUE]

Logout(h) ==
  /\ At(h, "logout")
  /\ session' = RevokeSession(handler[h].token)
  /\ ClearCookie(handler[h].browser)
  /\ Finish(h)
  /\ UNCHANGED <<account, taken>>

AuthCrash(h) == Crash(h) /\ UNCHANGED <<account, session, cookie, taken>>

-----------------------------------------------------------------------------
(* Outside of the API: time, and an operator of the database *)

\* The browser's clock, by which it drops the cookie, is another than the API's.
Expire(t) ==
  /\ session[t].user # None /\ ~session[t].expired
  /\ session' = [session EXCEPT ![t].expired = TRUE]
  /\ cookie' \in {cookie, [b \in Browsers |-> IF cookie[b] = t THEN None ELSE cookie[b]]}
  /\ UNCHANGED <<account, taken, handler>>

Suspend(u) ==
  /\ account[u].status = "ACTIVE"
  /\ account' = [account EXCEPT ![u].status = "SUSPENDED"]
  /\ UNCHANGED <<session, cookie, taken, handler>>

AuthNext ==
  \/ \E h \in Handlers :
       \/ \E typed \in Spelling, u \in Users : StartRegister(h, typed, u)
       \/ InsertUser(h)
       \/ \E b \in Browsers, t \in Tokens : OpenSession(h, b, t)
       \/ \E typed \in Spelling : StartLogin(h, typed)
       \/ VerifyPassword(h)
       \/ \E b \in Browsers : SendRequest(h, b)
       \/ Arrive(h)
       \/ \E route \in {"serve", "logout"} : Authenticate(h, route)
       \/ Serve(h)
       \/ Logout(h)
       \/ AuthCrash(h)
  \/ \E t \in Tokens : Expire(t)
  \/ \E u \in Users : Suspend(u)

AuthSpec == AuthInit /\ [][AuthNext]_authVars

-----------------------------------------------------------------------------
\* Two registrations of one mailbox, in whatever spelling and however long their hashes
\* take, leave one account.
OneAccountPerMailbox ==
  \A u, v \in Users :
    (Exists(u) /\ Exists(v) /\ account[u].email.mailbox = account[v].email.mailbox) => u = v

\* Who is told that the mailbox has an account can log in to it: also when the account
\* is of a registration whose session was never created, and not when an insert failed.
TakenHasAccount == \A e \in taken : \E u \in Users : Exists(u) /\ account[u].email.mailbox = e

AccountsAgree == OneAccountPerMailbox /\ TakenHasAccount

\* A request that comes after its session was revoked or expired, or after its user was
\* suspended, is not served, also if a login that overlapped the suspension opened it.
NothingServedLate == \A h \in Handlers : handler[h].pc \in {"serve", "logout"} => ~handler[h].late

\* What a handler relies on: its id is its own, and what it stores is spelled as stored.
AuthHandlerOK(h) ==
  /\ At(h, "insert") =>
       /\ ~Exists(handler[h].user) /\ handler[h].email.lower
       /\ \A g \in Handlers : (At(g, "insert") /\ handler[g].user = handler[h].user) => g = h
  /\ handler[h].pc \in {"sent", "authenticate", "serve", "logout"} =>
       /\ session[handler[h].token].user # None
       /\ handler[h].late => Over(handler[h].token)
  /\ At(h, "open") => Exists(handler[h].user)
  /\ (At(h, "verify") /\ handler[h].user # None) => Exists(handler[h].user)

\* What is in a cookie is the token of a session.
CookiesOK ==
  /\ cookie \in [Browsers -> Tokens \cup {None}]
  /\ \A b \in Browsers : cookie[b] # None => session[cookie[b]].user # None

\* The inductive invariant: types, spellings, sessions of accounts, the properties above,
\* and that what was over when a request came is over still.
AuthInv ==
  /\ AuthTypeOK /\ CookiesOK
  /\ \A u \in Users : Exists(u) => account[u].email.lower
  /\ \A t \in Tokens : session[t].user # None => Exists(session[t].user)
  /\ OneAccountPerMailbox
  /\ TakenHasAccount
  /\ NothingServedLate
  /\ \A h \in Handlers : AuthHandlerOK(h)
=============================================================================
