---------------------------- MODULE Connection ----------------------------
(***************************************************************************)
(* The connection of one user to Google (modules/integrations/google): the *)
(* authorization that makes it, the calls to Calendar that use it, and the *)
(* end of it, all of which may overlap.  A flow is one "connect" of the    *)
(* user: its OAuth state, its code, and the tokens Google gives for it     *)
(* have one name.  Google is the environment, and may refuse or be lost.   *)
(***************************************************************************)
EXTENDS Api

CONSTANT Flows

VARIABLES
  flow,         \* [Flows -> what Google and the user have made of it]
  oauthState,   \* the browser's cookie cse_google_oauth_state
  connection,   \* the google_connections row of the user, or None
  disconnected  \* the access tokens of connections that the user was told are removed

connectionVars == <<flow, oauthState, connection, disconnected, handler>>

-----------------------------------------------------------------------------
FlowState == {"unused", "asked", "consented", "declined", "granted", "revoked"}
Connected == [access : Flows, refresh : Flows \cup {None}]

ConnectionHandler ==
  {Idle}
  \cup [pc : {"exchange", "revoke", "delete"}, flow : Flows]
  \cup [pc : {"look", "upsert"}, flow : Flows, refresh : Flows \cup {None},
        existing : Flows \cup {None}]
  \cup [pc : {"authorize"}, before : SUBSET Flows]
  \cup [pc : {"call"}, with : Connected, before : SUBSET Flows]

ConnectionTypeOK ==
  /\ flow \in [Flows -> FlowState]
  /\ oauthState \in Flows \cup {None}
  /\ connection \in Connected \cup {None}
  /\ disconnected \in SUBSET Flows
  /\ handler \in [Handlers -> ConnectionHandler]

ConnectionInit ==
  /\ flow = [f \in Flows |-> "unused"]
  /\ oauthState = None
  /\ connection = None
  /\ disconnected = {}
  /\ handler = [h \in Handlers |-> Idle]

-----------------------------------------------------------------------------
(* GET /integrations/google/connect and /callback *)

IssueState(f) == oauthState' = f
ValidState(f) == oauthState = f
ClearState == oauthState' = None

\* A random state in the cookie and in the address of Google's page, of which an
\* earlier page stays open.
Connect(f) ==
  /\ flow[f] = "unused"
  /\ flow' = [flow EXCEPT ![f] = "asked"]
  /\ IssueState(f)
  /\ UNCHANGED <<connection, disconnected, handler>>

Consent(f) ==
  /\ flow[f] = "asked"
  /\ flow' \in {[flow EXCEPT ![f] = "consented"], [flow EXCEPT ![f] = "declined"]}
  /\ UNCHANGED <<oauthState, connection, disconnected, handler>>

\* Google sends the browser back, also when the page is loaded again.
Callback(h, f) ==
  /\ flow[f] \in {"consented", "declined", "granted", "revoked"}
  /\ \/ /\ flow[f] = "declined" \/ ~ValidState(f)
        /\ At(h, "idle")
        /\ ClearState
        /\ UNCHANGED handler
     \/ /\ flow[f] # "declined" /\ ValidState(f)
        /\ Begin(h, [pc |-> "exchange", flow |-> f])
        /\ UNCHANGED oauthState
  /\ UNCHANGED <<flow, connection, disconnected>>

\* Google takes a code once, and may leave out the refresh token.
Exchange(h) ==
  LET f == handler[h].flow IN
  /\ At(h, "exchange")
  /\ \/ /\ flow[f] = "consented"
        /\ flow' = [flow EXCEPT ![f] = "granted"]
        /\ \E refresh \in {f, None} :
             Goto(h, [pc |-> "look", flow |-> f, refresh |-> refresh, existing |-> None])
        /\ UNCHANGED oauthState
     \/ /\ ClearState
        /\ Finish(h)
        /\ UNCHANGED flow
  /\ UNCHANGED <<connection, disconnected>>

RefreshOf(row) == IF row = None THEN None ELSE row.refresh

LookForConnection(h) ==
  /\ At(h, "look")
  /\ Goto(h, [handler[h] EXCEPT !.pc = "upsert", !.existing = RefreshOf(connection)])
  /\ UNCHANGED <<flow, oauthState, connection, disconnected>>

\* create stores the refresh token that was issued; update falls back on the one that
\* was read, and on the one in the row when there is neither.
StoredRefresh(issued, existing) ==
  CASE issued # None -> issued
    [] issued = None /\ connection = None -> None
    [] issued = None /\ connection # None /\ existing # None -> existing
    [] OTHER -> RefreshOf(connection)

Upsert(h) ==
  LET r == handler[h] IN
  /\ At(h, "upsert")
  /\ connection' = [access |-> r.flow, refresh |-> StoredRefresh(r.refresh, r.existing)]
  /\ ClearState
  /\ Finish(h)
  /\ UNCHANGED <<flow, disconnected>>

-----------------------------------------------------------------------------
(* DELETE /integrations/google *)

StartDisconnect(h) ==
  /\ connection # None
  /\ Begin(h, [pc |-> "revoke", flow |-> connection.access])
  /\ UNCHANGED <<flow, oauthState, connection, disconnected>>

\* Best effort: Google may not hear of it, or take it and be lost.
Revoke(h) ==
  /\ At(h, "revoke")
  /\ flow' \in {flow, [flow EXCEPT ![handler[h].flow] = "revoked"]}
  /\ Continue(h, "delete")
  /\ UNCHANGED <<oauthState, connection, disconnected>>

\* The row is removed whatever Google said.  (Mutation: if Google revoked the token.)
LeftIfNotRevoked(f) == IF flow[f] = "revoked" THEN None ELSE connection
LeftAfterRevoking(f) == None

DeleteConnection(h) ==
  LET f == handler[h].flow IN
  /\ At(h, "delete")
  /\ \/ /\ connection # None
        /\ connection' = LeftAfterRevoking(f)
        /\ disconnected' = disconnected \cup {f, connection.access}
     \/ /\ connection = None
        /\ UNCHANGED <<connection, disconnected>>
  /\ Finish(h)
  /\ UNCHANGED <<flow, oauthState>>

-----------------------------------------------------------------------------
(* createEvent, updateEvent, deleteEvent: a call to Calendar in a session's request *)

StartCall(h) ==
  /\ Begin(h, [pc |-> "authorize", before |-> disconnected])
  /\ UNCHANGED <<flow, oauthState, connection, disconnected>>

\* Both tokens are handed over.
AuthorizationFor(h) ==
  /\ At(h, "authorize")
  /\ \/ connection = None /\ Finish(h)
     \/ /\ connection # None
        /\ Goto(h, [pc |-> "call", with |-> connection, before |-> handler[h].before])
  /\ UNCHANGED <<flow, oauthState, connection, disconnected>>

\* Done, refused by Google, or Google is lost: each answers the caller.
CallGoogle(h) ==
  /\ At(h, "call")
  /\ Finish(h)
  /\ UNCHANGED <<flow, oauthState, connection, disconnected>>

ConnectionCrash(h) == Crash(h) /\ UNCHANGED <<flow, oauthState, connection, disconnected>>

ConnectionNext ==
  \/ \E f \in Flows : Connect(f) \/ Consent(f)
  \/ \E h \in Handlers :
       \/ \E f \in Flows : Callback(h, f)
       \/ Exchange(h) \/ LookForConnection(h) \/ Upsert(h)
       \/ StartDisconnect(h) \/ Revoke(h) \/ DeleteConnection(h)
       \/ StartCall(h) \/ AuthorizationFor(h) \/ CallGoogle(h)
       \/ ConnectionCrash(h)

ConnectionSpec == ConnectionInit /\ [][ConnectionNext]_connectionVars

-----------------------------------------------------------------------------
\* The access token of a connection that the user was told is removed is not stored
\* again, whichever authorization was being completed meanwhile and whatever Google said
\* to the revocation; and no request that came afterwards calls Google with it.  Nothing
\* of the kind is true of the refresh token: an authorization that has read it
\* (LookForConnection) may store it with the next connection.
DisconnectedStaysGone ==
  /\ connection # None => connection.access \notin disconnected
  /\ \A h \in Handlers : At(h, "call") => handler[h].with.access \notin handler[h].before

\* What was authorized once is stored once: a flow that is being completed is by one
\* handler, and not stored or removed before.
Completing(h) == handler[h].pc \in {"look", "upsert"}
Removing(h) == handler[h].pc \in {"revoke", "delete"}
Given == {f \in Flows : flow[f] \in {"granted", "revoked"}}

ConnectionHandlerOK(h) ==
  /\ Completing(h) =>
       /\ flow[handler[h].flow] = "granted"
       /\ handler[h].flow \notin disconnected
       /\ connection # None => connection.access # handler[h].flow
       /\ \A g \in Handlers : Completing(g) /\ handler[g].flow = handler[h].flow => g = h
       /\ \A g \in Handlers : Removing(g) => handler[g].flow # handler[h].flow
  /\ Removing(h) => handler[h].flow \in Given
  /\ At(h, "authorize") => handler[h].before \subseteq disconnected

ConnectionInv ==
  /\ ConnectionTypeOK
  /\ DisconnectedStaysGone
  /\ disconnected \subseteq Given
  /\ connection # None => connection.access \in Given
  /\ \A h \in Handlers : ConnectionHandlerOK(h)
=============================================================================
