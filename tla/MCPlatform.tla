----------------------------- MODULE MCPlatform -----------------------------
(***************************************************************************)
(* The components of the platform beside sessions, payments and ratings.   *)
(* They share no rows, so that each is explored by itself: "focus" says    *)
(* which, and the others stay as they begin.                               *)
(***************************************************************************)
EXTENDS Requests, Auth, Connection, Growth, Profiles, Reports, Matching, Browsing

VARIABLE focus

requestsRows == <<request, announced>>
authRows == <<account, session, cookie, taken>>
connectionRows == <<flow, oauthState, connection, disconnected>>
growthRows == <<kind, growth, named, deleted, saved>>
profilesRows == <<profile, told, was>>
reportsRows == <<outbox, notification, swallowed, report>>
matchingRows == <<teaches, learns, listed>>

\* Bound: a certification or a project has nothing to do with another one.
OneRow == kind \in {"certification", "project"} => Cardinality(saved') <= 1

\* Bounds: four rows of two skills, which is an exchange; one member that is not listed;
\* one request, as they do not meet, and one change of its requester's rows meanwhile.
Changed(s, t) == Cardinality((s \ t) \cup (t \ s))
FourRows ==
  /\ Cardinality({<<m, x>> \in Members \X Topics : x \in teaches'[m]})
       + Cardinality({<<m, x>> \in Members \X Topics : x \in learns'[m]}) <= 4
  /\ Cardinality(Members \ listed') <= 1
  /\ Cardinality({h \in Handlers : handler'[h] # Idle}) <= 1
  /\ \A h \in Handlers : handler'[h] # Idle =>
       LET me == handler'[h].me
       IN  Changed(me.teaches, teaches'[me.id]) + Changed(me.learns, learns'[me.id]) <= 1

MCInit ==
  /\ focus \in {"requests", "auth", "connection", "growth", "profiles", "reports", "matching", "browser"}
  /\ RequestsInit /\ AuthInit /\ ConnectionInit /\ GrowthInit /\ ProfilesInit /\ ReportsInit /\ MatchingInit
  /\ BrowserInit
  /\ focus # "growth" => kind = "goal"
  /\ focus # "browser" => open = "chat" /\ stored = <<>>

MCNext ==
  /\ UNCHANGED focus
  /\ focus # "requests" => UNCHANGED requestsRows
  /\ focus # "auth" => UNCHANGED authRows
  /\ focus # "connection" => UNCHANGED connectionRows
  /\ focus # "growth" => UNCHANGED growthRows
  /\ focus # "profiles" => UNCHANGED profilesRows
  /\ focus # "reports" => UNCHANGED reportsRows
  /\ focus # "matching" => UNCHANGED matchingRows
  /\ IF focus = "browser" THEN UNCHANGED handler ELSE UNCHANGED browserVars
  /\ \/ focus = "requests" /\ RequestsNext
     \/ focus = "auth" /\ AuthNext
     \/ focus = "connection" /\ ConnectionNext
     \/ focus = "growth" /\ GrowthNext /\ OneRow
     \/ focus = "profiles" /\ ProfilesNext
     \/ focus = "reports" /\ ReportsNext
     \/ focus = "matching" /\ MatchingNext /\ FourRows
     \/ focus = "browser" /\ BrowserNext

MCVars == <<focus, handler, requestsRows, authRows, connectionRows, growthRows, profilesRows,
            reportsRows, matchingRows, browserVars>>

MCSpec == MCInit /\ [][MCNext]_MCVars

\* Only safety is checked, and each set below is used for one or two kinds of ids.
Ids == Permutations(Handlers) \cup Permutations(Users) \cup Permutations(Tokens)
=============================================================================
