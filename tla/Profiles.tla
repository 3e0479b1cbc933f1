------------------------------ MODULE Profiles ------------------------------
(***************************************************************************)
(* The profiles of the API (modules/users): one per user, made once, and   *)
(* edited by its owner or an ADMIN, also at the same time.  Every update   *)
(* tells the outbox how visible the profile is.  One field stands for all  *)
(* the texts.                                                              *)
(***************************************************************************)
EXTENDS Api

CONSTANTS
  Owners,    \* users
  Profiles,  \* ids of profiles rows
  Texts

ASSUME ProfilesAssumption == None \notin Owners

VARIABLES
  profile,  \* [Profiles -> profiles row]
  told,     \* [Profiles -> the visibility in the last PROFILE_UPDATED event, or None]
  was       \* [Profiles -> the visibilities since the earliest running update read it]

profilesVars == <<profile, told, was, handler>>

-----------------------------------------------------------------------------
Visibility == {"PUBLIC", "PRIVATE"}
NoProfile == [user |-> None, text |-> None, visibility |-> "PUBLIC"]
Profile == [user : Owners \cup {None}, text : Texts \cup {None}, visibility : Visibility]

\* What an update names, one field at least.  None clears a text.
Update == [text : Texts \cup {None}] \cup [visibility : Visibility]
          \cup [text : Texts \cup {None}, visibility : Visibility]

ProfilesHandler ==
  {Idle}
  \cup [pc : {"create"}, id : Profiles, row : Profile]
  \cup [pc : {"update"}, id : Profiles, input : Update, visibility : Visibility]

ProfilesTypeOK ==
  /\ profile \in [Profiles -> Profile]
  /\ told \in [Profiles -> Visibility \cup {None}]
  /\ was \in [Profiles -> SUBSET Visibility]
  /\ handler \in [Handlers -> ProfilesHandler]

ProfilesInit ==
  /\ profile = [i \in Profiles |-> NoProfile]
  /\ told = [i \in Profiles |-> None]
  /\ was = [i \in Profiles |-> {}]
  /\ handler = [h \in Handlers |-> Idle]

Made(i) == profile[i].user # None
ProfileOf(u) == {i \in Profiles : Made(i) /\ profile[i].user = u}

\* What running updates may have read, after the handlers and the rows are as given.
Remembered(handlers, rows) ==
  [i \in Profiles |->
    IF \E h \in Handlers : handlers[h].pc = "update" /\ handlers[h].id = i
    THEN was[i] \cup {rows[i].visibility} ELSE {}]

-----------------------------------------------------------------------------
(* POST /profile *)

\* Texts that are not named are null, the visibility is PUBLIC.
StartCreateProfile(h, i, u, text, visibility) ==
  /\ ~Made(i)
  /\ \A g \in Handlers : At(g, "create") => handler[g].id # i
  /\ ProfileOf(u) = {}
  /\ Begin(h, [pc |-> "create", id |-> i,
               row |-> [user |-> u, text |-> text, visibility |-> visibility]])
  /\ UNCHANGED <<profile, told, was>>

\* profiles_user_id_key.  (Mutation: the lookup alone.)
UnclaimedUnlessLooked(u) == TRUE
Unclaimed(u) == ProfileOf(u) = {}

InsertProfile(h) ==
  LET r == handler[h] IN
  /\ At(h, "create")
  /\ profile' = IF Unclaimed(r.row.user) THEN [profile EXCEPT ![r.id] = r.row] ELSE profile
  /\ Finish(h)
  /\ UNCHANGED <<told, was>>

-----------------------------------------------------------------------------
(* PATCH /profile, PATCH /users/:userId/profile *)

\* The event is made of what was read before the transaction.  (Mutation: of the default.)
ToldOrPublic(i, input) == IF "visibility" \in DOMAIN input THEN input.visibility ELSE "PUBLIC"
ToldVisibility(i, input) ==
  IF "visibility" \in DOMAIN input THEN input.visibility ELSE profile[i].visibility

StartUpdateProfile(h, i, input) ==
  /\ Made(i)
  /\ Begin(h, [pc |-> "update", id |-> i, input |-> input,
               visibility |-> ToldVisibility(i, input)])
  /\ was' = Remembered(handler', profile)
  /\ UNCHANGED <<profile, told>>

\* One transaction: the row is looked for, its named fields are set, the event is enqueued.
WriteUpdate(h) ==
  LET r == handler[h] IN
  /\ At(h, "update")
  /\ profile' = [profile EXCEPT ![r.id] =
       [f \in DOMAIN @ |-> IF f \in DOMAIN r.input THEN r.input[f] ELSE @[f]]]
  /\ told' = [told EXCEPT ![r.id] = r.visibility]
  /\ Finish(h)
  /\ was' = Remembered(handler', profile')

ProfilesCrash(h) ==
  /\ Crash(h)
  /\ was' = Remembered(handler', profile)
  /\ UNCHANGED <<profile, told>>

ProfilesNext ==
  \E h \in Handlers :
    \/ \E i \in Profiles :
         \/ \E u \in Owners, text \in Texts \cup {None}, v \in Visibility :
              StartCreateProfile(h, i, u, text, v)
         \/ \E input \in Update : StartUpdateProfile(h, i, input)
    \/ InsertProfile(h) \/ WriteUpdate(h) \/ ProfilesCrash(h)

ProfilesSpec == ProfilesInit /\ [][ProfilesNext]_profilesVars

-----------------------------------------------------------------------------
\* Two requests to make the profile of one user, at once, leave one.
OneProfilePerUser ==
  \A i, j \in Profiles : (Made(i) /\ Made(j) /\ profile[i].user = profile[j].user) => i = j

\* The event of an update tells the visibility it set, or one that the profile had while
\* the update ran, though another update may have replaced it by then: it never tells of
\* a profile that became private before the update began that it is public.
ToldWhatWasSo ==
  [][\A i \in Profiles : told'[i] # told[i] => told'[i] \in was[i] \cup {profile'[i].visibility}]_profilesVars
\* What a handler relies on: the id of a new profile is its own; an update tells a
\* visibility that it sets, or one that is remembered.
ProfilesHandlerOK(h) ==
  /\ At(h, "create") =>
       /\ ~Made(handler[h].id) /\ handler[h].row.user # None
       /\ \A g \in Handlers : (At(g, "create") /\ handler[g].id = handler[h].id) => g = h
  /\ At(h, "update") =>
       LET r == handler[h] IN
       /\ Made(r.id)
       /\ r.visibility \in was[r.id] \cup (IF "visibility" \in DOMAIN r.input THEN {r.input.visibility} ELSE {})

ProfilesInv ==
  /\ ProfilesTypeOK
  /\ OneProfilePerUser
  /\ \A h \in Handlers : ProfilesHandlerOK(h)
=============================================================================
