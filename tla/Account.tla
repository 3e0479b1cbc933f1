------------------------------ MODULE Account ------------------------------
(***************************************************************************)
(* Who is signed in, as the web application shows it: the provider that    *)
(* asks the API on load, the forms to sign in and to register, which do    *)
(* not wait for it, and the button to sign out.  A row is the session of   *)
(* the browser's cookie.                                                   *)
(***************************************************************************)
EXTENDS Browser

\* refused: the API refused to sign out, and has not been asked since; not kept by the code.
AccountBlank ==
  [rows |-> <<>>, loading |-> TRUE, error |-> FALSE, submitting |-> FALSE, signingOut |-> FALSE, refused |-> FALSE]

\* refresh: a 401 says that nobody is signed in; another error says nothing.
Refreshed(s) ==
  /\ open = "account"
  /\ \/ /\ Answered(s, "load")
        /\ page' = [page EXCEPT !.rows = flight[s].rows, !.loading = FALSE, !.refused = FALSE]
     \/ Failed(s, "load") /\ page' = [page EXCEPT !.error = TRUE, !.loading = FALSE]
  /\ Settle(s)

\* The form to sign in or to register; a user who is signed in may open it too.
FormReady == open = "account" /\ ~page.submitting

SignIn(s) ==
  /\ FormReady
  /\ Send(s, Request("create", 0, FALSE))
  /\ page' = [page EXCEPT !.submitting = TRUE, !.error = FALSE]

SignedIn(s) ==
  /\ open = "account"
  /\ \/ /\ Answered(s, "create")
        /\ page' = [page EXCEPT !.rows = flight[s].rows, !.submitting = FALSE, !.refused = FALSE]
     \/ Failed(s, "create") /\ page' = [page EXCEPT !.error = TRUE, !.submitting = FALSE]
  /\ Settle(s)

\* The navigation has the button once somebody is known to be signed in.
MaySignOut == open = "account" /\ ~page.loading /\ page.rows # <<>> /\ ~page.signingOut

SignOut(s) ==
  /\ MaySignOut
  /\ Send(s, Request("remove", 0, FALSE))
  /\ page' = [page EXCEPT !.signingOut = TRUE, !.error = FALSE]

\* Also when the API refused or could not be reached, the user is signed out of the page.
SignedOut(s) ==
  /\ open = "account"
  /\ \E refused \in BOOLEAN :
       /\ IF refused THEN Failed(s, "remove") ELSE Answered(s, "remove")
       /\ page' = [page EXCEPT !.rows = <<>>, !.signingOut = FALSE, !.refused = refused]
  /\ Settle(s)

AccountNext(s) == Refreshed(s) \/ SignIn(s) \/ SignedIn(s) \/ SignOut(s) \/ SignedOut(s)

AccountBusy ==
  /\ page.loading => InFlight("load")
  /\ page.submitting => InFlight("create")
  /\ page.signingOut => InFlight("remove")

\* But for one who is still signed in after the API refused to sign them out, whom the page
\* shows as signed out, without an error.
AccountAgrees ==
  (Quiet /\ ~lapse /\ ~page.error) => page.rows = stored \/ (page.refused /\ page.rows = <<>>)

AccountType ==
  [rows : Seq(Row), loading : BOOLEAN, error : BOOLEAN, submitting : BOOLEAN, signingOut : BOOLEAN,
   refused : BOOLEAN]

AccountFlight(s) ==
  ~lapse =>
    /\ Answered(s, "create") => flight[s].rows = stored
    /\ Answered(s, "remove") => stored = <<>>

\* Inductive.
AccountInv ==
  /\ page \in AccountType
  /\ \A s \in Slots : AccountFlight(s)
  /\ AccountBusy /\ AccountAgrees
=============================================================================
