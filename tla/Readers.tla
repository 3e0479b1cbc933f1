------------------------------ MODULE Readers ------------------------------
(***************************************************************************)
(* The pages that only show what the API has: badges, one's own profile,   *)
(* the profile of another user, the dashboard, and the two panels of the   *)
(* administrator.  A marked row is a badge that was earned.                *)
(***************************************************************************)
EXTENDS Browser

ReaderPages == {"badges", "profile", "public", "dashboard", "overview", "status"}

\* missing: there is no profile.  silent: a part was not loaded, and no error says so;
\* the component does not keep it.  broken: the page threw, and the error boundary is in
\* its place.
ReaderBlank ==
  [rows |-> <<>>, loading |-> TRUE, error |-> FALSE, missing |-> FALSE, silent |-> FALSE, broken |-> FALSE]

\* The panels that are mounted for an ADMIN only, once.
AdminOnly == {"overview", "status"}

\* Behind the error there is a button, except for those and the profile of another user.
MayRetry == open \in ReaderPages \ (AdminOnly \union {"public"}) /\ page.error /\ ~page.loading /\ ~page.broken

RetryReader(s) ==
  /\ MayRetry
  /\ Send(s, Load)
  /\ page' = [page EXCEPT !.loading = TRUE, !.error = FALSE, !.missing = FALSE]

Loaded(rows) == page' = [page EXCEPT !.rows = rows, !.loading = FALSE, !.silent = FALSE]
NotLoaded == page' = [page EXCEPT !.error = TRUE, !.loading = FALSE]

\* The definitions and the user's badges at once; one that fails fails the load.
BadgesLoaded(s) ==
  /\ open = "badges"
  /\ \/ Answered(s, "load") /\ Loaded(flight[s].rows)
     \/ Failed(s, "load") /\ NotLoaded
  /\ Settle(s)

\* What the page lists as earned, and as still to be earned: the definitions that no badge
\* of the user has.
Earned(rows) == SelectSeq(rows, LAMBDA row : row.mark)
StillAvailable(rows) == SelectSeq(rows, LAMBDA row : ~row.mark)

\* 404: no profile, or none that the viewer may see.
ProfileAnswered(s) ==
  \/ /\ Answered(s, "load")
     /\ page' = [page EXCEPT !.rows = flight[s].rows, !.missing = flight[s].rows = <<>>, !.loading = FALSE]
  \/ Failed(s, "load") /\ NotLoaded

OwnProfileLoaded(s) == open = "profile" /\ ProfileAnswered(s) /\ Settle(s)
\* One's own page offers to create the profile, the page of another says there is none.
SaysNoProfile == open \in {"profile", "public"} /\ ~page.loading /\ page.missing
PublicProfileLoaded(s) == open = "public" /\ ProfileAnswered(s) /\ Settle(s)

\* Four requests, each with its own outcome; only the profile's failure is an error.
\* The rows are the sessions or the notifications, which stay as they were if it failed.
\* The learning goals are answered as in the portfolio, and the page throws; it is shown
\* only if they were not answered.
DashboardLoaded(s) ==
  /\ open = "dashboard"
  /\ \E error, broken \in BOOLEAN :
       \/ /\ Answered(s, "load")
          /\ page' = [page EXCEPT !.rows = flight[s].rows, !.error = error, !.broken = broken,
                                  !.loading = FALSE, !.silent = FALSE]
       \/ /\ Failed(s, "load")
          /\ page' = [page EXCEPT !.loading = FALSE, !.silent = TRUE, !.error = error, !.broken = broken]
  /\ Settle(s)

RemountDashboard(s) == open = "dashboard" /\ Remount(s, Load, ReaderBlank)

\* A list says there is nothing in it, or shows it, whatever became of its request.
ListSaysEmpty == open = "dashboard" /\ ~page.loading /\ page.rows = <<>>

OverviewLoaded(s) ==
  /\ open = "overview"
  /\ \/ Answered(s, "load") /\ Loaded(flight[s].rows)
     \/ Failed(s, "load") /\ NotLoaded
  /\ Settle(s)

\* Two requests; an error only if both fail, and "Unknown" for the one that did.
StatusLoaded(s) ==
  /\ open = "status"
  /\ \/ Answered(s, "load") /\ Loaded(flight[s].rows)
     \/ Failed(s, "load") /\ (NotLoaded \/ page' = [page EXCEPT !.loading = FALSE, !.silent = TRUE])
  /\ Settle(s)
SaysUnknown == open = "status" /\ ~page.loading /\ (page.silent \/ page.error)

ReadersNext(s) ==
  \/ RetryReader(s) \/ BadgesLoaded(s) \/ OwnProfileLoaded(s) \/ PublicProfileLoaded(s)
  \/ DashboardLoaded(s) \/ RemountDashboard(s) \/ OverviewLoaded(s) \/ StatusLoaded(s)

ReadersBusy == page.loading => InFlight("load")

ReadersAgree ==
  (Quiet /\ ~lapse /\ ~page.error /\ ~page.silent /\ ~page.broken) =>
    /\ page.rows = stored
    /\ Earned(page.rows) = Earned(stored) /\ StillAvailable(page.rows) = StillAvailable(stored)
    /\ open \in {"profile", "public"} => (SaysNoProfile <=> stored = <<>>)
    /\ open = "dashboard" => (ListSaysEmpty <=> stored = <<>>)
    /\ ~SaysUnknown

\* Inductive.
ReadersInv ==
  /\ page \in [rows : Seq(Row), loading : BOOLEAN, error : BOOLEAN, missing : BOOLEAN, silent : BOOLEAN,
               broken : BOOLEAN]
  /\ ReadersBusy /\ ReadersAgree
=============================================================================
