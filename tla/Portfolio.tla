----------------------------- MODULE Portfolio -----------------------------
(***************************************************************************)
(* The portfolio page: four lists and a form for each.  What the API       *)
(* answers to each of their requests is an empty object, not a list and    *)
(* not a row: the page shows a created row as an item without a word, and  *)
(* throws when it shows a "list" that it loaded.  The forms are not        *)
(* disabled while a request runs.                                          *)
(***************************************************************************)
EXTENDS Browser

Section == {"goals", "availability", "certifications", "projects"}

\* section: where the items are; blanks: items of the page that say nothing.
\* broken: the page threw, and the error boundary is in its place.
PortfolioPage(section) ==
  [section |-> section, blanks |-> 0, loading |-> TRUE, error |-> FALSE, broken |-> FALSE]

\* The whole page is replaced while the lists load.
FormsShown(section) == open = "portfolio" /\ page.section = section /\ ~page.loading /\ ~page.broken

\* A page that is gone keeps nothing of what it is told.
Keep(shown) == page' = IF page.broken THEN page ELSE shown

\* run: the operation of a form.  Bound: MaxRows items.
Submit(s, section) ==
  /\ FormsShown(section) /\ page.blanks < MaxRows
  /\ Send(s, Request("add", 0, FALSE))
  /\ Keep([page EXCEPT !.error = FALSE])

SubmitGoal(s) == Submit(s, "goals")
SubmitSlot(s) == Submit(s, "availability")
SubmitCertification(s) == Submit(s, "certifications")
SubmitProject(s) == Submit(s, "projects")

\* What was "created" is an item, and all lists are loaded again.
PortfolioCreated(s) ==
  /\ open = "portfolio"
  /\ Answered(s, "add")
  /\ Keep([page EXCEPT !.blanks = @ + 1, !.loading = TRUE, !.error = FALSE])
  /\ SendNext(s, List)

PortfolioRefused(s) ==
  /\ open = "portfolio"
  /\ Failed(s, "add")
  /\ Keep([page EXCEPT !.error = TRUE])
  /\ Settle(s)

\* The four lists at once; one that fails fails the load.
PortfolioLoaded(s) ==
  /\ open = "portfolio"
  /\ \/ Answered(s, "list") /\ Keep([page EXCEPT !.loading = FALSE, !.broken = TRUE])
     \/ Failed(s, "list") /\ Keep([page EXCEPT !.error = TRUE, !.loading = FALSE])
  /\ Settle(s)

RemountPortfolio(s) == open = "portfolio" /\ Remount(s, List, PortfolioPage(page.section))

PortfolioNext(s) ==
  \/ SubmitGoal(s) \/ SubmitSlot(s) \/ SubmitCertification(s) \/ SubmitProject(s)
  \/ PortfolioCreated(s) \/ PortfolioRefused(s) \/ PortfolioLoaded(s) \/ RemountPortfolio(s)

PortfolioBusy == page.loading => InFlight("list") /\ ~page.broken

\* What the API has stored is never shown: there is an error, or the boundary.
PortfolioAgrees == (Quiet /\ ~page.error) => page.broken

\* Inductive.
PortfolioInv ==
  /\ page \in [section : Section, blanks : Nat, loading : BOOLEAN, error : BOOLEAN, broken : BOOLEAN]
  /\ PortfolioBusy /\ PortfolioAgrees
=============================================================================
