---------------------------- MODULE ReportsPage ----------------------------
(***************************************************************************)
(* The reports page: a form that is there also while the list loads, and a *)
(* status that an ADMIN changes.  A marked row is settled.                 *)
(***************************************************************************)
EXTENDS Browser

ReportsBlank(admin) ==
  [admin |-> admin, rows |-> <<>>, loading |-> TRUE, error |-> FALSE,
   submitting |-> FALSE, submitError |-> FALSE, updating |-> 0]

\* What the page offers: the form and, above the list and below, behind an error, a retry;
\* for an administrator a status for each report, of which only the report whose change was
\* sent last is disabled.
MaySubmit == open = "reports" /\ ~page.submitting
MayReloadReports == open = "reports" /\ page.error
MayChange(i) ==
  /\ open = "reports" /\ page.admin /\ ~page.loading
  /\ i \in DOMAIN page.rows /\ page.updating # page.rows[i].id

ReportsRetry(s) ==
  /\ MayReloadReports
  /\ Send(s, Load)
  /\ page' = [page EXCEPT !.loading = TRUE, !.error = FALSE]

ReportsLoaded(s) ==
  /\ open = "reports"
  /\ \/ Answered(s, "load") /\ page' = [page EXCEPT !.rows = flight[s].rows, !.loading = FALSE]
     \/ Failed(s, "load") /\ page' = [page EXCEPT !.error = TRUE, !.loading = FALSE]
  /\ Settle(s)

SubmitReport(s) ==
  /\ MaySubmit
  /\ Send(s, Request("create", 0, FALSE))
  /\ page' = [page EXCEPT !.submitting = TRUE, !.submitError = FALSE]

\* There is no load after it.
ReportSubmitted(s) ==
  /\ open = "reports"
  /\ \/ /\ Answered(s, "create")
        /\ page' = [page EXCEPT !.rows = <<flight[s].rows[1]>> \o page.rows, !.submitting = FALSE]
     \/ Failed(s, "create") /\ page' = [page EXCEPT !.submitError = TRUE, !.submitting = FALSE]
  /\ Settle(s)

ChangeStatus(s, i) ==
  /\ MayChange(i)
  /\ Send(s, Request("mark", page.rows[i].id, ~page.rows[i].mark))
  /\ page' = [page EXCEPT !.updating = page.rows[i].id]

StatusChanged(s) ==
  /\ open = "reports"
  /\ \/ /\ Answered(s, "mark")
        /\ page' = [page EXCEPT !.rows = Marked(page.rows, flight[s].id, flight[s].mark), !.updating = 0]
     \/ Failed(s, "mark") /\ page' = [page EXCEPT !.error = TRUE, !.updating = 0]
  /\ Settle(s)

ReportsPageNext(s) ==
  \/ ReportsRetry(s) \/ ReportsLoaded(s)
  \/ SubmitReport(s) \/ ReportSubmitted(s)
  \/ \E i \in 1..MaxRows : ChangeStatus(s, i)
  \/ StatusChanged(s)

ReportsPageBusy ==
  /\ page.loading => InFlight("load")
  /\ page.submitting => InFlight("create")
  /\ page.updating # 0 => InFlight("mark")
ReportsPageAgrees == (Quiet /\ ~lapse /\ ~page.error) => page.rows = stored

ReportsType ==
  [admin : BOOLEAN, rows : Seq(Row), loading : BOOLEAN, error : BOOLEAN,
   submitting : BOOLEAN, submitError : BOOLEAN, updating : Nat]

\* What the API has done, the page has still to do.
ReportsFlight(s) ==
  ~lapse /\ ~page.error =>
    /\ flight[s].op \in {"create", "mark"} /\ flight[s].state # "answered" => page.rows = stored
    /\ Answered(s, "create") => stored = <<flight[s].rows[1]>> \o page.rows
    /\ Answered(s, "mark") => stored = Marked(page.rows, flight[s].id, flight[s].mark)

\* Inductive.
ReportsPageInv ==
  /\ page \in ReportsType
  /\ \A s \in Slots : ReportsFlight(s)
  /\ ReportsPageBusy /\ ReportsPageAgrees
=============================================================================
