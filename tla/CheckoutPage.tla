---------------------------- MODULE CheckoutPage ----------------------------
(***************************************************************************)
(* The page of a paid session, for who pays: the session and the payment   *)
(* there is, and the panel that makes the order, loads the provider's      *)
(* script, opens its window and has the API verify what it said.  The row  *)
(* is the payment of the session; it is marked once it is captured.  That  *)
(* the window tells when it is closed is as the code expects it.           *)
(***************************************************************************)
EXTENDS Browser

\* script: the script element, of which scriptPromise waits to be told.
\* window: the provider's; settled: what it said is known, and more is dropped.
\* stage: "not-taken" is the error that says that no money was taken.
\* Not kept by the code are silent: the history was not loaded, or the provider was asked;
\* and taken: the provider took the money.
CheckoutBlank ==
  [loading |-> TRUE, error |-> FALSE, rows |-> <<>>, silent |-> FALSE, taken |-> FALSE,
   terms |-> FALSE, stage |-> "idle", script |-> "absent", window |-> FALSE, settled |-> TRUE]

OnSession == open = "session" /\ ~page.loading /\ ~page.error
Locally == UNCHANGED <<open, stored, flight, lapse>>
PanelBusy == page.stage \in {"creating-order", "checkout", "verifying"}

\* load: the session and then the history, whose failure is not an error.
SessionShown(s) ==
  /\ open = "session"
  /\ \/ Answered(s, "session") /\ SendNext(s, Load) /\ UNCHANGED page
     \/ Failed(s, "session") /\ Settle(s) /\ page' = [page EXCEPT !.error = TRUE, !.loading = FALSE]
     \/ /\ Answered(s, "load") /\ Settle(s)
        /\ page' = [page EXCEPT !.rows = flight[s].rows, !.loading = FALSE]
     \/ /\ Failed(s, "load") /\ Settle(s)
        /\ page' = [page EXCEPT !.rows = <<>>, !.silent = TRUE, !.loading = FALSE]

RetrySession(s) ==
  /\ open = "session" /\ page.error
  /\ Send(s, Request("session", 0, FALSE))
  /\ page' = [page EXCEPT !.loading = TRUE, !.error = FALSE]

\* The panel is shown until the payment is confirmed; its terms are open while it is idle.
PanelOpen == OnSession /\ ~PanelBusy /\ page.stage # "done"

AcceptTerms ==
  /\ PanelOpen
  /\ page' = [page EXCEPT !.terms = ~page.terms]
  /\ Locally

\* The window covers the page while it is open.
MayPay == PanelOpen /\ page.terms /\ ~page.window

\* handlePay, first step.
Pay(s) ==
  /\ MayPay
  /\ Send(s, Request("create", 0, FALSE))
  /\ page' = [page EXCEPT !.stage = "creating-order"]

OrderCreated(s) ==
  /\ open = "session"
  /\ \/ /\ Answered(s, "create")
        /\ page' = [page EXCEPT !.stage = "checkout",
                                !.script = IF page.script = "absent" THEN "loading" ELSE page.script,
                                !.window = (page.script = "ready"),
                                !.settled = (page.script # "ready"), !.silent = TRUE]
     \/ Failed(s, "create") /\ page' = [page EXCEPT !.stage = "error"]
  /\ Settle(s)

\* The element of a script that failed stays, and tells nobody a second time.
ScriptSettled ==
  /\ open = "session" /\ page.script = "loading"
  /\ \/ page' = [page EXCEPT !.script = "ready", !.window = TRUE, !.settled = FALSE]
     \/ page' = [page EXCEPT !.script = "failed", !.stage = "error"]
  /\ Locally

\* A payment that failed is final for the panel, and the window stays open for another try.
StageIfNot == IF page.settled THEN page.stage ELSE "not-taken"

WindowFailed ==
  /\ open = "session" /\ page.window
  /\ page' = [page EXCEPT !.stage = StageIfNot, !.settled = TRUE]
  /\ Locally

WindowDismissed ==
  /\ open = "session" /\ page.window
  /\ page' = [page EXCEPT !.stage = StageIfNot, !.settled = TRUE, !.window = FALSE]
  /\ Locally

\* The handler: the provider took the money, and gives what the API verifies.
WindowPaid(s) ==
  /\ open = "session" /\ page.window
  /\ \/ /\ ~page.settled
        /\ \E captured \in BOOLEAN : Send(s, Request("verify", 1, captured))
        /\ page' = [page EXCEPT !.stage = "verifying", !.settled = TRUE, !.window = FALSE, !.taken = TRUE]
     \/ page.settled /\ page' = [page EXCEPT !.window = FALSE, !.taken = TRUE] /\ Locally

\* onConfirmed: the page has the payment too.
Verified(s) ==
  /\ open = "session"
  /\ \/ /\ Answered(s, "verify")
        /\ page' = [page EXCEPT !.rows = flight[s].rows, !.stage = "done", !.silent = FALSE]
     \/ Failed(s, "verify") /\ page' = [page EXCEPT !.stage = "error"]
  /\ Settle(s)

CheckoutNext(s) ==
  \/ SessionShown(s) \/ RetrySession(s) \/ AcceptTerms \/ Pay(s) \/ OrderCreated(s)
  \/ ScriptSettled \/ WindowFailed \/ WindowDismissed \/ WindowPaid(s) \/ Verified(s)

\* But for a second try after the script has failed: the element of the script is there
\* and tells nothing again, so that the panel waits for ever, with nothing in flight.
ScriptNeverTold == page.stage = "checkout" /\ page.script = "failed"

CheckoutBusy ==
  /\ page.loading => InFlight("session") \/ InFlight("load")
  /\ page.stage = "creating-order" => InFlight("create")
  /\ page.stage = "checkout" =>
       page.script = "loading" \/ (page.window /\ ~page.settled) \/ ScriptNeverTold
  /\ page.stage = "verifying" => InFlight("verify")

\* A confirmation is the API's.  A capture that comes after it is not shown any more.
CheckoutAgrees == (Quiet /\ ~lapse /\ ~page.error /\ ~page.silent) => page.rows = stored

\* When the panel says "No money has been taken." (payment-checkout-panel.tsx:94 and 99),
\* the provider has not taken the money of this session.
SaysWhatWasTaken == open = "session" /\ page.stage = "not-taken" => ~page.taken

CheckoutType ==
  [loading : BOOLEAN, error : BOOLEAN, rows : Seq(Row), silent : BOOLEAN, taken : BOOLEAN, terms : BOOLEAN,
   stage : {"idle", "creating-order", "checkout", "verifying", "done", "error", "not-taken"},
   script : {"absent", "loading", "ready", "failed"}, window : BOOLEAN, settled : BOOLEAN]

CheckoutFlight(s) ==
  ~lapse =>
    /\ Answered(s, "verify") => flight[s].rows = stored
    /\ flight[s].op \in {"create", "verify"} /\ flight[s].state # "answered" =>
         page.silent \/ page.error \/ page.rows = stored

\* Inductive.
CheckoutInv ==
  /\ page \in CheckoutType
  /\ \A s \in Slots : CheckoutFlight(s)
  /\ CheckoutBusy /\ CheckoutAgrees
=============================================================================
