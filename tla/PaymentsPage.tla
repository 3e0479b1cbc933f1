---------------------------- MODULE PaymentsPage ----------------------------
(***************************************************************************)
(* The payments page with the history: refunds are asked for in a dialog,  *)
(* which can be closed and opened for another payment while one is asked   *)
(* for.  A marked row is one whose refund was requested.                   *)
(***************************************************************************)
EXTENDS Browser

PaymentsBlank == [rows |-> <<>>, loading |-> TRUE, error |-> FALSE]

MayReloadPayments == open = "payments" /\ page.error /\ ~page.loading

PaymentsRetry(s) ==
  /\ MayReloadPayments
  /\ Send(s, Load)
  /\ page' = [page EXCEPT !.loading = TRUE, !.error = FALSE]

PaymentsLoaded(s) ==
  /\ open = "payments"
  /\ \/ Answered(s, "load") /\ page' = [page EXCEPT !.rows = flight[s].rows, !.loading = FALSE]
     \/ Failed(s, "load") /\ page' = [page EXCEPT !.error = TRUE, !.loading = FALSE]
  /\ Settle(s)

\* The action is hidden for what the API will refuse.
CanRequestRefund(row) == ~row.mark

\* The history is replaced while it loads, and the dialog with it.
MayRefund(i) ==
  /\ open = "payments" /\ ~page.loading /\ ~page.error
  /\ i \in DOMAIN page.rows /\ CanRequestRefund(page.rows[i])

RequestRefund(s, i) ==
  /\ MayRefund(i)
  /\ Send(s, Request("mark", page.rows[i].id, TRUE))
  /\ UNCHANGED page

\* onRefresh.
Refresh(s) == SendNext(s, Load) /\ page' = [page EXCEPT !.loading = TRUE, !.error = FALSE]

RefundRequested(s) ==
  /\ open = "payments"
  /\ \/ Answered(s, "mark") /\ Refresh(s)
     \/ Failed(s, "mark") /\ Settle(s) /\ UNCHANGED page

PaymentsPageNext(s) ==
  \/ PaymentsRetry(s) \/ PaymentsLoaded(s)
  \/ \E i \in 1..MaxRows : RequestRefund(s, i)
  \/ RefundRequested(s)

PaymentsPageBusy == page.loading => InFlight("load")
PaymentsPageAgrees == (Quiet /\ ~lapse /\ ~page.error) => page.rows = stored

\* Inductive: a refund that is asked for, and may be refused, leaves what is shown.
PaymentsPageInv ==
  /\ page \in [rows : Seq(Row), loading : BOOLEAN, error : BOOLEAN]
  /\ \A s \in Slots :
       flight[s].op = "mark" /\ flight[s].state # "answered" /\ ~lapse => page.rows = stored
  /\ PaymentsPageBusy /\ PaymentsPageAgrees
=============================================================================
