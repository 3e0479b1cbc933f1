---------------------------- MODULE RatingPanel ----------------------------
(***************************************************************************)
(* The panel to rate a session: the rating is looked for, unless it is     *)
(* given, and made once.                                                   *)
(***************************************************************************)
EXTENDS Browser

RatingBlank == [rows |-> <<>>, loading |-> TRUE, error |-> FALSE, submitting |-> FALSE]

\* An answer for a panel that is gone is ignored (active).
RatingLoaded(s) ==
  /\ open = "rating"
  /\ \/ Answered(s, "load") /\ page' = [page EXCEPT !.rows = flight[s].rows, !.loading = FALSE]
     \/ Failed(s, "load") /\ page' = [page EXCEPT !.error = TRUE, !.loading = FALSE]
  /\ Settle(s)

\* The form is there without a rating, also when the rating could not be looked for.
MayRate == open = "rating" /\ ~page.loading /\ page.rows = <<>> /\ ~page.submitting

SubmitRating(s) ==
  /\ MayRate
  /\ Send(s, Request("create", 0, FALSE))
  /\ page' = [page EXCEPT !.submitting = TRUE, !.error = FALSE]

RatingSubmitted(s) ==
  /\ open = "rating"
  /\ \/ Answered(s, "create") /\ page' = [page EXCEPT !.rows = flight[s].rows, !.submitting = FALSE]
     \/ Failed(s, "create") /\ page' = [page EXCEPT !.error = TRUE, !.submitting = FALSE]
  /\ Settle(s)

RatingPanelNext(s) == RatingLoaded(s) \/ SubmitRating(s) \/ RatingSubmitted(s)

RatingPanelBusy ==
  /\ page.loading => InFlight("load")
  /\ page.submitting => InFlight("create")
RatingPanelAgrees == (Quiet /\ ~lapse /\ ~page.error) => page.rows = stored

RatingType == [rows : Seq(Row), loading : BOOLEAN, error : BOOLEAN, submitting : BOOLEAN]
RatingFlight(s) == Answered(s, "create") /\ ~lapse => flight[s].rows = stored

\* Inductive.
RatingPanelInv ==
  /\ page \in RatingType
  /\ \A s \in Slots : RatingFlight(s)
  /\ RatingPanelBusy /\ RatingPanelAgrees
=============================================================================
