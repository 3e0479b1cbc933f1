--------------------------- MODULE ProfileEditor ---------------------------
(***************************************************************************)
(* The page to edit one's profile: the profile is loaded, or is not there  *)
(* yet, and a form is filled from it.  The fields stay open while a save   *)
(* runs, whose answer fills the form again.  The mark stands for the text  *)
(* of all fields, which a save sends all.                                  *)
(***************************************************************************)
EXTENDS Browser

\* edited: the user typed since the form was filled; the component does not keep it.
EditorBlank ==
  [loading |-> TRUE, error |-> FALSE, initialized |-> FALSE, value |-> FALSE,
   submitting |-> FALSE, refused |-> FALSE, edited |-> FALSE]

\* toFormValues.  A new form has the account's name.
FormValue(rows) == IF rows = <<>> THEN FALSE ELSE rows[1].mark

EditorLoaded(s) ==
  /\ open = "editor"
  /\ \/ /\ Answered(s, "load")
        /\ page' = [page EXCEPT !.loading = FALSE, !.initialized = flight[s].rows # <<>>,
                                !.value = FormValue(flight[s].rows)]
     \/ Failed(s, "load") /\ page' = [page EXCEPT !.error = TRUE, !.loading = FALSE]
  /\ Settle(s)

MayReloadEditor == open = "editor" /\ page.error

EditorRetry(s) ==
  /\ MayReloadEditor
  /\ Send(s, Load)
  /\ page' = [page EXCEPT !.loading = TRUE, !.error = FALSE]

Ready == open = "editor" /\ ~page.loading /\ ~page.error

Type ==
  /\ Ready
  /\ page' = [page EXCEPT !.value = ~page.value, !.edited = TRUE]
  /\ UNCHANGED <<open, stored, flight, lapse>>

\* toRequest.
Save(s) ==
  /\ Ready /\ ~page.submitting
  /\ Send(s, Request(IF page.initialized THEN "mark" ELSE "create", 1, page.value))
  /\ page' = [page EXCEPT !.submitting = TRUE, !.refused = FALSE]

Saved(s) ==
  /\ open = "editor"
  /\ \E op \in {"mark", "create"} :
       \/ /\ Answered(s, op)
          /\ page' = [page EXCEPT !.initialized = TRUE, !.value = FormValue(flight[s].rows),
                                  !.submitting = FALSE, !.edited = FALSE]
       \/ Failed(s, op) /\ page' = [page EXCEPT !.refused = TRUE, !.submitting = FALSE]
  /\ Settle(s)

ProfileEditorNext(s) == EditorLoaded(s) \/ EditorRetry(s) \/ Type \/ Save(s) \/ Saved(s)

ProfileEditorBusy ==
  /\ page.loading => InFlight("load")
  /\ page.submitting => InFlight("mark") \/ InFlight("create")

\* What the form has and the user did not type is what is stored.
ProfileEditorAgrees ==
  (Quiet /\ ~lapse /\ ~page.error /\ ~page.edited) => page.value = FormValue(stored)

EditorType ==
  [loading : BOOLEAN, error : BOOLEAN, initialized : BOOLEAN, value : BOOLEAN,
   submitting : BOOLEAN, refused : BOOLEAN, edited : BOOLEAN]

EditorFlight(s) ==
  /\ flight[s].op \in {"none", "load", "create", "mark"}
  /\ Answered(s, "load") /\ flight[s].rows # <<>> => stored # <<>>
  /\ Answered(s, "create") => stored # <<>>
  /\ flight[s].op = "mark" => flight[s].id = 1 /\ stored # <<>>
  /\ flight[s].op \in {"create", "mark"} /\ ~lapse =>
       IF flight[s].state = "answered"
       THEN FormValue(flight[s].rows) = FormValue(stored)
       ELSE ~page.error /\ ~page.edited => page.value = FormValue(stored)

\* Inductive: there is one profile, of which the form knows if it is filled from it.
ProfileEditorInv ==
  /\ page \in EditorType
  /\ Len(stored) <= 1
  /\ page.initialized => stored # <<>>
  /\ \A s \in Slots : EditorFlight(s)
  /\ ProfileEditorBusy /\ ProfileEditorAgrees
=============================================================================
