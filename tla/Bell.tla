-------------------------------- MODULE Bell --------------------------------
(***************************************************************************)
(* The notification bell: a number, and a panel that is loaded each time   *)
(* it is opened.  What the user reads is shown as read before the API      *)
(* answers, and is loaded again if the API refuses.  A marked row is read. *)
(***************************************************************************)
EXTENDS Browser, FiniteSets

CONSTANT PageLimit  \* notifications that the API gives for the panel

ASSUME PageLimitAssumption == PageLimit \in Nat

BellBlank ==
  [panel |-> FALSE, loaded |-> FALSE, rows |-> <<>>, count |-> 0, loading |-> FALSE, error |-> FALSE]

Unread(rows) == Cardinality({i \in DOMAIN rows : ~rows[i].mark})
FirstPage(rows) == IF Len(rows) <= PageLimit THEN rows ELSE SubSeq(rows, 1, PageLimit)

\* Once, on mount; an error is ignored.
Counted(s) ==
  /\ open = "bell"
  /\ \/ Answered(s, "count") /\ page' = [page EXCEPT !.count = Unread(flight[s].rows)]
     \/ Failed(s, "count") /\ UNCHANGED page
  /\ Settle(s)

\* What the panel offers; an item that is read is disabled.
MayReloadPanel == open = "bell" /\ page.panel /\ page.error /\ ~page.loading
MayReadAll == open = "bell" /\ page.panel /\ page.count > 0
MayRead(i) ==
  /\ open = "bell" /\ page.panel /\ ~page.loading /\ ~page.error
  /\ i \in DOMAIN page.rows /\ ~page.rows[i].mark

TogglePanel(s) ==
  /\ open = "bell"
  /\ IF page.panel
     THEN page' = [page EXCEPT !.panel = FALSE] /\ UNCHANGED <<open, stored, flight, lapse>>
     ELSE Send(s, Load) /\ page' = [page EXCEPT !.panel = TRUE, !.loading = TRUE, !.error = FALSE]

RetryPanel(s) ==
  /\ MayReloadPanel
  /\ Send(s, Load)
  /\ page' = [page EXCEPT !.loading = TRUE, !.error = FALSE]

\* loaded, which the component does not keep: the panel had an answer once.
PanelLoaded(s) ==
  LET rows == FirstPage(flight[s].rows) IN
  /\ open = "bell"
  /\ \/ /\ Answered(s, "load")
        /\ page' = [page EXCEPT !.rows = rows, !.count = Unread(rows), !.loading = FALSE, !.loaded = TRUE]
     \/ Failed(s, "load") /\ page' = [page EXCEPT !.error = TRUE, !.loading = FALSE]
  /\ Settle(s)

ReadOne(s, i) ==
  /\ MayRead(i)
  /\ Send(s, Request("mark", page.rows[i].id, TRUE))
  /\ page' = [page EXCEPT !.rows = Marked(page.rows, page.rows[i].id, TRUE),
                          !.count = IF page.count = 0 THEN 0 ELSE page.count - 1]

ReadAll(s) ==
  /\ MayReadAll
  /\ Send(s, Request("markAll", 0, TRUE))
  /\ page' = [page EXCEPT !.rows = AllMarked(page.rows), !.count = 0]

\* Refused: the panel is loaded again.  (Mutation: what was shown stays.)
KeepOnRefusal(s) == Settle(s) /\ UNCHANGED page
Resync(s) == SendNext(s, Load) /\ page' = [page EXCEPT !.loading = TRUE, !.error = FALSE]

ReadSettled(s) ==
  /\ open = "bell"
  /\ \E op \in {"mark", "markAll"} :
       \/ Answered(s, op) /\ Settle(s) /\ UNCHANGED page
       \/ Failed(s, op) /\ Resync(s)

BellNext(s) ==
  \/ Counted(s) \/ TogglePanel(s) \/ RetryPanel(s) \/ PanelLoaded(s)
  \/ \E i \in 1..MaxRows : ReadOne(s, i)
  \/ ReadAll(s) \/ ReadSettled(s)

BellBusy == page.loading => InFlight("load")

\* The number is of the notifications of the panel, of which there may be more.
Shows(rows) == page.rows = FirstPage(rows) /\ page.count = Unread(page.rows)
BellAgrees == (Quiet /\ ~lapse /\ ~page.error /\ page.loaded) => Shows(stored)

BellType ==
  [panel : BOOLEAN, loaded : BOOLEAN, rows : Seq(Row), count : Nat, loading : BOOLEAN, error : BOOLEAN]

\* While the API has not answered what the user reads, the panel shows what the API will
\* have stored.
BellFlight(s) ==
  ~lapse =>
    /\ flight[s].op = "count" => ~page.loaded
    /\ flight[s].op \in {"mark", "markAll"} /\ ~page.error /\ page.loaded =>
         /\ flight[s].state = "waiting" => Shows(After(flight[s]))
         /\ flight[s].state = "answered" => Shows(stored)

\* Inductive.
BellInv ==
  /\ page \in BellType
  /\ \A s \in Slots : BellFlight(s)
  /\ BellBusy /\ BellAgrees
=============================================================================
