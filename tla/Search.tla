------------------------------- MODULE Search -------------------------------
(***************************************************************************)
(* The discover page: a search, and the pages of its result.  A query is a *)
(* text with a page, and 0 is none.                                        *)
(***************************************************************************)
EXTENDS Browser

\* asked: the query that was sent last; the component does not keep it.
SearchBlank == [query |-> 0, items |-> 0, loading |-> FALSE, error |-> FALSE, asked |-> 0]

\* Another search cannot be started while one runs: its button is disabled, with which
\* the form does not submit, and the pages are hidden.
MaySearch == open = "search" /\ ~page.loading

RunSearch(s, query) ==
  /\ MaySearch
  /\ Send(s, Request("search", query, FALSE))
  /\ page' = [page EXCEPT !.loading = TRUE, !.error = FALSE, !.asked = query]

\* Neither a text nor a skill.
EmptySearch ==
  /\ MaySearch
  /\ page' = [page EXCEPT !.error = TRUE]
  /\ UNCHANGED <<open, stored, flight, lapse>>

\* The next or the previous page of the query that was answered.
PagesShown(query) == open = "search" /\ ~page.error /\ page.query \notin {0, query}

ChangePage(s, query) ==
  /\ PagesShown(query)
  /\ RunSearch(s, query)

Found(s) ==
  /\ open = "search"
  /\ \/ /\ Answered(s, "search")
        /\ page' = [page EXCEPT !.items = flight[s].rows[1].id, !.query = flight[s].id, !.loading = FALSE]
     \/ Failed(s, "search") /\ page' = [page EXCEPT !.error = TRUE, !.loading = FALSE]
  /\ Settle(s)

SearchNext(s) ==
  \/ \E query \in 1..MaxRows : RunSearch(s, query) \/ ChangePage(s, query)
  \/ EmptySearch \/ Found(s)

SearchBusy == page.loading => InFlight("search")

\* The result is of the query that was asked last, and so are the pages that follow.
SearchAgrees ==
  /\ page.items = page.query
  /\ (Quiet /\ ~page.error) => page.items = page.asked

SearchType == [query : Nat, items : Nat, loading : BOOLEAN, error : BOOLEAN, asked : Nat]

\* Inductive: one request at a time, and it is for the query that was asked last.
SearchInv ==
  /\ page \in SearchType
  /\ OneInFlight
  /\ \A s \in Slots : flight[s] # Free =>
       flight[s].op = "search" /\ flight[s].id = page.asked /\ page.loading
  /\ SearchBusy
  /\ page.items = page.query
  /\ ~page.loading /\ ~page.error => page.items = page.asked
=============================================================================
