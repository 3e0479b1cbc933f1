------------------------------ MODULE Browser ------------------------------
(***************************************************************************)
(* One page of the web application, the requests it has in flight, and     *)
(* what the API stores of what it shows.  The API handles requests in any  *)
(* order, and their answers come in any order; an answer may be lost after *)
(* the API has done what was asked.  The API answers what the contracts    *)
(* say, but to the lists and forms of the portfolio, whose controllers     *)
(* answer an empty object before they have read or stored anything.  The   *)
(* modules of the pages extend this one; each says what its component      *)
(* keeps and does.                                                         *)
(***************************************************************************)
EXTENDS Naturals, Sequences

CONSTANTS
  Slots,   \* the most requests in flight at the same time
  MaxRows  \* the most rows that are stored

ASSUME MaxRowsAssumption == MaxRows \in Nat \ {0}

VARIABLES
  open,    \* which page it is
  stored,  \* what the API has for it: rows with an id and a mark, the newest first
  page,    \* the state of the component
  flight,  \* [Slots -> request]
  lapse    \* see LapseAfter

browserVars == <<open, stored, page, flight, lapse>>

-----------------------------------------------------------------------------
\* A mark is what a request can change of a row: that it is read, settled, refunded.
Row == [id : Nat, mark : BOOLEAN]
Marked(rows, id, mark) == [i \in DOMAIN rows |-> IF rows[i].id = id THEN [rows[i] EXCEPT !.mark = mark] ELSE rows[i]]
AllMarked(rows) == [i \in DOMAIN rows |-> [rows[i] EXCEPT !.mark = TRUE]]

Free == [op |-> "none", id |-> 0, mark |-> FALSE, state |-> "none", rows |-> <<>>]
Request(op, id, mark) == [op |-> op, id |-> id, mark |-> mark, state |-> "waiting", rows |-> <<>>]
Load == Request("load", 0, FALSE)
List == Request("list", 0, FALSE)  \* those of the portfolio

InFlight(op) == \E s \in Slots : flight[s].op = op
Quiet == \A s \in Slots : flight[s] = Free

\* The page need not show what is stored after two requests were in flight at once, after
\* an answer was lost or others wrote, until a load that is in flight alone.
LapseAfter(s, op) ==
  \/ \E t \in Slots \ {s} : flight[t] # Free
  \/ op # "load" /\ lapse

\* A handler of the page sends a request; a handler that awaited one sends the next.
Place(s, request) ==
  /\ flight' = [flight EXCEPT ![s] = request]
  /\ lapse' = LapseAfter(s, request.op)
Send(s, request) == flight[s] = Free /\ Place(s, request) /\ UNCHANGED <<open, stored>>
SendNext(s, request) == Place(s, request) /\ UNCHANGED <<open, stored>>
Settle(s) == flight' = [flight EXCEPT ![s] = Free] /\ UNCHANGED <<open, stored, lapse>>

\* ErrorBoundary: it replaced a page that threw as it was shown, and its button mounts the
\* page anew.  What was in flight for the page that threw reaches nobody.
Remount(s, request, blank) ==
  /\ page.broken
  /\ page' = blank
  /\ flight' = [t \in Slots |-> IF t = s THEN request ELSE Free]
  /\ lapse' = FALSE
  /\ UNCHANGED <<open, stored>>

\* apiRequest gives what the API answered, or throws.
Answered(s, op) == flight[s].op = op /\ flight[s].state = "answered"
Failed(s, op) == flight[s].op = op /\ flight[s].state = "failed"

-----------------------------------------------------------------------------
(* The API *)

\* There is one account in a browser, one profile or rating to make, and one payment of a
\* session, whose order is given again until it is captured.
Makes(row) ==
  CASE open = "account" -> <<row>>
    [] open = "session" /\ stored # <<>> -> stored
    [] OTHER -> <<row>> \o stored

Full ==
  \/ open \in {"editor", "rating", "profile", "public"} /\ stored # <<>>
  \/ open = "session" /\ stored # <<>> /\ stored[1].mark
  \/ open \notin {"account", "session"} /\ Len(stored) = MaxRows

After(request) ==
  CASE request.op = "create" -> Makes([id |-> Len(stored) + 1, mark |-> request.mark])
    [] request.op = "mark" -> Marked(stored, request.id, request.mark)
    [] request.op = "verify" /\ request.mark -> AllMarked(stored)
    [] request.op = "markAll" -> AllMarked(stored)
    [] request.op = "remove" -> <<>>
    [] OTHER -> stored

Reply(request) ==
  CASE request.op = "create" -> <<Head(After(request))>>
    [] request.op \in {"mark", "search", "ask"} -> <<[id |-> request.id, mark |-> request.mark]>>
    [] request.op \in {"list", "add"} -> <<>>
    [] OTHER -> After(request)

Handle(s) ==
  LET request == flight[s]
      Fail(lost) == /\ flight' = [flight EXCEPT ![s].state = "failed"]
                    /\ lapse' = (lapse \/ lost)
  IN  /\ request.state = "waiting"
      /\ \/ /\ request.op = "create" => ~Full
            /\ stored' = After(request)
            /\ \/ /\ flight' = [flight EXCEPT ![s].state = "answered", ![s].rows = Reply(request)]
                  /\ UNCHANGED lapse
               \/ Fail(stored' # stored)
         \/ Fail(FALSE) /\ UNCHANGED stored
      /\ UNCHANGED <<open, page>>

\* Another tab, another user, or a provider writes; also what a form of the portfolio sent,
\* which the API stores after it has answered, or does not.
Elsewhere ==
  /\ \/ /\ ~Full
        /\ stored' = Makes([id |-> Len(stored) + 1, mark |-> FALSE])
     \/ \E i \in DOMAIN stored : stored' = [stored EXCEPT ![i].mark = ~@]
     \/ open = "account" /\ stored' = <<>>
  /\ lapse' = TRUE
  /\ UNCHANGED <<open, page, flight>>

-----------------------------------------------------------------------------
(* What is so of the requests of every page *)

Operation ==
  {"none", "load", "create", "mark", "markAll", "remove", "verify", "search", "ask", "count", "session",
   "list", "add"}

Flight ==
  [op : Operation, id : Nat, mark : BOOLEAN, state : {"none", "waiting", "answered", "failed"},
   rows : Seq(Row)]

OneInFlight == \A s, t \in Slots : flight[s] # Free /\ flight[t] # Free => s = t

\* The ids tell the rows apart.
Numbered == \A i \in DOMAIN stored : stored[i].id = Len(stored) + 1 - i

FlightOK(s) ==
  /\ flight[s].op = "none" => flight[s] = Free
  /\ Answered(s, "create") => Len(flight[s].rows) = 1
  /\ flight[s].op \in {"mark", "search", "ask"} /\ flight[s].state = "answered" =>
       flight[s].rows = <<[id |-> flight[s].id, mark |-> flight[s].mark]>>
  /\ Answered(s, "load") /\ ~lapse => flight[s].rows = stored

FlightsOK ==
  /\ flight \in [Slots -> Flight] /\ stored \in Seq(Row) /\ lapse \in BOOLEAN
  /\ ~lapse => OneInFlight
  /\ open # "account" => Numbered
  /\ \A s \in Slots : FlightOK(s)
=============================================================================
