--------------------------- MODULE BrowsingProofs ---------------------------
(***************************************************************************)
(* A page whose requests did not overlap shows what the API has stored     *)
(* when it is quiet, but for the exceptions that the pages name, for any   *)
(* number of requests in flight and of rows.                               *)
(***************************************************************************)
EXTENDS Browsing, FiniteSetTheorems, TLAPS

-----------------------------------------------------------------------------
(* The requests of every page *)

LEMMA SomeRows ==
  ASSUME NEW rows \in Seq(Row)
  PROVE  /\ rows # <<>> => 1 \in DOMAIN rows /\ rows[1] \in Row /\ Len(rows) >= 1
         /\ Len(rows) = 1 => rows # <<>>
         /\ Len(rows) \in Nat
         /\ rows = <<>> => Len(rows) = 0
  OBVIOUS

\* What the API stores for a request is again rows, with their ids.
LEMMA MadeRows ==
  ASSUME stored \in Seq(Row), NEW row \in Row, row.id = Len(stored) + 1
  PROVE  /\ Makes(row) \in Seq(Row) /\ Makes(row) # <<>>
         /\ (open # "account" /\ Numbered) =>
              \A i \in DOMAIN Makes(row) : Makes(row)[i].id = Len(Makes(row)) + 1 - i
  <1>1. CASE open = "account"
    <2>1. Makes(row) = <<row>>
      BY <1>1 DEF Makes
    <2> QED
      BY <1>1, <2>1
  <1>2. CASE open = "session" /\ stored # <<>>
    <2>1. Makes(row) = stored
      BY <1>2 DEF Makes
    <2> QED
      BY <1>2, <2>1 DEF Numbered
  <1>3. CASE open # "account" /\ ~(open = "session" /\ stored # <<>>)
    <2>1. Makes(row) = <<row>> \o stored
      BY <1>3 DEF Makes
    <2> DEFINE made == <<row>> \o stored
    <2>2. /\ made \in Seq(Row) /\ Len(made) = Len(stored) + 1 /\ made # <<>> /\ made[1] = row
          /\ DOMAIN made = 1..(Len(stored) + 1)
          /\ \A i \in 1..(Len(stored) + 1) : i > 1 => made[i] = stored[i - 1] /\ i - 1 \in DOMAIN stored
      OBVIOUS
    <2>3. ASSUME Numbered, NEW i \in DOMAIN made
          PROVE  made[i].id = Len(made) + 1 - i
      <3>1. CASE i = 1
        BY <2>2, <3>1
      <3>2. CASE i > 1
        <4>1. stored[i - 1].id = Len(stored) + 1 - (i - 1)
          BY <2>2, <2>3, <3>2 DEF Numbered
        <4> QED
          BY <2>2, <3>2, <4>1
      <3> QED
        BY <2>2, <3>1, <3>2
    <2> QED
      BY <2>1, <2>2, <2>3
  <1> QED
    BY <1>1, <1>2, <1>3

LEMMA MarkedRows ==
  ASSUME NEW rows \in Seq(Row), NEW id, NEW mark \in BOOLEAN
  PROVE  /\ Marked(rows, id, mark) \in Seq(Row)
         /\ Len(Marked(rows, id, mark)) = Len(rows)
         /\ \A i \in DOMAIN rows :
              /\ Marked(rows, id, mark)[i].id = rows[i].id
              /\ Marked(rows, id, mark)[i].mark = IF rows[i].id = id THEN mark ELSE rows[i].mark
  <1> DEFINE new == [i \in DOMAIN rows |-> IF rows[i].id = id THEN [rows[i] EXCEPT !.mark = mark] ELSE rows[i]]
  <1>1. Marked(rows, id, mark) = new
    BY DEF Marked
  <1>2. \A i \in DOMAIN rows : rows[i] \in Row
    OBVIOUS
  <1>3. \A i \in DOMAIN rows : /\ new[i] \in Row /\ new[i].id = rows[i].id
                               /\ new[i].mark = IF rows[i].id = id THEN mark ELSE rows[i].mark
    BY <1>2 DEF Row
  <1>4. new \in [1..Len(rows) -> Row]
    BY <1>3
  <1> QED
    BY <1>1, <1>3, <1>4

LEMMA AllMarkedRows ==
  ASSUME NEW rows \in Seq(Row)
  PROVE  /\ AllMarked(rows) \in Seq(Row)
         /\ Len(AllMarked(rows)) = Len(rows)
         /\ \A i \in DOMAIN rows : AllMarked(rows)[i].id = rows[i].id /\ AllMarked(rows)[i].mark
  <1> DEFINE new == [i \in DOMAIN rows |-> [rows[i] EXCEPT !.mark = TRUE]]
  <1>1. AllMarked(rows) = new
    BY DEF AllMarked
  <1>2. \A i \in DOMAIN rows : rows[i] \in Row
    OBVIOUS
  <1>3. \A i \in DOMAIN rows : new[i] \in Row /\ new[i].id = rows[i].id /\ new[i].mark
    BY <1>2 DEF Row
  <1>4. new \in [1..Len(rows) -> Row]
    BY <1>3
  <1> QED
    BY <1>1, <1>3, <1>4

\* Numbered, of what is stored next.
NumberedRows(rows) == \A i \in DOMAIN rows : rows[i].id = Len(rows) + 1 - i

LEMMA AfterRows ==
  ASSUME stored \in Seq(Row), NEW request \in Flight
  PROVE  /\ After(request) \in Seq(Row)
         /\ open # "account" /\ Numbered => NumberedRows(After(request))
         /\ request.op = "create" => After(request) = Makes([id |-> Len(stored) + 1, mark |-> request.mark])
         /\ request.op = "create" => After(request) # <<>>
         /\ request.op = "mark" => After(request) = Marked(stored, request.id, request.mark)
         /\ request.op = "markAll" => After(request) = AllMarked(stored)
         /\ request.op = "remove" => After(request) = <<>>
         /\ request.op \notin {"create", "mark", "markAll", "remove", "verify"} => After(request) = stored
         /\ request.op = "verify" => After(request) \in {stored, AllMarked(stored)}
  <1> DEFINE row == [id |-> Len(stored) + 1, mark |-> request.mark]
  <1>1. row \in Row /\ row.id = Len(stored) + 1
    BY DEF Row, Flight
  <1>2. /\ request.op = "create" => After(request) = Makes(row)
        /\ request.op = "mark" => After(request) = Marked(stored, request.id, request.mark)
        /\ request.op = "markAll" => After(request) = AllMarked(stored)
        /\ request.op = "remove" => After(request) = <<>>
        /\ request.op \notin {"create", "mark", "markAll", "remove", "verify"} => After(request) = stored
        /\ request.op = "verify" => After(request) \in {stored, AllMarked(stored)}
    BY DEF After
  <1>3. /\ Makes(row) \in Seq(Row) /\ Makes(row) # <<>>
        /\ open # "account" /\ Numbered => NumberedRows(Makes(row))
    BY <1>1, MadeRows DEF NumberedRows
  <1>4. request.id \in Nat /\ request.mark \in BOOLEAN
    BY DEF Flight
  <1>5. /\ Marked(stored, request.id, request.mark) \in Seq(Row)
        /\ Numbered => NumberedRows(Marked(stored, request.id, request.mark))
    BY <1>4, MarkedRows DEF Numbered, NumberedRows
  <1>6. /\ AllMarked(stored) \in Seq(Row)
        /\ Numbered => NumberedRows(AllMarked(stored))
    BY AllMarkedRows DEF Numbered, NumberedRows
  <1>7. <<>> \in Seq(Row) /\ NumberedRows(<<>>)
    BY DEF NumberedRows
  <1>8. Numbered => NumberedRows(stored)
    BY DEF Numbered, NumberedRows
  <1> HIDE DEF row
  <1>9. After(request) \in {Makes(row), Marked(stored, request.id, request.mark), AllMarked(stored), <<>>, stored}
    BY <1>2
  <1> QED
    BY <1>2, <1>3, <1>5, <1>6, <1>7, <1>8, <1>9 DEF row

\* What the API answers.
LEMMA ReplyRows ==
  ASSUME stored \in Seq(Row), NEW request \in Flight
  PROVE  /\ Reply(request) \in Seq(Row)
         /\ request.op = "create" => Len(Reply(request)) = 1 /\ Reply(request)[1] = After(request)[1]
         /\ request.op \in {"mark", "search", "ask"} =>
              Reply(request) = <<[id |-> request.id, mark |-> request.mark]>>
         /\ request.op \notin {"create", "mark", "search", "ask", "list", "add"} =>
              Reply(request) = After(request)
  <1>1. After(request) \in Seq(Row) /\ (request.op = "create" => After(request) # <<>>)
    BY AfterRows
  <1>2. /\ request.op = "create" => Reply(request) = <<Head(After(request))>>
        /\ request.op \in {"mark", "search", "ask"} =>
             Reply(request) = <<[id |-> request.id, mark |-> request.mark]>>
        /\ request.op \in {"list", "add"} => Reply(request) = <<>>
        /\ request.op \notin {"create", "mark", "search", "ask", "list", "add"} =>
             Reply(request) = After(request)
    BY DEF Reply
  <1>3. request.op = "create" => Head(After(request)) \in Row /\ Head(After(request)) = After(request)[1]
    BY <1>1
  <1>4. [id |-> request.id, mark |-> request.mark] \in Row
    BY DEF Row, Flight
  <1>5. \A row \in Row : <<row>> \in Seq(Row) /\ Len(<<row>>) = 1 /\ <<row>>[1] = row
    OBVIOUS
  <1>6. CASE request.op = "create"
    BY <1>2, <1>3, <1>5, <1>6
  <1>7. CASE request.op \in {"mark", "search", "ask"}
    BY <1>2, <1>4, <1>5, <1>7
  <1>8. CASE request.op \in {"list", "add"}
    <2>1. <<>> \in Seq(Row)
      OBVIOUS
    <2> QED
      BY <1>2, <1>8, <2>1
  <1>9. CASE request.op \notin {"create", "mark", "search", "ask", "list", "add"}
    BY <1>1, <1>2, <1>9
  <1> QED
    BY <1>6, <1>7, <1>8, <1>9

\* A page places a request in a slot that no other request has.
LEMMA PlaceOK ==
  ASSUME FlightsOK, NEW s \in Slots,
         NEW op \in Operation \ {"none"}, NEW id \in Nat, NEW mark \in BOOLEAN,
         Place(s, Request(op, id, mark)), UNCHANGED <<open, stored>>
  PROVE  /\ FlightsOK'
         /\ flight'[s] = Request(op, id, mark) /\ flight'[s] # Free
         /\ \A t \in Slots \ {s} : flight'[t] = flight[t]
         /\ ~lapse' => \A t \in Slots \ {s} : flight[t] = Free
         /\ op # "load" /\ ~lapse' => ~lapse
         /\ InFlight(op)' /\ ~Quiet'
         /\ \A other : InFlight(other) /\ flight[s].op # other => InFlight(other)'
  <1> DEFINE r == Request(op, id, mark)
  <1>1. /\ r \in Flight /\ r # Free /\ r.op = op /\ r.op # "none" /\ r.state = "waiting"
    BY DEF Request, Flight, Free
  <1>2. /\ flight \in [Slots -> Flight] /\ stored \in Seq(Row) /\ lapse \in BOOLEAN
        /\ ~lapse => OneInFlight
        /\ open # "account" => Numbered
        /\ \A t \in Slots : FlightOK(t)
    BY DEF FlightsOK
  <1>3. flight' = [flight EXCEPT ![s] = r] /\ lapse' = LapseAfter(s, op) /\ UNCHANGED <<open, stored>>
    BY <1>1 DEF Place
  <1> HIDE DEF r
  <1>4. /\ flight' \in [Slots -> Flight] /\ flight'[s] = r
        /\ \A t \in Slots \ {s} : flight'[t] = flight[t]
    BY <1>1, <1>2, <1>3
  <1>5. /\ lapse' \in BOOLEAN
        /\ ~lapse' => \A t \in Slots \ {s} : flight[t] = Free
        /\ op # "load" /\ ~lapse' => ~lapse
    BY <1>2, <1>3 DEF LapseAfter
  <1>6. ~lapse' => OneInFlight'
    BY <1>4, <1>5 DEF OneInFlight, Free
  <1>7. (open # "account" => Numbered)'
    BY <1>2, <1>3 DEF Numbered
  <1>8. ASSUME NEW t \in Slots PROVE FlightOK(t)'
    <2>1. CASE t = s
      BY <1>1, <1>4, <2>1 DEF FlightOK, Answered
    <2>2. CASE t # s
      BY <1>2, <1>3, <1>4, <1>5, <2>2 DEF FlightOK, Answered, Free
    <2> QED
      BY <2>1, <2>2
  <1>9. FlightsOK'
    BY <1>2, <1>3, <1>4, <1>5, <1>6, <1>7, <1>8 DEF FlightsOK
  <1>10. /\ InFlight(op)' /\ ~Quiet'
         /\ \A other : InFlight(other) /\ flight[s].op # other => InFlight(other)'
    BY <1>1, <1>4 DEF InFlight, Quiet, Free
  <1> QED
    BY <1>1, <1>4, <1>5, <1>9, <1>10 DEF r

LEMMA SendOK ==
  ASSUME FlightsOK, NEW s \in Slots,
         NEW op \in Operation \ {"none"}, NEW id \in Nat, NEW mark \in BOOLEAN,
         Send(s, Request(op, id, mark))
  PROVE  /\ FlightsOK'
         /\ flight'[s] = Request(op, id, mark) /\ flight'[s] # Free
         /\ \A t \in Slots \ {s} : flight'[t] = flight[t]
         /\ ~lapse' => Quiet
         /\ op # "load" /\ ~lapse' => ~lapse
         /\ InFlight(op)' /\ ~Quiet'
         /\ \A other \in Operation \ {"none"} : InFlight(other) => InFlight(other)'
         /\ UNCHANGED <<open, stored>>
  <1>1. flight[s] = Free /\ Place(s, Request(op, id, mark)) /\ UNCHANGED <<open, stored>>
    BY DEF Send
  <1>2. flight[s].op = "none"
    BY <1>1 DEF Free
  <1>3. /\ FlightsOK'
        /\ flight'[s] = Request(op, id, mark) /\ flight'[s] # Free
        /\ \A t \in Slots \ {s} : flight'[t] = flight[t]
        /\ ~lapse' => \A t \in Slots \ {s} : flight[t] = Free
        /\ op # "load" /\ ~lapse' => ~lapse
        /\ InFlight(op)' /\ ~Quiet'
        /\ \A other : InFlight(other) /\ flight[s].op # other => InFlight(other)'
    BY <1>1, PlaceOK
  <1>4. ~lapse' => Quiet
    BY <1>1, <1>3 DEF Quiet
  <1> QED
    BY <1>1, <1>2, <1>3, <1>4

LEMMA LoadIs == Load = Request("load", 0, FALSE) /\ "load" \in Operation \ {"none"}
  BY DEF Load, Operation
LEMMA ListIs == List = Request("list", 0, FALSE) /\ "list" \in Operation \ {"none"}
  BY DEF List, Operation

\* A page takes an answer.
LEMMA SettleOK ==
  ASSUME FlightsOK, NEW s \in Slots, flight[s] # Free, Settle(s)
  PROVE  /\ FlightsOK'
         /\ flight'[s] = Free
         /\ \A t \in Slots \ {s} : flight'[t] = flight[t]
         /\ UNCHANGED <<open, stored, lapse>>
         /\ ~lapse => Quiet'
         /\ \A other : InFlight(other) /\ flight[s].op # other => InFlight(other)'
  <1>1. /\ flight \in [Slots -> Flight] /\ stored \in Seq(Row) /\ lapse \in BOOLEAN
        /\ ~lapse => OneInFlight
        /\ open # "account" => Numbered
        /\ \A t \in Slots : FlightOK(t)
    BY DEF FlightsOK
  <1>2. flight' = [flight EXCEPT ![s] = Free] /\ UNCHANGED <<open, stored, lapse>>
    BY DEF Settle
  <1>3. Free \in Flight /\ Free.state = "none" /\ Free.op = "none"
    BY DEF Free, Flight, Operation
  <1>4. /\ flight' \in [Slots -> Flight] /\ flight'[s] = Free
        /\ \A t \in Slots \ {s} : flight'[t] = flight[t]
    BY <1>1, <1>2, <1>3
  <1>5. ~lapse => Quiet'
    BY <1>1, <1>4 DEF OneInFlight, Quiet, Free
  <1>6. ~lapse' => OneInFlight'
    BY <1>2, <1>5 DEF OneInFlight, Quiet, Free
  <1>7. (open # "account" => Numbered)'
    BY <1>1, <1>2 DEF Numbered
  <1>8. ASSUME NEW t \in Slots PROVE FlightOK(t)'
    <2>1. CASE t = s
      BY <1>3, <1>4, <2>1 DEF FlightOK, Answered, Free
    <2>2. CASE t # s
      BY <1>1, <1>2, <1>4, <2>2 DEF FlightOK, Answered, Free
    <2> QED
      BY <2>1, <2>2
  <1>9. FlightsOK'
    BY <1>1, <1>2, <1>4, <1>6, <1>7, <1>8 DEF FlightsOK
  <1>10. \A other : InFlight(other) /\ flight[s].op # other => InFlight(other)'
    BY <1>4 DEF InFlight
  <1> QED
    BY <1>2, <1>4, <1>5, <1>9, <1>10

\* A page is mounted anew.
LEMMA RemountOK ==
  ASSUME FlightsOK, NEW s \in Slots,
         NEW op \in Operation \ {"none"}, NEW blank, Remount(s, Request(op, 0, FALSE), blank)
  PROVE  FlightsOK' /\ ~Quiet' /\ InFlight(op)' /\ page' = blank /\ UNCHANGED open
  <1> DEFINE r == Request(op, 0, FALSE)
  <1>1. /\ r \in Flight /\ r # Free /\ r.op = op /\ r.op # "none" /\ r.state = "waiting"
        /\ Free \in Flight /\ Free.op = "none" /\ Free.state = "none"
    <2>1. <<>> \in Seq(Row)
      OBVIOUS
    <2> QED
      BY <2>1 DEF Request, Flight, Free, Operation
  <1>2. /\ flight' = [t \in Slots |-> IF t = s THEN r ELSE Free]
        /\ lapse' = FALSE /\ UNCHANGED <<open, stored>> /\ page' = blank
    BY DEF Remount
  <1> HIDE DEF r
  <1>3. flight' \in [Slots -> Flight] /\ flight'[s] = r /\ \A t \in Slots \ {s} : flight'[t] = Free
    BY <1>1, <1>2
  <1>4. \A t \in Slots : FlightOK(t)'
    BY <1>1, <1>3 DEF FlightOK, Answered
  <1>5. OneInFlight'
    BY <1>3 DEF OneInFlight
  <1>6. FlightsOK'
    BY <1>2, <1>3, <1>4, <1>5 DEF FlightsOK, Numbered
  <1> QED
    BY <1>1, <1>2, <1>3, <1>6 DEF Quiet, InFlight

\* The API handles a request, and answers it unless the answer is lost.
Outcome(s) ==
  \/ /\ flight'[s].state = "answered" /\ flight'[s].rows = Reply(flight[s])
     /\ stored' = After(flight[s])
     /\ flight[s].op = "create" => ~Full
  \/ /\ flight'[s].state = "failed"
     /\ ~lapse' => stored' = stored
     /\ stored' # stored => stored' = After(flight[s]) /\ (flight[s].op = "create" => ~Full)

LEMMA HandleOK ==
  ASSUME FlightsOK, NEW s \in Slots, Handle(s)
  PROVE  /\ FlightsOK'
         /\ flight[s] \in Flight /\ flight[s].state = "waiting" /\ flight[s] # Free
         /\ flight'[s] \in Flight /\ flight'[s] # Free
         /\ flight'[s].op = flight[s].op /\ flight'[s].id = flight[s].id /\ flight'[s].mark = flight[s].mark
         /\ \A t \in Slots \ {s} : flight'[t] = flight[t] /\ (~lapse' => flight[t] = Free)
         /\ UNCHANGED <<open, page>>
         /\ ~lapse' => ~lapse
         /\ Outcome(s)
         /\ ~Quiet' /\ \A other : InFlight(other)' <=> InFlight(other)
  <1>1. /\ flight \in [Slots -> Flight] /\ stored \in Seq(Row) /\ lapse \in BOOLEAN
        /\ ~lapse => OneInFlight
        /\ open # "account" => Numbered
        /\ \A t \in Slots : FlightOK(t)
    BY DEF FlightsOK
  <1>2. flight[s] \in Flight /\ flight[s].state = "waiting" /\ flight[s] # Free /\ UNCHANGED <<open, page>>
    BY <1>1 DEF Handle, Free
  <1> DEFINE r == flight[s]
  <1> DEFINE answered == [r EXCEPT !.state = "answered", !.rows = Reply(r)]
  <1> DEFINE failed == [r EXCEPT !.state = "failed"]
  <1>3. Reply(r) \in Seq(Row) /\ After(r) \in Seq(Row)
    BY <1>1, <1>2, AfterRows, ReplyRows
  <1>4. /\ answered \in Flight /\ answered.op = r.op /\ answered.id = r.id /\ answered.mark = r.mark
        /\ answered.state = "answered" /\ answered.rows = Reply(r)
        /\ failed \in Flight /\ failed.op = r.op /\ failed.id = r.id /\ failed.mark = r.mark
        /\ failed.state = "failed"
    BY <1>2, <1>3 DEF Flight
  <1>5. /\ \/ flight' = [flight EXCEPT ![s] = answered] /\ stored' = After(r) /\ lapse' = lapse
              /\ (r.op = "create" => ~Full)
           \/ flight' = [flight EXCEPT ![s] = failed] /\ stored' = After(r) /\ lapse' = (lapse \/ stored' # stored)
              /\ (r.op = "create" => ~Full)
           \/ flight' = [flight EXCEPT ![s] = failed] /\ stored' = stored /\ lapse' = lapse
    BY <1>1, <1>2 DEF Handle
  <1> HIDE DEF answered, failed
  <1>6. /\ \A t \in Slots \ {s} : flight'[t] = flight[t]
        /\ flight'[s] \in {answered, failed}
        /\ flight' \in [Slots -> Flight]
        /\ lapse' \in BOOLEAN /\ (~lapse' => ~lapse)
    BY <1>1, <1>4, <1>5
  <1>7. stored' \in Seq(Row)
    BY <1>1, <1>3, <1>5
  <1>8. r.op = "remove" => After(r) = <<>>
    BY <1>1, <1>2, AfterRows
  <1>9. Outcome(s)
    <2>1. CASE flight' = [flight EXCEPT ![s] = answered] /\ stored' = After(r) /\ lapse' = lapse
               /\ (r.op = "create" => ~Full)
      BY <1>1, <1>4, <2>1 DEF Outcome
    <2>2. CASE flight' = [flight EXCEPT ![s] = failed] /\ stored' = After(r) /\ lapse' = (lapse \/ stored' # stored)
               /\ (r.op = "create" => ~Full)
      BY <1>1, <1>4, <1>8, <2>2 DEF Outcome
    <2>3. CASE flight' = [flight EXCEPT ![s] = failed] /\ stored' = stored /\ lapse' = lapse
      BY <1>1, <1>4, <2>3 DEF Outcome
    <2> QED
      BY <1>5, <2>1, <2>2, <2>3

  <1>10. ~lapse' => OneInFlight'
    <2>1. \A t \in Slots \ {s} : ~lapse' => flight[t] = Free
      BY <1>1, <1>2, <1>6 DEF OneInFlight
    <2> QED
      BY <1>6, <2>1 DEF OneInFlight, Free
  <1>11. (open # "account" => Numbered)'
    BY <1>1, <1>2, <1>5, AfterRows DEF Numbered, NumberedRows
  <1>12. ASSUME NEW t \in Slots PROVE FlightOK(t)'
    <2>1. CASE t = s
      <3>1. flight'[t].op # "none"
        BY <1>1, <1>2, <1>4, <1>6, <2>1 DEF FlightOK
      <3>2. CASE flight'[t].state = "answered"
        <4>1. /\ flight'[t].rows = Reply(r) /\ stored' = After(r) /\ flight'[t].op = r.op
              /\ flight'[t].id = r.id /\ flight'[t].mark = r.mark
          BY <1>4, <1>6, <1>9, <2>1, <3>2 DEF Outcome
        <4> QED
          BY <1>1, <1>2, <2>1, <3>1, <4>1, ReplyRows, AfterRows DEF FlightOK, Answered
      <3>3. CASE flight'[t].state # "answered"
        BY <3>1, <3>3 DEF FlightOK, Answered
      <3> QED
        BY <3>2, <3>3
    <2>2. CASE t # s
      <3>1. flight'[t] = flight[t] /\ FlightOK(t) /\ (~lapse' => flight[t] = Free)
        BY <1>1, <1>2, <1>6, <2>2 DEF OneInFlight
      <3> QED
        BY <1>6, <3>1 DEF FlightOK, Answered, Free
    <2> QED
      BY <2>1, <2>2
  <1>13. FlightsOK'
    BY <1>6, <1>7, <1>10, <1>11, <1>12 DEF FlightsOK
  <1>14. flight'[s] \in Flight /\ flight'[s] # Free
    BY <1>4, <1>6 DEF Free
  <1>15. \A t \in Slots \ {s} : ~lapse' => flight[t] = Free
    BY <1>1, <1>2, <1>6 DEF OneInFlight
  <1>16. ~Quiet' /\ \A other : InFlight(other)' <=> InFlight(other)
    BY <1>4, <1>6, <1>14 DEF Quiet, InFlight
  <1> QED
    BY <1>2, <1>4, <1>6, <1>9, <1>13, <1>14, <1>15, <1>16

\* Others write.
LEMMA ElsewhereOK ==
  ASSUME FlightsOK, Elsewhere
  PROVE  /\ FlightsOK' /\ lapse'
         /\ UNCHANGED <<open, page, flight>>
         /\ open = "editor" /\ Len(stored) <= 1 => Len(stored') <= 1
         /\ open = "editor" /\ stored # <<>> => stored' # <<>>
  <1>1. /\ flight \in [Slots -> Flight] /\ stored \in Seq(Row)
        /\ open # "account" => Numbered
        /\ \A t \in Slots : FlightOK(t)
    BY DEF FlightsOK
  <1>2. lapse' = TRUE /\ UNCHANGED <<open, page, flight>>
    BY DEF Elsewhere
  <1>3. /\ stored' \in Seq(Row)
        /\ open # "account" => NumberedRows(stored')
        /\ open = "editor" /\ Len(stored) <= 1 => Len(stored') <= 1
        /\ open = "editor" /\ stored # <<>> => stored' # <<>>
    <2>1. CASE ~Full /\ stored' = Makes([id |-> Len(stored) + 1, mark |-> FALSE])
      <3> DEFINE row == [id |-> Len(stored) + 1, mark |-> FALSE]
      <3>1. row \in Row /\ row.id = Len(stored) + 1
        BY <1>1 DEF Row
      <3>2. open = "editor" => stored = <<>>
        BY <2>1 DEF Full
      <3> HIDE DEF row
      <3>3. <<row>> # <<>> /\ Len(<<row>>) = 1 /\ <<row>> \o <<>> = <<row>>
        BY <3>1
      <3>4. open = "editor" => Makes(row) = <<row>>
        BY <3>2, <3>3 DEF Makes
      <3>5. stored' = Makes(row)
        BY <2>1 DEF row
      <3>6. Makes(row) \in Seq(Row) /\ (open # "account" => NumberedRows(Makes(row)))
        BY <1>1, <3>1, MadeRows DEF NumberedRows
      <3>7. open = "editor" => stored' = <<row>> /\ stored = <<>>
        BY <3>2, <3>4, <3>5
      <3>8. open = "editor" => Len(stored') <= 1 /\ stored' # <<>>
        BY <3>3, <3>7
      <3> QED
        BY <3>5, <3>6, <3>8
    <2>2. ASSUME NEW i \in DOMAIN stored, stored' = [stored EXCEPT ![i].mark = ~@]
          PROVE  <1>3!:
      <3>1. stored[i] \in Row
        BY <1>1
      <3> DEFINE changed == [stored[i] EXCEPT !.mark = ~@]
      <3>2. changed \in Row /\ changed.id = stored[i].id
        BY <3>1 DEF Row
      <3>3. stored' = [stored EXCEPT ![i] = changed]
        BY <2>2
      <3> HIDE DEF changed
      <3>4. /\ stored' \in Seq(Row) /\ Len(stored') = Len(stored) /\ DOMAIN stored' = DOMAIN stored
            /\ \A j \in DOMAIN stored : stored'[j].id = stored[j].id
        BY <1>1, <3>2, <3>3
      <3>5. stored # <<>> /\ stored' # <<>>
        BY <1>1, <3>4
      <3> QED
        BY <1>1, <3>4, <3>5 DEF Numbered, NumberedRows
    <2>3. CASE open = "account" /\ stored' = <<>>
      BY <2>3
    <2> QED
      BY <2>1, <2>2, <2>3 DEF Elsewhere
  <1>4. \A t \in Slots : FlightOK(t)'
    BY <1>1, <1>2 DEF FlightOK, Answered, Free
  <1>5. FlightsOK'
    BY <1>1, <1>2, <1>3, <1>4 DEF FlightsOK, Numbered, NumberedRows
  <1> QED
    BY <1>2, <1>3, <1>5

\* What answered a page.
LEMMA AnswerOK ==
  ASSUME FlightsOK, NEW s \in Slots
  PROVE  /\ flight[s] \in Flight /\ flight[s].rows \in Seq(Row)
         /\ \A op : op # "none" /\ (Answered(s, op) \/ Failed(s, op)) => flight[s] # Free /\ flight[s].op = op
         /\ Answered(s, "create") => flight[s].rows # <<>> /\ flight[s].rows[1] \in Row /\ Len(flight[s].rows) = 1
         /\ \A op \in {"mark", "search", "ask"} : Answered(s, op) =>
              flight[s].rows[1].id = flight[s].id /\ flight[s].id \in Nat
         /\ Answered(s, "load") /\ ~lapse => flight[s].rows = stored
  <1>1. flight[s] \in Flight /\ FlightOK(s)
    BY DEF FlightsOK
  <1>2. flight[s].rows \in Seq(Row)
    BY <1>1 DEF Flight
  <1>3. Answered(s, "create") => Len(flight[s].rows) = 1
    BY <1>1 DEF FlightOK
  <1>4. Answered(s, "create") => flight[s].rows # <<>> /\ flight[s].rows[1] \in Row
    <2>1. \A rows \in Seq(Row) : Len(rows) = 1 => rows # <<>> /\ rows[1] \in Row
      OBVIOUS
    <2> QED
      BY <1>2, <1>3, <2>1
  <1>5. \A op : op # "none" /\ (Answered(s, op) \/ Failed(s, op)) => flight[s] # Free /\ flight[s].op = op
    BY DEF Answered, Failed, Free
  <1>6. \A op \in {"mark", "search", "ask"} : Answered(s, op) =>
          flight[s].rows[1].id = flight[s].id /\ flight[s].id \in Nat
    BY <1>1 DEF FlightOK, Flight, Answered
  <1>7. Answered(s, "load") /\ ~lapse => flight[s].rows = stored
    BY <1>1 DEF FlightOK
  <1> QED
    BY <1>1, <1>2, <1>3, <1>4, <1>5, <1>6, <1>7

-----------------------------------------------------------------------------
(* Portfolio *)

LEMMA PortfolioStep ==
  ASSUME FlightsOK, PortfolioInv, NEW s \in Slots, PortfolioNext(s)
  PROVE  FlightsOK' /\ PortfolioInv' /\ UNCHANGED open
  <1> DEFINE Page == [section : Section, blanks : Nat, loading : BOOLEAN, error : BOOLEAN, broken : BOOLEAN]
  <1>1. page \in Page /\ PortfolioBusy /\ PortfolioAgrees
    BY DEF PortfolioInv
  <1>2. ASSUME NEW section, Submit(s, section)
        PROVE  FlightsOK' /\ PortfolioInv' /\ UNCHANGED open
    <2>1. FlightsOK' /\ ~Quiet' /\ UNCHANGED open
      BY <1>2, SendOK DEF Submit, Operation
    <2>2. page' \in Page /\ ~page'.loading
      BY <1>1, <1>2 DEF Submit, FormsShown, Keep
    <2> QED
      BY <2>1, <2>2 DEF PortfolioInv, PortfolioBusy, PortfolioAgrees
  <1>3. CASE PortfolioCreated(s)
    <2>1. Place(s, List) /\ UNCHANGED <<open, stored>>
      BY <1>3 DEF PortfolioCreated, SendNext
    <2>2. FlightsOK' /\ ~Quiet' /\ InFlight("list")' /\ UNCHANGED open
      BY <2>1, PlaceOK, ListIs
    <2>3. page' \in Page /\ (page'.loading => ~page'.broken)
      <3>1. CASE page.broken
        BY <1>1, <1>3, <3>1 DEF PortfolioCreated, Keep, PortfolioBusy
      <3>2. CASE ~page.broken
        <4>1. page' = [page EXCEPT !.blanks = page.blanks + 1, !.loading = TRUE, !.error = FALSE]
          BY <1>3, <3>2 DEF PortfolioCreated, Keep
        <4>2. page.blanks + 1 \in Nat
          BY <1>1
        <4> QED
          BY <1>1, <3>2, <4>1, <4>2
      <3> QED
        BY <3>1, <3>2
    <2> QED
      BY <2>2, <2>3 DEF PortfolioInv, PortfolioBusy, PortfolioAgrees
  <1>4. CASE PortfolioRefused(s)
    <2>1. flight[s] # Free /\ flight[s].op = "add" /\ Settle(s)
      BY <1>4, AnswerOK DEF PortfolioRefused
    <2>2. FlightsOK' /\ UNCHANGED open /\ (InFlight("list") => InFlight("list")')
      BY <2>1, SettleOK
    <2>3. /\ page' \in Page /\ page'.loading = page.loading /\ (page'.error \/ page'.broken)
          /\ page'.broken = page.broken
      BY <1>1, <1>4 DEF PortfolioRefused, Keep
    <2> QED
      BY <1>1, <2>2, <2>3 DEF PortfolioInv, PortfolioBusy, PortfolioAgrees
  <1>5. CASE PortfolioLoaded(s)
    <2>1. flight[s] # Free /\ Settle(s)
      BY <1>5, AnswerOK DEF PortfolioLoaded
    <2>2. FlightsOK' /\ UNCHANGED open
      BY <2>1, SettleOK
    <2>3. page' \in Page /\ ~page'.loading /\ (page'.error \/ page'.broken)
      <3>1. CASE page.broken
        BY <1>1, <1>5, <3>1 DEF PortfolioLoaded, Keep, PortfolioBusy
      <3>2. CASE ~page.broken
        BY <1>1, <1>5, <3>2 DEF PortfolioLoaded, Keep
      <3> QED
        BY <3>1, <3>2
    <2> QED
      BY <2>2, <2>3 DEF PortfolioInv, PortfolioBusy, PortfolioAgrees
  <1>6. CASE RemountPortfolio(s)
    <2>1. Remount(s, Request("list", 0, FALSE), PortfolioPage(page.section))
      BY <1>6, ListIs DEF RemountPortfolio
    <2>2. /\ FlightsOK' /\ ~Quiet' /\ InFlight("list")' /\ UNCHANGED open
          /\ page' = PortfolioPage(page.section)
      BY <2>1, ListIs, RemountOK
    <2>3. page' \in Page
      BY <1>1, <2>2 DEF PortfolioPage
    <2> QED
      BY <2>2, <2>3 DEF PortfolioInv, PortfolioBusy, PortfolioAgrees, PortfolioPage
  <1> QED
    BY <1>2, <1>3, <1>4, <1>5, <1>6
    DEF PortfolioNext, SubmitGoal, SubmitSlot, SubmitCertification, SubmitProject

LEMMA PortfolioHandle ==
  ASSUME FlightsOK, PortfolioInv, NEW s \in Slots, Handle(s)
  PROVE  PortfolioInv'
  <1>1. page' = page /\ ~Quiet' /\ \A op : InFlight(op)' <=> InFlight(op)
    BY HandleOK
  <1> QED
    BY <1>1 DEF PortfolioInv, PortfolioBusy, PortfolioAgrees

LEMMA PortfolioElsewhere ==
  ASSUME FlightsOK, PortfolioInv, Elsewhere
  PROVE  PortfolioInv'
  <1>1. page' = page /\ flight' = flight /\ lapse'
    BY ElsewhereOK
  <1> QED
    BY <1>1 DEF PortfolioInv, PortfolioBusy, PortfolioAgrees, InFlight, Quiet

-----------------------------------------------------------------------------
(* Readers *)

ReadersType ==
  [rows : Seq(Row), loading : BOOLEAN, error : BOOLEAN, missing : BOOLEAN, silent : BOOLEAN,
   broken : BOOLEAN]

LEMMA ReaderTakes ==
  ASSUME FlightsOK, NEW s \in Slots, flight[s] # Free, Settle(s),
         page' \in ReadersType, ~page'.loading,
         \/ /\ Answered(s, "load") /\ page'.rows = flight[s].rows
            /\ open \in {"profile", "public"} => (page'.missing <=> page'.rows = <<>>)
         \/ page'.error \/ page'.silent
  PROVE  FlightsOK' /\ ReadersInv' /\ UNCHANGED open
  <1>1. FlightsOK' /\ UNCHANGED <<open, stored, lapse>>
    BY SettleOK
  <1>2. ReadersBusy'
    BY DEF ReadersBusy
  <1>3. ReadersAgree'
    <2> SUFFICES ASSUME ~lapse', ~page'.error, ~page'.silent, ~page'.broken
                 PROVE  /\ page'.rows = stored'
                        /\ Earned(page.rows)' = Earned(stored)' /\ StillAvailable(page.rows)' = StillAvailable(stored)'
                        /\ open' \in {"profile", "public"} => (SaysNoProfile' <=> stored' = <<>>)
                        /\ open' = "dashboard" => (ListSaysEmpty' <=> stored' = <<>>)
                        /\ ~SaysUnknown'
      BY DEF ReadersAgree
    <2>1. flight[s].rows = stored /\ page'.rows = flight[s].rows
      BY <1>1, AnswerOK
    <2>2. page'.rows = stored'
      BY <1>1, <2>1
    <2>3. Earned(page.rows)' = Earned(stored)' /\ StillAvailable(page.rows)' = StillAvailable(stored)'
      BY <2>2 DEF Earned, StillAvailable
    <2>4. open' \in {"profile", "public"} => (SaysNoProfile' <=> stored' = <<>>)
      BY <1>1, <2>2 DEF SaysNoProfile
    <2>5. open' = "dashboard" => (ListSaysEmpty' <=> stored' = <<>>)
      BY <2>2 DEF ListSaysEmpty
    <2> QED
      BY <2>2, <2>3, <2>4, <2>5 DEF SaysUnknown
  <1> QED
    BY <1>1, <1>2, <1>3 DEF ReadersInv, ReadersType

LEMMA ReadersStep ==
  ASSUME FlightsOK, ReadersInv, NEW s \in Slots, ReadersNext(s)
  PROVE  FlightsOK' /\ ReadersInv' /\ UNCHANGED open
  <1>1. page \in ReadersType /\ flight[s].rows \in Seq(Row)
    BY AnswerOK DEF ReadersInv, ReadersType
  <1>2. CASE RetryReader(s)
    <2>1. FlightsOK' /\ ~Quiet' /\ InFlight("load")' /\ UNCHANGED open
      BY <1>2, SendOK, LoadIs DEF RetryReader
    <2>2. page' \in ReadersType
      BY <1>1, <1>2 DEF RetryReader, ReadersType
    <2> QED
      BY <2>1, <2>2 DEF ReadersInv, ReadersType, ReadersBusy, ReadersAgree
  <1>3. ASSUME Answered(s, "load") \/ Failed(s, "load") PROVE flight[s] # Free
    BY <1>3, AnswerOK
  <1>4. ASSUME Loaded(flight[s].rows)
        PROVE  page' \in ReadersType /\ ~page'.loading /\ page'.rows = flight[s].rows
    BY <1>1, <1>4 DEF Loaded, ReadersType
  <1>5. ASSUME NotLoaded PROVE page' \in ReadersType /\ ~page'.loading /\ page'.error
    BY <1>1, <1>5 DEF NotLoaded, ReadersType
  <1>6. CASE BadgesLoaded(s)
    BY <1>3, <1>4, <1>5, <1>6, ReaderTakes DEF BadgesLoaded
  <1>7. CASE OverviewLoaded(s)
    BY <1>3, <1>4, <1>5, <1>7, ReaderTakes DEF OverviewLoaded
  <1>8. CASE OwnProfileLoaded(s) \/ PublicProfileLoaded(s)
    <2>1. ProfileAnswered(s) /\ Settle(s)
      BY <1>8 DEF OwnProfileLoaded, PublicProfileLoaded
    <2>2. CASE /\ Answered(s, "load")
               /\ page' = [page EXCEPT !.rows = flight[s].rows, !.missing = flight[s].rows = <<>>, !.loading = FALSE]
      <3>1. /\ page' \in ReadersType /\ ~page'.loading /\ page'.rows = flight[s].rows
            /\ page'.missing <=> page'.rows = <<>>
        BY <1>1, <2>2 DEF ReadersType
      <3> QED
        BY <1>3, <2>1, <2>2, <3>1, ReaderTakes
    <2>3. CASE Failed(s, "load") /\ NotLoaded
      BY <1>3, <1>5, <2>1, <2>3, ReaderTakes
    <2> QED
      BY <2>1, <2>2, <2>3 DEF ProfileAnswered
  <1>9. CASE DashboardLoaded(s)
    <2>1. PICK error, broken \in BOOLEAN :
            \/ /\ Answered(s, "load")
               /\ page' = [page EXCEPT !.rows = flight[s].rows, !.error = error, !.broken = broken,
                                       !.loading = FALSE, !.silent = FALSE]
            \/ /\ Failed(s, "load")
               /\ page' = [page EXCEPT !.loading = FALSE, !.silent = TRUE, !.error = error, !.broken = broken]
      BY <1>9 DEF DashboardLoaded
    <2>2. /\ page' \in ReadersType /\ ~page'.loading
          /\ (Answered(s, "load") /\ page'.rows = flight[s].rows) \/ page'.silent
      BY <1>1, <2>1 DEF ReadersType
    <2>3. Settle(s) /\ open = "dashboard"
      BY <1>9 DEF DashboardLoaded
    <2> QED
      BY <1>3, <2>1, <2>2, <2>3, ReaderTakes
  <1>10. CASE StatusLoaded(s)
    <2>1. ASSUME page' = [page EXCEPT !.loading = FALSE, !.silent = TRUE]
          PROVE  page' \in ReadersType /\ ~page'.loading /\ page'.silent
      BY <1>1, <2>1 DEF ReadersType
    <2> QED
      BY <1>3, <1>4, <1>5, <1>10, <2>1, ReaderTakes DEF StatusLoaded
  <1>11. CASE RemountDashboard(s)
    <2>1. Remount(s, Request("load", 0, FALSE), ReaderBlank)
      BY <1>11, LoadIs DEF RemountDashboard
    <2>2. FlightsOK' /\ ~Quiet' /\ InFlight("load")' /\ UNCHANGED open /\ page' = ReaderBlank
      BY <2>1, LoadIs, RemountOK
    <2>3. <<>> \in Seq(Row)
      OBVIOUS
    <2>4. ReaderBlank \in ReadersType
      BY <2>3 DEF ReaderBlank, ReadersType
    <2> QED
      BY <2>2, <2>4 DEF ReadersInv, ReadersType, ReadersBusy, ReadersAgree
  <1> QED
    BY <1>2, <1>6, <1>7, <1>8, <1>9, <1>10, <1>11 DEF ReadersNext

LEMMA ReadersHandle ==
  ASSUME FlightsOK, ReadersInv, NEW s \in Slots, Handle(s)
  PROVE  ReadersInv'
  <1>1. page' = page /\ ~Quiet' /\ \A op : InFlight(op)' <=> InFlight(op)
    BY HandleOK
  <1> QED
    BY <1>1 DEF ReadersInv, ReadersBusy, ReadersAgree

LEMMA ReadersElsewhere ==
  ASSUME FlightsOK, ReadersInv, Elsewhere
  PROVE  ReadersInv'
  <1>1. page' = page /\ flight' = flight /\ lapse'
    BY ElsewhereOK
  <1> QED
    BY <1>1 DEF ReadersInv, ReadersBusy, ReadersAgree, InFlight

-----------------------------------------------------------------------------
(* PaymentsPage *)

LEMMA PaymentsPageStep ==
  ASSUME FlightsOK, PaymentsPageInv, NEW s \in Slots, PaymentsPageNext(s)
  PROVE  FlightsOK' /\ PaymentsPageInv' /\ UNCHANGED open
  <1> DEFINE Page == [rows : Seq(Row), loading : BOOLEAN, error : BOOLEAN]
  <1> DEFINE Shown(t) == flight[t].op = "mark" /\ flight[t].state # "answered" /\ ~lapse => page.rows = stored
  <1>1. /\ page \in Page /\ PaymentsPageBusy /\ PaymentsPageAgrees
        /\ \A t \in Slots : Shown(t)
    BY DEF PaymentsPageInv
  <1>2. ASSUME NEW t \in Slots, flight'[t] = Free PROVE Shown(t)'
    BY <1>2 DEF Free
  <1>3. ASSUME Place(s, Load), UNCHANGED <<open, stored>>,
               page' = [page EXCEPT !.loading = TRUE, !.error = FALSE]
        PROVE  FlightsOK' /\ PaymentsPageInv' /\ UNCHANGED open
    <2>1. /\ FlightsOK' /\ ~Quiet' /\ InFlight("load")'
          /\ flight'[s] = Load
          /\ \A t \in Slots \ {s} : flight'[t] = flight[t] /\ (~lapse' => flight[t] = Free)
      BY <1>3, PlaceOK, LoadIs
    <2>2. page' \in Page
      BY <1>1, <1>3
    <2>3. \A t \in Slots : Shown(t)'
      BY <1>2, <2>1 DEF Load, Request, Free
    <2> QED
      BY <1>3, <2>1, <2>2, <2>3 DEF PaymentsPageInv, PaymentsPageBusy, PaymentsPageAgrees
  <1>4. CASE PaymentsRetry(s)
    BY <1>3, <1>4 DEF PaymentsRetry, Send
  <1>5. CASE PaymentsLoaded(s)
    <2>1. flight[s] # Free /\ Settle(s)
      BY <1>5, AnswerOK DEF PaymentsLoaded
    <2>2. /\ FlightsOK' /\ UNCHANGED <<open, stored, lapse>>
          /\ ~lapse => Quiet'
          /\ flight'[s] = Free /\ \A t \in Slots \ {s} : flight'[t] = flight[t]
      BY <2>1, SettleOK
    <2>3. \A t \in Slots : Shown(t)'
      BY <1>2, <2>2 DEF Quiet
    <2>4. /\ page' \in Page /\ ~page'.loading
          /\ page'.error \/ (Answered(s, "load") /\ page'.rows = flight[s].rows)
      <3>1. flight[s].rows \in Seq(Row)
        BY AnswerOK
      <3>2. CASE Answered(s, "load") /\ page' = [page EXCEPT !.rows = flight[s].rows, !.loading = FALSE]
        BY <1>1, <3>1, <3>2
      <3>3. CASE page' = [page EXCEPT !.error = TRUE, !.loading = FALSE]
        BY <1>1, <3>3
      <3> QED
        BY <1>5, <3>2, <3>3 DEF PaymentsLoaded
    <2>5. ~lapse' /\ ~page'.error => page'.rows = stored'
      BY <2>2, <2>4, AnswerOK
    <2> QED
      BY <2>2, <2>3, <2>4, <2>5 DEF PaymentsPageInv, PaymentsPageBusy, PaymentsPageAgrees
  <1>6. ASSUME NEW i \in 1..MaxRows, RequestRefund(s, i)
        PROVE  FlightsOK' /\ PaymentsPageInv' /\ UNCHANGED open
    <2>1. page.rows[i] \in Row /\ ~page.loading /\ ~page.error
      BY <1>1, <1>6 DEF RequestRefund, MayRefund
    <2>2. page.rows[i].id \in Nat
      BY <2>1 DEF Row
    <2>3. /\ FlightsOK' /\ ~Quiet' /\ UNCHANGED <<open, stored>>
          /\ ~lapse' => Quiet /\ ~lapse
      BY <1>6, <2>2, SendOK DEF RequestRefund, Operation
    <2>4. page' = page
      BY <1>6 DEF RequestRefund
    <2>5. ~lapse' => page'.rows = stored'
      BY <1>1, <2>1, <2>3, <2>4 DEF PaymentsPageAgrees
    <2> QED
      BY <1>1, <2>1, <2>3, <2>4, <2>5 DEF PaymentsPageInv, PaymentsPageBusy, PaymentsPageAgrees
  <1>7. CASE RefundRequested(s)
    <2>1. CASE Answered(s, "mark") /\ Refresh(s)
      BY <1>3, <2>1 DEF Refresh, SendNext
    <2>2. CASE Failed(s, "mark") /\ Settle(s) /\ UNCHANGED page
      <3>1. flight[s] # Free /\ flight[s].op = "mark"
        BY <2>2, AnswerOK
      <3>2. /\ FlightsOK' /\ UNCHANGED <<open, stored, lapse>>
            /\ flight'[s] = Free /\ \A t \in Slots \ {s} : flight'[t] = flight[t]
            /\ InFlight("load") => InFlight("load")'
        BY <2>2, <3>1, SettleOK
      <3>3. \A t \in Slots : Shown(t)'
        BY <1>1, <1>2, <2>2, <3>2
      <3>4. ~lapse => page.rows = stored
        BY <1>1, <2>2 DEF Failed
      <3> QED
        BY <1>1, <2>2, <3>2, <3>3, <3>4 DEF PaymentsPageInv, PaymentsPageBusy, PaymentsPageAgrees
    <2> QED
      BY <1>7, <2>1, <2>2 DEF RefundRequested
  <1> QED
    BY <1>4, <1>5, <1>6, <1>7 DEF PaymentsPageNext

LEMMA PaymentsPageHandle ==
  ASSUME FlightsOK, PaymentsPageInv, NEW s \in Slots, Handle(s)
  PROVE  PaymentsPageInv'
  <1>1. /\ page' = page /\ ~Quiet' /\ \A op : InFlight(op)' <=> InFlight(op)
        /\ flight'[s].op = flight[s].op /\ flight[s].state = "waiting" /\ (~lapse' => ~lapse)
        /\ \A t \in Slots \ {s} : flight'[t] = flight[t] /\ (~lapse' => flight[t] = Free)
        /\ Outcome(s)
    BY HandleOK
  <1>2. ASSUME NEW t \in Slots, flight'[t].op = "mark", flight'[t].state # "answered", ~lapse'
        PROVE  page'.rows = stored'
    <2>1. t = s
      BY <1>1, <1>2 DEF Free
    <2>2. stored' = stored
      BY <1>1, <1>2, <2>1 DEF Outcome
    <2> QED
      BY <1>1, <1>2, <2>1, <2>2 DEF PaymentsPageInv
  <1> QED
    BY <1>1, <1>2 DEF PaymentsPageInv, PaymentsPageBusy, PaymentsPageAgrees

LEMMA PaymentsPageElsewhere ==
  ASSUME FlightsOK, PaymentsPageInv, Elsewhere
  PROVE  PaymentsPageInv'
  <1>1. page' = page /\ flight' = flight /\ lapse'
    BY ElsewhereOK
  <1> QED
    BY <1>1 DEF PaymentsPageInv, PaymentsPageBusy, PaymentsPageAgrees, InFlight

-----------------------------------------------------------------------------
(* ReportsPage *)

\* The page sends a request.
LEMMA ReportsSends ==
  ASSUME FlightsOK, ReportsPageInv, NEW s \in Slots,
         NEW op \in {"load", "create", "mark"}, NEW id \in Nat, NEW mark \in BOOLEAN,
         Send(s, Request(op, id, mark)),
         page' \in ReportsType, page'.rows = page.rows,
         op # "load" => page'.error = page.error,
         page'.loading => page.loading \/ op = "load",
         page'.submitting => page.submitting \/ op = "create",
         page'.updating # 0 => page.updating # 0 \/ op = "mark"
  PROVE  FlightsOK' /\ ReportsPageInv' /\ UNCHANGED open
  <1>1. op \in Operation \ {"none"}
    BY DEF Operation
  <1>2. /\ FlightsOK' /\ ~Quiet' /\ InFlight(op)' /\ UNCHANGED <<open, stored>>
        /\ flight'[s] = Request(op, id, mark)
        /\ \A t \in Slots \ {s} : flight'[t] = flight[t]
        /\ ~lapse' => Quiet
        /\ op # "load" /\ ~lapse' => ~lapse
        /\ \A other \in Operation \ {"none"} : InFlight(other) => InFlight(other)'
    BY ONLY FlightsOK, s \in Slots, id \in Nat, mark \in BOOLEAN, Send(s, Request(op, id, mark)), <1>1, SendOK
  <1>3. ReportsPageBusy'
    BY <1>2 DEF ReportsPageInv, ReportsPageBusy, Operation
  <1>4. ASSUME NEW t \in Slots PROVE ReportsFlight(t)'
    <2>1. CASE t = s
      <3>1. flight'[t].op = op /\ flight'[t].state = "waiting"
        BY <1>2, <2>1 DEF Request
      <3>2. ~lapse' /\ ~page'.error /\ op # "load" => page'.rows = stored'
        BY <1>2 DEF ReportsPageInv, ReportsPageAgrees
      <3> QED
        BY <3>1, <3>2 DEF ReportsFlight, Answered
    <2>2. CASE t # s
      BY <1>2, <2>2 DEF ReportsFlight, Quiet, Free, Answered
    <2> QED
      BY <2>1, <2>2
  <1> QED
    BY <1>2, <1>3, <1>4 DEF ReportsPageInv, ReportsPageAgrees

\* The page takes an answer.
LEMMA ReportsTakes ==
  ASSUME FlightsOK, ReportsPageInv, NEW s \in Slots,
         NEW op \in {"load", "create", "mark"}, flight[s].op = op, Settle(s),
         page' \in ReportsType,
         ~lapse /\ ~page'.error => page'.rows = stored,
         page'.loading => page.loading /\ op # "load",
         page'.submitting => page.submitting /\ op # "create",
         page'.updating # 0 => page.updating # 0 /\ op # "mark"
  PROVE  FlightsOK' /\ ReportsPageInv' /\ UNCHANGED open
  <1>1. flight[s] # Free
    BY DEF Free
  <1>2. /\ FlightsOK' /\ UNCHANGED <<open, stored, lapse>>
        /\ ~lapse => Quiet'
        /\ \A other : InFlight(other) /\ flight[s].op # other => InFlight(other)'
    BY <1>1, SettleOK
  <1>3. ReportsPageBusy'
    BY <1>2 DEF ReportsPageInv, ReportsPageBusy
  <1>4. \A t \in Slots : ReportsFlight(t)'
    BY <1>2 DEF ReportsFlight, Quiet, Free, Answered
  <1>5. ReportsPageAgrees'
    BY <1>2 DEF ReportsPageAgrees
  <1> QED
    BY <1>2, <1>3, <1>4, <1>5 DEF ReportsPageInv

LEMMA ReportsPageStep ==
  ASSUME FlightsOK, ReportsPageInv, NEW s \in Slots, ReportsPageNext(s)
  PROVE  FlightsOK' /\ ReportsPageInv' /\ UNCHANGED open
  <1>1. /\ page \in ReportsType
        /\ \A t \in Slots : ReportsFlight(t)
        /\ flight[s].rows \in Seq(Row)
        /\ flight[s].mark \in BOOLEAN
    BY AnswerOK DEF ReportsPageInv, Flight
  <1>2. CASE ReportsRetry(s)
    <2>1. page' \in ReportsType /\ page'.rows = page.rows /\ page'.submitting = page.submitting
          /\ page'.updating = page.updating
      BY <1>1, <1>2 DEF ReportsRetry, ReportsType
    <2> QED
      BY <1>2, <2>1, ReportsSends DEF ReportsRetry, Load
  <1>3. CASE ReportsLoaded(s)
    <2>1. CASE Answered(s, "load") /\ page' = [page EXCEPT !.rows = flight[s].rows, !.loading = FALSE]
      <3>1. page' \in ReportsType /\ page'.rows = flight[s].rows /\ ~page'.loading
            /\ page'.submitting = page.submitting /\ page'.updating = page.updating
        BY <1>1, <2>1 DEF ReportsType
      <3>2. ~lapse => page'.rows = stored
        BY <2>1, <3>1, AnswerOK
      <3> QED
        BY <1>3, <2>1, <3>1, <3>2, ReportsTakes DEF ReportsLoaded, Answered
    <2>2. CASE Failed(s, "load") /\ page' = [page EXCEPT !.error = TRUE, !.loading = FALSE]
      <3>1. page' \in ReportsType /\ page'.error /\ ~page'.loading
            /\ page'.submitting = page.submitting /\ page'.updating = page.updating
        BY <1>1, <2>2 DEF ReportsType
      <3> QED
        BY <1>3, <2>2, <3>1, ReportsTakes DEF ReportsLoaded, Failed
    <2> QED
      BY <1>3, <2>1, <2>2 DEF ReportsLoaded
  <1>4. CASE SubmitReport(s)
    <2>1. page' \in ReportsType /\ page'.rows = page.rows /\ page'.error = page.error
          /\ page'.loading = page.loading /\ page'.updating = page.updating
      BY <1>1, <1>4 DEF SubmitReport, ReportsType
    <2> QED
      BY <1>4, <2>1, ReportsSends DEF SubmitReport
  <1>5. CASE ReportSubmitted(s)
    <2>1. CASE /\ Answered(s, "create")
               /\ page' = [page EXCEPT !.rows = <<flight[s].rows[1]>> \o page.rows, !.submitting = FALSE]
      <3>1. flight[s].rows[1] \in Row
        BY <2>1, AnswerOK
      <3>2. <<flight[s].rows[1]>> \o page.rows \in Seq(Row)
        BY <1>1, <3>1 DEF ReportsType
      <3>3. page' \in ReportsType /\ page'.rows = <<flight[s].rows[1]>> \o page.rows
            /\ page'.error = page.error /\ ~page'.submitting
            /\ page'.loading = page.loading /\ page'.updating = page.updating
        BY <1>1, <2>1, <3>2 DEF ReportsType
      <3>4. ~lapse /\ ~page'.error => page'.rows = stored
        BY <1>1, <2>1, <3>3 DEF ReportsFlight
      <3> QED
        BY <1>5, <2>1, <3>3, <3>4, ReportsTakes DEF ReportSubmitted, Answered
    <2>2. CASE Failed(s, "create") /\ page' = [page EXCEPT !.submitError = TRUE, !.submitting = FALSE]
      <3>1. page' \in ReportsType /\ page'.rows = page.rows /\ page'.error = page.error /\ ~page'.submitting
            /\ page'.loading = page.loading /\ page'.updating = page.updating
        BY <1>1, <2>2 DEF ReportsType
      <3>2. ~lapse /\ ~page'.error => page'.rows = stored
        BY <1>1, <2>2, <3>1 DEF ReportsFlight, Failed
      <3> QED
        BY <1>5, <2>2, <3>1, <3>2, ReportsTakes DEF ReportSubmitted, Failed
    <2> QED
      BY <1>5, <2>1, <2>2 DEF ReportSubmitted
  <1>6. ASSUME NEW i \in 1..MaxRows, ChangeStatus(s, i)
        PROVE  FlightsOK' /\ ReportsPageInv' /\ UNCHANGED open
    <2>1. page.rows[i] \in Row
      BY <1>1, <1>6 DEF ChangeStatus, MayChange, ReportsType
    <2>2. page.rows[i].id \in Nat /\ (~page.rows[i].mark) \in BOOLEAN
      BY <2>1 DEF Row
    <2>3. page' \in ReportsType /\ page'.rows = page.rows /\ page'.error = page.error
          /\ page'.loading = page.loading /\ page'.submitting = page.submitting
      BY <1>1, <1>6, <2>2 DEF ChangeStatus, ReportsType
    <2> QED
      BY <1>6, <2>2, <2>3, ReportsSends DEF ChangeStatus
  <1>7. CASE StatusChanged(s)
    <2>1. CASE /\ Answered(s, "mark")
               /\ page' = [page EXCEPT !.rows = Marked(page.rows, flight[s].id, flight[s].mark), !.updating = 0]
      <3>1. Marked(page.rows, flight[s].id, flight[s].mark) \in Seq(Row)
        BY <1>1, MarkedRows DEF ReportsType
      <3>2. page' \in ReportsType /\ page'.rows = Marked(page.rows, flight[s].id, flight[s].mark)
            /\ page'.error = page.error /\ page'.updating = 0
            /\ page'.loading = page.loading /\ page'.submitting = page.submitting
        BY <1>1, <2>1, <3>1 DEF ReportsType
      <3>3. ~lapse /\ ~page'.error => page'.rows = stored
        BY <1>1, <2>1, <3>2 DEF ReportsFlight
      <3> QED
        BY <1>7, <2>1, <3>2, <3>3, ReportsTakes DEF StatusChanged, Answered
    <2>2. CASE Failed(s, "mark") /\ page' = [page EXCEPT !.error = TRUE, !.updating = 0]
      <3>1. page' \in ReportsType /\ page'.error /\ page'.updating = 0
            /\ page'.loading = page.loading /\ page'.submitting = page.submitting
        BY <1>1, <2>2 DEF ReportsType
      <3> QED
        BY <1>7, <2>2, <3>1, ReportsTakes DEF StatusChanged, Failed
    <2> QED
      BY <1>7, <2>1, <2>2 DEF StatusChanged
  <1> QED
    BY <1>2, <1>3, <1>4, <1>5, <1>6, <1>7 DEF ReportsPageNext

LEMMA ReportsPageHandle ==
  ASSUME FlightsOK, ReportsPageInv, open = "reports", NEW s \in Slots, Handle(s)
  PROVE  ReportsPageInv'
  <1>1. /\ page' = page /\ ~Quiet' /\ \A op : InFlight(op)' <=> InFlight(op)
        /\ flight[s] \in Flight /\ flight[s].state = "waiting"
        /\ flight'[s].op = flight[s].op /\ flight'[s].id = flight[s].id /\ flight'[s].mark = flight[s].mark
        /\ \A t \in Slots \ {s} : flight'[t] = flight[t] /\ (~lapse' => flight[t] = Free)
        /\ ~lapse' => ~lapse
        /\ Outcome(s)
    BY HandleOK
  <1>2. stored \in Seq(Row) /\ ReportsFlight(s)
    BY DEF ReportsPageInv, FlightsOK
  <1>3. ASSUME ~lapse', ~page'.error, flight'[s].op \in {"create", "mark"}
        PROVE  /\ page.rows = stored
               /\ flight'[s].state # "answered" => stored' = stored
               /\ flight'[s].state = "answered" => stored' = After(flight[s]) /\ flight'[s].rows = Reply(flight[s])
    BY <1>1, <1>2, <1>3 DEF ReportsFlight, Outcome
  <1>4. ASSUME ~lapse', ~page'.error, Answered(s, "create")'
        PROVE  stored' = <<flight'[s].rows[1]>> \o page'.rows
    <2> DEFINE row == [id |-> Len(stored) + 1, mark |-> flight[s].mark]
    <2>1. flight[s].op = "create" /\ flight'[s].rows = Reply(flight[s]) /\ stored' = After(flight[s])
      BY <1>1, <1>3, <1>4 DEF Answered
    <2>2. After(flight[s]) = Makes(row) /\ Makes(row) = <<row>> \o stored
      BY <1>1, <1>2, <2>1, AfterRows DEF Makes
    <2>3. Reply(flight[s])[1] = After(flight[s])[1]
      BY <1>1, <1>2, <2>1, ReplyRows
    <2>4. row \in Row
      BY <1>1, <1>2 DEF Row, Flight
    <2>5. (<<row>> \o stored)[1] = row
      BY <1>2, <2>4
    <2> QED
      BY <1>1, <1>3, <1>4, <2>1, <2>2, <2>3, <2>5 DEF Answered
  <1>5. ASSUME ~lapse', ~page'.error, Answered(s, "mark")'
        PROVE  stored' = Marked(page'.rows, flight'[s].id, flight'[s].mark)
    BY <1>1, <1>2, <1>3, <1>5, AfterRows DEF Answered
  <1>6. ReportsFlight(s)'
    BY <1>1, <1>3, <1>4, <1>5 DEF ReportsFlight, Answered
  <1>7. \A t \in Slots \ {s} : ReportsFlight(t)'
    BY <1>1 DEF ReportsFlight, Answered, Free
  <1> QED
    BY <1>1, <1>6, <1>7 DEF ReportsPageInv, ReportsPageBusy, ReportsPageAgrees

LEMMA ReportsPageElsewhere ==
  ASSUME FlightsOK, ReportsPageInv, Elsewhere
  PROVE  ReportsPageInv'
  <1>1. page' = page /\ flight' = flight /\ lapse'
    BY ElsewhereOK
  <1> QED
    BY <1>1 DEF ReportsPageInv, ReportsPageBusy, ReportsPageAgrees, ReportsFlight, InFlight

-----------------------------------------------------------------------------
(* Account *)

LEMMA AccountSends ==
  ASSUME FlightsOK, AccountInv, NEW s \in Slots, NEW op \in {"create", "remove"},
         Send(s, Request(op, 0, FALSE)),
         page' \in AccountType,
         page'.loading => page.loading,
         page'.submitting => page.submitting \/ op = "create",
         page'.signingOut => page.signingOut \/ op = "remove"
  PROVE  FlightsOK' /\ AccountInv' /\ UNCHANGED open
  <1>1. op \in Operation \ {"none"}
    BY DEF Operation
  <1>2. /\ FlightsOK' /\ ~Quiet' /\ InFlight(op)' /\ UNCHANGED <<open, stored>>
        /\ flight'[s] = Request(op, 0, FALSE)
        /\ \A t \in Slots \ {s} : flight'[t] = flight[t]
        /\ ~lapse' => Quiet
        /\ \A other \in Operation \ {"none"} : InFlight(other) => InFlight(other)'
    BY <1>1, SendOK
  <1>3. AccountBusy'
    BY <1>2 DEF AccountInv, AccountBusy, Operation
  <1>4. AccountFlight(s)'
    BY <1>2 DEF AccountFlight, Answered, Failed, Request
  <1>5. \A t \in Slots \ {s} : AccountFlight(t)'
    BY <1>2 DEF AccountFlight, Answered, Failed, Quiet, Free
  <1> QED
    BY <1>2, <1>3, <1>4, <1>5 DEF AccountInv, AccountAgrees

LEMMA AccountTakes ==
  ASSUME FlightsOK, AccountInv, NEW s \in Slots,
         NEW op \in {"load", "create", "remove"}, flight[s].op = op, Settle(s),
         page' \in AccountType,
         ~lapse /\ ~page'.error => page'.rows = stored \/ (page'.refused /\ page'.rows = <<>>),
         page'.loading => page.loading /\ op # "load",
         page'.submitting => page.submitting /\ op # "create",
         page'.signingOut => page.signingOut /\ op # "remove"
  PROVE  FlightsOK' /\ AccountInv' /\ UNCHANGED open
  <1>1. flight[s] # Free
    BY DEF Free
  <1>2. /\ FlightsOK' /\ UNCHANGED <<open, stored, lapse>>
        /\ ~lapse => Quiet'
        /\ \A other : InFlight(other) /\ flight[s].op # other => InFlight(other)'
    BY <1>1, SettleOK
  <1>3. AccountBusy'
    BY <1>2 DEF AccountInv, AccountBusy
  <1>4. \A t \in Slots : AccountFlight(t)'
    BY <1>2 DEF AccountFlight, Quiet, Free, Answered, Failed
  <1>5. AccountAgrees'
    BY <1>2 DEF AccountAgrees
  <1> QED
    BY <1>2, <1>3, <1>4, <1>5 DEF AccountInv

LEMMA AccountStep ==
  ASSUME FlightsOK, AccountInv, NEW s \in Slots, AccountNext(s)
  PROVE  FlightsOK' /\ AccountInv' /\ UNCHANGED open
  <1>1. page \in AccountType /\ AccountFlight(s) /\ flight[s].rows \in Seq(Row)
    BY AnswerOK DEF AccountInv
  <1>2. CASE Refreshed(s)
    <2>1. CASE /\ Answered(s, "load")
               /\ page' = [page EXCEPT !.rows = flight[s].rows, !.loading = FALSE, !.refused = FALSE]
      <3>1. page' \in AccountType /\ page'.rows = flight[s].rows /\ ~page'.loading
            /\ page'.submitting = page.submitting /\ page'.signingOut = page.signingOut
        BY <1>1, <2>1 DEF AccountType
      <3>2. ~lapse => page'.rows = stored
        BY <2>1, <3>1, AnswerOK
      <3> QED
        BY <1>2, <2>1, <3>1, <3>2, AccountTakes DEF Refreshed, Answered
    <2>2. CASE Failed(s, "load") /\ page' = [page EXCEPT !.error = TRUE, !.loading = FALSE]
      <3>1. page' \in AccountType /\ page'.error /\ ~page'.loading
            /\ page'.submitting = page.submitting /\ page'.signingOut = page.signingOut
        BY <1>1, <2>2 DEF AccountType
      <3> QED
        BY <1>2, <2>2, <3>1, AccountTakes DEF Refreshed, Failed
    <2> QED
      BY <1>2, <2>1, <2>2 DEF Refreshed
  <1>3. CASE SignIn(s)
    <2>1. page' \in AccountType /\ page'.loading = page.loading /\ page'.signingOut = page.signingOut
      BY <1>1, <1>3 DEF SignIn, AccountType
    <2> QED
      BY <1>3, <2>1, AccountSends DEF SignIn
  <1>4. CASE SignedIn(s)
    <2>1. CASE /\ Answered(s, "create")
               /\ page' = [page EXCEPT !.rows = flight[s].rows, !.submitting = FALSE, !.refused = FALSE]
      <3>1. page' \in AccountType /\ page'.rows = flight[s].rows /\ ~page'.submitting
            /\ page'.loading = page.loading /\ page'.signingOut = page.signingOut
        BY <1>1, <2>1 DEF AccountType
      <3>2. ~lapse => page'.rows = stored
        BY <1>1, <2>1, <3>1 DEF AccountFlight
      <3> QED
        BY <1>4, <2>1, <3>1, <3>2, AccountTakes DEF SignedIn, Answered
    <2>2. CASE Failed(s, "create") /\ page' = [page EXCEPT !.error = TRUE, !.submitting = FALSE]
      <3>1. page' \in AccountType /\ page'.error /\ ~page'.submitting
            /\ page'.loading = page.loading /\ page'.signingOut = page.signingOut
        BY <1>1, <2>2 DEF AccountType
      <3> QED
        BY <1>4, <2>2, <3>1, AccountTakes DEF SignedIn, Failed
    <2> QED
      BY <1>4, <2>1, <2>2 DEF SignedIn
  <1>5. CASE SignOut(s)
    <2>1. page' \in AccountType /\ page'.loading = page.loading /\ page'.submitting = page.submitting
      BY <1>1, <1>5 DEF SignOut, AccountType
    <2> QED
      BY <1>5, <2>1, AccountSends DEF SignOut
  <1>6. CASE SignedOut(s)
    <2>1. <<>> \in Seq(Row)
      OBVIOUS
    <2>2. PICK refused \in BOOLEAN :
            /\ IF refused THEN Failed(s, "remove") ELSE Answered(s, "remove")
            /\ page' = [page EXCEPT !.rows = <<>>, !.signingOut = FALSE, !.refused = refused]
      BY <1>6 DEF SignedOut
    <2>3. page' \in AccountType /\ page'.rows = <<>> /\ page'.refused = refused /\ ~page'.signingOut
          /\ page'.loading = page.loading /\ page'.submitting = page.submitting
      BY <1>1, <2>1, <2>2 DEF AccountType
    <2>4. ~lapse => page'.rows = stored \/ page'.refused
      BY <1>1, <2>2, <2>3 DEF AccountFlight
    <2>5. flight[s].op = "remove" /\ Settle(s)
      BY <1>6, <2>2 DEF SignedOut, Answered, Failed
    <2> QED
      BY <2>3, <2>4, <2>5, AccountTakes
  <1> QED
    BY <1>2, <1>3, <1>4, <1>5, <1>6 DEF AccountNext

LEMMA AccountHandle ==
  ASSUME FlightsOK, AccountInv, open = "account", NEW s \in Slots, Handle(s)
  PROVE  AccountInv'
  <1>1. /\ page' = page /\ ~Quiet' /\ \A op : InFlight(op)' <=> InFlight(op)
        /\ flight[s] \in Flight
        /\ flight'[s].op = flight[s].op
        /\ \A t \in Slots \ {s} : flight'[t] = flight[t] /\ (~lapse' => flight[t] = Free)
        /\ Outcome(s)
    BY HandleOK
  <1>2. stored \in Seq(Row)
    BY DEF FlightsOK
  <1>3. ASSUME ~lapse', Answered(s, "create")'
        PROVE  flight'[s].rows = stored'
    <2> DEFINE row == [id |-> Len(stored) + 1, mark |-> flight[s].mark]
    <2>1. flight[s].op = "create" /\ flight'[s].rows = Reply(flight[s]) /\ stored' = After(flight[s])
      BY <1>1, <1>3 DEF Answered, Outcome
    <2>2. After(flight[s]) = Makes(row) /\ Makes(row) = <<row>>
      BY <1>1, <1>2, <2>1, AfterRows DEF Makes
    <2>3. Reply(flight[s]) = <<Head(After(flight[s]))>>
      BY <2>1 DEF Reply
    <2> HIDE DEF row
    <2>4. Head(<<row>>) = row
      OBVIOUS
    <2> QED
      BY <2>1, <2>2, <2>3, <2>4
  <1>4. ASSUME ~lapse', Answered(s, "remove")'
        PROVE  stored' = <<>>
    BY <1>1, <1>2, <1>4, AfterRows DEF Answered, Outcome
  <1>5. AccountFlight(s)'
    BY <1>3, <1>4 DEF AccountFlight
  <1>6. \A t \in Slots \ {s} : AccountFlight(t)'
    BY <1>1 DEF AccountFlight, Answered, Failed, Free
  <1> QED
    BY <1>1, <1>5, <1>6 DEF AccountInv, AccountBusy, AccountAgrees

LEMMA AccountElsewhere ==
  ASSUME FlightsOK, AccountInv, Elsewhere
  PROVE  AccountInv'
  <1>1. page' = page /\ flight' = flight /\ lapse'
    BY ElsewhereOK
  <1> QED
    BY <1>1 DEF AccountInv, AccountBusy, AccountAgrees, AccountFlight, InFlight

-----------------------------------------------------------------------------
(* RatingPanel *)

LEMMA RatingTakes ==
  ASSUME FlightsOK, RatingPanelInv, NEW s \in Slots,
         NEW op \in {"load", "create"}, flight[s].op = op, Settle(s),
         page' \in RatingType,
         ~lapse /\ ~page'.error => page'.rows = stored,
         page'.loading => page.loading /\ op # "load",
         page'.submitting => page.submitting /\ op # "create"
  PROVE  FlightsOK' /\ RatingPanelInv' /\ UNCHANGED open
  <1>1. flight[s] # Free
    BY DEF Free
  <1>2. /\ FlightsOK' /\ UNCHANGED <<open, stored, lapse>>
        /\ ~lapse => Quiet'
        /\ \A other : InFlight(other) /\ flight[s].op # other => InFlight(other)'
    BY <1>1, SettleOK
  <1>3. RatingPanelBusy'
    BY <1>2 DEF RatingPanelInv, RatingPanelBusy
  <1>4. \A t \in Slots : RatingFlight(t)'
    BY <1>2 DEF RatingFlight, Quiet, Free, Answered
  <1>5. RatingPanelAgrees'
    BY <1>2 DEF RatingPanelAgrees
  <1> QED
    BY <1>2, <1>3, <1>4, <1>5 DEF RatingPanelInv

LEMMA RatingPanelStep ==
  ASSUME FlightsOK, RatingPanelInv, NEW s \in Slots, RatingPanelNext(s)
  PROVE  FlightsOK' /\ RatingPanelInv' /\ UNCHANGED open
  <1>1. page \in RatingType /\ RatingFlight(s) /\ flight[s].rows \in Seq(Row)
    BY AnswerOK DEF RatingPanelInv
  <1>2. CASE RatingLoaded(s)
    <2>1. CASE Answered(s, "load") /\ page' = [page EXCEPT !.rows = flight[s].rows, !.loading = FALSE]
      <3>1. page' \in RatingType /\ page'.rows = flight[s].rows /\ ~page'.loading
            /\ page'.submitting = page.submitting
        BY <1>1, <2>1 DEF RatingType
      <3>2. ~lapse => page'.rows = stored
        BY <2>1, <3>1, AnswerOK
      <3> QED
        BY <1>2, <2>1, <3>1, <3>2, RatingTakes DEF RatingLoaded, Answered
    <2>2. CASE Failed(s, "load") /\ page' = [page EXCEPT !.error = TRUE, !.loading = FALSE]
      <3>1. page' \in RatingType /\ page'.error /\ ~page'.loading /\ page'.submitting = page.submitting
        BY <1>1, <2>2 DEF RatingType
      <3> QED
        BY <1>2, <2>2, <3>1, RatingTakes DEF RatingLoaded, Failed
    <2> QED
      BY <1>2, <2>1, <2>2 DEF RatingLoaded
  <1>3. CASE SubmitRating(s)
    <2>1. /\ FlightsOK' /\ ~Quiet' /\ InFlight("create")' /\ UNCHANGED <<open, stored>>
          /\ flight'[s] = Request("create", 0, FALSE)
          /\ \A t \in Slots \ {s} : flight'[t] = flight[t]
          /\ ~lapse' => Quiet
      BY <1>3, SendOK DEF SubmitRating, Operation
    <2>2. page' \in RatingType /\ ~page'.loading
      BY <1>1, <1>3 DEF SubmitRating, MayRate, RatingType
    <2>3. \A t \in Slots : RatingFlight(t)'
      BY <2>1 DEF RatingFlight, Answered, Quiet, Free, Request
    <2> QED
      BY <2>1, <2>2, <2>3 DEF RatingPanelInv, RatingPanelBusy, RatingPanelAgrees
  <1>4. CASE RatingSubmitted(s)
    <2>1. CASE Answered(s, "create") /\ page' = [page EXCEPT !.rows = flight[s].rows, !.submitting = FALSE]
      <3>1. page' \in RatingType /\ page'.rows = flight[s].rows /\ ~page'.submitting
            /\ page'.loading = page.loading
        BY <1>1, <2>1 DEF RatingType
      <3>2. ~lapse => page'.rows = stored
        BY <1>1, <2>1, <3>1 DEF RatingFlight
      <3> QED
        BY <1>4, <2>1, <3>1, <3>2, RatingTakes DEF RatingSubmitted, Answered
    <2>2. CASE Failed(s, "create") /\ page' = [page EXCEPT !.error = TRUE, !.submitting = FALSE]
      <3>1. page' \in RatingType /\ page'.error /\ ~page'.submitting /\ page'.loading = page.loading
        BY <1>1, <2>2 DEF RatingType
      <3> QED
        BY <1>4, <2>2, <3>1, RatingTakes DEF RatingSubmitted, Failed
    <2> QED
      BY <1>4, <2>1, <2>2 DEF RatingSubmitted
  <1> QED
    BY <1>2, <1>3, <1>4 DEF RatingPanelNext

LEMMA RatingPanelHandle ==
  ASSUME FlightsOK, RatingPanelInv, open = "rating", NEW s \in Slots, Handle(s)
  PROVE  RatingPanelInv'
  <1>1. /\ page' = page /\ ~Quiet' /\ \A op : InFlight(op)' <=> InFlight(op)
        /\ flight[s] \in Flight
        /\ flight'[s].op = flight[s].op
        /\ \A t \in Slots \ {s} : flight'[t] = flight[t] /\ (~lapse' => flight[t] = Free)
        /\ Outcome(s)
    BY HandleOK
  <1>2. stored \in Seq(Row)
    BY DEF FlightsOK
  <1>3. ASSUME ~lapse', Answered(s, "create")'
        PROVE  flight'[s].rows = stored'
    <2> DEFINE row == [id |-> Len(stored) + 1, mark |-> flight[s].mark]
    <2>1. /\ flight[s].op = "create" /\ flight'[s].rows = Reply(flight[s]) /\ stored' = After(flight[s])
          /\ stored = <<>>
      BY <1>1, <1>3 DEF Answered, Outcome, Full
    <2>2. After(flight[s]) = Makes(row) /\ Makes(row) = <<row>> \o stored
      BY <1>1, <1>2, <2>1, AfterRows DEF Makes
    <2>3. Reply(flight[s]) = <<Head(After(flight[s]))>>
      BY <2>1 DEF Reply
    <2>4. row \in Row
      BY <1>1, <1>2 DEF Row, Flight
    <2> HIDE DEF row
    <2>5. Head(<<row>>) = row /\ <<row>> \o <<>> = <<row>>
      BY <2>4
    <2> QED
      BY <2>1, <2>2, <2>3, <2>5
  <1>4. RatingFlight(s)'
    BY <1>3 DEF RatingFlight
  <1>5. \A t \in Slots \ {s} : RatingFlight(t)'
    BY <1>1 DEF RatingFlight, Answered, Free
  <1> QED
    BY <1>1, <1>4, <1>5 DEF RatingPanelInv, RatingPanelBusy, RatingPanelAgrees

LEMMA RatingPanelElsewhere ==
  ASSUME FlightsOK, RatingPanelInv, Elsewhere
  PROVE  RatingPanelInv'
  <1>1. page' = page /\ flight' = flight /\ lapse'
    BY ElsewhereOK
  <1> QED
    BY <1>1 DEF RatingPanelInv, RatingPanelBusy, RatingPanelAgrees, RatingFlight, Answered, InFlight

-----------------------------------------------------------------------------
(* ProfileEditor *)

LEMMA FormValues ==
  ASSUME NEW rows \in Seq(Row)
  PROVE  FormValue(rows) \in BOOLEAN
  <1>1. rows # <<>> => rows[1] \in Row
    OBVIOUS
  <1> QED
    BY <1>1 DEF FormValue, Row

LEMMA EditorTakes ==
  ASSUME FlightsOK, ProfileEditorInv, NEW s \in Slots,
         NEW op \in {"load", "create", "mark"}, flight[s].op = op, Settle(s),
         page' \in EditorType,
         page'.initialized => stored # <<>>,
         ~lapse /\ ~page'.error /\ ~page'.edited => page'.value = FormValue(stored),
         page'.loading => page.loading /\ op # "load",
         page'.submitting => page.submitting /\ op \notin {"create", "mark"}
  PROVE  FlightsOK' /\ ProfileEditorInv' /\ UNCHANGED open
  <1>1. flight[s] # Free
    BY DEF Free
  <1>2. /\ FlightsOK' /\ UNCHANGED <<open, stored, lapse>>
        /\ flight'[s] = Free
        /\ \A t \in Slots \ {s} : flight'[t] = flight[t]
        /\ ~lapse => Quiet'
        /\ \A other : InFlight(other) /\ flight[s].op # other => InFlight(other)'
    BY <1>1, SettleOK
  <1>3. ProfileEditorBusy'
    BY <1>2 DEF ProfileEditorInv, ProfileEditorBusy
  <1>4. EditorFlight(s)'
    BY <1>2 DEF EditorFlight, Free, Answered
  <1>5. ASSUME NEW t \in Slots \ {s} PROVE EditorFlight(t)'
    <2>1. EditorFlight(t) /\ flight'[t] = flight[t] /\ (~lapse' => flight'[t] = Free)
      BY <1>2 DEF ProfileEditorInv, Quiet
    <2> QED
      BY <1>2, <2>1 DEF EditorFlight, Free, Answered
  <1>6. ProfileEditorAgrees'
    BY <1>2 DEF ProfileEditorAgrees
  <1> QED
    BY <1>2, <1>3, <1>4, <1>5, <1>6 DEF ProfileEditorInv

LEMMA EditorSends ==
  ASSUME FlightsOK, ProfileEditorInv, NEW s \in Slots,
         NEW op \in {"load", "create", "mark"}, NEW id \in Nat, NEW mark \in BOOLEAN,
         Send(s, Request(op, id, mark)),
         op = "mark" => id = 1 /\ page.initialized,
         page' \in EditorType,
         page'.initialized = page.initialized,
         op # "load" => page'.value = page.value /\ page'.edited = page.edited /\ page'.error = page.error,
         page'.loading => page.loading \/ op = "load",
         page'.submitting => page.submitting \/ op # "load"
  PROVE  FlightsOK' /\ ProfileEditorInv' /\ UNCHANGED open
  <1>1. op \in Operation \ {"none"}
    BY DEF Operation
  <1>2. /\ FlightsOK' /\ ~Quiet' /\ InFlight(op)' /\ UNCHANGED <<open, stored>>
        /\ flight'[s] = Request(op, id, mark)
        /\ \A t \in Slots \ {s} : flight'[t] = flight[t]
        /\ ~lapse' => Quiet
        /\ op # "load" /\ ~lapse' => ~lapse
        /\ \A other \in Operation \ {"none"} : InFlight(other) => InFlight(other)'
    BY <1>1, SendOK
  <1>3. ProfileEditorBusy'
    BY <1>2 DEF ProfileEditorInv, ProfileEditorBusy, Operation
  <1>4. ~lapse' /\ op # "load" /\ ~page'.error /\ ~page'.edited => page'.value = FormValue(stored)
    BY <1>2 DEF ProfileEditorInv, ProfileEditorAgrees
  <1>5. EditorFlight(s)'
    BY <1>2, <1>4 DEF EditorFlight, Answered, Request, ProfileEditorInv
  <1>6. ASSUME NEW t \in Slots \ {s} PROVE EditorFlight(t)'
    <2>1. EditorFlight(t) /\ flight'[t] = flight[t] /\ (~lapse' => flight[t] = Free)
      BY <1>2 DEF ProfileEditorInv, Quiet
    <2> QED
      BY <1>2, <2>1 DEF EditorFlight, Free, Answered
  <1> QED
    BY <1>2, <1>3, <1>5, <1>6 DEF ProfileEditorInv, ProfileEditorAgrees

LEMMA ProfileEditorStep ==
  ASSUME FlightsOK, ProfileEditorInv, NEW s \in Slots, ProfileEditorNext(s)
  PROVE  FlightsOK' /\ ProfileEditorInv' /\ UNCHANGED open
  <1>1. /\ page \in EditorType /\ EditorFlight(s)
        /\ page.initialized => stored # <<>>
        /\ flight[s].rows \in Seq(Row)
    BY AnswerOK DEF ProfileEditorInv
  <1>2. FormValue(flight[s].rows) \in BOOLEAN
    BY <1>1, FormValues
  <1>3. CASE EditorLoaded(s)
    <2>1. CASE /\ Answered(s, "load")
               /\ page' = [page EXCEPT !.loading = FALSE, !.initialized = flight[s].rows # <<>>,
                                       !.value = FormValue(flight[s].rows)]
      <3>1. /\ page' \in EditorType /\ ~page'.loading /\ page'.submitting = page.submitting
            /\ page'.initialized <=> flight[s].rows # <<>>
            /\ page'.value = FormValue(flight[s].rows)
        BY <1>1, <1>2, <2>1 DEF EditorType
      <3>2. ~lapse => page'.value = FormValue(stored)
        BY <2>1, <3>1, AnswerOK
      <3> QED
        BY <1>1, <1>3, <2>1, <3>1, <3>2, EditorTakes DEF EditorLoaded, Answered, EditorFlight
    <2>2. CASE Failed(s, "load") /\ page' = [page EXCEPT !.error = TRUE, !.loading = FALSE]
      <3>1. page' \in EditorType /\ page'.error /\ ~page'.loading /\ page'.submitting = page.submitting
            /\ page'.initialized = page.initialized
        BY <1>1, <2>2 DEF EditorType
      <3> QED
        BY <1>1, <1>3, <2>2, <3>1, EditorTakes DEF EditorLoaded, Failed
    <2> QED
      BY <1>3, <2>1, <2>2 DEF EditorLoaded
  <1>4. CASE EditorRetry(s)
    <2>1. page' \in EditorType /\ page'.initialized = page.initialized /\ page'.submitting = page.submitting
      BY <1>1, <1>4 DEF EditorRetry, EditorType
    <2> QED
      BY <1>4, <2>1, EditorSends DEF EditorRetry, Load
  <1>5. CASE Type
    <2>1. /\ page' \in EditorType /\ page'.initialized = page.initialized /\ page'.edited
          /\ page'.submitting = page.submitting /\ page'.loading = page.loading
      BY <1>1, <1>5 DEF Type, EditorType
    <2>2. UNCHANGED <<open, stored, flight, lapse>>
      BY <1>5 DEF Type
    <2>3. FlightsOK'
      BY <2>2 DEF FlightsOK, FlightOK, OneInFlight, Numbered, Answered
    <2>4. \A t \in Slots : EditorFlight(t)'
      BY <2>1, <2>2 DEF ProfileEditorInv, EditorFlight, Answered
    <2> QED
      BY <2>1, <2>2, <2>3, <2>4 DEF ProfileEditorInv, ProfileEditorBusy, ProfileEditorAgrees, InFlight
  <1>6. CASE Save(s)
    <2> DEFINE op == IF page.initialized THEN "mark" ELSE "create"
    <2>1. /\ op \in {"load", "create", "mark"} /\ op # "load" /\ (op = "mark" => page.initialized)
          /\ Send(s, Request(op, 1, page.value))
      BY <1>6 DEF Save
    <2>2. /\ page' \in EditorType /\ page'.initialized = page.initialized
          /\ page'.value = page.value /\ page'.edited = page.edited /\ page'.error = page.error
          /\ page'.loading = page.loading
      BY <1>1, <1>6 DEF Save, EditorType
    <2>3. page.value \in BOOLEAN
      BY <1>1 DEF EditorType
    <2> HIDE DEF op
    <2> QED
      BY <2>1, <2>2, <2>3, EditorSends
  <1>7. CASE Saved(s)
    <2>1. PICK op \in {"mark", "create"} :
            \/ /\ Answered(s, op)
               /\ page' = [page EXCEPT !.initialized = TRUE, !.value = FormValue(flight[s].rows),
                                       !.submitting = FALSE, !.edited = FALSE]
            \/ Failed(s, op) /\ page' = [page EXCEPT !.refused = TRUE, !.submitting = FALSE]
      BY <1>7 DEF Saved
    <2>2. CASE /\ Answered(s, op)
               /\ page' = [page EXCEPT !.initialized = TRUE, !.value = FormValue(flight[s].rows),
                                       !.submitting = FALSE, !.edited = FALSE]
      <3>1. /\ page' \in EditorType /\ ~page'.submitting /\ page'.loading = page.loading
            /\ page'.value = FormValue(flight[s].rows)
        BY <1>1, <1>2, <2>2 DEF EditorType
      <3>2. stored # <<>> /\ (~lapse => page'.value = FormValue(stored))
        BY <1>1, <2>2, <3>1 DEF EditorFlight, Answered
      <3> QED
        BY <1>7, <2>2, <3>1, <3>2, EditorTakes DEF Saved, Answered
    <2>3. CASE Failed(s, op) /\ page' = [page EXCEPT !.refused = TRUE, !.submitting = FALSE]
      <3>1. /\ page' \in EditorType /\ ~page'.submitting /\ page'.loading = page.loading
            /\ page'.initialized = page.initialized /\ page'.value = page.value
            /\ page'.error = page.error /\ page'.edited = page.edited
        BY <1>1, <2>3 DEF EditorType
      <3>2. ~lapse /\ ~page'.error /\ ~page'.edited => page'.value = FormValue(stored)
        BY <1>1, <2>3, <3>1 DEF EditorFlight, Failed
      <3> QED
        BY <1>1, <1>7, <2>3, <3>1, <3>2, EditorTakes DEF Saved, Failed
    <2> QED
      BY <2>1, <2>2, <2>3
  <1> QED
    BY <1>3, <1>4, <1>5, <1>6, <1>7 DEF ProfileEditorNext

LEMMA ProfileEditorHandle ==
  ASSUME FlightsOK, ProfileEditorInv, open = "editor", NEW s \in Slots, Handle(s)
  PROVE  ProfileEditorInv'
  <1>1. /\ page' = page /\ open' = open /\ ~Quiet' /\ \A op : InFlight(op)' <=> InFlight(op)
        /\ flight[s] \in Flight /\ flight[s].state = "waiting" /\ flight[s] # Free
        /\ flight'[s].op = flight[s].op /\ flight'[s].id = flight[s].id /\ flight'[s].mark = flight[s].mark
        /\ \A t \in Slots \ {s} : flight'[t] = flight[t] /\ (~lapse' => flight[t] = Free)
        /\ ~lapse' => ~lapse
        /\ Outcome(s)
    BY HandleOK
  <1>2. /\ stored \in Seq(Row) /\ Numbered /\ FlightOK(s) /\ Len(stored) <= 1
        /\ page.initialized => stored # <<>>
        /\ EditorFlight(s)
    BY DEF FlightsOK, ProfileEditorInv
  <1>3. stored # <<>> => Len(stored) = 1 /\ stored[1] \in Row /\ stored[1].id = 1
    <2> SUFFICES ASSUME stored # <<>>
                 PROVE  Len(stored) = 1 /\ stored[1] \in Row /\ stored[1].id = 1
      OBVIOUS
    <2>1. 1 \in DOMAIN stored /\ stored[1] \in Row /\ Len(stored) >= 1 /\ Len(stored) \in Nat
      BY <1>2, SomeRows
    <2>2. Len(stored) = 1
      <3>1. \A n \in Nat : n <= 1 /\ n >= 1 => n = 1
        OBVIOUS
      <3>2. Len(stored) <= 1
        BY <1>2
      <3> QED
        BY <2>1, <3>1, <3>2
    <2>3. stored[1].id = Len(stored) + 1 - 1
      BY <1>2, <2>1 DEF Numbered
    <2> QED
      BY <2>1, <2>2, <2>3
  <1>4. flight[s].op \in {"load", "create", "mark"}
    BY <1>1, <1>2 DEF EditorFlight, FlightOK
  <1> DEFINE row == [id |-> Len(stored) + 1, mark |-> flight[s].mark]
  <1>5. flight[s].op = "create" /\ ~Full =>
          /\ After(flight[s]) = <<row>> /\ Reply(flight[s]) = <<row>>
          /\ Len(After(flight[s])) = 1 /\ After(flight[s]) # <<>> /\ stored = <<>>
    <2> SUFFICES ASSUME flight[s].op = "create", ~Full
                 PROVE  /\ After(flight[s]) = <<row>> /\ Reply(flight[s]) = <<row>>
                        /\ Len(After(flight[s])) = 1 /\ After(flight[s]) # <<>> /\ stored = <<>>
      OBVIOUS
    <2>1. stored = <<>>
      BY DEF Full
    <2>2. row \in Row
      BY <1>1, <1>2 DEF Row, Flight
    <2>3. After(flight[s]) = Makes(row) /\ Makes(row) = <<row>> \o stored
      BY <1>1, <1>2, AfterRows DEF Makes
    <2>4. Reply(flight[s]) = <<Head(After(flight[s]))>>
      BY DEF Reply
    <2> HIDE DEF row
    <2>5. Head(<<row>>) = row /\ <<row>> \o <<>> = <<row>> /\ Len(<<row>>) = 1 /\ <<row>> # <<>>
      BY <2>2
    <2> QED
      BY <2>1, <2>3, <2>4, <2>5
  <1>6. flight[s].op = "mark" =>
          /\ Len(After(flight[s])) = 1 /\ After(flight[s]) # <<>>
          /\ FormValue(After(flight[s])) = flight[s].mark /\ FormValue(Reply(flight[s])) = flight[s].mark
    <2> SUFFICES ASSUME flight[s].op = "mark"
                 PROVE  /\ Len(After(flight[s])) = 1 /\ After(flight[s]) # <<>>
                        /\ FormValue(After(flight[s])) = flight[s].mark
                        /\ FormValue(Reply(flight[s])) = flight[s].mark
      OBVIOUS
    <2>1. stored # <<>> /\ flight[s].id = 1 /\ flight[s].mark \in BOOLEAN
      BY <1>1, <1>2 DEF EditorFlight, Flight
    <2> DEFINE changed == Marked(stored, 1, flight[s].mark)
    <2>2. After(flight[s]) = changed
      BY <1>1, <1>2, <2>1, AfterRows
    <2>3. changed \in Seq(Row) /\ Len(changed) = 1 /\ changed[1].mark = flight[s].mark
      <3>1. 1 \in DOMAIN stored
        BY <1>2, <1>3, <2>1
      <3> QED
        BY <1>2, <1>3, <2>1, <3>1, MarkedRows
    <2> HIDE DEF changed
    <2>4. changed # <<>>
      BY <2>3, SomeRows
    <2>5. Reply(flight[s]) = <<[id |-> 1, mark |-> flight[s].mark]>>
      BY <1>1, <1>2, <2>1, ReplyRows
    <2>6. FormValue(<<[id |-> 1, mark |-> flight[s].mark]>>) = flight[s].mark
      BY DEF FormValue
    <2> QED
      BY <2>2, <2>3, <2>4, <2>5, <2>6 DEF FormValue
  <1>7. flight[s].op = "load" => After(flight[s]) = stored /\ Reply(flight[s]) = stored
    BY <1>1, <1>2, AfterRows, ReplyRows
  <1> HIDE DEF row
  <1>8. Len(stored') <= 1 /\ (stored # <<>> => stored' # <<>>)
    <2>1. CASE stored' = After(flight[s]) /\ (flight[s].op = "create" => ~Full)
      <3>1. CASE flight[s].op = "load"
        BY <1>2, <1>7, <2>1, <3>1
      <3>2. CASE flight[s].op \in {"create", "mark"}
        <4>1. Len(After(flight[s])) = 1 /\ After(flight[s]) # <<>>
          BY <1>5, <1>6, <2>1, <3>2
        <4> QED
          BY <2>1, <4>1
      <3> QED
        BY <1>4, <3>1, <3>2
    <2>2. CASE stored' = stored
      BY <1>2, <2>2
    <2> QED
      BY <1>1, <2>1, <2>2 DEF Outcome
  <1>9. EditorFlight(s)'
    <2>1. CASE flight'[s].state = "answered"
      <3>1. /\ flight'[s].rows = Reply(flight[s]) /\ stored' = After(flight[s])
            /\ flight[s].op = "create" => ~Full
        BY <1>1, <2>1 DEF Outcome
      <3> QED
        BY <1>1, <1>2, <1>4, <1>5, <1>6, <1>7, <2>1, <3>1 DEF EditorFlight, Answered
    <2>2. CASE flight'[s].state # "answered"
      <3>1. ~lapse' => stored' = stored
        BY <1>1, <2>2 DEF Outcome
      <3> QED
        BY <1>1, <1>2, <1>4, <1>8, <2>2, <3>1 DEF EditorFlight, Answered
    <2> QED
      BY <2>1, <2>2
  <1>10. ASSUME NEW t \in Slots \ {s} PROVE EditorFlight(t)'
    <2>1. EditorFlight(t) /\ flight'[t] = flight[t] /\ (~lapse' => flight[t] = Free)
      BY <1>1 DEF ProfileEditorInv
    <2> QED
      BY <1>8, <2>1 DEF EditorFlight, Free, Answered
  <1> QED
    BY <1>1, <1>2, <1>8, <1>9, <1>10 DEF ProfileEditorInv, ProfileEditorBusy, ProfileEditorAgrees

LEMMA ProfileEditorElsewhere ==
  ASSUME FlightsOK, ProfileEditorInv, open = "editor", Elsewhere
  PROVE  ProfileEditorInv'
  <1>1. /\ page' = page /\ flight' = flight /\ lapse' /\ FlightsOK'
        /\ Len(stored) <= 1 => Len(stored') <= 1
        /\ stored # <<>> => stored' # <<>>
    BY ElsewhereOK
  <1>2. \A t \in Slots : EditorFlight(t)'
    BY <1>1 DEF ProfileEditorInv, EditorFlight, Answered
  <1> QED
    BY <1>1, <1>2 DEF ProfileEditorInv, ProfileEditorBusy, ProfileEditorAgrees, InFlight

-----------------------------------------------------------------------------
(* Search *)

\* A page that sends a request only when it has none in flight has one at most.
LEMMA FirstInFlight ==
  ASSUME FlightsOK, Quiet, NEW s \in Slots,
         NEW op \in Operation \ {"none"}, NEW id \in Nat, NEW mark \in BOOLEAN,
         Send(s, Request(op, id, mark))
  PROVE  /\ FlightsOK' /\ OneInFlight' /\ InFlight(op)' /\ ~Quiet'
         /\ \A t \in Slots : flight'[t] # Free => flight'[t].op = op /\ flight'[t].id = id
         /\ UNCHANGED open
  <1>1. /\ FlightsOK' /\ InFlight(op)' /\ ~Quiet' /\ UNCHANGED open
        /\ flight'[s] = Request(op, id, mark)
        /\ \A t \in Slots \ {s} : flight'[t] = flight[t]
    BY SendOK
  <1>2. \A t \in Slots : flight'[t] # Free => t = s
    BY <1>1 DEF Quiet
  <1> QED
    BY <1>1, <1>2 DEF OneInFlight, Request, Free

\* Its answer leaves none.
LEMMA LastInFlight ==
  ASSUME FlightsOK, OneInFlight, NEW s \in Slots, flight[s] # Free, Settle(s)
  PROVE  FlightsOK' /\ OneInFlight' /\ Quiet' /\ UNCHANGED open
  <1>1. /\ FlightsOK' /\ UNCHANGED open
        /\ flight'[s] = Free
        /\ \A t \in Slots \ {s} : flight'[t] = flight[t]
    BY SettleOK
  <1>2. Quiet'
    BY <1>1 DEF OneInFlight, Quiet
  <1> QED
    BY <1>1, <1>2 DEF OneInFlight, Quiet

\* The API's handling changes neither.
LEMMA SameInFlight ==
  ASSUME FlightsOK, OneInFlight, NEW s \in Slots, Handle(s)
  PROVE  /\ OneInFlight' /\ page' = page /\ ~Quiet'
         /\ \A t \in Slots : flight'[t] # Free =>
              flight[t] # Free /\ flight'[t].op = flight[t].op /\ flight'[t].id = flight[t].id
         /\ \A op : InFlight(op)' <=> InFlight(op)
  <1>1. /\ page' = page /\ ~Quiet' /\ flight[s] # Free
        /\ flight'[s].op = flight[s].op /\ flight'[s].id = flight[s].id
        /\ \A t \in Slots \ {s} : flight'[t] = flight[t]
        /\ \A op : InFlight(op)' <=> InFlight(op)
    BY HandleOK
  <1> QED
    BY <1>1 DEF OneInFlight

\* The component changes by itself.
LEMMA LocalOK ==
  ASSUME FlightsOK, UNCHANGED <<open, stored, flight, lapse>>
  PROVE  FlightsOK' /\ (Quiet' <=> Quiet) /\ (OneInFlight' <=> OneInFlight)
         /\ \A op : InFlight(op)' <=> InFlight(op)
  BY DEF FlightsOK, FlightOK, OneInFlight, Numbered, Answered, Quiet, InFlight

LEMMA SearchStep ==
  ASSUME FlightsOK, SearchInv, NEW s \in Slots, SearchNext(s)
  PROVE  FlightsOK' /\ SearchInv' /\ UNCHANGED open
  <1>1. /\ page \in SearchType /\ OneInFlight
        /\ \A t \in Slots : flight[t] # Free =>
             flight[t].op = "search" /\ flight[t].id = page.asked /\ page.loading
        /\ SearchBusy /\ page.items = page.query
        /\ ~page.loading /\ ~page.error => page.items = page.asked
    BY DEF SearchInv
  <1>2. ASSUME NEW query \in 1..MaxRows, RunSearch(s, query)
        PROVE  FlightsOK' /\ SearchInv' /\ UNCHANGED open
    <2>1. Quiet /\ query \in Nat
      BY <1>1, <1>2, MaxRowsAssumption DEF RunSearch, MaySearch, Quiet
    <2>2. /\ FlightsOK' /\ OneInFlight' /\ InFlight("search")' /\ UNCHANGED open
          /\ \A t \in Slots : flight'[t] # Free => flight'[t].op = "search" /\ flight'[t].id = query
      BY <1>2, <2>1, FirstInFlight DEF RunSearch, Operation
    <2>3. /\ page' \in SearchType /\ page'.loading /\ page'.asked = query
          /\ page'.items = page.items /\ page'.query = page.query
      BY <1>1, <1>2, <2>1 DEF RunSearch, SearchType
    <2> QED
      BY <1>1, <2>2, <2>3 DEF SearchInv, SearchBusy
  <1>3. CASE EmptySearch
    <2>1. /\ page' \in SearchType /\ page'.error /\ page'.loading = page.loading
          /\ page'.items = page.items /\ page'.query = page.query /\ page'.asked = page.asked
      BY <1>1, <1>3 DEF EmptySearch, SearchType
    <2>2. UNCHANGED <<open, stored, flight, lapse>>
      BY <1>3 DEF EmptySearch
    <2>3. FlightsOK' /\ OneInFlight' /\ \A op : InFlight(op)' <=> InFlight(op)
      BY <1>1, <2>2, LocalOK
    <2> QED
      BY <1>1, <2>1, <2>2, <2>3 DEF SearchInv, SearchBusy
  <1>4. CASE Found(s)
    <2>1. flight[s] # Free /\ Settle(s)
      BY <1>4, AnswerOK DEF Found
    <2>2. FlightsOK' /\ OneInFlight' /\ Quiet' /\ UNCHANGED open
      BY <1>1, <2>1, LastInFlight
    <2>3. CASE /\ Answered(s, "search")
               /\ page' = [page EXCEPT !.items = flight[s].rows[1].id, !.query = flight[s].id, !.loading = FALSE]
      <3>1. flight[s].rows[1].id = flight[s].id /\ flight[s].id \in Nat
        BY <2>3, AnswerOK
      <3>2. /\ page' \in SearchType /\ ~page'.loading /\ page'.asked = page.asked
            /\ page'.items = flight[s].id /\ page'.query = flight[s].id
        BY <1>1, <2>3, <3>1 DEF SearchType
      <3> QED
        BY <1>1, <2>1, <2>2, <3>2 DEF SearchInv, SearchBusy, Quiet
    <2>4. CASE page' = [page EXCEPT !.error = TRUE, !.loading = FALSE]
      <3>1. /\ page' \in SearchType /\ ~page'.loading /\ page'.error
            /\ page'.items = page.items /\ page'.query = page.query
        BY <1>1, <2>4 DEF SearchType
      <3> QED
        BY <1>1, <2>2, <3>1 DEF SearchInv, SearchBusy, Quiet
    <2> QED
      BY <1>4, <2>3, <2>4 DEF Found
  <1> QED
    BY <1>2, <1>3, <1>4 DEF SearchNext, ChangePage

LEMMA SearchHandle ==
  ASSUME FlightsOK, SearchInv, NEW s \in Slots, Handle(s)
  PROVE  SearchInv'
  <1>1. OneInFlight
    BY DEF SearchInv
  <1> QED
    BY <1>1, SameInFlight DEF SearchInv, SearchBusy

LEMMA SearchElsewhere ==
  ASSUME FlightsOK, SearchInv, Elsewhere
  PROVE  SearchInv'
  BY ElsewhereOK DEF SearchInv, SearchBusy, OneInFlight, InFlight

-----------------------------------------------------------------------------
(* Assistant *)

LEMMA OneMore ==
  ASSUME NEW said \in Seq(Message), NEW message \in Message
  PROVE  /\ Append(said, message) \in Seq(Message) /\ Len(Append(said, message)) = Len(said) + 1
         /\ Append(said, message) # <<>>
         /\ Append(said, message)[Len(Append(said, message))] = message
         /\ DOMAIN Append(said, message) = 1..(Len(said) + 1)
         /\ \A i \in DOMAIN said :
              Append(said, message)[i] = said[i] /\ i \in DOMAIN Append(said, message)
  <1>1. /\ Append(said, message) \in Seq(Message) /\ Len(Append(said, message)) = Len(said) + 1
        /\ Append(said, message)[Len(said) + 1] = message
        /\ \A i \in 1..Len(said) : Append(said, message)[i] = said[i]
        /\ Len(said) \in Nat /\ DOMAIN said = 1..Len(said)
    OBVIOUS
  <1> DEFINE new == Append(said, message)
  <1>2. \A seq \in Seq(Message) : DOMAIN seq = 1..Len(seq) /\ (Len(seq) # 0 => seq # <<>>)
    OBVIOUS
  <1> HIDE DEF new
  <1>3. DOMAIN new = 1..(Len(said) + 1) /\ new # <<>>
    BY <1>1, <1>2 DEF new
  <1> QED
    BY <1>1, <1>3 DEF new

LEMMA ChatStep ==
  ASSUME FlightsOK, ChatInv, NEW s \in Slots, ChatNext(s)
  PROVE  FlightsOK' /\ ChatInv' /\ UNCHANGED open
  <1>1. /\ page \in ChatType /\ OneInFlight
        /\ \A t \in Slots : flight[t] # Free =>
             /\ flight[t].op = "ask" /\ page.sending
             /\ page.messages # <<>>
             /\ page.messages[Len(page.messages)] = [role |-> "user", id |-> flight[t].id]
        /\ ChatBusy /\ ChatAgrees
    BY DEF ChatInv
  <1> DEFINE said == page.messages
  <1>2. said \in Seq(Message)
    BY <1>1 DEF ChatType
  <1>3. CASE SendMessage(s)
    <2> DEFINE id == page.asked + 1
    <2> DEFINE message == [role |-> "user", id |-> id]
    <2>1. Quiet /\ id \in Nat /\ message \in Message
      <3>1. page.asked \in Nat /\ ~page.sending
        BY <1>1, <1>3 DEF SendMessage, MaySend, ChatType
      <3>2. Quiet
        BY <1>1, <3>1 DEF Quiet
      <3> QED
        BY <3>1, <3>2 DEF Message
    <2>2. /\ FlightsOK' /\ OneInFlight' /\ InFlight("ask")' /\ UNCHANGED open
          /\ \A t \in Slots : flight'[t] # Free => flight'[t].op = "ask" /\ flight'[t].id = id
      BY <1>3, <2>1, FirstInFlight DEF SendMessage, Operation
    <2> DEFINE new == Append(said, message)
    <2>3. /\ new \in Seq(Message) /\ Len(new) = Len(said) + 1 /\ new # <<>>
          /\ new[Len(new)] = message
          /\ DOMAIN new = 1..(Len(said) + 1)
          /\ \A i \in DOMAIN said : new[i] = said[i] /\ i \in DOMAIN new
      BY <1>2, <2>1, OneMore
    <2> HIDE DEF new
    <2>4. page' \in ChatType /\ page'.messages = new /\ page'.sending
      BY <1>1, <1>3, <2>1, <2>3 DEF SendMessage, ChatType, new
    <2>5. ChatAgrees'
      <3> SUFFICES ASSUME NEW i \in DOMAIN new, new[i].role = "assistant"
                   PROVE  i > 1 /\ new[i - 1] = [role |-> "user", id |-> new[i].id]
        BY <2>4 DEF ChatAgrees
      <3>1. i # Len(said) + 1
        BY <2>3
      <3>2. i \in DOMAIN said
        BY <1>2, <2>3, <3>1
      <3>3. said[i].role = "assistant" /\ new[i] = said[i]
        BY <2>3, <3>2
      <3>4. i > 1 /\ said[i - 1] = [role |-> "user", id |-> said[i].id]
        BY <1>1, <3>2, <3>3 DEF ChatAgrees
      <3>5. i - 1 \in DOMAIN said
        BY <1>2, <3>2, <3>4
      <3> QED
        BY <2>3, <3>3, <3>4, <3>5
    <2> QED
      BY <2>2, <2>3, <2>4, <2>5 DEF ChatInv, ChatBusy
  <1>4. CASE MessageAnswered(s)
    <2>1. flight[s] # Free /\ Settle(s)
      BY <1>4, AnswerOK DEF MessageAnswered
    <2>2. FlightsOK' /\ OneInFlight' /\ Quiet' /\ UNCHANGED open
      BY <1>1, <2>1, LastInFlight
    <2>3. CASE /\ Answered(s, "ask")
               /\ page' = [page EXCEPT !.sending = FALSE,
                             !.messages = Append(page.messages, [role |-> "assistant", id |-> flight[s].rows[1].id])]
      <3> DEFINE id == flight[s].id
      <3> DEFINE message == [role |-> "assistant", id |-> id]
      <3>1. flight[s].rows[1].id = id /\ id \in Nat /\ message \in Message
        BY <2>3, AnswerOK DEF Message
      <3> DEFINE new == Append(said, message)
      <3>2. /\ new \in Seq(Message) /\ Len(new) = Len(said) + 1 /\ new # <<>>
            /\ new[Len(new)] = message
            /\ DOMAIN new = 1..(Len(said) + 1)
            /\ \A i \in DOMAIN said : new[i] = said[i] /\ i \in DOMAIN new
        BY <1>2, <3>1, OneMore
      <3> HIDE DEF new
      <3>3. page' \in ChatType /\ page'.messages = new /\ ~page'.sending
        BY <1>1, <2>3, <3>1, <3>2 DEF ChatType, new
      <3>4. Len(said) \in DOMAIN said /\ Len(said) >= 1 /\ said[Len(said)] = [role |-> "user", id |-> id]
        BY <1>1, <1>2, <2>1
      <3>5. ChatAgrees'
        <4> SUFFICES ASSUME NEW i \in DOMAIN new, new[i].role = "assistant"
                     PROVE  i > 1 /\ new[i - 1] = [role |-> "user", id |-> new[i].id]
          BY <3>3 DEF ChatAgrees
        <4>1. CASE i = Len(said) + 1
          BY <1>2, <3>2, <3>4, <4>1
        <4>2. CASE i # Len(said) + 1
          <5>1. i \in DOMAIN said
            BY <1>2, <3>2, <4>2
          <5>2. said[i].role = "assistant" /\ new[i] = said[i]
            BY <3>2, <5>1
          <5>3. i > 1 /\ said[i - 1] = [role |-> "user", id |-> said[i].id]
            BY <1>1, <5>1, <5>2 DEF ChatAgrees
          <5>4. i - 1 \in DOMAIN said
            BY <1>2, <5>1, <5>3
          <5> QED
            BY <3>2, <5>2, <5>3, <5>4
        <4> QED
          BY <4>1, <4>2
      <3> QED
        BY <2>2, <3>3, <3>5 DEF ChatInv, ChatBusy, Quiet
    <2>4. CASE page' = [page EXCEPT !.sending = FALSE, !.unavailable = TRUE]
               \/ page' = [page EXCEPT !.sending = FALSE, !.error = TRUE]
      <3>1. page' \in ChatType /\ page'.messages = page.messages /\ ~page'.sending
        BY <1>1, <2>4 DEF ChatType
      <3> QED
        BY <1>1, <2>2, <3>1 DEF ChatInv, ChatBusy, ChatAgrees, Quiet
    <2> QED
      BY <1>4, <2>3, <2>4 DEF MessageAnswered
  <1>5. CASE ClearConversation
    <2>1. <<>> \in Seq(Message)
      OBVIOUS
    <2>2. page' \in ChatType /\ page'.messages = <<>> /\ page'.sending = page.sending /\ ~page.sending
      BY <1>1, <1>5, <2>1 DEF ClearConversation, ChatType
    <2>3. UNCHANGED <<open, stored, flight, lapse>>
      BY <1>5 DEF ClearConversation
    <2>4. FlightsOK' /\ OneInFlight'
      BY <1>1, <2>3, LocalOK
    <2>5. ChatAgrees' /\ ChatBusy'
      BY <2>2 DEF ChatAgrees, ChatBusy
    <2>6. \A t \in Slots : flight'[t] = Free
      BY <1>1, <2>2, <2>3
    <2> QED
      BY <2>2, <2>3, <2>4, <2>5, <2>6 DEF ChatInv
  <1> QED
    BY <1>3, <1>4, <1>5 DEF ChatNext

LEMMA ChatHandle ==
  ASSUME FlightsOK, ChatInv, NEW s \in Slots, Handle(s)
  PROVE  ChatInv'
  <1>1. OneInFlight
    BY DEF ChatInv
  <1>2. /\ OneInFlight' /\ page' = page
        /\ \A t \in Slots : flight'[t] # Free =>
             flight[t] # Free /\ flight'[t].op = flight[t].op /\ flight'[t].id = flight[t].id
        /\ \A op : InFlight(op)' <=> InFlight(op)
    BY <1>1, SameInFlight
  <1>3. ChatBusy' /\ ChatAgrees'
    BY <1>2 DEF ChatInv, ChatBusy, ChatAgrees
  <1> QED
    BY <1>2, <1>3 DEF ChatInv

LEMMA ChatElsewhere ==
  ASSUME FlightsOK, ChatInv, Elsewhere
  PROVE  ChatInv'
  BY ElsewhereOK DEF ChatInv, ChatBusy, ChatAgrees, OneInFlight, InFlight

LEMMA DraftStep ==
  ASSUME FlightsOK, DraftInv, NEW s \in Slots, DraftNext(s)
  PROVE  FlightsOK' /\ DraftInv' /\ UNCHANGED open
  <1>1. /\ page \in DraftType /\ OneInFlight
        /\ \A t \in Slots : flight[t] # Free =>
             flight[t].op = "ask" /\ flight[t].id = page.asked /\ page.stage = "loading"
        /\ DraftBusy /\ DraftAgrees
    BY DEF DraftInv
  <1>2. CASE Generate(s)
    <2> DEFINE id == page.asked + 1
    <2>1. Quiet /\ id \in Nat
      BY <1>1, <1>2 DEF Generate, MayGenerate, Quiet, DraftType
    <2>2. /\ FlightsOK' /\ OneInFlight' /\ InFlight("ask")' /\ UNCHANGED open
          /\ \A t \in Slots : flight'[t] # Free => flight'[t].op = "ask" /\ flight'[t].id = id
      BY <1>2, <2>1, FirstInFlight DEF Generate, Operation
    <2>3. page' \in DraftType /\ page'.stage = "loading" /\ page'.asked = id
      BY <1>1, <1>2, <2>1 DEF Generate, DraftType
    <2> QED
      BY <2>2, <2>3 DEF DraftInv, DraftBusy, DraftAgrees
  <1>3. CASE Generated(s)
    <2>1. flight[s] # Free /\ Settle(s)
      BY <1>3, AnswerOK DEF Generated
    <2>2. FlightsOK' /\ OneInFlight' /\ Quiet' /\ UNCHANGED open
      BY <1>1, <2>1, LastInFlight
    <2>3. CASE /\ Answered(s, "ask")
               /\ page' = [page EXCEPT !.stage = "done", !.draft = flight[s].rows[1].id, !.edited = FALSE]
      <3>1. flight[s].rows[1].id = flight[s].id /\ flight[s].id \in Nat
        BY <2>3, AnswerOK
      <3>2. page' \in DraftType /\ page'.stage = "done" /\ page'.draft = flight[s].id /\ page'.asked = page.asked
        BY <1>1, <2>3, <3>1 DEF DraftType
      <3> QED
        BY <1>1, <2>1, <2>2, <3>2 DEF DraftInv, DraftBusy, DraftAgrees, Quiet
    <2>4. CASE page' = [page EXCEPT !.stage = "unavailable", !.draft = 0]
               \/ page' = [page EXCEPT !.stage = "error"]
      <3>1. page' \in DraftType /\ page'.stage \in {"unavailable", "error"}
        <4>1. CASE page' = [page EXCEPT !.stage = "unavailable", !.draft = 0]
          BY <1>1, <4>1 DEF DraftType
        <4>2. CASE page' = [page EXCEPT !.stage = "error"]
          BY <1>1, <4>2 DEF DraftType
        <4> QED
          BY <2>4, <4>1, <4>2
      <3> QED
        BY <2>2, <3>1 DEF DraftInv, DraftBusy, DraftAgrees, Quiet
    <2> QED
      BY <1>3, <2>3, <2>4 DEF Generated
  <1>4. CASE EditDraft
    <2>1. UNCHANGED <<open, stored, flight, lapse>> /\ page.stage = "done"
      BY <1>4 DEF EditDraft
    <2>2. FlightsOK' /\ OneInFlight'
      BY <1>1, <2>1, LocalOK
    <2>3. page' \in DraftType /\ page'.stage # "loading" /\ (page'.stage = "done" => page'.edited)
      <3>1. CASE page' = [page EXCEPT !.edited = TRUE]
        BY <1>1, <2>1, <3>1 DEF DraftType
      <3>2. CASE page' = [page EXCEPT !.stage = "idle", !.draft = 0]
        BY <1>1, <3>2 DEF DraftType
      <3> QED
        BY <1>4, <3>1, <3>2 DEF EditDraft
    <2> QED
      BY <1>1, <2>1, <2>2, <2>3 DEF DraftInv, DraftBusy, DraftAgrees
  <1> QED
    BY <1>2, <1>3, <1>4 DEF DraftNext

LEMMA DraftHandle ==
  ASSUME FlightsOK, DraftInv, NEW s \in Slots, Handle(s)
  PROVE  DraftInv'
  <1>1. OneInFlight
    BY DEF DraftInv
  <1> QED
    BY <1>1, SameInFlight DEF DraftInv, DraftBusy, DraftAgrees

LEMMA DraftElsewhere ==
  ASSUME FlightsOK, DraftInv, Elsewhere
  PROVE  DraftInv'
  BY ElsewhereOK DEF DraftInv, DraftBusy, DraftAgrees, OneInFlight, InFlight

-----------------------------------------------------------------------------
(* Bell *)

LEMMA SameRows ==
  ASSUME NEW rows \in Seq(Row), NEW others \in Seq(Row), Len(rows) = Len(others),
         \A i \in 1..Len(rows) : rows[i].id = others[i].id /\ rows[i].mark = others[i].mark
  PROVE  rows = others
  <1>1. \A i \in 1..Len(rows) : rows[i] = others[i]
    <2> TAKE i \in 1..Len(rows)
    <2>1. rows[i] \in Row /\ others[i] \in Row
      OBVIOUS
    <2>2. \A row, other \in Row : row.id = other.id /\ row.mark = other.mark => row = other
      BY DEF Row
    <2> QED
      BY <2>1, <2>2
  <1> QED
    BY <1>1

\* The API's page has the first rows, and any of them as it is stored.
LEMMA FirstRows ==
  ASSUME NEW rows \in Seq(Row)
  PROVE  /\ FirstPage(rows) \in Seq(Row)
         /\ Len(FirstPage(rows)) = IF Len(rows) <= PageLimit THEN Len(rows) ELSE PageLimit
         /\ \A i \in 1..Len(FirstPage(rows)) : i \in 1..Len(rows) /\ FirstPage(rows)[i] = rows[i]
  <1>1. CASE Len(rows) <= PageLimit
    BY <1>1 DEF FirstPage
  <1>2. CASE ~(Len(rows) <= PageLimit)
    <2>1. FirstPage(rows) = SubSeq(rows, 1, PageLimit)
      BY <1>2 DEF FirstPage
    <2>2. PageLimit \in Nat /\ PageLimit < Len(rows)
      BY <1>2, PageLimitAssumption
    <2>3. /\ SubSeq(rows, 1, PageLimit) \in Seq(Row) /\ Len(SubSeq(rows, 1, PageLimit)) = PageLimit
          /\ \A i \in 1..PageLimit : SubSeq(rows, 1, PageLimit)[i] = rows[i]
      BY <2>2
    <2> QED
      BY <1>2, <2>1, <2>2, <2>3
  <1> QED
    BY <1>1, <1>2

LEMMA FirstOfChanged ==
  ASSUME NEW rows \in Seq(Row), NEW others \in Seq(Row), Len(rows) = Len(others)
  PROVE  /\ Len(FirstPage(others)) = Len(FirstPage(rows))
         /\ \A i \in 1..Len(FirstPage(rows)) : FirstPage(others)[i] = others[i] /\ FirstPage(rows)[i] = rows[i]
  <1>1. /\ Len(FirstPage(rows)) = IF Len(rows) <= PageLimit THEN Len(rows) ELSE PageLimit
        /\ \A i \in 1..Len(FirstPage(rows)) : FirstPage(rows)[i] = rows[i]
    BY FirstRows
  <1>2. /\ Len(FirstPage(others)) = IF Len(others) <= PageLimit THEN Len(others) ELSE PageLimit
        /\ \A i \in 1..Len(FirstPage(others)) : FirstPage(others)[i] = others[i]
    BY FirstRows
  <1>3. Len(FirstPage(others)) = Len(FirstPage(rows))
    BY <1>1, <1>2
  <1> QED
    BY <1>1, <1>2, <1>3

LEMMA FirstOfMarked ==
  ASSUME NEW rows \in Seq(Row), NEW id, NEW mark \in BOOLEAN
  PROVE  /\ FirstPage(Marked(rows, id, mark)) = Marked(FirstPage(rows), id, mark)
         /\ FirstPage(AllMarked(rows)) = AllMarked(FirstPage(rows))
  <1> DEFINE first == FirstPage(rows)
             marked == Marked(rows, id, mark)
             all == AllMarked(rows)
  <1>1. /\ marked \in Seq(Row) /\ Len(marked) = Len(rows)
        /\ \A i \in DOMAIN rows : /\ marked[i].id = rows[i].id
                                  /\ marked[i].mark = IF rows[i].id = id THEN mark ELSE rows[i].mark
    BY MarkedRows
  <1>2. /\ all \in Seq(Row) /\ Len(all) = Len(rows)
        /\ \A i \in DOMAIN rows : all[i].id = rows[i].id /\ all[i].mark
    BY AllMarkedRows
  <1>3. /\ first \in Seq(Row)
        /\ \A i \in 1..Len(first) : i \in 1..Len(rows) /\ first[i] = rows[i]
    BY FirstRows
  <1>4. FirstPage(marked) \in Seq(Row) /\ FirstPage(all) \in Seq(Row)
    BY <1>1, <1>2, FirstRows
  <1> HIDE DEF marked, all
  <1>5. Len(FirstPage(marked)) = Len(first) /\ \A i \in 1..Len(first) : FirstPage(marked)[i] = marked[i]
    BY <1>1, FirstOfChanged
  <1>6. Len(FirstPage(all)) = Len(first) /\ \A i \in 1..Len(first) : FirstPage(all)[i] = all[i]
    BY <1>2, FirstOfChanged
  <1> HIDE DEF first
  <1>7. /\ Marked(first, id, mark) \in Seq(Row) /\ Len(Marked(first, id, mark)) = Len(first)
        /\ \A i \in DOMAIN first :
             /\ Marked(first, id, mark)[i].id = first[i].id
             /\ Marked(first, id, mark)[i].mark = IF first[i].id = id THEN mark ELSE first[i].mark
    BY <1>3, MarkedRows
  <1>8. /\ AllMarked(first) \in Seq(Row) /\ Len(AllMarked(first)) = Len(first)
        /\ \A i \in DOMAIN first : AllMarked(first)[i].id = first[i].id /\ AllMarked(first)[i].mark
    BY <1>3, AllMarkedRows
  <1>9. DOMAIN first = 1..Len(first) /\ DOMAIN rows = 1..Len(rows)
    BY <1>3
  <1>10. ASSUME NEW i \in 1..Len(first)
         PROVE  /\ FirstPage(marked)[i].id = Marked(first, id, mark)[i].id
                /\ FirstPage(marked)[i].mark = Marked(first, id, mark)[i].mark
    <2>1. i \in DOMAIN first /\ i \in DOMAIN rows /\ first[i] = rows[i] /\ FirstPage(marked)[i] = marked[i]
      BY <1>3, <1>5, <1>9
    <2> QED
      BY <1>1, <1>7, <2>1
  <1>11. FirstPage(marked) = Marked(first, id, mark)
    BY <1>4, <1>5, <1>7, <1>10, SameRows
  <1>12. ASSUME NEW i \in 1..Len(first)
         PROVE  /\ FirstPage(all)[i].id = AllMarked(first)[i].id
                /\ FirstPage(all)[i].mark = AllMarked(first)[i].mark
    <2>1. i \in DOMAIN first /\ i \in DOMAIN rows /\ first[i] = rows[i] /\ FirstPage(all)[i] = all[i]
      BY <1>3, <1>6, <1>9
    <2>2. all[i].id = AllMarked(first)[i].id /\ all[i].mark /\ AllMarked(first)[i].mark
      BY <1>2, <1>8, <2>1
    <2>3. all[i] \in Row /\ AllMarked(first)[i] \in Row
      BY <1>2, <1>8, <1>9, <2>1
    <2>4. \A row, other \in Row : row.mark /\ other.mark => row.mark = other.mark
      BY DEF Row
    <2> QED
      BY <2>1, <2>2, <2>3, <2>4
  <1>13. FirstPage(all) = AllMarked(first)
    BY <1>4, <1>6, <1>8, <1>12, SameRows
  <1> QED
    BY <1>11, <1>13 DEF first, marked, all

LEMMA UnreadRows ==
  ASSUME NEW rows \in Seq(Row)
  PROVE  IsFiniteSet({i \in DOMAIN rows : ~rows[i].mark}) /\ Unread(rows) \in Nat
  <1>1. IsFiniteSet(1..Len(rows))
    BY FS_Interval
  <1>2. {i \in DOMAIN rows : ~rows[i].mark} \subseteq 1..Len(rows)
    OBVIOUS
  <1>3. IsFiniteSet({i \in DOMAIN rows : ~rows[i].mark})
    BY <1>1, <1>2, FS_Subset
  <1> QED
    BY <1>3, FS_CardinalityType DEF Unread

LEMMA AllRead ==
  ASSUME NEW rows \in Seq(Row)
  PROVE  Unread(AllMarked(rows)) = 0
  <1>1. /\ AllMarked(rows) \in Seq(Row) /\ Len(AllMarked(rows)) = Len(rows)
        /\ \A i \in DOMAIN rows : AllMarked(rows)[i].mark
    BY AllMarkedRows
  <1>2. DOMAIN AllMarked(rows) = DOMAIN rows
    BY <1>1
  <1>3. {i \in DOMAIN AllMarked(rows) : ~AllMarked(rows)[i].mark} = {}
    BY <1>1, <1>2
  <1> QED
    BY <1>3, FS_EmptySet DEF Unread

\* Reading one of rows with different ids leaves one less to read.
LEMMA OneRead ==
  ASSUME NEW rows \in Seq(Row), NEW k \in DOMAIN rows, ~rows[k].mark,
         \A i, j \in DOMAIN rows : rows[i].id = rows[j].id => i = j
  PROVE  /\ Unread(rows) # 0
         /\ Unread(Marked(rows, rows[k].id, TRUE)) = Unread(rows) - 1
  <1> DEFINE marked == Marked(rows, rows[k].id, TRUE)
             unread == {i \in DOMAIN rows : ~rows[i].mark}
  <1>0. ASSUME NEW id
        PROVE  /\ Marked(rows, id, TRUE) \in Seq(Row) /\ Len(Marked(rows, id, TRUE)) = Len(rows)
               /\ \A i \in DOMAIN rows :
                    /\ rows[i].id = id => Marked(rows, id, TRUE)[i].mark
                    /\ rows[i].id # id => Marked(rows, id, TRUE)[i].mark = rows[i].mark
    <2>1. PICK mark \in BOOLEAN : mark = TRUE
      OBVIOUS
    <2>2. /\ Marked(rows, id, mark) \in Seq(Row) /\ Len(Marked(rows, id, mark)) = Len(rows)
          /\ \A i \in DOMAIN rows :
               Marked(rows, id, mark)[i].mark = IF rows[i].id = id THEN mark ELSE rows[i].mark
      BY MarkedRows
    <2>3. Marked(rows, id, TRUE) = Marked(rows, id, mark)
      BY <2>1
    <2>4. \A i \in DOMAIN rows :
            /\ rows[i].id = id => Marked(rows, id, mark)[i].mark
            /\ rows[i].id # id => Marked(rows, id, mark)[i].mark = rows[i].mark
      BY <2>1, <2>2
    <2> HIDE <2>1
    <2> QED
      BY <2>2, <2>3, <2>4
  <1>1. /\ marked \in Seq(Row) /\ Len(marked) = Len(rows)
        /\ \A i \in DOMAIN rows : /\ rows[i].id = rows[k].id => marked[i].mark
                                  /\ rows[i].id # rows[k].id => marked[i].mark = rows[i].mark
    BY <1>0
  <1> HIDE DEF marked
  <1>2. DOMAIN marked = DOMAIN rows
    BY <1>1
  <1>3. {i \in DOMAIN marked : ~marked[i].mark} = unread \ {k}
    BY <1>1, <1>2
  <1>4. IsFiniteSet(unread) /\ k \in unread /\ Cardinality(unread) \in Nat
    BY UnreadRows DEF Unread
  <1>5. Cardinality(unread \ {k}) = Cardinality(unread) - 1
    BY <1>4, FS_RemoveElement
  <1>6. Cardinality(unread) # 0
    BY <1>4, FS_EmptySet
  <1> QED
    BY <1>3, <1>5, <1>6 DEF Unread, marked

\* The page has the panel loaded.
LEMMA BellLoads ==
  ASSUME FlightsOK, BellInv, NEW s \in Slots, Place(s, Load), UNCHANGED <<open, stored>>,
         page' \in BellType
  PROVE  FlightsOK' /\ BellInv' /\ UNCHANGED open
  <1>1. /\ FlightsOK' /\ ~Quiet' /\ InFlight("load")' /\ UNCHANGED <<open, stored>>
        /\ flight'[s] = Request("load", 0, FALSE)
        /\ \A t \in Slots \ {s} : flight'[t] = flight[t]
        /\ ~lapse' => \A t \in Slots \ {s} : flight[t] = Free
    BY PlaceOK, LoadIs
  <1>2. flight'[s].op = "load"
    BY <1>1 DEF Request
  <1>3. ASSUME NEW t \in Slots PROVE BellFlight(t)'
    <2>1. CASE t = s
      BY <1>2, <2>1 DEF BellFlight
    <2>2. CASE t # s
      BY <1>1, <2>2 DEF BellFlight, Free
    <2> QED
      BY <2>1, <2>2
  <1> QED
    BY <1>1, <1>3 DEF BellInv, BellBusy, BellAgrees

\* The user reads, and the panel shows it.
LEMMA BellReads ==
  ASSUME FlightsOK, BellInv, NEW s \in Slots,
         NEW op \in {"mark", "markAll"}, NEW id \in Nat, Send(s, Request(op, id, TRUE)),
         page' \in BellType, page'.loading = page.loading,
         page'.error = page.error, page'.loaded = page.loaded,
         page.rows = FirstPage(stored) /\ page.count = Unread(page.rows) =>
           /\ page'.rows = FirstPage(IF op = "mark" THEN Marked(stored, id, TRUE) ELSE AllMarked(stored))
           /\ page'.count = Unread(page'.rows)
  PROVE  FlightsOK' /\ BellInv' /\ UNCHANGED open
  <1>1. op \in Operation \ {"none"}
    BY DEF Operation
  <1>2. /\ FlightsOK' /\ ~Quiet' /\ UNCHANGED <<open, stored>>
        /\ flight'[s] = Request(op, id, TRUE)
        /\ \A t \in Slots \ {s} : flight'[t] = flight[t]
        /\ ~lapse' => Quiet
        /\ op # "load" /\ ~lapse' => ~lapse
        /\ \A other \in Operation \ {"none"} : InFlight(other) => InFlight(other)'
    BY <1>1, SendOK
  <1>3. BellBusy'
    BY <1>2 DEF BellInv, BellBusy, Operation
  <1>4. ASSUME NEW t \in Slots PROVE BellFlight(t)'
    <2>1. CASE t = s
      <3>1. flight'[t].op = op /\ flight'[t].id = id /\ flight'[t].mark = TRUE /\ flight'[t].state = "waiting"
        BY <1>2, <2>1 DEF Request
      <3>2. ASSUME ~lapse', ~page'.error, page'.loaded
            PROVE  page'.rows = FirstPage(After(flight[t])') /\ page'.count = Unread(page'.rows)
        <4>1. Quiet /\ ~lapse /\ ~page.error /\ page.loaded
          BY <1>2, <3>2
        <4>2. page.rows = FirstPage(stored) /\ page.count = Unread(page.rows)
          BY <4>1 DEF BellInv, BellAgrees, Shows
        <4>3. After(flight[t])' = IF op = "mark" THEN Marked(stored, id, TRUE) ELSE AllMarked(stored)
          BY <1>2, <3>1 DEF After
        <4> QED
          BY <4>2, <4>3
      <3> QED
        BY <3>1, <3>2 DEF BellFlight, Shows
    <2>2. CASE t # s
      BY <1>2, <2>2 DEF BellFlight, Quiet, Free
    <2> QED
      BY <2>1, <2>2
  <1> QED
    BY <1>2, <1>3, <1>4 DEF BellInv, BellAgrees

\* The page takes an answer.
LEMMA BellTakes ==
  ASSUME FlightsOK, BellInv, NEW s \in Slots,
         NEW op \in {"count", "load", "mark", "markAll"}, flight[s].op = op, Settle(s),
         page' \in BellType,
         page'.loading => page.loading /\ op # "load",
         ~lapse /\ ~page'.error /\ page'.loaded =>
           page'.rows = FirstPage(stored) /\ page'.count = Unread(page'.rows)
  PROVE  FlightsOK' /\ BellInv' /\ UNCHANGED open
  <1>1. flight[s] # Free
    BY DEF Free
  <1>2. /\ FlightsOK' /\ UNCHANGED <<open, stored, lapse>>
        /\ ~lapse => Quiet'
        /\ \A other : InFlight(other) /\ flight[s].op # other => InFlight(other)'
    BY <1>1, SettleOK
  <1>3. BellBusy'
    BY <1>2 DEF BellInv, BellBusy
  <1>4. \A t \in Slots : BellFlight(t)'
    BY <1>2 DEF BellFlight, Quiet, Free
  <1>5. BellAgrees'
    BY <1>2 DEF BellAgrees, Shows
  <1> QED
    BY <1>2, <1>3, <1>4, <1>5 DEF BellInv

\* The rows of the first page have different ids.
LEMMA FirstIds ==
  ASSUME FlightsOK, open = "bell"
  PROVE  /\ FirstPage(stored) \in Seq(Row)
         /\ \A i, j \in DOMAIN FirstPage(stored) :
              FirstPage(stored)[i].id = FirstPage(stored)[j].id => i = j
  <1>1. stored \in Seq(Row) /\ Numbered
    BY DEF FlightsOK
  <1>2. /\ FirstPage(stored) \in Seq(Row)
        /\ \A i \in 1..Len(FirstPage(stored)) : i \in 1..Len(stored) /\ FirstPage(stored)[i] = stored[i]
    BY <1>1, FirstRows
  <1>3. /\ DOMAIN FirstPage(stored) = 1..Len(FirstPage(stored)) /\ DOMAIN stored = 1..Len(stored)
        /\ Len(stored) \in Nat
    BY <1>1, <1>2
  <1>4. \A i \in DOMAIN FirstPage(stored) : FirstPage(stored)[i].id = Len(stored) + 1 - i /\ i \in Nat
    BY <1>1, <1>2, <1>3 DEF Numbered
  <1> QED
    BY <1>2, <1>3, <1>4

LEMMA BellStep ==
  ASSUME FlightsOK, BellInv, NEW s \in Slots, BellNext(s)
  PROVE  FlightsOK' /\ BellInv' /\ UNCHANGED open
  <1>1. /\ page \in BellType /\ BellFlight(s) /\ flight[s].rows \in Seq(Row) /\ stored \in Seq(Row)
    BY AnswerOK DEF BellInv, FlightsOK
  <1>2. CASE Counted(s)
    <2>1. flight[s].op = "count" /\ Settle(s) /\ (~lapse => ~page.loaded)
      BY <1>1, <1>2 DEF Counted, Answered, Failed, BellFlight
    <2>2. page' \in BellType /\ page'.loaded = page.loaded /\ page'.loading = page.loading
      <3>1. CASE page' = [page EXCEPT !.count = Unread(flight[s].rows)]
        <4>1. Unread(flight[s].rows) \in Nat
          BY <1>1, UnreadRows
        <4> QED
          BY <1>1, <3>1, <4>1 DEF BellType
      <3> QED
        BY <1>1, <1>2, <3>1 DEF Counted
    <2> QED
      BY <2>1, <2>2, BellTakes
  <1>3. CASE TogglePanel(s)
    <2>1. CASE page' = [page EXCEPT !.panel = FALSE] /\ UNCHANGED <<open, stored, flight, lapse>>
      <3>1. /\ page' \in BellType /\ page'.rows = page.rows /\ page'.count = page.count
            /\ page'.loading = page.loading /\ page'.error = page.error /\ page'.loaded = page.loaded
        BY <1>1, <2>1 DEF BellType
      <3>2. FlightsOK' /\ (Quiet' <=> Quiet) /\ \A op : InFlight(op)' <=> InFlight(op)
        BY <2>1, LocalOK
      <3>3. BellBusy' /\ BellAgrees'
        BY <2>1, <3>1, <3>2 DEF BellInv, BellBusy, BellAgrees, Shows
      <3>4. ASSUME NEW t \in Slots PROVE BellFlight(t)'
        <4>1. BellFlight(t) /\ After(flight[t])' = After(flight[t])
          BY <2>1 DEF BellInv, After, Makes
        <4> QED
          BY <2>1, <3>1, <4>1 DEF BellFlight, Shows
      <3> QED
        BY <2>1, <3>1, <3>2, <3>3, <3>4 DEF BellInv
    <2>2. CASE /\ Send(s, Load)
               /\ page' = [page EXCEPT !.panel = TRUE, !.loading = TRUE, !.error = FALSE]
      <3>1. page' \in BellType
        BY <1>1, <2>2 DEF BellType
      <3> QED
        BY <2>2, <3>1, BellLoads DEF Send
    <2> QED
      BY <1>3, <2>1, <2>2 DEF TogglePanel
  <1>4. CASE RetryPanel(s)
    <2>1. page' \in BellType
      BY <1>1, <1>4 DEF RetryPanel, BellType
    <2> QED
      BY <1>4, <2>1, BellLoads DEF RetryPanel, Send
  <1>5. CASE PanelLoaded(s)
    <2> DEFINE rows == FirstPage(flight[s].rows)
    <2>1. rows \in Seq(Row) /\ Unread(rows) \in Nat
      BY <1>1, FirstRows, UnreadRows
    <2>2. Answered(s, "load") /\ ~lapse => rows = FirstPage(stored)
      BY AnswerOK
    <2>3. Settle(s) /\ flight[s].op = "load"
      BY <1>5 DEF PanelLoaded, Answered, Failed
    <2>4. \/ /\ Answered(s, "load")
             /\ page' = [page EXCEPT !.rows = rows, !.count = Unread(rows), !.loading = FALSE, !.loaded = TRUE]
          \/ page' = [page EXCEPT !.error = TRUE, !.loading = FALSE]
      BY <1>5 DEF PanelLoaded
    <2> HIDE DEF rows
    <2>5. /\ page' \in BellType /\ ~page'.loading
          /\ page'.error \/ (Answered(s, "load") /\ page'.rows = rows /\ page'.count = Unread(page'.rows))
      <3>1. CASE page' = [page EXCEPT !.rows = rows, !.count = Unread(rows), !.loading = FALSE, !.loaded = TRUE]
                 /\ Answered(s, "load")
        BY <1>1, <2>1, <3>1 DEF BellType
      <3>2. CASE page' = [page EXCEPT !.error = TRUE, !.loading = FALSE]
        BY <1>1, <3>2 DEF BellType
      <3> QED
        BY <2>4, <3>1, <3>2
    <2> QED
      BY <2>2, <2>3, <2>5, BellTakes
  <1>6. ASSUME NEW i \in 1..MaxRows, ReadOne(s, i)
        PROVE  FlightsOK' /\ BellInv' /\ UNCHANGED open
    <2>1. /\ open = "bell" /\ i \in DOMAIN page.rows /\ ~page.rows[i].mark /\ page.rows \in Seq(Row)
          /\ page.count \in Nat
      BY <1>1, <1>6 DEF ReadOne, MayRead, BellType
    <2>2. PICK id \in Nat : id = page.rows[i].id
      <3>1. page.rows[i] \in Row
        BY <2>1
      <3> QED
        BY <3>1 DEF Row
    <2> DEFINE marked == Marked(page.rows, id, TRUE)
               count == IF page.count = 0 THEN 0 ELSE page.count - 1
    <2>3. marked \in Seq(Row) /\ count \in Nat
      <3>1. TRUE \in BOOLEAN /\ count \in Nat
        BY <2>1
      <3>2. marked \in Seq(Row)
        BY <2>1, <3>1, MarkedRows
      <3> QED
        BY <3>1, <3>2
    <2>4. page' = [page EXCEPT !.rows = marked, !.count = count]
      BY <1>6, <2>2 DEF ReadOne
    <2>5. Send(s, Request("mark", id, TRUE))
      BY <1>6, <2>2 DEF ReadOne
    <2>6. ASSUME page.rows = FirstPage(stored), page.count = Unread(page.rows)
          PROVE  marked = FirstPage(Marked(stored, id, TRUE)) /\ count = Unread(marked)
      <3>1. marked = FirstPage(Marked(stored, id, TRUE))
        BY <1>1, <2>6, FirstOfMarked
      <3>2. \A j, k \in DOMAIN page.rows : page.rows[j].id = page.rows[k].id => j = k
        BY <2>1, <2>6, FirstIds
      <3>3. Unread(page.rows) # 0 /\ Unread(Marked(page.rows, page.rows[i].id, TRUE)) = Unread(page.rows) - 1
        BY <2>1, <3>2, OneRead
      <3> QED
        BY <2>2, <2>6, <3>1, <3>3
    <2> HIDE DEF marked, count
    <2>7. /\ page' \in BellType /\ page'.rows = marked /\ page'.count = count
          /\ page'.loading = page.loading /\ page'.error = page.error /\ page'.loaded = page.loaded
      BY <1>1, <2>3, <2>4 DEF BellType
    <2>8. page.rows = FirstPage(stored) /\ page.count = Unread(page.rows) =>
            /\ page'.rows = FirstPage(IF "mark" = "mark" THEN Marked(stored, id, TRUE) ELSE AllMarked(stored))
            /\ page'.count = Unread(page'.rows)
      BY <2>6, <2>7
    <2> QED
      BY <2>2, <2>5, <2>7, <2>8, BellReads
  <1>7. CASE ReadAll(s)
    <2> DEFINE all == AllMarked(page.rows)
    <2>1. page.rows \in Seq(Row) /\ all \in Seq(Row) /\ Unread(all) = 0
      BY <1>1, AllMarkedRows, AllRead DEF BellType
    <2>2. page.rows = FirstPage(stored) => all = FirstPage(AllMarked(stored))
      BY <1>1, FirstOfMarked
    <2>3. page' = [page EXCEPT !.rows = all, !.count = 0] /\ Send(s, Request("markAll", 0, TRUE))
      BY <1>7 DEF ReadAll
    <2> HIDE DEF all
    <2>4. /\ page' \in BellType /\ page'.rows = all /\ page'.count = 0
          /\ page'.loading = page.loading /\ page'.error = page.error /\ page'.loaded = page.loaded
      BY <1>1, <2>1, <2>3 DEF BellType
    <2>5. page.rows = FirstPage(stored) /\ page.count = Unread(page.rows) =>
            /\ page'.rows = FirstPage(IF "markAll" = "mark" THEN Marked(stored, 0, TRUE) ELSE AllMarked(stored))
            /\ page'.count = Unread(page'.rows)
      BY <2>1, <2>2, <2>4
    <2> QED
      BY <2>3, <2>4, <2>5, BellReads
  <1>8. CASE ReadSettled(s)
    <2>1. ASSUME NEW op \in {"mark", "markAll"}, Answered(s, op), Settle(s), UNCHANGED page
          PROVE  FlightsOK' /\ BellInv' /\ UNCHANGED open
      <3>1. flight[s].op = op
        BY <2>1 DEF Answered
      <3>2. ~lapse /\ ~page'.error /\ page'.loaded =>
              page'.rows = FirstPage(stored) /\ page'.count = Unread(page'.rows)
        BY <1>1, <2>1 DEF BellFlight, Shows, Answered
      <3> QED
        BY <1>1, <2>1, <3>1, <3>2, BellTakes
    <2>2. ASSUME NEW op \in {"mark", "markAll"}, Failed(s, op), Resync(s)
          PROVE  FlightsOK' /\ BellInv' /\ UNCHANGED open
      <3>1. page' \in BellType
        BY <1>1, <2>2 DEF Resync, BellType
      <3> QED
        BY <2>2, <3>1, BellLoads DEF Resync, SendNext
    <2> QED
      BY <1>8, <2>1, <2>2 DEF ReadSettled
  <1> QED
    BY <1>2, <1>3, <1>4, <1>5, <1>6, <1>7, <1>8 DEF BellNext

LEMMA BellHandle ==
  ASSUME FlightsOK, BellInv, NEW s \in Slots, Handle(s)
  PROVE  BellInv'
  <1>1. /\ page' = page /\ ~Quiet' /\ \A op : InFlight(op)' <=> InFlight(op)
        /\ flight[s].state = "waiting" /\ flight'[s].op = flight[s].op
        /\ \A t \in Slots \ {s} : flight'[t] = flight[t] /\ (~lapse' => flight[t] = Free)
        /\ ~lapse' => ~lapse
        /\ flight'[s].state = "answered" => stored' = After(flight[s])
        /\ flight'[s].state \in {"answered", "failed"}
    BY HandleOK DEF Outcome
  <1>2. BellFlight(s)
    BY DEF BellInv
  <1>3. ASSUME ~lapse', ~page.error, page.loaded, flight[s].op \in {"mark", "markAll"},
               flight'[s].state = "answered"
        PROVE  page.rows = FirstPage(stored') /\ page.count = Unread(page.rows)
    BY <1>1, <1>2, <1>3 DEF BellFlight, Shows
  <1>4. BellFlight(s)'
    BY <1>1, <1>2, <1>3 DEF BellFlight, Shows
  <1>5. \A t \in Slots \ {s} : BellFlight(t)'
    BY <1>1 DEF BellFlight, Free
  <1> QED
    BY <1>1, <1>4, <1>5 DEF BellInv, BellBusy, BellAgrees

LEMMA BellElsewhere ==
  ASSUME FlightsOK, BellInv, Elsewhere
  PROVE  BellInv'
  <1>1. page' = page /\ flight' = flight /\ lapse'
    BY ElsewhereOK
  <1> QED
    BY <1>1 DEF BellInv, BellBusy, BellAgrees, BellFlight, InFlight

-----------------------------------------------------------------------------
(* CheckoutPage *)

\* What the panel waits for at the checkout, of CheckoutBusy.
AtCheckout(p) ==
  p.stage = "checkout" => p.script = "loading" \/ (p.window /\ ~p.settled) \/ p.script = "failed"

\* The page sends a request, in place of that for the session or in a free slot.
LEMMA CheckoutSends ==
  ASSUME FlightsOK, CheckoutInv, NEW s \in Slots,
         NEW op \in {"session", "load", "create", "verify"}, NEW id \in Nat, NEW mark \in BOOLEAN,
         Place(s, Request(op, id, mark)), UNCHANGED <<open, stored>>,
         flight[s] = Free \/ (flight[s].op = "session" /\ op = "load"),
         page' \in CheckoutType,
         op \in {"create", "verify"} =>
           page'.rows = page.rows /\ page'.silent = page.silent /\ page'.error = page.error,
         page'.loading => page.loading \/ op \in {"session", "load"},
         page'.stage = "creating-order" => page.stage = "creating-order" \/ op = "create",
         page'.stage = "verifying" => page.stage = "verifying" \/ op = "verify",
         AtCheckout(page')
  PROVE  FlightsOK' /\ CheckoutInv' /\ UNCHANGED open
  <1>1. op \in Operation \ {"none"} /\ flight[s].op \in {"none", "session"}
    BY DEF Operation, Free
  <1>2. /\ FlightsOK' /\ ~Quiet' /\ InFlight(op)'
        /\ flight'[s] = Request(op, id, mark)
        /\ \A t \in Slots \ {s} : flight'[t] = flight[t]
        /\ ~lapse' => \A t \in Slots \ {s} : flight[t] = Free
        /\ op # "load" /\ ~lapse' => ~lapse
        /\ \A other : InFlight(other) /\ flight[s].op # other => InFlight(other)'
    BY <1>1, PlaceOK
  <1>3. CheckoutBusy'
    <2>1. page'.loading => InFlight("session")' \/ InFlight("load")'
      BY <1>1, <1>2 DEF CheckoutInv, CheckoutBusy, Free
    <2>2. page'.stage = "creating-order" => InFlight("create")'
      BY <1>1, <1>2 DEF CheckoutInv, CheckoutBusy
    <2>3. page'.stage = "verifying" => InFlight("verify")'
      BY <1>1, <1>2 DEF CheckoutInv, CheckoutBusy
    <2> QED
      BY <2>1, <2>2, <2>3 DEF CheckoutBusy, AtCheckout, ScriptNeverTold
  <1>4. ASSUME NEW t \in Slots PROVE CheckoutFlight(t)'
    <2>1. CASE t = s
      <3>1. flight'[t].op = op /\ flight'[t].state = "waiting"
        BY <1>2, <2>1 DEF Request
      <3>2. ASSUME ~lapse', op \in {"create", "verify"}
            PROVE  page'.silent \/ page'.error \/ page'.rows = stored'
        <4>1. Quiet /\ ~lapse
          BY <1>2, <3>2 DEF Quiet, Free
        <4> QED
          BY <3>2, <4>1 DEF CheckoutInv, CheckoutAgrees
      <3> QED
        BY <3>1, <3>2 DEF CheckoutFlight, Answered
    <2>2. CASE t # s
      BY <1>2, <2>2 DEF CheckoutFlight, Answered, Free
    <2> QED
      BY <2>1, <2>2
  <1> QED
    BY <1>2, <1>3, <1>4 DEF CheckoutInv, CheckoutAgrees

\* The page takes an answer.
LEMMA CheckoutTakes ==
  ASSUME FlightsOK, CheckoutInv, NEW s \in Slots,
         NEW op \in {"session", "load", "create", "verify"}, flight[s].op = op, Settle(s),
         page' \in CheckoutType,
         ~lapse /\ ~page'.error /\ ~page'.silent => page'.rows = stored,
         page'.loading => page.loading /\ op \notin {"session", "load"},
         page'.stage = "creating-order" => page.stage = "creating-order" /\ op # "create",
         page'.stage = "verifying" => page.stage = "verifying" /\ op # "verify",
         AtCheckout(page')
  PROVE  FlightsOK' /\ CheckoutInv' /\ UNCHANGED open
  <1>1. flight[s] # Free
    BY DEF Free
  <1>2. /\ FlightsOK' /\ UNCHANGED <<open, stored, lapse>>
        /\ ~lapse => Quiet'
        /\ \A other : InFlight(other) /\ flight[s].op # other => InFlight(other)'
    BY <1>1, SettleOK
  <1>3. CheckoutBusy'
    <2>1. page'.loading => InFlight("session")' \/ InFlight("load")'
      BY <1>2 DEF CheckoutInv, CheckoutBusy
    <2>2. page'.stage = "creating-order" => InFlight("create")'
      BY <1>2 DEF CheckoutInv, CheckoutBusy
    <2>3. page'.stage = "verifying" => InFlight("verify")'
      BY <1>2 DEF CheckoutInv, CheckoutBusy
    <2> QED
      BY <2>1, <2>2, <2>3 DEF CheckoutBusy, AtCheckout, ScriptNeverTold
  <1>4. \A t \in Slots : CheckoutFlight(t)'
    BY <1>2 DEF CheckoutFlight, Quiet, Free, Answered
  <1>5. CheckoutAgrees'
    BY <1>2 DEF CheckoutAgrees
  <1> QED
    BY <1>2, <1>3, <1>4, <1>5 DEF CheckoutInv

\* The panel, the script or the window changes.
LEMMA CheckoutChanges ==
  ASSUME FlightsOK, CheckoutInv, UNCHANGED <<open, stored, flight, lapse>>,
         page' \in CheckoutType,
         page'.rows = page.rows, page'.silent = page.silent, page'.error = page.error,
         page'.loading = page.loading,
         page'.stage \in {"creating-order", "verifying"} => page'.stage = page.stage,
         AtCheckout(page')
  PROVE  FlightsOK' /\ CheckoutInv' /\ UNCHANGED open
  <1>1. FlightsOK' /\ (Quiet' <=> Quiet) /\ \A op : InFlight(op)' <=> InFlight(op)
    BY LocalOK
  <1>2. CheckoutBusy'
    BY <1>1 DEF CheckoutInv, CheckoutBusy, AtCheckout, ScriptNeverTold
  <1>3. CheckoutAgrees'
    BY <1>1 DEF CheckoutInv, CheckoutAgrees
  <1>4. \A t \in Slots : CheckoutFlight(t)'
    BY DEF CheckoutInv, CheckoutFlight, Answered
  <1> QED
    BY <1>1, <1>2, <1>3, <1>4 DEF CheckoutInv

LEMMA CheckoutStep ==
  ASSUME FlightsOK, CheckoutInv, NEW s \in Slots, CheckoutNext(s)
  PROVE  FlightsOK' /\ CheckoutInv' /\ UNCHANGED open
  <1>1. /\ page \in CheckoutType /\ AtCheckout(page)
        /\ CheckoutFlight(s) /\ flight[s].rows \in Seq(Row)
    BY AnswerOK DEF CheckoutInv, CheckoutBusy, AtCheckout, ScriptNeverTold
  <1>2. CASE SessionShown(s)
    <2>1. CASE Answered(s, "session") /\ SendNext(s, Load) /\ UNCHANGED page
      BY <1>1, <2>1, CheckoutSends DEF SendNext, Load, Answered
    <2>2. CASE Failed(s, "session") /\ Settle(s) /\ page' = [page EXCEPT !.error = TRUE, !.loading = FALSE]
      <3>1. /\ page' \in CheckoutType /\ page'.error /\ ~page'.loading /\ page'.stage = page.stage
            /\ AtCheckout(page')
        BY <1>1, <2>2 DEF CheckoutType, AtCheckout
      <3> QED
        BY <2>2, <3>1, CheckoutTakes DEF Failed
    <2>3. CASE /\ Answered(s, "load") /\ Settle(s)
               /\ page' = [page EXCEPT !.rows = flight[s].rows, !.loading = FALSE]
      <3>1. /\ page' \in CheckoutType /\ ~page'.loading /\ page'.stage = page.stage
            /\ AtCheckout(page') /\ page'.rows = flight[s].rows
        BY <1>1, <2>3 DEF CheckoutType, AtCheckout
      <3>2. ~lapse => page'.rows = stored
        BY <2>3, <3>1, AnswerOK
      <3> QED
        BY <2>3, <3>1, <3>2, CheckoutTakes DEF Answered
    <2>4. CASE /\ Failed(s, "load") /\ Settle(s)
               /\ page' = [page EXCEPT !.rows = <<>>, !.silent = TRUE, !.loading = FALSE]
      <3>1. /\ page' \in CheckoutType /\ page'.silent /\ ~page'.loading /\ page'.stage = page.stage
            /\ AtCheckout(page')
        <4>1. <<>> \in Seq(Row)
          OBVIOUS
        <4> QED
          BY <1>1, <2>4, <4>1 DEF CheckoutType, AtCheckout
      <3> QED
        BY <2>4, <3>1, CheckoutTakes DEF Failed
    <2> QED
      BY <1>2, <2>1, <2>2, <2>3, <2>4 DEF SessionShown
  <1>3. CASE RetrySession(s)
    <2>1. /\ page' \in CheckoutType /\ page'.stage = page.stage /\ AtCheckout(page')
      BY <1>1, <1>3 DEF RetrySession, CheckoutType, AtCheckout
    <2> QED
      BY <1>3, <2>1, CheckoutSends DEF RetrySession, Send
  <1>4. CASE AcceptTerms
    <2>1. /\ page' \in CheckoutType /\ page'.stage = page.stage /\ AtCheckout(page')
          /\ page'.rows = page.rows /\ page'.silent = page.silent /\ page'.error = page.error
          /\ page'.loading = page.loading
      <3>1. (~page.terms) \in BOOLEAN
        OBVIOUS
      <3> QED
        BY <1>1, <1>4, <3>1 DEF AcceptTerms, CheckoutType, AtCheckout
    <2> QED
      BY <1>4, <2>1, CheckoutChanges DEF AcceptTerms, Locally
  <1>5. CASE Pay(s)
    <2>1. /\ page' \in CheckoutType /\ page'.stage = "creating-order" /\ AtCheckout(page')
          /\ page'.rows = page.rows /\ page'.silent = page.silent /\ page'.error = page.error
          /\ page'.loading = page.loading
      BY <1>1, <1>5 DEF Pay, CheckoutType, AtCheckout
    <2> QED
      BY <1>5, <2>1, CheckoutSends DEF Pay, Send
  <1>6. CASE OrderCreated(s)
    <2>1. CASE /\ Answered(s, "create")
               /\ page' = [page EXCEPT !.stage = "checkout",
                                       !.script = IF page.script = "absent" THEN "loading" ELSE page.script,
                                       !.window = (page.script = "ready"),
                                       !.settled = (page.script # "ready"), !.silent = TRUE]
      <3> DEFINE script == IF page.script = "absent" THEN "loading" ELSE page.script
                 ready == page.script = "ready"
                 other == page.script # "ready"
      <3>1. /\ script \in {"loading", "ready", "failed"} /\ ready \in BOOLEAN /\ other \in BOOLEAN
            /\ script = "ready" => ready /\ ~other
        BY <1>1 DEF CheckoutType
      <3>2. page' = [page EXCEPT !.stage = "checkout", !.script = script, !.window = ready,
                                 !.settled = other, !.silent = TRUE]
        BY <2>1
      <3> HIDE DEF script, ready, other
      <3>3. /\ page' \in CheckoutType /\ page'.stage = "checkout" /\ page'.silent
            /\ page'.loading = page.loading /\ page'.script = script
            /\ page'.window = ready /\ page'.settled = other
        BY <1>1, <3>1, <3>2 DEF CheckoutType
      <3>4. AtCheckout(page')
        BY <3>1, <3>3 DEF AtCheckout
      <3> QED
        BY <1>6, <2>1, <3>3, <3>4, CheckoutTakes DEF OrderCreated, Answered
    <2>2. CASE Failed(s, "create") /\ page' = [page EXCEPT !.stage = "error"]
      <3>1. /\ page' \in CheckoutType /\ page'.stage = "error" /\ AtCheckout(page')
            /\ page'.rows = page.rows /\ page'.silent = page.silent /\ page'.error = page.error
            /\ page'.loading = page.loading
        BY <1>1, <2>2 DEF CheckoutType, AtCheckout
      <3>2. ~lapse /\ ~page'.error /\ ~page'.silent => page'.rows = stored
        BY <1>1, <2>2, <3>1 DEF CheckoutFlight, Failed
      <3> QED
        BY <1>6, <2>2, <3>1, <3>2, CheckoutTakes DEF OrderCreated, Failed
    <2> QED
      BY <1>6, <2>1, <2>2 DEF OrderCreated
  <1>7. CASE ScriptSettled
    <2>1. /\ page' \in CheckoutType /\ page'.stage \in {page.stage, "error"} /\ AtCheckout(page')
          /\ page'.rows = page.rows /\ page'.silent = page.silent /\ page'.error = page.error
          /\ page'.loading = page.loading
      <3>1. CASE page' = [page EXCEPT !.script = "ready", !.window = TRUE, !.settled = FALSE]
        BY <1>1, <3>1 DEF CheckoutType, AtCheckout
      <3>2. CASE page' = [page EXCEPT !.script = "failed", !.stage = "error"]
        BY <1>1, <3>2 DEF CheckoutType, AtCheckout
      <3> QED
        BY <1>7, <3>1, <3>2 DEF ScriptSettled
    <2> QED
      BY <1>7, <2>1, CheckoutChanges DEF ScriptSettled, Locally
  <1>8. CASE WindowFailed \/ WindowDismissed
    <2> DEFINE stage == StageIfNot
    <2>1. stage \in {page.stage, "not-taken"} /\ (stage # "not-taken" => page.settled)
      BY <1>1 DEF CheckoutType, StageIfNot
    <2>2. \/ page' = [page EXCEPT !.stage = stage, !.settled = TRUE]
          \/ page' = [page EXCEPT !.stage = stage, !.settled = TRUE, !.window = FALSE]
      BY <1>8 DEF WindowFailed, WindowDismissed
    <2> HIDE DEF stage
    <2>3. /\ page' \in CheckoutType /\ page'.stage = stage /\ page'.script = page.script
          /\ page'.rows = page.rows /\ page'.silent = page.silent /\ page'.error = page.error
          /\ page'.loading = page.loading
      <3>1. CASE page' = [page EXCEPT !.stage = stage, !.settled = TRUE]
        BY <1>1, <2>1, <3>1 DEF CheckoutType
      <3>2. CASE page' = [page EXCEPT !.stage = stage, !.settled = TRUE, !.window = FALSE]
        BY <1>1, <2>1, <3>2 DEF CheckoutType
      <3> QED
        BY <2>2, <3>1, <3>2
    <2>4. AtCheckout(page')
      BY <1>1, <2>1, <2>3 DEF AtCheckout
    <2> QED
      BY <1>8, <2>1, <2>3, <2>4, CheckoutChanges DEF WindowFailed, WindowDismissed, Locally
  <1>9. CASE WindowPaid(s)
    <2>1. ASSUME NEW captured \in BOOLEAN, Send(s, Request("verify", 1, captured)),
                 page' = [page EXCEPT !.stage = "verifying", !.settled = TRUE, !.window = FALSE, !.taken = TRUE]
          PROVE  FlightsOK' /\ CheckoutInv' /\ UNCHANGED open
      <3>1. /\ page' \in CheckoutType /\ page'.stage = "verifying" /\ AtCheckout(page')
            /\ page'.rows = page.rows /\ page'.silent = page.silent /\ page'.error = page.error
            /\ page'.loading = page.loading
        BY <1>1, <2>1 DEF CheckoutType, AtCheckout
      <3> QED
        BY <2>1, <3>1, CheckoutSends DEF Send
    <2>2. CASE page.settled /\ page' = [page EXCEPT !.window = FALSE, !.taken = TRUE] /\ Locally
      <3>1. /\ page' \in CheckoutType /\ page'.stage = page.stage /\ AtCheckout(page')
            /\ page'.rows = page.rows /\ page'.silent = page.silent /\ page'.error = page.error
            /\ page'.loading = page.loading
        BY <1>1, <2>2 DEF CheckoutType, AtCheckout
      <3> QED
        BY <2>2, <3>1, CheckoutChanges DEF Locally
    <2> QED
      BY <1>9, <2>1, <2>2 DEF WindowPaid
  <1>10. CASE Verified(s)
    <2>1. CASE /\ Answered(s, "verify")
               /\ page' = [page EXCEPT !.rows = flight[s].rows, !.stage = "done", !.silent = FALSE]
      <3>1. /\ page' \in CheckoutType /\ page'.stage = "done" /\ AtCheckout(page')
            /\ page'.rows = flight[s].rows /\ page'.loading = page.loading
        BY <1>1, <2>1 DEF CheckoutType, AtCheckout
      <3>2. ~lapse => page'.rows = stored
        BY <1>1, <2>1, <3>1 DEF CheckoutFlight
      <3> QED
        BY <1>10, <2>1, <3>1, <3>2, CheckoutTakes DEF Verified, Answered
    <2>2. CASE Failed(s, "verify") /\ page' = [page EXCEPT !.stage = "error"]
      <3>1. /\ page' \in CheckoutType /\ page'.stage = "error" /\ AtCheckout(page')
            /\ page'.rows = page.rows /\ page'.silent = page.silent /\ page'.error = page.error
            /\ page'.loading = page.loading
        BY <1>1, <2>2 DEF CheckoutType, AtCheckout
      <3>2. ~lapse /\ ~page'.error /\ ~page'.silent => page'.rows = stored
        BY <1>1, <2>2, <3>1 DEF CheckoutFlight, Failed
      <3> QED
        BY <1>10, <2>2, <3>1, <3>2, CheckoutTakes DEF Verified, Failed
    <2> QED
      BY <1>10, <2>1, <2>2 DEF Verified
  <1> QED
    BY <1>2, <1>3, <1>4, <1>5, <1>6, <1>7, <1>8, <1>9, <1>10 DEF CheckoutNext

LEMMA CheckoutHandle ==
  ASSUME FlightsOK, CheckoutInv, NEW s \in Slots, Handle(s)
  PROVE  CheckoutInv'
  <1>1. /\ page' = page /\ ~Quiet' /\ \A op : InFlight(op)' <=> InFlight(op)
        /\ flight[s] \in Flight /\ flight[s].state = "waiting" /\ flight'[s].op = flight[s].op
        /\ \A t \in Slots \ {s} : flight'[t] = flight[t] /\ (~lapse' => flight[t] = Free)
        /\ ~lapse' => ~lapse
        /\ Outcome(s)
    BY HandleOK
  <1>2. stored \in Seq(Row) /\ CheckoutFlight(s)
    BY DEF CheckoutInv, FlightsOK
  <1>3. ASSUME Answered(s, "verify")'
        PROVE  flight'[s].rows = stored'
    <2>1. flight'[s].rows = Reply(flight[s]) /\ stored' = After(flight[s]) /\ flight[s].op = "verify"
      BY <1>1, <1>3 DEF Outcome, Answered
    <2> QED
      BY <1>1, <1>2, <2>1, ReplyRows
  <1>4. ASSUME ~lapse', flight'[s].op \in {"create", "verify"}, flight'[s].state # "answered"
        PROVE  page.silent \/ page.error \/ page.rows = stored'
    BY <1>1, <1>2, <1>4 DEF CheckoutFlight, Outcome
  <1>5. CheckoutFlight(s)'
    BY <1>1, <1>3, <1>4 DEF CheckoutFlight
  <1>6. \A t \in Slots \ {s} : CheckoutFlight(t)'
    BY <1>1 DEF CheckoutFlight, Answered, Free
  <1> QED
    BY <1>1, <1>5, <1>6 DEF CheckoutInv, CheckoutBusy, ScriptNeverTold, CheckoutAgrees

LEMMA CheckoutElsewhere ==
  ASSUME FlightsOK, CheckoutInv, Elsewhere
  PROVE  CheckoutInv'
  <1>1. page' = page /\ flight' = flight /\ lapse'
    BY ElsewhereOK
  <1> QED
    BY <1>1 DEF CheckoutInv, CheckoutBusy, ScriptNeverTold, CheckoutAgrees, CheckoutFlight, InFlight

-----------------------------------------------------------------------------
(* Every page *)

LEMMA InitFlights ==
  ASSUME BrowserInit
  PROVE  /\ FlightsOK /\ OneInFlight /\ Len(stored) <= 1
         /\ \E s \in Slots : flight[s] = First(open)
         /\ \A t \in Slots : flight[t] \in {First(open), Free}
  <1>1. First(open) \in {Free, Request("count", 0, FALSE), Request("session", 0, FALSE), Load, List}
    BY DEF First
  <1>2. /\ First(open) \in Flight /\ First(open).state \in {"none", "waiting"}
        /\ First(open).op = "none" => First(open) = Free
    <2>1. <<>> \in Seq(Row)
      OBVIOUS
    <2>2. \A op \in {"load", "list", "count", "session"} :
            /\ Request(op, 0, FALSE) \in Flight
            /\ Request(op, 0, FALSE).state = "waiting" /\ Request(op, 0, FALSE).op # "none"
      BY <2>1 DEF Request, Flight, Operation
    <2>3. Free \in Flight /\ Free.state = "none"
      BY <2>1 DEF Free, Flight, Operation
    <2> QED
      BY <1>1, <2>2, <2>3 DEF Load, List
  <1>3. PICK s \in Slots : flight = [t \in Slots |-> IF t = s THEN First(open) ELSE Free]
    BY DEF BrowserInit
  <1>4. Free \in Flight /\ Free.state = "none"
    <2>1. <<>> \in Seq(Row)
      OBVIOUS
    <2> QED
      BY <2>1 DEF Free, Flight, Operation
  <1>5. /\ flight \in [Slots -> Flight] /\ flight[s] = First(open)
        /\ \A t \in Slots : flight[t] \in {First(open), Free}
        /\ \A t \in Slots \ {s} : flight[t] = Free
    BY <1>2, <1>3, <1>4
  <1>6. stored \in Seq(Row) /\ Numbered /\ Len(stored) <= 1
    <2>1. CASE stored = <<>>
      BY <2>1 DEF Numbered
    <2>2. ASSUME NEW mark \in BOOLEAN, stored = <<[id |-> 1, mark |-> mark]>>
          PROVE  stored \in Seq(Row) /\ Numbered /\ Len(stored) <= 1
      <3>1. [id |-> 1, mark |-> mark] \in Row
        BY DEF Row
      <3>2. stored \in Seq(Row) /\ Len(stored) = 1 /\ DOMAIN stored = 1..1 /\ stored[1].id = 1
        BY <2>2, <3>1
      <3> QED
        BY <3>2 DEF Numbered
    <2> QED
      BY <2>1, <2>2 DEF BrowserInit
  <1>7. OneInFlight
    BY <1>5 DEF OneInFlight
  <1>8. \A t \in Slots : FlightOK(t)
    BY <1>2, <1>4, <1>5 DEF FlightOK, Answered
  <1>9. lapse = FALSE
    BY DEF BrowserInit
  <1> QED
    BY <1>5, <1>6, <1>7, <1>8, <1>9 DEF FlightsOK

LEMMA BrowserInitInv == BrowserInit => BrowserInv
  <1> SUFFICES ASSUME BrowserInit
               PROVE  BrowserInv
    OBVIOUS
  <1>1. /\ FlightsOK /\ OneInFlight /\ Len(stored) <= 1 /\ Mounted
        /\ \E s \in Slots : flight[s] = First(open)
        /\ \A t \in Slots : flight[t] \in {First(open), Free}
    BY InitFlights DEF BrowserInit
  <1>2. <<>> \in Seq(Row) /\ <<>> \in Seq(Message)
    OBVIOUS
  <1>3. /\ Free.op = "none" /\ Load.op = "load" /\ Load.state = "waiting" /\ List.op = "list"
        /\ Request("count", 0, FALSE).op = "count" /\ Request("session", 0, FALSE).op = "session"
    BY DEF Free, Load, List, Request
  <1>4. ASSUME First(open) = Load
        PROVE  /\ InFlight("load") /\ ~Quiet
               /\ \A t \in Slots : /\ flight[t].op \in {"none", "load"}
                                   /\ flight[t].op = "load" => flight[t].state = "waiting"
    BY <1>1, <1>3, <1>4 DEF InFlight, Quiet
  <1>5. ASSUME First(open) = Free PROVE Quiet
    BY <1>1, <1>5 DEF Quiet
  <1>6. CASE open = "portfolio"
    <2>1. PICK section \in Section : page = PortfolioPage(section)
      BY <1>1, <1>6 DEF Mounted, ReaderPages
    <2>2. First(open) = List
      BY <1>6 DEF First
    <2>3. InFlight("list") /\ ~Quiet
      BY <1>1, <1>3, <2>2 DEF InFlight, Quiet
    <2>4. PortfolioInv
      BY <2>1, <2>3 DEF PortfolioInv, PortfolioBusy, PortfolioAgrees, PortfolioPage
    <2> QED
      BY <1>1, <1>6, <2>4 DEF BrowserInv, ReaderPages
  <1>7. CASE open = "reports"
    <2>1. PICK admin \in BOOLEAN : page = ReportsBlank(admin)
      BY <1>1, <1>7 DEF Mounted, ReaderPages
    <2>2. First(open) = Load
      BY <1>7 DEF First
    <2>3. page \in ReportsType /\ page.loading /\ ~page.submitting /\ page.updating = 0
      BY <1>2, <2>1 DEF ReportsType, ReportsBlank
    <2>4. \A t \in Slots : ReportsFlight(t)
      BY <1>4, <2>2 DEF ReportsFlight, Answered
    <2>5. ReportsPageInv
      BY <1>4, <2>2, <2>3, <2>4 DEF ReportsPageInv, ReportsPageBusy, ReportsPageAgrees
    <2> QED
      BY <1>1, <1>7, <2>5 DEF BrowserInv, ReaderPages
  <1>8. CASE open = "bell"
    <2>1. page = BellBlank
      BY <1>1, <1>8 DEF Mounted, ReaderPages
    <2>2. page \in BellType /\ ~page.loading /\ ~page.loaded
      BY <1>2, <2>1 DEF BellType, BellBlank
    <2>3. BellInv
      BY <2>2 DEF BellInv, BellFlight, BellBusy, BellAgrees
    <2> QED
      BY <1>1, <1>8, <2>3 DEF BrowserInv, ReaderPages
  <1>9. CASE open = "payments"
    <2>1. page = PaymentsBlank
      BY <1>1, <1>9 DEF Mounted, ReaderPages
    <2>2. First(open) = Load
      BY <1>9 DEF First
    <2>3. PaymentsPageInv
      BY <1>2, <1>4, <2>1, <2>2 DEF PaymentsPageInv, PaymentsPageBusy, PaymentsPageAgrees, PaymentsBlank
    <2> QED
      BY <1>1, <1>9, <2>3 DEF BrowserInv, ReaderPages
  <1>10. CASE open = "account"
    <2>1. page = AccountBlank
      BY <1>1, <1>10 DEF Mounted, ReaderPages
    <2>2. First(open) = Load
      BY <1>10 DEF First
    <2>3. page \in AccountType /\ page.loading /\ ~page.submitting /\ ~page.signingOut
      BY <1>2, <2>1 DEF AccountType, AccountBlank
    <2>4. \A t \in Slots : AccountFlight(t)
      BY <1>4, <2>2 DEF AccountFlight, Answered, Failed
    <2>5. AccountInv
      BY <1>4, <2>2, <2>3, <2>4 DEF AccountInv, AccountBusy, AccountAgrees
    <2> QED
      BY <1>1, <1>10, <2>5 DEF BrowserInv, ReaderPages
  <1>11. CASE open = "editor"
    <2>1. page = EditorBlank
      BY <1>1, <1>11 DEF Mounted, ReaderPages
    <2>2. First(open) = Load
      BY <1>11 DEF First
    <2>3. page \in EditorType /\ page.loading /\ ~page.submitting /\ ~page.initialized
      BY <2>1 DEF EditorType, EditorBlank
    <2>4. \A t \in Slots : EditorFlight(t)
      BY <1>4, <2>2 DEF EditorFlight, Answered
    <2>5. ProfileEditorInv
      BY <1>1, <1>4, <2>2, <2>3, <2>4 DEF ProfileEditorInv, ProfileEditorBusy, ProfileEditorAgrees
    <2> QED
      BY <1>1, <1>11, <2>5 DEF BrowserInv, ReaderPages
  <1>12. CASE open = "search"
    <2>1. page = SearchBlank
      BY <1>1, <1>12 DEF Mounted, ReaderPages
    <2>2. First(open) = Free
      BY <1>12 DEF First
    <2>3. SearchInv
      BY <1>1, <1>5, <2>1, <2>2 DEF SearchInv, SearchType, SearchBusy, SearchBlank, Quiet
    <2> QED
      BY <1>1, <1>12, <2>3 DEF BrowserInv, ReaderPages
  <1>13. CASE open = "rating"
    <2>1. page = RatingBlank
      BY <1>1, <1>13 DEF Mounted, ReaderPages
    <2>2. First(open) = Load
      BY <1>13 DEF First
    <2>3. page \in RatingType /\ page.loading /\ ~page.submitting
      BY <1>2, <2>1 DEF RatingType, RatingBlank
    <2>4. \A t \in Slots : RatingFlight(t)
      BY <1>4, <2>2 DEF RatingFlight, Answered
    <2>5. RatingPanelInv
      BY <1>4, <2>2, <2>3, <2>4 DEF RatingPanelInv, RatingPanelBusy, RatingPanelAgrees
    <2> QED
      BY <1>1, <1>13, <2>5 DEF BrowserInv, ReaderPages
  <1>14. CASE open = "chat"
    <2>1. page = ChatBlank
      BY <1>1, <1>14 DEF Mounted, ReaderPages
    <2>2. First(open) = Free
      BY <1>14 DEF First
    <2>3. ChatInv
      BY <1>1, <1>2, <1>5, <2>1, <2>2 DEF ChatInv, ChatType, ChatBusy, ChatAgrees, ChatBlank, Quiet
    <2> QED
      BY <1>1, <1>14, <2>3 DEF BrowserInv, ReaderPages
  <1>15. CASE open = "draft"
    <2>1. page = DraftBlank
      BY <1>1, <1>15 DEF Mounted, ReaderPages
    <2>2. First(open) = Free
      BY <1>15 DEF First
    <2>3. DraftInv
      BY <1>1, <1>5, <2>1, <2>2 DEF DraftInv, DraftType, DraftBusy, DraftAgrees, DraftBlank, Quiet
    <2> QED
      BY <1>1, <1>15, <2>3 DEF BrowserInv, ReaderPages
  <1>16. CASE open = "session"
    <2>1. page = CheckoutBlank
      BY <1>1, <1>16 DEF Mounted, ReaderPages
    <2>2. First(open) = Request("session", 0, FALSE)
      BY <1>16 DEF First
    <2>3. page \in CheckoutType /\ page.loading /\ page.stage = "idle"
      BY <1>2, <2>1 DEF CheckoutType, CheckoutBlank
    <2>4. InFlight("session") /\ ~Quiet /\ \A t \in Slots : flight[t].op \in {"none", "session"}
      BY <1>1, <1>3, <2>2 DEF InFlight, Quiet
    <2>5. CheckoutInv
      BY <2>3, <2>4 DEF CheckoutInv, CheckoutFlight, CheckoutBusy, CheckoutAgrees, Answered
    <2> QED
      BY <1>1, <1>16, <2>5 DEF BrowserInv, ReaderPages
  <1>17. CASE open \in ReaderPages
    <2>1. page = ReaderBlank
      BY <1>1, <1>17 DEF Mounted, ReaderPages
    <2>2. First(open) = Load
      BY <1>17 DEF First, ReaderPages
    <2>3. ReadersInv
      BY <1>2, <1>4, <2>1, <2>2 DEF ReadersInv, ReadersBusy, ReadersAgree, ReaderBlank
    <2> QED
      BY <1>1, <1>17, <2>3 DEF BrowserInv, ReaderPages
  <1> QED
    BY <1>1, <1>6, <1>7, <1>8, <1>9, <1>10, <1>11, <1>12, <1>13, <1>14, <1>15, <1>16, <1>17 DEF Mounted

\* A handler of a page runs on that page.
LEMMA OnThePage ==
  ASSUME NEW s \in Slots
  PROVE  /\ PortfolioNext(s) => open = "portfolio"
         /\ ReportsPageNext(s) => open = "reports"
         /\ BellNext(s) => open = "bell"
         /\ PaymentsPageNext(s) => open = "payments"
         /\ AccountNext(s) => open = "account"
         /\ ProfileEditorNext(s) => open = "editor"
         /\ SearchNext(s) => open = "search"
         /\ RatingPanelNext(s) => open = "rating"
         /\ ReadersNext(s) => open \in ReaderPages
         /\ ChatNext(s) => open = "chat"
         /\ DraftNext(s) => open = "draft"
         /\ CheckoutNext(s) => open = "session"
  <1>1. PortfolioNext(s) => open = "portfolio"
    BY DEF PortfolioNext, SubmitGoal, SubmitSlot, SubmitCertification, SubmitProject, Submit, FormsShown,
           PortfolioCreated, PortfolioRefused, PortfolioLoaded, RemountPortfolio
  <1>2. ReportsPageNext(s) => open = "reports"
    BY DEF ReportsPageNext, ReportsRetry, MayReloadReports, ReportsLoaded, SubmitReport, MaySubmit,
           ReportSubmitted, ChangeStatus, MayChange, StatusChanged
  <1>3. BellNext(s) => open = "bell"
    BY DEF BellNext, Counted, TogglePanel, RetryPanel, MayReloadPanel, PanelLoaded, ReadOne, MayRead,
           ReadAll, MayReadAll, ReadSettled
  <1>4. PaymentsPageNext(s) => open = "payments"
    BY DEF PaymentsPageNext, PaymentsRetry, MayReloadPayments, PaymentsLoaded, RequestRefund, MayRefund,
           RefundRequested
  <1>5. AccountNext(s) => open = "account"
    BY DEF AccountNext, Refreshed, SignIn, FormReady, SignedIn, SignOut, MaySignOut, SignedOut
  <1>6. ProfileEditorNext(s) => open = "editor"
    BY DEF ProfileEditorNext, EditorLoaded, EditorRetry, MayReloadEditor, Type, Save, Ready, Saved
  <1>7. SearchNext(s) => open = "search"
    BY DEF SearchNext, RunSearch, ChangePage, MaySearch, EmptySearch, Found
  <1>8. RatingPanelNext(s) => open = "rating"
    BY DEF RatingPanelNext, RatingLoaded, SubmitRating, MayRate, RatingSubmitted
  <1>9. ReadersNext(s) => open \in ReaderPages
    BY DEF ReadersNext, RemountDashboard, RetryReader, MayRetry, BadgesLoaded, OwnProfileLoaded, PublicProfileLoaded,
           DashboardLoaded, OverviewLoaded, StatusLoaded, ReaderPages
  <1>10. ChatNext(s) => open = "chat"
    BY DEF ChatNext, SendMessage, MaySend, MessageAnswered, ClearConversation
  <1>11. DraftNext(s) => open = "draft"
    BY DEF DraftNext, Generate, MayGenerate, Generated, EditDraft
  <1>12. CheckoutNext(s) => open = "session"
    BY DEF CheckoutNext, SessionShown, RetrySession, AcceptTerms, Pay, MayPay, PanelOpen, OnSession,
           OrderCreated, ScriptSettled, WindowFailed, WindowDismissed, WindowPaid, Verified
  <1> QED
    BY <1>1, <1>2, <1>3, <1>4, <1>5, <1>6, <1>7, <1>8, <1>9, <1>10, <1>11, <1>12

\* A page keeps its part, and the others' do not matter.
LEMMA PageKeeps ==
  ASSUME BrowserInv, NEW s \in Slots,
         \/ PortfolioNext(s) \/ ReportsPageNext(s) \/ BellNext(s) \/ PaymentsPageNext(s)
         \/ AccountNext(s) \/ ProfileEditorNext(s) \/ SearchNext(s) \/ RatingPanelNext(s)
         \/ ReadersNext(s) \/ ChatNext(s) \/ DraftNext(s) \/ CheckoutNext(s)
  PROVE  BrowserInv'
  <1>1. FlightsOK
    BY DEF BrowserInv
  <1>2. CASE PortfolioNext(s)
    BY <1>1, <1>2, OnThePage, PortfolioStep DEF BrowserInv, ReaderPages
  <1>3. CASE ReportsPageNext(s)
    BY <1>1, <1>3, OnThePage, ReportsPageStep DEF BrowserInv, ReaderPages
  <1>4. CASE BellNext(s)
    BY <1>1, <1>4, OnThePage, BellStep DEF BrowserInv, ReaderPages
  <1>5. CASE PaymentsPageNext(s)
    BY <1>1, <1>5, OnThePage, PaymentsPageStep DEF BrowserInv, ReaderPages
  <1>6. CASE AccountNext(s)
    BY <1>1, <1>6, OnThePage, AccountStep DEF BrowserInv, ReaderPages
  <1>7. CASE ProfileEditorNext(s)
    BY <1>1, <1>7, OnThePage, ProfileEditorStep DEF BrowserInv, ReaderPages
  <1>8. CASE SearchNext(s)
    BY <1>1, <1>8, OnThePage, SearchStep DEF BrowserInv, ReaderPages
  <1>9. CASE RatingPanelNext(s)
    BY <1>1, <1>9, OnThePage, RatingPanelStep DEF BrowserInv, ReaderPages
  <1>10. CASE ReadersNext(s)
    BY <1>1, <1>10, OnThePage, ReadersStep DEF BrowserInv, ReaderPages
  <1>11. CASE ChatNext(s)
    BY <1>1, <1>11, OnThePage, ChatStep DEF BrowserInv, ReaderPages
  <1>12. CASE DraftNext(s)
    BY <1>1, <1>12, OnThePage, DraftStep DEF BrowserInv, ReaderPages
  <1>13. CASE CheckoutNext(s)
    BY <1>1, <1>13, OnThePage, CheckoutStep DEF BrowserInv, ReaderPages
  <1> QED
    BY <1>2, <1>3, <1>4, <1>5, <1>6, <1>7, <1>8, <1>9, <1>10, <1>11, <1>12, <1>13

\* Whatever the API or others do, the page that is open keeps its part.
LEMMA ApiKeeps ==
  ASSUME BrowserInv, (\E s \in Slots : Handle(s)) \/ Elsewhere
  PROVE  BrowserInv'
  <1>1. FlightsOK
    BY DEF BrowserInv
  <1>2. FlightsOK' /\ UNCHANGED open
    BY <1>1, HandleOK, ElsewhereOK
  <1>3. (open = "portfolio" => PortfolioInv) => (open = "portfolio" => PortfolioInv)'
    BY <1>1, <1>2, PortfolioHandle, PortfolioElsewhere
  <1>4. (open = "reports" => ReportsPageInv) => (open = "reports" => ReportsPageInv)'
    BY <1>1, <1>2, ReportsPageHandle, ReportsPageElsewhere
  <1>5. (open = "bell" => BellInv) => (open = "bell" => BellInv)'
    BY <1>1, <1>2, BellHandle, BellElsewhere
  <1>6. (open = "payments" => PaymentsPageInv) => (open = "payments" => PaymentsPageInv)'
    BY <1>1, <1>2, PaymentsPageHandle, PaymentsPageElsewhere
  <1>7. (open = "account" => AccountInv) => (open = "account" => AccountInv)'
    BY <1>1, <1>2, AccountHandle, AccountElsewhere
  <1>8. (open = "editor" => ProfileEditorInv) => (open = "editor" => ProfileEditorInv)'
    BY <1>1, <1>2, ProfileEditorHandle, ProfileEditorElsewhere
  <1>9. (open = "search" => SearchInv) => (open = "search" => SearchInv)'
    BY <1>1, <1>2, SearchHandle, SearchElsewhere
  <1>10. (open = "rating" => RatingPanelInv) => (open = "rating" => RatingPanelInv)'
    BY <1>1, <1>2, RatingPanelHandle, RatingPanelElsewhere
  <1>11. (open \in ReaderPages => ReadersInv) => (open \in ReaderPages => ReadersInv)'
    BY <1>1, <1>2, ReadersHandle, ReadersElsewhere
  <1>12. (open = "chat" => ChatInv) => (open = "chat" => ChatInv)'
    BY <1>1, <1>2, ChatHandle, ChatElsewhere
  <1>13. (open = "draft" => DraftInv) => (open = "draft" => DraftInv)'
    BY <1>1, <1>2, DraftHandle, DraftElsewhere
  <1>14. (open = "session" => CheckoutInv) => (open = "session" => CheckoutInv)'
    BY <1>1, <1>2, CheckoutHandle, CheckoutElsewhere
  <1> QED
    BY <1>2, <1>3, <1>4, <1>5, <1>6, <1>7, <1>8, <1>9, <1>10, <1>11, <1>12, <1>13, <1>14 DEF BrowserInv

LEMMA StutterKeeps ==
  ASSUME BrowserInv, UNCHANGED browserVars
  PROVE  BrowserInv'
  <1>1. /\ UNCHANGED <<open, stored, flight, lapse>>
        /\ page' = page
    BY DEF browserVars
  <1>2. FlightsOK' /\ (Quiet' <=> Quiet) /\ (OneInFlight' <=> OneInFlight) /\ \A op : InFlight(op)' <=> InFlight(op)
    BY <1>1, LocalOK DEF BrowserInv
  <1>3. \A s \in Slots : /\ ReportsFlight(s)' <=> ReportsFlight(s)
                         /\ AccountFlight(s)' <=> AccountFlight(s)
                         /\ EditorFlight(s)' <=> EditorFlight(s)
                         /\ RatingFlight(s)' <=> RatingFlight(s)
                         /\ CheckoutFlight(s)' <=> CheckoutFlight(s)
    BY <1>1 DEF ReportsFlight, AccountFlight, EditorFlight, RatingFlight, CheckoutFlight, Answered, Failed, FormValue
  <1>4. \A s \in Slots : BellFlight(s)' <=> BellFlight(s)
    BY <1>1 DEF BellFlight, Shows, After, Makes
  <1>5. (PortfolioInv' <=> PortfolioInv) /\ (PaymentsPageInv' <=> PaymentsPageInv)
    BY <1>1, <1>2 DEF PortfolioInv, PortfolioBusy, PortfolioAgrees,
                      PaymentsPageInv, PaymentsPageBusy, PaymentsPageAgrees
  <1>6. (ReportsPageInv' <=> ReportsPageInv) /\ (AccountInv' <=> AccountInv)
    BY <1>1, <1>2, <1>3 DEF ReportsPageInv, ReportsPageBusy, ReportsPageAgrees,
                            AccountInv, AccountBusy, AccountAgrees
  <1>7. (ProfileEditorInv' <=> ProfileEditorInv) /\ (RatingPanelInv' <=> RatingPanelInv)
    BY <1>1, <1>2, <1>3 DEF ProfileEditorInv, ProfileEditorBusy, ProfileEditorAgrees,
                            RatingPanelInv, RatingPanelBusy, RatingPanelAgrees
  <1>8. (SearchInv' <=> SearchInv) /\ (ChatInv' <=> ChatInv) /\ (DraftInv' <=> DraftInv)
    BY <1>1, <1>2 DEF SearchInv, SearchBusy, ChatInv, ChatBusy, ChatAgrees, DraftInv, DraftBusy, DraftAgrees
  <1>9. (BellInv' <=> BellInv) /\ (CheckoutInv' <=> CheckoutInv)
    BY <1>1, <1>2, <1>3, <1>4 DEF BellInv, BellBusy, BellAgrees, Shows,
                                  CheckoutInv, CheckoutBusy, ScriptNeverTold, CheckoutAgrees
  <1>10. ReadersInv' <=> ReadersInv
    BY <1>1, <1>2 DEF ReadersInv, ReadersBusy, ReadersAgree, SaysNoProfile, ListSaysEmpty, SaysUnknown
  <1> QED
    BY <1>1, <1>2, <1>5, <1>6, <1>7, <1>8, <1>9, <1>10 DEF BrowserInv

LEMMA InvAgrees ==
  ASSUME BrowserInv
  PROVE  PageAgrees
  <1>1. SearchInv => SearchBusy /\ SearchAgrees
    <2>1. SearchInv /\ Quiet => ~page.loading
      BY DEF SearchInv, SearchBusy, InFlight, Quiet, Free
    <2> QED
      BY <2>1 DEF SearchInv, SearchAgrees
  <1> QED
    BY <1>1 DEF BrowserInv, PageAgrees, PortfolioInv, ReportsPageInv, BellInv, PaymentsPageInv, AccountInv,
                ProfileEditorInv, RatingPanelInv, ReadersInv, ChatInv, DraftInv, CheckoutInv

\* A page that says it is busy waits for a request in flight, or for the provider's script or
\* window, but for the panel of ScriptNeverTold.  Since its last load that was alone in
\* flight, if no request overlapped another, no answer was lost and nobody else wrote, a page
\* with nothing in flight and no error shows what the API has stored, but for the exceptions
\* of PageAgrees.  It says nothing of what two requests leave that overlapped.
THEOREM PagesAgree == BrowserSpec => []PageAgrees
  <1>1. BrowserInit => BrowserInv
    BY BrowserInitInv
  <1>2. BrowserInv /\ [BrowserNext]_browserVars => BrowserInv'
    <2> SUFFICES ASSUME BrowserInv, [BrowserNext]_browserVars
                 PROVE  BrowserInv'
      OBVIOUS
    <2>1. CASE UNCHANGED browserVars
      BY <2>1, StutterKeeps
    <2>2. CASE BrowserNext
      BY <2>2, PageKeeps, ApiKeeps DEF BrowserNext
    <2> QED
      BY <2>1, <2>2
  <1>3. BrowserInv => PageAgrees
    BY InvAgrees
  <1> QED
    BY <1>1, <1>2, <1>3, PTL DEF BrowserSpec
=============================================================================
