--------------------------- MODULE PaymentsProofs ---------------------------
(***************************************************************************)
(* The inductive invariant of Payments and what follows from it, for every *)
(* set of payers, handlers, attempts, refunds and amounts; and then what   *)
(* Payments promises of requests that do not overlap.                      *)
(***************************************************************************)
EXTENDS PaymentsInvariant, TLAPS

\* The step is one the module's promise of the money allows.
PromiseStep == [Promise!Next]_(Promise!promiseVars)

\* What no step of Payments takes back.  A handler that waits at an await relies on
\* this and on nothing else.
Keeps ==
  /\ \A p \in Payers : payment[p].status # "NONE" =>
       payment'[p].status # "NONE" /\ payment'[p].amount = payment[p].amount
  /\ \A p \in Payers : \A i \in DOMAIN ledger[p] :
       /\ i \in DOMAIN ledger'[p]
       /\ ledger'[p][i].type = ledger[p][i].type
       /\ ledger'[p][i].amount = ledger[p][i].amount
       /\ ledger[p][i].status = "COMPLETED" => ledger'[p][i].status = "COMPLETED"
  /\ \A id \in PayIds : attempts[id].status = "captured" =>
       /\ attempts'[id].status = "captured"
       /\ attempts'[id].payer = attempts[id].payer
       /\ attempts'[id].amount = attempts[id].amount
  /\ PromiseStep

\* A price is a positive number.
LEMMA AmountsPositive == \A a \in Amounts : a \in Nat /\ a > 0
  <1> TAKE a \in Amounts
  <1>1. a \in Nat /\ a # 0
    BY ProviderAssumption
  <1> QED
    BY <1>1

\* A step that agrees on no price, books no receipt and returns nothing.
LEMMA NoMoneyMoves ==
  ASSUME \A p \in Payers : /\ payment'[p].amount = payment[p].amount
                           /\ payment'[p].refunded = payment[p].refunded
                           /\ ledger'[p] # <<>> <=> ledger[p] # <<>>
  PROVE  PromiseStep
  BY DEF PromiseStep, Promise!promiseVars

\* The two halves of the invariant: the rows, and the handlers.
RowsOK ==
  /\ ProviderTypeOK
  /\ session \in SessionRow
  /\ payment \in [Payers -> PaymentRow]
  /\ ledger \in [Payers -> Seq(Transaction)]
  /\ published \subseteq EventKey
  /\ session.price \in Amounts \cup {0}
  /\ \A p \in Payers : PaymentOK(p) /\ LedgerOK(p)
  /\ AttemptsOK

\* The invariant is its two halves.
LEMMA Halves ==
  PaymentsInv <=> /\ RowsOK
                  /\ handler \in [Handlers -> Handler]
                  /\ \A h \in Handlers : HandlerOK(h)
  BY DEF PaymentsInv, RowsOK, TypeOK

\* A handler that does not move keeps what it relies on.
LEMMA WaitingHandler ==
  ASSUME RowsOK, RowsOK', Keeps,
         NEW h \in Handlers, HandlerOK(h), handler'[h] = handler[h]
  PROVE  HandlerOK(h)'
  <1> DEFINE p == handler[h].p
  <1>1. handler'[h].p = p /\ handler'[h].pc = handler[h].pc
    OBVIOUS
  <1>2. p \in Payers => (ledger[p] # <<>> => ledger'[p] # <<>>)
    BY DEF RowsOK, Keeps
  <1> QED
    BY <1>1, <1>2 DEF HandlerOK, Keeps, At

\* A step of one handler: it is enough to look at the rows and at that handler.
LEMMA HandlerMoves ==
  ASSUME PaymentsInv, RowsOK', Keeps, NEW h \in Handlers, NEW w \in Handler,
         handler' = [handler EXCEPT ![h] = w], HandlerOK(h)'
  PROVE  PaymentsInv'
  <1>1. handler \in [Handlers -> Handler] /\ RowsOK /\ \A g \in Handlers : HandlerOK(g)
    BY Halves
  <1>2. handler' \in [Handlers -> Handler]
    BY <1>1
  <1>3. ASSUME NEW g \in Handlers PROVE HandlerOK(g)'
    <2>1. CASE g = h
      BY <2>1
    <2>2. CASE g # h
      <3>1. handler'[g] = handler[g]
        BY <1>1, <2>2
      <3> QED
        BY <1>1, <3>1, WaitingHandler
    <2> QED
      BY <2>1, <2>2
  <1> QED
    BY <1>2, <1>3 DEF PaymentsInv, RowsOK, TypeOK

\* The next step of its request: the handler keeps what it has read.
LEMMA HandlerGoesOn ==
  ASSUME PaymentsInv, RowsOK', Keeps, NEW h \in Handlers,
         NEW pc \in {"callOrder", "attach", "attachWrite", "fail", "failWrite",
                     "refundWrite", "callRefund"},
         Goto(h, pc), HandlerOK(h)'
  PROVE  PaymentsInv'
  <1>1. handler[h] \in Handler
    BY Halves
  <1>2. [handler[h] EXCEPT !.pc = pc] \in Handler
    BY <1>1 DEF Handler
  <1>3. handler' = [handler EXCEPT ![h] = [handler[h] EXCEPT !.pc = pc]]
    BY DEF Goto
  <1> QED
    BY <1>2, <1>3, HandlerMoves

\* The end of a request.
LEMMA HandlerFinishes ==
  ASSUME PaymentsInv, RowsOK', Keeps, NEW h \in Handlers, Finish(h)
  PROVE  PaymentsInv'
  <1>1. Idle \in Handler
    BY DEF Idle, Handler, PaymentStatus
  <1>2. handler'[h] = Idle
    BY Halves DEF Finish
  <1>3. HandlerOK(h)'
    BY <1>2, ProviderAssumption DEF HandlerOK, At, Idle
  <1> QED
    BY <1>1, <1>3, HandlerMoves DEF Finish

\* A step that only reads.
LEMMA SameRows ==
  ASSUME PaymentsInv, UNCHANGED <<session, payment, ledger, published, providerVars>>
  PROVE  RowsOK' /\ Keeps
  <1>1. RowsOK
    BY Halves
  <1>2. RowsOK'
    BY <1>1 DEF RowsOK, providerVars, ProviderTypeOK, PaymentOK, LedgerOK, AttemptsOK, Signed
  <1>3. PromiseStep
    BY NoMoneyMoves
  <1>4. Keeps
    BY <1>3 DEF Keeps, providerVars
  <1> QED
    BY <1>2, <1>4

\* The initial states.
LEMMA InitPaymentsInv == Init => PaymentsInv
  <1> SUFFICES ASSUME Init PROVE PaymentsInv
    OBVIOUS
  <1>1. TypeOK
    <2>1. ProviderTypeOK
      BY DEF Init, ProviderInit, ProviderTypeOK, Attempt, Refund
    <2>2. session \in SessionRow
      <3>1. Amounts \cup {0} \subseteq Nat
        BY ProviderAssumption
      <3> QED
        BY <3>1 DEF Init, SessionRow
    <2>3. payment \in [Payers -> PaymentRow]
      BY DEF Init, PaymentRow, NoPayment, PaymentStatus
    <2>4. ledger \in [Payers -> Seq(Transaction)]
      BY DEF Init
    <2>5. published \subseteq EventKey
      BY DEF Init
    <2>6. handler \in [Handlers -> Handler]
      BY DEF Init, Handler, Idle, PaymentStatus
    <2> QED
      BY <2>1, <2>2, <2>3, <2>4, <2>5, <2>6 DEF TypeOK
  <1>2. ASSUME NEW p \in Payers PROVE PaymentOK(p) /\ LedgerOK(p)
    BY DEF Init, ProviderInit, PaymentOK, LedgerOK, NoPayment, Settled
  <1>3. AttemptsOK
    BY DEF Init, ProviderInit, AttemptsOK, Signed
  <1>4. ASSUME NEW h \in Handlers PROVE HandlerOK(h)
    BY ProviderAssumption DEF Init, HandlerOK, At, Idle
  <1> QED
    BY <1>1, <1>2, <1>3, <1>4 DEF PaymentsInv, Init

-----------------------------------------------------------------------------
(* The steps of createOrder and of repository.fail *)

\* A payment comes to be, for a price that its payer has agreed to.
LEMMA PaymentCreated ==
  ASSUME RowsOK, NEW p \in Payers, NEW row \in PaymentRow,
         payment' = [payment EXCEPT ![p] = row],
         payment[p].status = "NONE", row.status = "CREATED",
         row.amount \in Amounts, row.refunded = 0,
         UNCHANGED <<session, ledger, published, providerVars>>
  PROVE  RowsOK' /\ Keeps
  <1>1. /\ payment' \in [Payers -> PaymentRow] /\ payment'[p] = row
        /\ \A q \in Payers \ {p} : payment'[q] = payment[q]
    BY DEF RowsOK
  <1>2. /\ payment[p] = NoPayment /\ ledger[p] = <<>> /\ orders[p] = 0
        /\ row.amount \in Nat
    BY ProviderAssumption DEF RowsOK, PaymentOK
  <1>3. UNCHANGED <<session, ledger, published, orders, attempts, refunds>>
    BY DEF providerVars
  <1>4. ASSUME NEW q \in Payers PROVE PaymentOK(q)' /\ LedgerOK(q)'
    <2>1. CASE q = p
      BY <2>1, <1>1, <1>2, <1>3 DEF PaymentOK, LedgerOK, Settled
    <2>2. CASE q # p
      BY <2>2, <1>1, <1>3 DEF RowsOK, PaymentOK, LedgerOK
    <2> QED
      BY <2>1, <2>2
  <1>5. RowsOK'
    BY <1>1, <1>3, <1>4 DEF RowsOK, ProviderTypeOK, AttemptsOK, Signed
  <1>6. Promise!Agree(p, row.amount)
    <2>1. payment[p].amount = 0 /\ payment[p].refunded = 0
      BY <1>2 DEF NoPayment
    <2>2. \A q \in Payers \ {p} : payment'[q].amount = payment[q].amount
      BY <1>1
    <2>3. \A q \in Payers : payment'[q].refunded = payment[q].refunded
      BY <1>1, <2>1
    <2> QED
      BY <1>1, <1>3, <2>1, <2>2, <2>3 DEF Promise!Agree
  <1>7. PromiseStep
    BY <1>6 DEF PromiseStep, Promise!Next
  <1> QED
    BY <1>1, <1>3, <1>5, <1>7 DEF Keeps

\* CreatePayment makes the row of a payer that has none, or is refused.
LEMMA CreatePaymentInv ==
  ASSUME PaymentsInv, NEW h \in Handlers, CreatePayment(h) PROVE PaymentsInv' /\ Keeps
  <1> DEFINE p == handler[h].p
             row == [NoPayment EXCEPT !.status = "CREATED", !.amount = handler[h].amt]
  <1>1. RowsOK /\ HandlerOK(h) /\ At(h, "create") /\ handler \in [Handlers -> Handler]
    BY Halves DEF CreatePayment
  <1>2. p \in Payers /\ handler[h].amt \in Amounts
    BY <1>1 DEF HandlerOK, At
  <1>3. handler[h].amt \in Nat /\ handler[h].amt # 0
    BY <1>2, ProviderAssumption
  <1>4. CASE Payable(p)
    <2>1. row \in PaymentRow /\ row.status = "CREATED" /\ row.amount = handler[h].amt /\ row.refunded = 0
      BY <1>3 DEF NoPayment, PaymentRow, PaymentStatus
    <2>2. /\ payment' = [payment EXCEPT ![p] = row]
          /\ Goto(h, "callOrder")
          /\ UNCHANGED <<session, ledger, published, orders, attempts, refunds>>
      BY <1>4 DEF CreatePayment, providerVars
    <2>3. RowsOK' /\ Keeps
      BY <1>1, <1>2, <1>4, <2>1, <2>2, PaymentCreated DEF Payable, providerVars
    <2>4. payment'[p] = row
      BY <1>1, <1>2, <2>2 DEF RowsOK
    <2>5. handler'[h] = [handler[h] EXCEPT !.pc = "callOrder"]
      BY <1>1, <2>2 DEF Goto
    <2>6. handler'[h].pc = "callOrder" /\ handler'[h].p = p /\ handler'[h].amt = handler[h].amt
      BY <1>1, <2>5 DEF Handler
    <2>7. HandlerOK(h)'
      BY <1>2, <2>1, <2>4, <2>6 DEF HandlerOK, At
    <2> QED
      BY <2>2, <2>3, <2>7, HandlerGoesOn
  <1>5. CASE ~Payable(p)
    <2>1. Finish(h) /\ UNCHANGED <<session, payment, ledger, published, providerVars>>
      BY <1>5 DEF CreatePayment
    <2> QED
      BY <2>1, SameRows, HandlerFinishes
  <1> QED
    BY <1>4, <1>5

\* A step that writes one payment row, leaving its price and what it has returned.
LEMMA RowWritten ==
  ASSUME RowsOK, NEW p \in Payers, NEW row \in PaymentRow,
         payment' = [payment EXCEPT ![p] = row],
         payment[p].status # "NONE", row.status # "NONE",
         row.amount = payment[p].amount, row.refunded = payment[p].refunded,
         row.status \in Settled => ledger[p] # <<>>,
         published' \subseteq EventKey, UNCHANGED <<session, ledger, providerVars>>
  PROVE  RowsOK' /\ Keeps
  <1>1. /\ payment' \in [Payers -> PaymentRow] /\ payment'[p] = row
        /\ \A q \in Payers \ {p} : payment'[q] = payment[q]
    BY DEF RowsOK
  <1>2. UNCHANGED <<orders, attempts, refunds>>
    BY DEF providerVars
  <1>3. ASSUME NEW q \in Payers PROVE PaymentOK(q)' /\ LedgerOK(q)'
    <2>1. CASE q = p
      BY <2>1, <1>1, <1>2 DEF RowsOK, PaymentOK, LedgerOK
    <2>2. CASE q # p
      BY <2>2, <1>1, <1>2 DEF RowsOK, PaymentOK, LedgerOK
    <2> QED
      BY <2>1, <2>2
  <1>4. RowsOK'
    BY <1>1, <1>2, <1>3 DEF RowsOK, ProviderTypeOK, AttemptsOK, Signed
  <1>5. Keeps
    <2>1. PromiseStep
      BY <1>1, NoMoneyMoves
    <2> QED
      BY <1>1, <1>2, <2>1 DEF Keeps
  <1> QED
    BY <1>4, <1>5

\* CallCreateOrder orders the amount on record.
LEMMA CallCreateOrderInv ==
  ASSUME PaymentsInv, NEW h \in Handlers, CallCreateOrder(h) PROVE PaymentsInv' /\ Keeps
  <1> DEFINE p == handler[h].p
  <1>1. /\ RowsOK /\ HandlerOK(h) /\ At(h, "callOrder") /\ handler \in [Handlers -> Handler]
        /\ UNCHANGED <<session, payment, ledger, published, attempts, refunds>>
    BY Halves DEF CallCreateOrder
  <1>2. p \in Payers /\ payment[p].status # "NONE" /\ handler[h].amt = payment[p].amount
    BY <1>1, ProviderAssumption DEF HandlerOK, At
  <1>3. RowsOK'
    <2>1. CASE orders' = [orders EXCEPT ![p] = OrderAmount(h)]
      <3>1. /\ orders' \in [Payers -> Nat] /\ orders'[p] = payment[p].amount
            /\ \A q \in Payers \ {p} : orders'[q] = orders[q]
        BY <1>1, <1>2, <2>1 DEF RowsOK, ProviderTypeOK, PaymentRow, OrderAmount
      <3>2. ASSUME NEW q \in Payers PROVE PaymentOK(q)' /\ LedgerOK(q)'
        <4>1. PaymentOK(q) /\ LedgerOK(q)
          BY <1>1 DEF RowsOK
        <4>2. LedgerOK(q)'
          BY <1>1, <4>1 DEF LedgerOK
        <4>3. PaymentOK(q)'
          BY <1>1, <1>2, <3>1, <4>1 DEF PaymentOK
        <4> QED
          BY <4>2, <4>3
      <3> QED
        BY <1>1, <3>1, <3>2 DEF RowsOK, ProviderTypeOK, AttemptsOK, Signed
    <2>2. CASE UNCHANGED orders
      BY <1>1, <2>2, SameRows DEF providerVars
    <2> QED
      BY <2>1, <2>2 DEF CallCreateOrder
  <1>4. Keeps
    BY <1>1, NoMoneyMoves DEF Keeps
  <1>5. ASSUME NEW pc \in {"attach", "fail"}, Goto(h, pc) PROVE PaymentsInv'
    <2>1. handler'[h] = [handler[h] EXCEPT !.pc = pc]
      BY <1>1, <1>5 DEF Goto
    <2>2. handler'[h].pc = pc /\ handler'[h].p = p
      BY <1>1, <2>1 DEF Handler
    <2>3. HandlerOK(h)'
      BY <1>1, <1>2, <2>2 DEF HandlerOK, At
    <2> QED
      BY <1>3, <1>4, <1>5, <2>3, HandlerGoesOn
  <1> QED
    BY <1>4, <1>5 DEF CallCreateOrder

\* A step that only reads, and goes on to the next step of its request or ends it.
LEMMA ReadStep ==
  ASSUME PaymentsInv, UNCHANGED <<session, payment, ledger, published, providerVars>>,
         NEW h \in Handlers,
         NEW pc \in {"attachWrite", "fail", "failWrite"},
         handler[h].pc \in {"attach", "fail"}, Goto(h, pc) \/ Finish(h)
  PROVE  PaymentsInv' /\ Keeps
  <1>1. RowsOK' /\ Keeps /\ HandlerOK(h) /\ handler \in [Handlers -> Handler]
    BY Halves, SameRows
  <1>2. CASE Goto(h, pc)
    <2>1. handler'[h] = [handler[h] EXCEPT !.pc = pc]
      BY <1>1, <1>2 DEF Goto
    <2>2. handler'[h].pc = pc /\ handler'[h].p = handler[h].p
      BY <1>1, <2>1 DEF Handler
    <2>3. HandlerOK(h)'
      BY <1>1, <2>2 DEF HandlerOK, At
    <2> QED
      BY <1>1, <1>2, <2>3, HandlerGoesOn
  <1>3. CASE Finish(h)
    BY <1>1, <1>3, HandlerFinishes
  <1> QED
    BY <1>2, <1>3

\* AttachRead only reads.
LEMMA AttachReadInv ==
  ASSUME PaymentsInv, NEW h \in Handlers, AttachRead(h) PROVE PaymentsInv' /\ Keeps
  BY ReadStep DEF AttachRead, At

\* FailRead only reads.
LEMMA FailReadInv ==
  ASSUME PaymentsInv, NEW h \in Handlers, FailRead(h) PROVE PaymentsInv' /\ Keeps
  BY ReadStep DEF FailRead, At

\* AttachWrite makes a payment PENDING, also one that has gone on meanwhile.
LEMMA AttachWriteInv ==
  ASSUME PaymentsInv, NEW h \in Handlers, AttachWrite(h) PROVE PaymentsInv' /\ Keeps
  <1> DEFINE p == handler[h].p
             row == [payment[p] EXCEPT !.order = TRUE, !.status = "PENDING"]
  <1>1. RowsOK /\ HandlerOK(h) /\ At(h, "attachWrite")
    BY Halves DEF AttachWrite
  <1>2. p \in Payers /\ payment[p] \in PaymentRow /\ payment[p].status # "NONE"
    BY <1>1, ProviderAssumption DEF HandlerOK, At, RowsOK
  <1>3. /\ row \in PaymentRow /\ row.status = "PENDING"
        /\ row.amount = payment[p].amount /\ row.refunded = payment[p].refunded
    BY <1>2 DEF PaymentRow, PaymentStatus
  <1>4. /\ payment' = [payment EXCEPT ![p] = row]
        /\ UNCHANGED <<session, ledger, published, providerVars>>
    BY DEF AttachWrite
  <1>5. RowsOK' /\ Keeps
    BY <1>1, <1>2, <1>3, <1>4, RowWritten DEF Settled, RowsOK
  <1> QED
    BY <1>5, HandlerFinishes DEF AttachWrite

\* FailWrite makes a payment FAILED, also one that has gone on meanwhile.
LEMMA FailWriteInv ==
  ASSUME PaymentsInv, NEW h \in Handlers, FailWrite(h) PROVE PaymentsInv' /\ Keeps
  <1> DEFINE p == handler[h].p
             row == [payment[p] EXCEPT !.status = "FAILED"]
  <1>1. RowsOK /\ HandlerOK(h) /\ At(h, "failWrite") /\ handler[h] \in Handler
    BY Halves DEF FailWrite
  <1>2. p \in Payers /\ payment[p] \in PaymentRow /\ payment[p].status # "NONE"
    BY <1>1, ProviderAssumption DEF HandlerOK, At, RowsOK
  <1>3. /\ row \in PaymentRow /\ row.status = "FAILED"
        /\ row.amount = payment[p].amount /\ row.refunded = payment[p].refunded
    BY <1>2 DEF PaymentRow, PaymentStatus
  <1>4. CASE /\ payment' = [payment EXCEPT ![p].status = "FAILED"]
             /\ Publish(handler[h].key)
    <2>1. payment' = [payment EXCEPT ![p] = row]
      BY <1>4
    <2>2. published' \subseteq EventKey
      BY <1>1, <1>4 DEF RowsOK, Publish, Handler
    <2>3. UNCHANGED <<session, ledger, providerVars>> /\ Finish(h)
      BY DEF FailWrite
    <2>4. RowsOK' /\ Keeps
      BY <1>1, <1>2, <1>3, <2>1, <2>2, <2>3, RowWritten DEF Settled
    <2> QED
      BY <2>3, <2>4, HandlerFinishes
  <1>5. CASE UNCHANGED <<payment, published>>
    BY <1>5, SameRows, HandlerFinishes DEF FailWrite
  <1> QED
    BY <1>4, <1>5 DEF FailWrite

-----------------------------------------------------------------------------
(* The steps of verify *)

\* AuthorizeWrite makes a payment AUTHORIZED, also one that was captured meanwhile.
LEMMA AuthorizeWriteInv ==
  ASSUME PaymentsInv, NEW h \in Handlers, AuthorizeWrite(h) PROVE PaymentsInv' /\ Keeps
  <1> DEFINE p == handler[h].p
             row == [payment[p] EXCEPT !.status = "AUTHORIZED", !.pay = handler[h].pay]
  <1>1. RowsOK /\ HandlerOK(h) /\ At(h, "authorizeWrite") /\ handler[h] \in Handler
    BY Halves DEF AuthorizeWrite
  <1>2. p \in Payers /\ payment[p] \in PaymentRow /\ payment[p].status # "NONE"
    BY <1>1, ProviderAssumption DEF HandlerOK, At, RowsOK
  <1>3. /\ row \in PaymentRow /\ row.status = "AUTHORIZED"
        /\ row.amount = payment[p].amount /\ row.refunded = payment[p].refunded
    BY <1>1, <1>2 DEF PaymentRow, PaymentStatus, Handler
  <1>4. /\ payment' = [payment EXCEPT ![p] = row]
        /\ UNCHANGED <<session, ledger, published, providerVars>>
    BY DEF AuthorizeWrite
  <1>5. RowsOK' /\ Keeps
    BY <1>1, <1>2, <1>3, <1>4, RowWritten DEF Settled, RowsOK
  <1> QED
    BY <1>5, HandlerFinishes DEF AuthorizeWrite

-----------------------------------------------------------------------------
(* The first steps of the requests *)

\* A request starts with what its guards have read.
LEMMA HandlerStarts ==
  ASSUME PaymentsInv, UNCHANGED <<session, payment, ledger, published, providerVars>>,
         NEW h \in Handlers, NEW w \in Handler,
         handler' = [handler EXCEPT ![h] = w],
         handler'[h] = w => HandlerOK(h)'
  PROVE  PaymentsInv' /\ Keeps
  <1>1. handler'[h] = w
    BY Halves
  <1> QED
    BY <1>1, SameRows, HandlerMoves

\* StartCreateOrder reads a price a payer can agree to.
LEMMA StartCreateOrderInv ==
  ASSUME PaymentsInv, NEW h \in Handlers, NEW p \in Payers, StartCreateOrder(h, p)
  PROVE  PaymentsInv' /\ Keeps
  <1> DEFINE w == [Idle EXCEPT !.pc = "create", !.p = p, !.amt = session.price]
  <1>1. session.price \in Amounts /\ session.price \in Nat
    BY ProviderAssumption, Halves DEF StartCreateOrder, RowsOK
  <1>2. w \in Handler /\ w.pc = "create" /\ w.p = p /\ w.amt \in Amounts
    BY <1>1 DEF Idle, Handler, PaymentStatus
  <1>3. handler'[h] = w => HandlerOK(h)'
    BY <1>2 DEF HandlerOK, At
  <1> QED
    BY <1>2, <1>3, HandlerStarts DEF StartCreateOrder

\* StartVerify reads a payment that exists.
LEMMA StartVerifyInv ==
  ASSUME PaymentsInv, NEW h \in Handlers, NEW p \in Payers, NEW id \in PayIds, StartVerify(h, p, id)
  PROVE  PaymentsInv' /\ Keeps
  <1> DEFINE w == [Idle EXCEPT !.pc = "authorizeWrite", !.p = p, !.pay = id]
  <1>1. w \in Handler /\ w.pc = "authorizeWrite" /\ w.p = p
    BY DEF Idle, Handler, PaymentStatus
  <1>2. payment[p].status # "NONE" /\ UNCHANGED payment
    BY DEF StartVerify, Authorizable
  <1>3. handler'[h] = w => HandlerOK(h)'
    BY <1>1, <1>2 DEF HandlerOK, At
  <1> QED
    BY <1>1, <1>3, HandlerStarts DEF StartVerify

\* DeliverFailed reads a payment that exists.
LEMMA DeliverFailedInv ==
  ASSUME PaymentsInv, NEW h \in Handlers, NEW p \in Payers, NEW id \in PayIds, DeliverFailed(h, p, id)
  PROVE  PaymentsInv' /\ Keeps
  <1> DEFINE key == <<"payment.failed", id>>
             w == [Idle EXCEPT !.pc = "failWrite", !.p = p, !.key = key]
  <1>1. key \in EventKey
    BY DEF EventKey
  <1>2. w \in Handler /\ w.pc = "failWrite" /\ w.p = p
    BY <1>1 DEF Idle, Handler, PaymentStatus
  <1>3. payment[p].status # "NONE" /\ UNCHANGED payment
    BY DEF DeliverFailed, Failable
  <1>4. handler'[h] = w => HandlerOK(h)'
    BY <1>2, <1>3 DEF HandlerOK, At
  <1> QED
    BY <1>2, <1>4, HandlerStarts DEF DeliverFailed

\* DeliverCaptured reads an attempt that stays captured for this amount.
LEMMA DeliverCapturedInv ==
  ASSUME PaymentsInv, NEW h \in Handlers, NEW p \in Payers, NEW id \in PayIds, DeliverCaptured(h, p, id)
  PROVE  PaymentsInv' /\ Keeps
  <1> DEFINE key == <<"payment.captured", id>>
             w == [Idle EXCEPT !.pc = "captureWrite", !.p = p, !.pay = id, !.key = key]
  <1>1. key \in EventKey
    BY DEF EventKey
  <1>2. w \in Handler /\ w.pc = "captureWrite" /\ w.p = p /\ w.pay = id /\ w.key = key
    BY <1>1 DEF Idle, Handler, PaymentStatus
  <1>3. /\ payment[p].status # "NONE"
        /\ attempts[id].status = "captured" /\ attempts[id].payer = p
        /\ attempts[id].amount = payment[p].amount
        /\ UNCHANGED <<payment, attempts>>
    BY DEF DeliverCaptured, Capturable, AmountMatches, providerVars
  <1>4. handler'[h] = w => HandlerOK(h)'
    BY <1>2, <1>3 DEF HandlerOK, At
  <1> QED
    BY <1>2, <1>4, HandlerStarts DEF DeliverCaptured, CapturedKey

\* A PENDING refund is a row of the ledger.
LEMMA PendingRefundIsRow ==
  ASSUME RowsOK, NEW p \in Payers, NEW i \in PendingRefunds(p)
  PROVE  i \in Nat /\ i \in DOMAIN ledger[p] /\ ledger[p][i].type = "REFUND"
  BY DEF PendingRefunds, RowsOK

\* DeliverRefund reads a row that stays in the ledger as a refund.
LEMMA DeliverRefundInv ==
  ASSUME PaymentsInv, NEW h \in Handlers, NEW p \in Payers, NEW r \in RefundIds, DeliverRefund(h, p, r)
  PROVE  PaymentsInv' /\ Keeps
  <1> DEFINE to == IF refunds[r].amount >= payment[p].amount THEN "REFUNDED" ELSE "PARTIALLY_REFUNDED"
             w(i) == [Idle EXCEPT !.pc = "completeWrite", !.p = p, !.tx = i, !.ref = r,
                                  !.to = to, !.key = RefundKey(r)]
  <1>1. PICK i \in PendingRefunds(p) : handler' = [handler EXCEPT ![h] = w(i)]
    BY DEF DeliverRefund
  <1>2. i \in Nat /\ i \in DOMAIN ledger[p] /\ ledger[p][i].type = "REFUND"
    BY Halves, PendingRefundIsRow
  <1>3. payment[p].pay = refunds[r].pay /\ payment[p].status = "REFUND_PENDING"
        /\ refunds[r].status = "processed" /\ UNCHANGED <<payment, ledger>>
    BY DEF DeliverRefund
  <1>4. RefundKey(r) \in EventKey
    BY Halves, <1>3 DEF RefundKey, EventKey, RowsOK, AttemptsOK
  <1>5. /\ w(i) \in Handler /\ w(i).pc = "completeWrite" /\ w(i).p = p /\ w(i).tx = i
        /\ w(i).to \in {"REFUNDED", "PARTIALLY_REFUNDED"}
    BY <1>2, <1>4 DEF Idle, Handler, PaymentStatus
  <1>6. handler'[h] = w(i) => HandlerOK(h)'
    BY <1>2, <1>3, <1>5 DEF HandlerOK, At
  <1> QED
    BY <1>1, <1>5, <1>6, HandlerStarts DEF DeliverRefund

\* StartRefund reads an attempt and a positive amount.
LEMMA StartRefundInv ==
  ASSUME PaymentsInv, NEW h \in Handlers, NEW p \in Payers, NEW admin \in BOOLEAN, NEW amt,
         StartRefund(h, p, admin, amt)
  PROVE  PaymentsInv' /\ Keeps
  <1> DEFINE w == [Idle EXCEPT !.pc = "refund", !.p = p, !.amt = amt,
                               !.pay = payment[p].pay, !.read = payment[p].refunded]
  <1>1. /\ payment[p] \in PaymentRow /\ PaymentOK(p)
        /\ payment[p].pay # None /\ amt \in 1 .. payment[p].amount - payment[p].refunded
        /\ UNCHANGED payment
    BY Halves DEF RowsOK, StartRefund
  <1>2. /\ payment[p].status # "NONE" /\ payment[p].pay \in PayIds
        /\ amt \in Nat /\ amt > 0 /\ payment[p].refunded \in Nat
    BY <1>1 DEF PaymentOK, PaymentRow, NoPayment
  <1>3. w \in Handler /\ w.pc = "refund" /\ w.p = p /\ w.amt = amt /\ w.pay = payment[p].pay
    BY <1>2 DEF Idle, Handler, PaymentStatus
  <1>4. handler'[h] = w => HandlerOK(h)'
    BY <1>1, <1>2, <1>3 DEF HandlerOK, At
  <1> QED
    BY <1>3, <1>4, HandlerStarts DEF StartRefund

\* StartChangeTerms takes a price a session can have.
LEMMA StartChangeTermsInv ==
  ASSUME PaymentsInv, NEW h \in Handlers, NEW price \in Amounts \cup {0}, StartChangeTerms(h, price)
  PROVE  PaymentsInv' /\ Keeps
  <1> DEFINE w == [Idle EXCEPT !.pc = "termsWrite", !.amt = price]
  <1>1. price \in Nat
    BY ProviderAssumption
  <1>2. w \in Handler /\ w.pc = "termsWrite" /\ w.p = None /\ w.amt = price
    BY <1>1 DEF Idle, Handler, PaymentStatus
  <1>3. handler'[h] = w => HandlerOK(h)'
    BY <1>2, ProviderAssumption DEF HandlerOK, At
  <1> QED
    BY <1>2, <1>3, HandlerStarts DEF StartChangeTerms

\* A crash loses what the request has read and nothing else.
LEMMA CrashInv ==
  ASSUME PaymentsInv, NEW h \in Handlers, Crash(h) PROVE PaymentsInv' /\ Keeps
  BY SameRows, HandlerFinishes DEF Crash

-----------------------------------------------------------------------------
(* The steps of the webhooks and of the refunds *)

\* The unique index refuses a second receipt: it would be of the same attempt, and
\* so have the event id of the first.
LEMMA FirstReceipt ==
  ASSUME PaymentsInv, NEW h \in Handlers, At(h, "captureWrite"),
         EventFree(handler[h].key, handler[h].p, Len(ledger[handler[h].p]) + 1)
  PROVE  ledger[handler[h].p] = <<>>
  <1> DEFINE p == handler[h].p
             id == handler[h].pay
             receipt == ledger[p][1]
  <1>1. RowsOK /\ HandlerOK(h)
    BY Halves
  <1>2. /\ p \in Payers /\ id \in PayIds /\ handler[h].key = <<"payment.captured", id>>
        /\ attempts[id].status = "captured" /\ attempts[id].payer = p
    BY <1>1 DEF HandlerOK, At
  <1> SUFFICES ASSUME ledger[p] # <<>> PROVE FALSE
    OBVIOUS
  <1>3. 1 \in DOMAIN ledger[p] /\ Len(ledger[p]) \in Nat /\ Len(ledger[p]) > 0
    BY <1>1, <1>2 DEF RowsOK
  <1>4. /\ receipt.ref \in PayIds
        /\ receipt.event = <<"payment.captured", receipt.ref>>
        /\ attempts[receipt.ref].status = "captured" /\ attempts[receipt.ref].payer = p
    BY <1>1, <1>2 DEF RowsOK, LedgerOK
  <1>5. receipt.ref = id
    BY <1>1, <1>2, <1>4 DEF RowsOK, AttemptsOK, Signed
  <1>6. receipt.event = handler[h].key /\ handler[h].key # Uuid
    BY <1>2, <1>4, <1>5 DEF Uuid
  <1> QED
    BY <1>2, <1>3, <1>6 DEF EventFree

\* The first row of a ledger: payment p is captured, and its receipt booked.
LEMMA ReceiptBooked ==
  ASSUME RowsOK, NEW p \in Payers, NEW row \in PaymentRow, NEW receipt \in Transaction,
         payment' = [payment EXCEPT ![p] = row], ledger' = [ledger EXCEPT ![p] = <<receipt>>],
         payment[p].status # "NONE", ledger[p] = <<>>,
         row.status = "CAPTURED",
         row.amount = payment[p].amount, row.refunded = payment[p].refunded,
         receipt.type = "PAYMENT", receipt.ref \in PayIds, receipt.amount = row.amount,
         receipt.event = <<"payment.captured", receipt.ref>>,
         attempts[receipt.ref].status = "captured", attempts[receipt.ref].payer = p,
         attempts[receipt.ref].amount = receipt.amount,
         published' \subseteq EventKey, UNCHANGED <<session, providerVars>>
  PROVE  RowsOK' /\ Keeps
  <1>1. /\ payment' \in [Payers -> PaymentRow] /\ payment'[p] = row
        /\ \A q \in Payers \ {p} : payment'[q] = payment[q]
    BY DEF RowsOK
  <1>2. <<receipt>> \in Seq(Transaction)
    OBVIOUS
  <1>3. /\ ledger' \in [Payers -> Seq(Transaction)] /\ ledger'[p] = <<receipt>>
        /\ \A q \in Payers \ {p} : ledger'[q] = ledger[q]
    BY <1>2 DEF RowsOK
  <1>4. UNCHANGED <<orders, attempts, refunds>>
    BY DEF providerVars
  <1>5. ASSUME NEW q \in Payers PROVE PaymentOK(q)' /\ LedgerOK(q)'
    <2>1. CASE q = p
      <3>1. ledger'[p][1] = receipt /\ DOMAIN ledger'[p] = {1} /\ ledger'[p] # <<>>
        BY <1>3
      <3>2. LedgerOK(p)'
        BY <1>1, <1>4, <3>1 DEF LedgerOK
      <3>3. PaymentOK(p)'
        BY <1>1, <1>4, <3>1 DEF RowsOK, PaymentOK
      <3> QED
        BY <2>1, <3>2, <3>3
    <2>2. CASE q # p
      BY <2>2, <1>1, <1>3, <1>4 DEF RowsOK, PaymentOK, LedgerOK
    <2> QED
      BY <2>1, <2>2
  <1>6. RowsOK'
    BY <1>1, <1>3, <1>4, <1>5 DEF RowsOK, ProviderTypeOK, AttemptsOK, Signed
  <1>7. Keeps
    <2>1. payment[p].amount > 0
      <3>1. payment[p].amount \in Amounts
        BY DEF RowsOK, PaymentOK
      <3> QED
        BY <3>1, AmountsPositive
    <2>2. Promise!Receive(p)
      BY <1>1, <1>3, <2>1, ZenonT(40) DEF Promise!Receive
    <2>3. PromiseStep
      BY <2>2 DEF PromiseStep, Promise!Next
    <2> QED
      BY <1>1, <1>3, <1>4, <2>3 DEF Keeps
  <1> QED
    BY <1>6, <1>7

\* CaptureWrite books the first row of a ledger or nothing.
LEMMA CaptureWriteInv ==
  ASSUME PaymentsInv, NEW h \in Handlers, CaptureWrite(h) PROVE PaymentsInv' /\ Keeps
  <1> DEFINE p == handler[h].p
             id == handler[h].pay
             key == handler[h].key
             row == [payment[p] EXCEPT !.status = "CAPTURED", !.pay = id]
             receipt == Receipt(p, id, key)
  <1>1. RowsOK /\ HandlerOK(h) /\ At(h, "captureWrite") /\ handler[h] \in Handler
    BY Halves DEF CaptureWrite
  <1>2. /\ p \in Payers /\ id \in PayIds /\ key = <<"payment.captured", id>>
        /\ attempts[id].status = "captured" /\ attempts[id].payer = p
        /\ attempts[id].amount = payment[p].amount
        /\ payment[p].status # "NONE" /\ payment[p] \in PaymentRow
        /\ PaymentOK(p)
    BY <1>1 DEF HandlerOK, At, RowsOK
  <1>3. CASE /\ EventFree(key, p, Len(ledger[p]) + 1)
             /\ payment' = [payment EXCEPT ![p].status = "CAPTURED", ![p].pay = id]
             /\ ledger' = AppendRow(p, receipt)
             /\ Publish(key)
    <2>1. ledger[p] = <<>>
      BY <1>1, <1>3, FirstReceipt
    <2>2. /\ row \in PaymentRow /\ row.status = "CAPTURED"
          /\ row.amount = payment[p].amount /\ row.refunded = payment[p].refunded
      BY <1>2 DEF PaymentRow, PaymentStatus
    <2>3. key \in EventKey
      BY <1>2 DEF EventKey
    <2>4. /\ receipt \in Transaction /\ receipt.type = "PAYMENT" /\ receipt.ref = id
          /\ receipt.event = key /\ receipt.amount = payment[p].amount
      BY <1>2, <2>3 DEF Receipt, Transaction, PaymentRow
    <2>5. payment' = [payment EXCEPT ![p] = row]
      BY <1>3
    <2>6. ledger' = [ledger EXCEPT ![p] = <<receipt>>]
      BY <1>3, <2>1 DEF AppendRow
    <2>7. published' \subseteq EventKey
      BY <1>1, <1>3, <2>3 DEF RowsOK, Publish
    <2>8. UNCHANGED <<session, providerVars>> /\ Finish(h)
      BY DEF CaptureWrite
    <2>9. RowsOK' /\ Keeps
      BY <1>1, <1>2, <2>1, <2>2, <2>4, <2>5, <2>6, <2>7, <2>8, ReceiptBooked
    <2> QED
      BY <2>8, <2>9, HandlerFinishes
  <1>4. CASE UNCHANGED <<payment, ledger, published>>
    BY <1>4, SameRows, HandlerFinishes DEF CaptureWrite
  <1> QED
    BY <1>3, <1>4 DEF CaptureWrite

\* RefundRead goes on only if there is a receipt.
LEMMA RefundReadInv ==
  ASSUME PaymentsInv, NEW h \in Handlers, RefundRead(h) PROVE PaymentsInv' /\ Keeps
  <1> DEFINE p == handler[h].p
  <1>1. /\ RowsOK /\ RowsOK' /\ Keeps /\ HandlerOK(h) /\ handler \in [Handlers -> Handler]
        /\ At(h, "refund") /\ UNCHANGED <<payment, ledger, attempts>>
    BY Halves, SameRows DEF RefundRead, providerVars
  <1>2. CASE payment[p].status \in Refundable /\ Goto(h, "refundWrite")
    <2>1. handler'[h] = [handler[h] EXCEPT !.pc = "refundWrite"]
      BY <1>1, <1>2 DEF Goto
    <2>2. /\ handler'[h].pc = "refundWrite" /\ handler'[h].p = p
          /\ handler'[h].pay = handler[h].pay /\ handler'[h].amt = handler[h].amt
      BY <1>1, <2>1 DEF Handler
    <2>3. p \in Payers
      BY <1>1 DEF HandlerOK, At
    <2>4. ledger[p] # <<>>
      BY <1>1, <1>2, <2>3 DEF RowsOK, PaymentOK, Refundable, Settled
    <2>5. HandlerOK(h)'
      BY <1>1, <2>2, <2>3, <2>4 DEF HandlerOK, At
    <2> QED
      BY <1>1, <1>2, <2>5, HandlerGoesOn
  <1>3. CASE Finish(h)
    BY <1>1, <1>3, HandlerFinishes
  <1> QED
    BY <1>2, <1>3 DEF RefundRead

\* A refund is written to a ledger that has a receipt.
LEMMA RefundAppended ==
  ASSUME RowsOK, NEW p \in Payers, NEW row \in PaymentRow, NEW refund \in Transaction,
         payment' = [payment EXCEPT ![p] = row],
         ledger' = [ledger EXCEPT ![p] = Append(@, refund)],
         payment[p].status # "NONE", ledger[p] # <<>>,
         row.status # "NONE",
         row.amount = payment[p].amount, row.refunded = payment[p].refunded,
         refund.type = "REFUND", refund.amount > 0,
         UNCHANGED <<session, published, providerVars>>
  PROVE  RowsOK' /\ Keeps
  <1>1. /\ payment' \in [Payers -> PaymentRow] /\ payment'[p] = row
        /\ \A q \in Payers \ {p} : payment'[q] = payment[q]
    BY DEF RowsOK
  <1>2. ledger[p] \in Seq(Transaction)
    BY DEF RowsOK
  <1>3. Append(ledger[p], refund) \in Seq(Transaction)
    BY <1>2
  <1>4. /\ ledger' \in [Payers -> Seq(Transaction)] /\ ledger'[p] = Append(ledger[p], refund)
        /\ \A q \in Payers \ {p} : ledger'[q] = ledger[q]
    BY <1>3 DEF RowsOK
  <1>5. /\ Len(ledger[p]) \in Nat /\ Len(ledger[p]) > 0
        /\ DOMAIN ledger[p] = 1 .. Len(ledger[p])
        /\ DOMAIN ledger'[p] = 1 .. Len(ledger[p]) + 1
        /\ \A i \in 1 .. Len(ledger[p]) : ledger'[p][i] = ledger[p][i]
        /\ ledger'[p][Len(ledger[p]) + 1] = refund
        /\ ledger'[p] # <<>>
    BY <1>2, <1>4
  <1>6. UNCHANGED <<session, published, orders, attempts, refunds>>
    BY DEF providerVars
  <1>7. ASSUME NEW q \in Payers PROVE PaymentOK(q)' /\ LedgerOK(q)'
    <2>1. CASE q = p
      <3>1. PaymentOK(p) /\ LedgerOK(p)
        BY DEF RowsOK
      <3>2. PaymentOK(p)'
        BY <1>1, <1>5, <1>6, <3>1 DEF PaymentOK
      <3>3. LedgerOK(p)'
        BY <1>1, <1>5, <1>6, <3>1 DEF LedgerOK
      <3> QED
        BY <2>1, <3>2, <3>3
    <2>2. CASE q # p
      BY <2>2, <1>1, <1>4, <1>6 DEF RowsOK, PaymentOK, LedgerOK
    <2> QED
      BY <2>1, <2>2
  <1>8. RowsOK'
    BY <1>1, <1>4, <1>6, <1>7 DEF RowsOK, ProviderTypeOK, AttemptsOK, Signed
  <1>9. Keeps
    <2>1. PromiseStep
      BY <1>1, <1>4, <1>5, NoMoneyMoves
    <2> QED
      BY <1>1, <1>4, <1>5, <1>6, <2>1 DEF Keeps
  <1> QED
    BY <1>8, <1>9

\* RefundWrite appends a refund to a ledger that has a receipt.
LEMMA RefundWriteInv ==
  ASSUME PaymentsInv, NEW h \in Handlers, RefundWrite(h) PROVE PaymentsInv' /\ Keeps
  <1> DEFINE p == handler[h].p
             row == [payment[p] EXCEPT !.status = "REFUND_PENDING"]
             refund == PendingRefund(handler[h].amt)
  <1>1. /\ RowsOK /\ HandlerOK(h) /\ At(h, "refundWrite") /\ handler \in [Handlers -> Handler]
        /\ handler[h] \in Handler
    BY Halves DEF RefundWrite
  <1>2. /\ p \in Payers /\ payment[p].status # "NONE" /\ payment[p] \in PaymentRow
        /\ ledger[p] # <<>> /\ handler[h].amt > 0 /\ handler[h].pay \in PayIds
    BY <1>1, ProviderAssumption DEF HandlerOK, At, RowsOK
  <1>3. /\ row \in PaymentRow /\ row.status = "REFUND_PENDING"
        /\ row.amount = payment[p].amount /\ row.refunded = payment[p].refunded
    BY <1>2 DEF PaymentRow, PaymentStatus
  <1>4. refund \in Transaction /\ refund.type = "REFUND" /\ refund.amount > 0
    BY <1>1, <1>2 DEF PendingRefund, Transaction, Handler
  <1>5. /\ payment' = [payment EXCEPT ![p] = row]
        /\ ledger' = [ledger EXCEPT ![p] = Append(@, refund)]
        /\ UNCHANGED <<session, published, providerVars>>
    BY DEF RefundWrite, AppendRow
  <1>6. RowsOK' /\ Keeps
    BY <1>1, <1>2, <1>3, <1>4, <1>5, RefundAppended
  <1>7. handler'[h] = [handler[h] EXCEPT !.pc = "callRefund"] /\ Goto(h, "callRefund")
    BY <1>1 DEF RefundWrite, Goto
  <1>8. /\ handler'[h].pc = "callRefund" /\ handler'[h].p = p
        /\ handler'[h].pay = handler[h].pay /\ handler'[h].amt = handler[h].amt
    BY <1>1, <1>7 DEF Handler
  <1>9. payment'[p].status # "NONE" /\ ledger'[p] # <<>>
    <2>1. payment'[p].status # "NONE"
      BY <1>2, <1>6 DEF Keeps
    <2>2. 1 \in DOMAIN ledger[p] /\ ledger[p] \in Seq(Transaction)
      BY <1>1, <1>2 DEF RowsOK
    <2> QED
      BY <1>2, <1>6, <2>1, <2>2 DEF Keeps
  <1>10. HandlerOK(h)'
    BY <1>2, <1>8, <1>9 DEF HandlerOK, At
  <1> QED
    BY <1>6, <1>7, <1>10, HandlerGoesOn

\* CallRefund changes what Razorpay has promised back, and no attempt.
LEMMA CallRefundInv ==
  ASSUME PaymentsInv, NEW h \in Handlers, CallRefund(h) PROVE PaymentsInv' /\ Keeps
  <1> DEFINE p == handler[h].p
             id == handler[h].pay
             amt == handler[h].amt
  <1>1. /\ RowsOK /\ HandlerOK(h) /\ At(h, "callRefund") /\ handler \in [Handlers -> Handler]
        /\ handler[h] \in Handler /\ UNCHANGED <<session, payment, ledger, published>>
    BY Halves DEF CallRefund
  <1>2. /\ p \in Payers /\ payment[p].status # "NONE" /\ ledger[p] # <<>>
        /\ id \in PayIds /\ amt > 0 /\ amt \in Nat
    BY <1>1, ProviderAssumption DEF HandlerOK, At, Handler
  <1>3. CASE UNCHANGED providerVars /\ Finish(h)
    BY <1>1, <1>3, SameRows, HandlerFinishes
  <1>4. ASSUME NEW r \in RefundIds, NEW status \in {"pending", "processed"},
               AcceptRefund(r, id, amt, status)
        PROVE  RowsOK' /\ Keeps
    <2>1. /\ attempts' = [attempts EXCEPT ![id].returned = @ + amt]
          /\ refunds' = [refunds EXCEPT ![r] = [status |-> status, pay |-> id, amount |-> amt]]
          /\ UNCHANGED orders
      BY <1>4 DEF AcceptRefund
    <2>2. /\ attempts' \in [PayIds -> Attempt]
          /\ \A jd \in PayIds : /\ attempts'[jd].status = attempts[jd].status
                                /\ attempts'[jd].payer = attempts[jd].payer
                                /\ attempts'[jd].amount = attempts[jd].amount
      <3>1. attempts[id] \in Attempt
        BY <1>1, <1>2 DEF RowsOK, ProviderTypeOK
      <3>2. [attempts[id] EXCEPT !.returned = @ + amt] \in Attempt
        BY <1>2, <3>1 DEF Attempt
      <3> QED
        BY <1>1, <1>2, <2>1, <3>1, <3>2 DEF RowsOK, ProviderTypeOK, Attempt
    <2>3. /\ refunds' \in [RefundIds -> Refund]
          /\ \A s \in RefundIds : refunds'[s].status # "none" => refunds'[s].pay \in PayIds
      BY <1>1, <1>2, <2>1 DEF RowsOK, ProviderTypeOK, Refund, AttemptsOK
    <2>4. ASSUME NEW q \in Payers PROVE PaymentOK(q)' /\ LedgerOK(q)'
      BY <1>1, <2>1, <2>2 DEF RowsOK, PaymentOK, LedgerOK
    <2>5. AttemptsOK'
      <3>1. \A q \in Payers : \A jd \in PayIds : Signed(q, jd)' <=> Signed(q, jd)
        BY <2>2 DEF Signed
      <3>2. \A q \in Payers : \A jd, kd \in PayIds : Signed(q, jd)' /\ Signed(q, kd)' => jd = kd
        BY <1>1, <3>1 DEF RowsOK, AttemptsOK
      <3> QED
        BY <2>3, <3>2 DEF AttemptsOK
    <2>6. RowsOK'
      BY <1>1, <2>1, <2>2, <2>3, <2>4, <2>5 DEF RowsOK, ProviderTypeOK
    <2>7. Keeps
      BY <1>1, <2>2, NoMoneyMoves DEF Keeps
    <2> QED
      BY <2>6, <2>7
  <1>5. ASSUME NEW r \in RefundIds, RowsOK', Keeps,
               handler' = [handler EXCEPT ![h].pc = "complete", ![h].ref = r]
        PROVE  PaymentsInv'
    <2> DEFINE w == [handler[h] EXCEPT !.pc = "complete", !.ref = r]
    <2>1. /\ w \in Handler /\ w.pc = "complete" /\ w.p = p /\ w.pay = id /\ w.amt = amt
      BY <1>1 DEF Handler
    <2>2. handler' = [handler EXCEPT ![h] = w] /\ handler'[h] = w
      BY <1>1, <1>5
    <2>3. HandlerOK(h)'
      BY <1>1, <1>2, <2>1, <2>2 DEF HandlerOK, At
    <2> QED
      BY <1>5, <2>1, <2>2, <2>3, HandlerMoves
  <1>6. ASSUME RowsOK', Keeps, Finish(h) PROVE PaymentsInv'
    BY <1>6, HandlerFinishes
  <1> QED
    BY <1>3, <1>4, <1>5, <1>6 DEF CallRefund

\* CompleteRead reads a row that stays in the ledger as a refund.
LEMMA CompleteReadInv ==
  ASSUME PaymentsInv, NEW h \in Handlers, CompleteRead(h) PROVE PaymentsInv' /\ Keeps
  <1> DEFINE p == handler[h].p
  <1>1. /\ RowsOK /\ RowsOK' /\ Keeps /\ HandlerOK(h) /\ handler \in [Handlers -> Handler]
        /\ handler[h] \in Handler /\ At(h, "complete") /\ UNCHANGED <<payment, ledger>>
    BY Halves, SameRows DEF CompleteRead
  <1>2. p \in Payers /\ payment[p].status # "NONE"
    BY <1>1, ProviderAssumption DEF HandlerOK, At
  <1>3. ASSUME NEW i \in PendingRefunds(p), NEW to \in {"REFUNDED", "PARTIALLY_REFUNDED"},
               handler' = [handler EXCEPT ![h].pc = "completeWrite", ![h].tx = i, ![h].to = to]
        PROVE  PaymentsInv'
    <2> DEFINE w == [handler[h] EXCEPT !.pc = "completeWrite", !.tx = i, !.to = to]
    <2>1. i \in Nat /\ i \in DOMAIN ledger[p] /\ ledger[p][i].type = "REFUND"
      BY <1>1, <1>2, PendingRefundIsRow
    <2>2. w \in Handler /\ w.pc = "completeWrite" /\ w.p = p /\ w.tx = i /\ w.to = to
      BY <1>1, <2>1, ZenonT(40) DEF Handler, PaymentStatus
    <2>3. handler' = [handler EXCEPT ![h] = w] /\ handler'[h] = w
      BY <1>1, <1>3
    <2>4. HandlerOK(h)'
      BY <1>1, <1>2, <2>1, <2>2, <2>3 DEF HandlerOK, At
    <2> QED
      BY <1>1, <2>2, <2>3, <2>4, HandlerMoves
  <1>4. CASE Finish(h)
    BY <1>1, <1>4, HandlerFinishes
  <1> QED
    BY <1>1, <1>3, <1>4 DEF CompleteRead

\* A refund row of a ledger is completed and counted.
LEMMA RefundCompleted ==
  ASSUME RowsOK, NEW p \in Payers, NEW row \in PaymentRow, NEW i \in DOMAIN ledger[p],
         NEW refund \in Transaction,
         payment' = [payment EXCEPT ![p] = row],
         ledger' = [ledger EXCEPT ![p] = [ledger[p] EXCEPT ![i] = refund]],
         payment[p].status # "NONE", row.status # "NONE",
         row.amount = payment[p].amount, row.refunded <= payment[p].amount,
         ledger[p][i].type = "REFUND", refund.type = "REFUND",
         refund.amount = ledger[p][i].amount, refund.status = "COMPLETED",
         row.refunded = payment[p].refunded + refund.amount,
         published' \subseteq EventKey, UNCHANGED <<session, providerVars>>
  PROVE  RowsOK' /\ Keeps
  <1>1. /\ payment' \in [Payers -> PaymentRow] /\ payment'[p] = row
        /\ \A q \in Payers \ {p} : payment'[q] = payment[q]
    BY DEF RowsOK
  <1>2. ledger[p] \in Seq(Transaction) /\ PaymentOK(p) /\ LedgerOK(p)
    BY DEF RowsOK
  <1> DEFINE rows == [ledger[p] EXCEPT ![i] = refund]
  <1>3. /\ rows \in Seq(Transaction) /\ DOMAIN rows = DOMAIN ledger[p] /\ rows # <<>>
        /\ rows[i] = refund /\ \A j \in DOMAIN ledger[p] : j # i => rows[j] = ledger[p][j]
        /\ i # 1 /\ 1 \in DOMAIN ledger[p]
    <2>1. i # 1
      BY <1>2 DEF LedgerOK
    <2>2. ledger[p] # <<>>
      BY <1>2
    <2>3. 1 \in DOMAIN ledger[p]
      BY <1>2, <2>2
    <2>4. /\ rows \in Seq(Transaction) /\ DOMAIN rows = DOMAIN ledger[p]
          /\ rows[i] = refund /\ \A j \in DOMAIN ledger[p] : j # i => rows[j] = ledger[p][j]
      BY <1>2
    <2>5. rows # <<>>
      BY <1>2, <2>3, <2>4
    <2> QED
      BY <2>1, <2>3, <2>4, <2>5
  <1>4. /\ ledger' \in [Payers -> Seq(Transaction)] /\ ledger'[p] = rows
        /\ \A q \in Payers \ {p} : ledger'[q] = ledger[q]
    BY <1>3 DEF RowsOK
  <1>5. UNCHANGED <<session, orders, attempts, refunds>>
    BY DEF providerVars
  <1>6. ASSUME NEW q \in Payers PROVE PaymentOK(q)' /\ LedgerOK(q)'
    <2>1. CASE q = p
      <3>1. PaymentOK(p)'
        BY <1>1, <1>2, <1>3, <1>4, <1>5 DEF PaymentOK
      <3>2. LedgerOK(p)'
        BY <1>1, <1>2, <1>3, <1>4, <1>5 DEF LedgerOK
      <3> QED
        BY <2>1, <3>1, <3>2
    <2>2. CASE q # p
      BY <2>2, <1>1, <1>4, <1>5 DEF RowsOK, PaymentOK, LedgerOK
    <2> QED
      BY <2>1, <2>2
  <1>7. RowsOK'
    BY <1>1, <1>4, <1>5, <1>6 DEF RowsOK, ProviderTypeOK, AttemptsOK, Signed
  <1>8. Keeps
    <2>1. /\ refund.amount \in 1 .. payment[p].amount - payment[p].refunded
          /\ ledger[p] # <<>>
      <3>1. refund.amount \in Nat /\ payment[p].refunded \in Nat /\ payment[p].amount \in Nat
        BY DEF RowsOK, PaymentRow, Transaction
      <3>2. refund.amount > 0 /\ ledger[p] # <<>>
        BY <1>2, <1>3 DEF LedgerOK
      <3> QED
        BY <3>1, <3>2
    <2>2. Promise!Return(p, refund.amount)
      <3>1. /\ \A q \in Payers : payment'[q].amount = payment[q].amount
            /\ \A q \in Payers : ledger'[q] # <<>> <=> ledger[q] # <<>>
        BY <1>1, <1>3, <1>4, <2>1
      <3>2. /\ payment'[p].refunded = payment[p].refunded + refund.amount
            /\ \A q \in Payers \ {p} : payment'[q].refunded = payment[q].refunded
        BY <1>1
      <3>3. [q \in Payers |-> payment'[q].refunded] =
              [[q \in Payers |-> payment[q].refunded] EXCEPT ![p] = @ + refund.amount]
        BY <3>2
      <3>4. [q \in Payers |-> payment'[q].amount] = [q \in Payers |-> payment[q].amount]
        BY <3>1
      <3>5. [q \in Payers |-> ledger'[q] # <<>>] = [q \in Payers |-> ledger[q] # <<>>]
        BY <3>1, Zenon
      <3>6. [q \in Payers |-> ledger[q] # <<>>][p]
        BY <2>1, Zenon
      <3> HIDE DEF rows
      <3> QED
        BY <3>3, <3>4, <3>5, <3>6, Zenon DEF Promise!Return
    <2>3. PromiseStep
      BY <2>1, <2>2 DEF PromiseStep, Promise!Next
    <2> QED
      BY <1>1, <1>3, <1>4, <1>5, <2>3 DEF Keeps
  <1> QED
    BY <1>7, <1>8

\* CompleteWrite counts a refund within the amount, or nothing.
LEMMA CompleteWriteInv ==
  ASSUME PaymentsInv, NEW h \in Handlers, CompleteWrite(h) PROVE PaymentsInv' /\ Keeps
  <1> DEFINE p == handler[h].p
             i == handler[h].tx
             key == handler[h].key
             row == [payment[p] EXCEPT !.status = handler[h].to, !.refunded = RefundedAfter(p, i)]
             refund == [ledger[p][i] EXCEPT !.status = "COMPLETED", !.ref = handler[h].ref,
                                            !.event = key]
  <1>1. /\ RowsOK /\ HandlerOK(h) /\ At(h, "completeWrite") /\ handler[h] \in Handler
    BY Halves DEF CompleteWrite
  <1>2. /\ p \in Payers /\ payment[p].status # "NONE" /\ payment[p] \in PaymentRow
        /\ i \in DOMAIN ledger[p] /\ ledger[p][i].type = "REFUND"
        /\ handler[h].to \in {"REFUNDED", "PARTIALLY_REFUNDED"}
    BY <1>1, ProviderAssumption DEF HandlerOK, At, RowsOK
  <1>3. ledger[p] \in Seq(Transaction) /\ ledger[p][i] \in Transaction
    BY <1>1, <1>2 DEF RowsOK
  <1>4. CASE /\ CompleteAdmitted(p, i, key)
             /\ payment' = [payment EXCEPT ![p].status = handler[h].to,
                                           ![p].refunded = RefundedAfter(p, i)]
             /\ ledger' = [ledger EXCEPT ![p][i].status = "COMPLETED",
                                         ![p][i].ref = handler[h].ref,
                                         ![p][i].event = key]
             /\ Publish(key)
    <2>1. RefundedAfter(p, i) \in Nat /\ RefundedAfter(p, i) <= payment[p].amount
      <3>1. payment[p].refunded \in Nat /\ ledger[p][i].amount \in Nat
        BY <1>2, <1>3 DEF PaymentRow, Transaction
      <3> QED
        <4>1. RefundedAfter(p, i) = payment[p].refunded + ledger[p][i].amount
          BY DEF RefundedAfter
        <4>2. RefundedAfter(p, i) <= payment[p].amount
          BY <1>4 DEF CompleteAdmitted
        <4> QED
          BY <3>1, <4>1, <4>2
    <2>2. /\ row \in PaymentRow /\ row.status # "NONE" /\ row.amount = payment[p].amount
          /\ row.refunded <= payment[p].amount
          /\ row.refunded = payment[p].refunded + ledger[p][i].amount
      BY <1>2, <2>1 DEF PaymentRow, PaymentStatus, RefundedAfter
    <2>3. /\ refund \in Transaction /\ refund.type = "REFUND" /\ refund.status = "COMPLETED"
          /\ refund.amount = ledger[p][i].amount
      BY <1>1, <1>2, <1>3 DEF Transaction, Handler
    <2>4. payment' = [payment EXCEPT ![p] = row]
      BY <1>4
    <2>5. ledger' = [ledger EXCEPT ![p] = [ledger[p] EXCEPT ![i] = refund]]
      BY <1>4
    <2>6. published' \subseteq EventKey
      BY <1>1, <1>4 DEF RowsOK, Publish, Handler
    <2>7. UNCHANGED <<session, providerVars>> /\ Finish(h)
      BY DEF CompleteWrite
    <2>8. row.refunded = payment[p].refunded + refund.amount
      BY <2>2, <2>3
    <2> HIDE DEF row, refund
    <2>9. RowsOK' /\ Keeps
      BY <1>1, <1>2, <2>2, <2>3, <2>4, <2>5, <2>6, <2>7, <2>8, RefundCompleted
    <2> QED
      BY <2>7, <2>9, HandlerFinishes
  <1>5. CASE UNCHANGED <<payment, ledger, published>>
    BY <1>5, SameRows, HandlerFinishes DEF CompleteWrite
  <1> QED
    BY <1>4, <1>5 DEF CompleteWrite

-----------------------------------------------------------------------------
(* The session, the payer and Razorpay *)

\* A step that changes the session only.
LEMMA SessionChanged ==
  ASSUME PaymentsInv, session' \in SessionRow, session'.price \in Amounts \cup {0},
         UNCHANGED <<payment, ledger, published, providerVars>>
  PROVE  RowsOK' /\ Keeps
  <1>1. RowsOK /\ UNCHANGED <<orders, attempts, refunds>>
    BY Halves DEF providerVars
  <1>2. RowsOK'
    BY <1>1 DEF RowsOK, ProviderTypeOK, PaymentOK, LedgerOK, AttemptsOK, Signed
  <1> QED
    BY <1>1, <1>2, NoMoneyMoves DEF Keeps

\* TermsWrite changes the price of the session, and of no payment.
LEMMA TermsWriteInv ==
  ASSUME PaymentsInv, NEW h \in Handlers, TermsWrite(h) PROVE PaymentsInv' /\ Keeps
  <1>1. /\ handler[h].amt \in Amounts \cup {0} /\ handler[h].amt \in Nat
        /\ session \in SessionRow /\ session.price \in Amounts \cup {0}
    BY Halves, ProviderAssumption DEF TermsWrite, HandlerOK, RowsOK
  <1>2. session' \in SessionRow /\ session'.price \in Amounts \cup {0}
    BY <1>1 DEF TermsWrite, SessionRow
  <1>3. UNCHANGED <<payment, ledger, published, providerVars>> /\ Finish(h)
    BY DEF TermsWrite
  <1> QED
    BY <1>2, <1>3, SessionChanged, HandlerFinishes

\* A step of the environment leaves every handler where it is.
LEMMA HandlersWait ==
  ASSUME PaymentsInv, RowsOK', Keeps, UNCHANGED handler PROVE PaymentsInv'
  <1>1. RowsOK /\ handler \in [Handlers -> Handler] /\ \A h \in Handlers : HandlerOK(h)
    BY Halves
  <1>2. \A h \in Handlers : HandlerOK(h)'
    BY <1>1, WaitingHandler
  <1> QED
    BY <1>1, <1>2 DEF PaymentsInv, RowsOK, TypeOK

\* EndSession changes no row of payments.
LEMMA EndSessionInv ==
  ASSUME PaymentsInv, NEW status \in {"COMPLETED", "CANCELLED"}, EndSession(status)
  PROVE  PaymentsInv' /\ Keeps
  <1>1. session \in SessionRow /\ session.price \in Amounts \cup {0}
    BY Halves DEF RowsOK
  <1>2. session' \in SessionRow /\ session'.price \in Amounts \cup {0}
    BY <1>1 DEF EndSession, SessionRow
  <1> QED
    BY <1>2, SessionChanged, HandlersWait DEF EndSession

\* An order that is paid takes no further attempt.
LEMMA PayerPaysInv ==
  ASSUME PaymentsInv, NEW p \in Payers, NEW id \in PayIds, NEW amount \in Amounts,
         NEW status \in {"failed", "authorized"}, PayerPays(p, id, status, amount)
  PROVE  PaymentsInv' /\ Keeps
  <1> DEFINE attempt == [status |-> status, payer |-> p, amount |-> amount, returned |-> 0]
  <1>1. RowsOK
    BY Halves
  <1>2. /\ attempts[id].status = "none" /\ ~Paid(p)
        /\ attempts' = [attempts EXCEPT ![id] = attempt]
        /\ UNCHANGED <<session, payment, ledger, published, handler, orders, refunds>>
    BY DEF PayerPays, TryToPay
  <1>3. amount \in Nat
    BY ProviderAssumption
  <1>4. /\ attempts' \in [PayIds -> Attempt] /\ attempts'[id] = attempt
        /\ \A jd \in PayIds \ {id} : attempts'[jd] = attempts[jd]
    <2>1. attempt \in Attempt
      BY <1>3 DEF Attempt
    <2> QED
      BY <1>1, <1>2, <2>1 DEF RowsOK, ProviderTypeOK
  <1>5. AttemptsOK'
    <2>1. \A q \in Payers : \A jd \in PayIds :
            Signed(q, jd)' => Signed(q, jd) \/ (jd = id /\ q = p)
      BY <1>4 DEF Signed
    <2>2. \A jd \in PayIds : ~Signed(p, jd)
      BY <1>2 DEF Signed, Paid
    <2>3. \A q \in Payers : \A jd, kd \in PayIds : Signed(q, jd)' /\ Signed(q, kd)' => jd = kd
      BY <1>1, <2>1, <2>2 DEF RowsOK, AttemptsOK
    <2> QED
      BY <1>1, <1>2, <2>3 DEF RowsOK, AttemptsOK
  <1>6. ASSUME NEW q \in Payers PROVE PaymentOK(q)' /\ LedgerOK(q)'
    <2>1. PaymentOK(q)'
      BY <1>1, <1>2 DEF RowsOK, PaymentOK
    <2>2. LedgerOK(q)'
      BY <1>1, <1>2, <1>4 DEF RowsOK, LedgerOK
    <2> QED
      BY <2>1, <2>2
  <1>7. RowsOK'
    BY <1>1, <1>2, <1>4, <1>5, <1>6 DEF RowsOK, ProviderTypeOK
  <1>8. Keeps
    BY <1>2, <1>4, NoMoneyMoves DEF Keeps
  <1> QED
    BY <1>2, <1>7, <1>8, HandlersWait

\* The attempt that is captured is the one that was authorized.
LEMMA ProviderCapturesInv ==
  ASSUME PaymentsInv, NEW id \in PayIds, ProviderCaptures(id) PROVE PaymentsInv' /\ Keeps
  <1>1. RowsOK
    BY Halves
  <1>2. /\ attempts[id].status = "authorized"
        /\ attempts' = [attempts EXCEPT ![id].status = "captured"]
        /\ UNCHANGED <<session, payment, ledger, published, handler, orders, refunds>>
    BY DEF ProviderCaptures, CaptureAttempt
  <1>3. attempts \in [PayIds -> Attempt]
    BY <1>1 DEF RowsOK, ProviderTypeOK
  <1>4. /\ attempts' \in [PayIds -> Attempt]
        /\ attempts'[id].status = "captured" /\ attempts'[id].payer = attempts[id].payer
        /\ \A jd \in PayIds \ {id} : attempts'[jd] = attempts[jd]
    BY <1>2, <1>3 DEF Attempt
  <1>5. AttemptsOK'
    <2>1. \A q \in Payers : \A jd \in PayIds : Signed(q, jd)' => Signed(q, jd)
      BY <1>2, <1>4 DEF Signed
    <2>2. \A q \in Payers : \A jd, kd \in PayIds : Signed(q, jd)' /\ Signed(q, kd)' => jd = kd
      BY <1>1, <2>1 DEF RowsOK, AttemptsOK
    <2> QED
      BY <1>1, <1>2, <2>2 DEF RowsOK, AttemptsOK
  <1>6. ASSUME NEW q \in Payers PROVE PaymentOK(q)' /\ LedgerOK(q)'
    <2>1. PaymentOK(q)'
      BY <1>1, <1>2 DEF RowsOK, PaymentOK
    <2>2. LedgerOK(q)'
      BY <1>1, <1>2, <1>4 DEF RowsOK, LedgerOK
    <2> QED
      BY <2>1, <2>2
  <1>7. RowsOK'
    BY <1>1, <1>2, <1>4, <1>5, <1>6 DEF RowsOK, ProviderTypeOK
  <1>8. Keeps
    BY <1>2, <1>4, NoMoneyMoves DEF Keeps
  <1> QED
    BY <1>2, <1>7, <1>8, HandlersWait

\* A processed refund stays a refund of the same attempt.
LEMMA ProviderRefundsInv ==
  ASSUME PaymentsInv, NEW r \in RefundIds, ProviderRefunds(r) PROVE PaymentsInv' /\ Keeps
  <1>1. RowsOK
    BY Halves
  <1>2. /\ refunds[r].status = "pending"
        /\ refunds' = [refunds EXCEPT ![r].status = "processed"]
        /\ UNCHANGED <<session, payment, ledger, published, handler, orders, attempts>>
    BY DEF ProviderRefunds, ProcessRefund
  <1>3. /\ refunds' \in [RefundIds -> Refund]
        /\ \A s \in RefundIds : refunds'[s].status # "none" => refunds'[s].pay \in PayIds
    BY <1>1, <1>2 DEF RowsOK, ProviderTypeOK, Refund, AttemptsOK
  <1>4. AttemptsOK'
    BY <1>1, <1>2, <1>3 DEF RowsOK, AttemptsOK, Signed
  <1>5. RowsOK'
    BY <1>1, <1>2, <1>3, <1>4 DEF RowsOK, ProviderTypeOK, PaymentOK, LedgerOK
  <1>6. Keeps
    BY <1>2, NoMoneyMoves DEF Keeps
  <1> QED
    BY <1>2, <1>5, <1>6, HandlersWait

-----------------------------------------------------------------------------
(* Every step *)

\* The first step of any request.
LEMMA RequestInv ==
  ASSUME PaymentsInv, NEW h \in Handlers, Request(h) PROVE PaymentsInv' /\ Keeps
  <1>1. ASSUME NEW p \in Payers, StartCreateOrder(h, p) PROVE PaymentsInv' /\ Keeps
    BY <1>1, StartCreateOrderInv
  <1>2. ASSUME NEW p \in Payers, NEW id \in PayIds,
               StartVerify(h, p, id) \/ DeliverFailed(h, p, id) \/ DeliverCaptured(h, p, id)
        PROVE  PaymentsInv' /\ Keeps
    BY <1>2, StartVerifyInv, DeliverFailedInv, DeliverCapturedInv
  <1>3. ASSUME NEW p \in Payers, NEW r \in RefundIds, DeliverRefund(h, p, r)
        PROVE  PaymentsInv' /\ Keeps
    BY <1>3, DeliverRefundInv
  <1>4. ASSUME NEW p \in Payers, NEW admin \in BOOLEAN, NEW amt, StartRefund(h, p, admin, amt)
        PROVE  PaymentsInv' /\ Keeps
    BY <1>4, StartRefundInv
  <1>5. ASSUME NEW price \in Amounts \cup {0}, StartChangeTerms(h, price)
        PROVE  PaymentsInv' /\ Keeps
    BY <1>5, StartChangeTermsInv
  <1> QED
    BY <1>1, <1>2, <1>3, <1>4, <1>5 DEF Request

\* Any later step of a request.
LEMMA HandlerStepInv ==
  ASSUME PaymentsInv, NEW h \in Handlers, HandlerStep(h) PROVE PaymentsInv' /\ Keeps
  BY CreatePaymentInv, CallCreateOrderInv, AttachReadInv, AttachWriteInv, FailReadInv,
     FailWriteInv, AuthorizeWriteInv, CaptureWriteInv, RefundReadInv, RefundWriteInv,
     CallRefundInv, CompleteReadInv, CompleteWriteInv, TermsWriteInv DEF HandlerStep

\* Any step of the session, the payer or Razorpay.
LEMMA EnvironmentInv ==
  ASSUME PaymentsInv, Environment PROVE PaymentsInv' /\ Keeps
  BY EndSessionInv, PayerPaysInv, ProviderCapturesInv, ProviderRefundsInv DEF Environment

\* Any step keeps the invariant and takes nothing back.
LEMMA NextInv ==
  ASSUME PaymentsInv, [Next]_vars PROVE PaymentsInv' /\ Keeps
  <1>1. CASE UNCHANGED vars
    BY <1>1, SameRows, HandlersWait DEF vars, providerVars
  <1>2. ASSUME NEW h \in Handlers, Request(h) \/ HandlerStep(h) \/ Crash(h)
        PROVE  PaymentsInv' /\ Keeps
    BY <1>2, RequestInv, HandlerStepInv, CrashInv
  <1>3. CASE Environment
    BY <1>3, EnvironmentInv
  <1> QED
    BY <1>1, <1>2, <1>3 DEF Next

-----------------------------------------------------------------------------
(* Theorems *)

\* The inductive invariant holds in every reachable state.
THEOREM PaymentsInvariance == Spec => []PaymentsInv
  BY InitPaymentsInv, NextInv, PTL DEF Spec

\* Every row and every handler has its type.
THEOREM TypeCorrect == Spec => []TypeOK
  <1>1. PaymentsInv => TypeOK
    BY DEF PaymentsInv
  <1> QED
    BY <1>1, PaymentsInvariance, PTL

\* No interleaving of requests shows a payment as received that has no receipt.
THEOREM SettledHasReceiptAlways == Spec => []SettledHasReceipt
  <1>1. ASSUME PaymentsInv, NEW p \in Payers, payment[p].status \in Settled
        PROVE  \E i \in DOMAIN ledger[p] : ledger[p][i].type = "PAYMENT"
    <2>1. ledger[p] \in Seq(Transaction) /\ ledger[p] # <<>>
      BY <1>1 DEF PaymentsInv, TypeOK, PaymentOK
    <2>2. 1 \in DOMAIN ledger[p]
      BY <2>1
    <2> QED
      BY <1>1, <2>2 DEF PaymentsInv, LedgerOK
  <1>2. PaymentsInv => SettledHasReceipt
    BY <1>1 DEF SettledHasReceipt
  <1> QED
    BY <1>2, PaymentsInvariance, PTL

\* No interleaving of deliveries books a second receipt, or a receipt after a refund.
THEOREM OneReceiptFirstAlways == Spec => []OneReceiptFirst
  <1>1. PaymentsInv => OneReceiptFirst
    BY DEF PaymentsInv, LedgerOK, OneReceiptFirst
  <1> QED
    BY <1>1, PaymentsInvariance, PTL

\* A receipt is of a captured attempt on this payment's order, for its exact amount.
THEOREM ReceiptIsCaptureAlways == Spec => []ReceiptIsCapture
  <1>1. PaymentsInv => ReceiptIsCapture
    BY DEF PaymentsInv, LedgerOK, ReceiptIsCapture
  <1> QED
    BY <1>1, PaymentsInvariance, PTL

\* Razorpay is asked for the amount on record, however the price changes meanwhile.
THEOREM ChargedPriceRecordedAlways == Spec => []ChargedPriceRecorded
  <1>1. PaymentsInv => ChargedPriceRecorded
    BY DEF PaymentsInv, PaymentOK, ChargedPriceRecorded
  <1> QED
    BY <1>1, PaymentsInvariance, PTL

\* No step removes a ledger row, changes its type or amount, or reopens it.
THEOREM LedgerOnlyGrowsAlways == Spec => LedgerOnlyGrows
  <1>1. PaymentsInv /\ [Next]_vars =>
          [\A p \in Payers : \A i \in DOMAIN ledger[p] :
             /\ i \in DOMAIN ledger'[p]
             /\ ledger'[p][i].type = ledger[p][i].type
             /\ ledger'[p][i].amount = ledger[p][i].amount
             /\ ledger[p][i].status = "COMPLETED" => ledger'[p][i].status = "COMPLETED"]_vars
    BY NextInv DEF Keeps
  <1> QED
    BY <1>1, PaymentsInvariance, PTL DEF Spec, LedgerOnlyGrows

\* The payments module implements its promise of the money: one price that never
\* changes, received at most once, returned only after that and never in excess.
THEOREM Implements == Spec => KeepsPromise
  <1>1. Init => Promise!Init
    <2> SUFFICES ASSUME Init PROVE Promise!Init
      OBVIOUS
    <2>1. /\ \A p \in Payers : payment[p].amount = 0 /\ payment[p].refunded = 0
          /\ \A p \in Payers : ledger[p] = <<>>
      BY DEF Init, NoPayment
    <2> QED
      BY <2>1 DEF Promise!Init
  <1>2. PaymentsInv /\ [Next]_vars => [Promise!Next]_(Promise!promiseVars)
    BY NextInv DEF Keeps, PromiseStep
  <1> QED
    BY <1>1, <1>2, PaymentsInvariance, PTL DEF Spec, KeepsPromise, Promise!Spec

-----------------------------------------------------------------------------
(* Requests that do not overlap: what the proofs of the steps share *)

\* The step leaves the COMPLETED rows of every ledger as they are.
CompletedStay ==
  \A p \in Payers : \A i \in DOMAIN ledger[p] :
    ledger[p][i].status = "COMPLETED" => ledger'[p][i] = ledger[p][i]

\* The rows of the sequential invariant.
RowsFresh == (\A p \in Payers : RowFresh(p)) /\ RefundsFresh

\* Of the handlers it is enough to look at the one that moves.
LEMMA Together ==
  ASSUME OneAtATime, PaymentsInv', RowsFresh', NEW h \in Handlers, Fresh(h)'
  PROVE  SequentialInv'
  <1>1. ASSUME NEW g \in Handlers PROVE Fresh(g)'
    <2>1. g = h
      BY DEF OneAtATime
    <2> QED
      BY <2>1
  <1> QED
    BY <1>1 DEF SequentialInv, RowsFresh

\* The handlers are records of the fields that the code keeps in a request.
LEMMA HandlerRow ==
  ASSUME SequentialInv, NEW h \in Handlers
  PROVE  /\ RowsOK /\ handler \in [Handlers -> Handler] /\ handler[h] \in Handler
         /\ HandlerOK(h) /\ Fresh(h) /\ RowsFresh
         /\ ~At(h, "idle") /\ ~At(h, "termsWrite") => handler[h].p \in Payers
  BY Halves DEF SequentialInv, RowsFresh, HandlerOK

\* A request that is over relies on nothing.
LEMMA FreshWhenIdle ==
  ASSUME OneAtATime, SequentialInv, PaymentsInv', RowsFresh', NEW h \in Handlers, Finish(h)
  PROVE  SequentialInv'
  <1>1. handler'[h] = Idle
    BY HandlerRow DEF Finish
  <1>2. handler'[h].pc = "idle"
    BY <1>1 DEF Idle
  <1>3. Fresh(h)'
    BY <1>2 DEF Fresh, At
  <1> QED
    BY <1>3, Together

\* A step that only reads.
LEMMA RowsStayFresh ==
  ASSUME SequentialInv, UNCHANGED <<session, payment, ledger, providerVars>>
  PROVE  RowsFresh' /\ CompletedStay
  <1>1. UNCHANGED <<attempts, refunds>>
    BY DEF providerVars
  <1>2. ASSUME NEW p \in Payers PROVE RowFresh(p)'
    BY <1>1 DEF SequentialInv, RowFresh, PendingRefunds, Signed
  <1>3. RefundsFresh'
    BY <1>1 DEF SequentialInv, RefundsFresh
  <1> QED
    BY <1>2, <1>3 DEF CompletedStay, RowsFresh

\* A payment that still waits gets another status and keeps its amounts.
LEMMA WaitingRowWritten ==
  ASSUME SequentialInv, NEW p \in Payers, NEW row \in PaymentRow,
         payment' = [payment EXCEPT ![p] = row],
         payment[p].status \in Failable, row.status \in {"PENDING", "AUTHORIZED", "FAILED"},
         row.amount = payment[p].amount, row.refunded = payment[p].refunded,
         row.pay # None => Signed(p, row.pay),
         UNCHANGED <<session, ledger, providerVars>>
  PROVE  RowsFresh' /\ CompletedStay
  <1>1. UNCHANGED <<attempts, refunds>>
    BY DEF providerVars
  <1>2. /\ payment'[p] = row /\ \A q \in Payers \ {p} : payment'[q] = payment[q]
        /\ \A q \in Payers : RowFresh(q)
    BY Halves DEF SequentialInv, RowsOK
  <1>3. PendingRefunds(p) = {} /\ ledger[p] = <<>>
    BY <1>2 DEF RowFresh, Failable, Settled
  <1>4. \A q \in Payers : PendingRefunds(q)' = PendingRefunds(q)
    BY DEF PendingRefunds
  <1>5. \A q \in Payers, id \in PayIds : Signed(q, id)' <=> Signed(q, id)
    BY <1>1 DEF Signed
  <1>6. ASSUME NEW q \in Payers PROVE RowFresh(q)'
    <2>1. CASE q = p
      <3>1. row.pay # None => Signed(p, row.pay)'
        BY <1>1 DEF Signed
      <3> QED
        BY <2>1, <1>1, <1>2, <1>3, <1>4, <3>1 DEF RowFresh, Failable, Settled
    <2>2. CASE q # p
      BY <2>2, <1>1, <1>2, <1>4 DEF RowFresh, Signed
    <2> QED
      BY <2>1, <2>2
  <1>7. RefundsFresh'
    BY <1>1 DEF SequentialInv, RefundsFresh
  <1> QED
    BY <1>6, <1>7 DEF CompletedStay, RowsFresh

-----------------------------------------------------------------------------
(* The steps of createOrder, fail and verify *)

\* A request that goes on, when no row has changed since it read.
LEMMA GoesOnFresh ==
  ASSUME OneAtATime, SequentialInv, PaymentsInv',
         UNCHANGED <<session, payment, ledger, providerVars>>,
         NEW h \in Handlers, NEW pc, Goto(h, pc),
         handler'[h] = [handler[h] EXCEPT !.pc = pc] => Fresh(h)'
  PROVE  SequentialInv' /\ CompletedStay
  <1>1. handler'[h] = [handler[h] EXCEPT !.pc = pc]
    BY HandlerRow DEF Goto
  <1> QED
    BY <1>1, RowsStayFresh, Together

\* The end of a request that changes no row.
LEMMA EndsFresh ==
  ASSUME OneAtATime, SequentialInv, PaymentsInv',
         UNCHANGED <<session, payment, ledger, providerVars>>,
         NEW h \in Handlers, Finish(h)
  PROVE  SequentialInv' /\ CompletedStay
  BY RowsStayFresh, FreshWhenIdle

\* The payment gets the price its payer has seen, which is still the session's.
LEMMA CreatePaymentFresh ==
  ASSUME OneAtATime, SequentialInv, PaymentsInv', NEW h \in Handlers, CreatePayment(h)
  PROVE  SequentialInv' /\ CompletedStay
  <1> DEFINE p == handler[h].p
             row == [NoPayment EXCEPT !.status = "CREATED", !.amount = handler[h].amt]
  <1>1. /\ RowsOK /\ RowsFresh /\ Fresh(h) /\ At(h, "create") /\ p \in Payers
        /\ handler \in [Handlers -> Handler] /\ handler[h] \in Handler
    BY HandlerRow DEF CreatePayment, At
  <1>2. CASE Payable(p)
    <2>1. /\ payment' = [payment EXCEPT ![p] = row] /\ Goto(h, "callOrder")
          /\ UNCHANGED <<session, ledger, orders, attempts, refunds>>
      BY <1>2 DEF CreatePayment, providerVars
    <2>2. /\ payment'[p] = row /\ \A q \in Payers \ {p} : payment'[q] = payment[q]
      BY <1>1, <2>1 DEF RowsOK
    <2>3. /\ row.status = "CREATED" /\ row.amount = session.price
          /\ row.refunded = 0 /\ row.pay = None
      BY <1>1 DEF NoPayment, Fresh, At
    <2>4. ledger[p] = <<>> /\ payment[p] = NoPayment
      BY <1>1, <1>2 DEF RowsOK, PaymentOK, Payable
    <2>5. \A q \in Payers : PendingRefunds(q)' = PendingRefunds(q)
      BY <2>1 DEF PendingRefunds
    <2>6. ASSUME NEW q \in Payers PROVE RowFresh(q)'
      <3>1. RowFresh(q)
        BY <1>1 DEF RowsFresh
      <3>2. CASE q = p
        BY <2>1, <2>2, <2>3, <2>4, <2>5, <3>1, <3>2 DEF RowFresh, NoPayment, Settled
      <3>3. CASE q # p
        BY <2>1, <2>2, <2>5, <3>1, <3>3 DEF RowFresh, Signed
      <3> QED
        BY <3>2, <3>3
    <2>7. RowsFresh' /\ CompletedStay
      BY <1>1, <2>1, <2>6 DEF RowsFresh, RefundsFresh, CompletedStay
    <2>8. handler'[h] = [handler[h] EXCEPT !.pc = "callOrder"]
      BY <1>1, <2>1 DEF Goto
    <2>9. handler'[h].pc = "callOrder" /\ handler'[h].p = p
      BY <1>1, <2>8 DEF Handler
    <2>10. Fresh(h)'
      BY <2>2, <2>3, <2>9 DEF Fresh, At
    <2> QED
      BY <2>7, <2>10, Together
  <1>3. CASE ~Payable(p)
    BY <1>3, EndsFresh DEF CreatePayment
  <1> QED
    BY <1>2, <1>3

\* An order is made for a payment that waits in CREATED.
LEMMA CallCreateOrderFresh ==
  ASSUME OneAtATime, SequentialInv, PaymentsInv', NEW h \in Handlers, CallCreateOrder(h)
  PROVE  SequentialInv' /\ CompletedStay
  <1>1. /\ RowsFresh /\ Fresh(h) /\ At(h, "callOrder")
        /\ handler \in [Handlers -> Handler] /\ handler[h] \in Handler
        /\ UNCHANGED <<session, payment, ledger, published, attempts, refunds>>
    BY HandlerRow DEF CallCreateOrder
  <1>2. RowsFresh' /\ CompletedStay
    BY <1>1 DEF RowsFresh, RowFresh, RefundsFresh, PendingRefunds, Signed, CompletedStay
  <1>3. PICK pc \in {"attach", "fail"} : Goto(h, pc)
    BY DEF CallCreateOrder
  <1>4. handler'[h] = [handler[h] EXCEPT !.pc = pc]
    BY <1>1, <1>3 DEF Goto
  <1>5. handler'[h].pc = pc /\ handler'[h].p = handler[h].p
    BY <1>1, <1>4 DEF Handler
  <1>6. Fresh(h)'
    BY <1>1, <1>3, <1>5 DEF Fresh, At
  <1> QED
    BY <1>2, <1>6, Together

\* The payment an order is attached to is still the one that was created.
LEMMA AttachReadFresh ==
  ASSUME OneAtATime, SequentialInv, PaymentsInv', NEW h \in Handlers, AttachRead(h)
  PROVE  SequentialInv' /\ CompletedStay
  <1>1. /\ Fresh(h) /\ At(h, "attach") /\ handler[h] \in Handler
        /\ UNCHANGED <<session, payment, ledger, providerVars>>
    BY HandlerRow DEF AttachRead
  <1>2. PICK pc \in {"attachWrite", "fail"} : Goto(h, pc)
    BY DEF AttachRead
  <1>3. ASSUME handler'[h] = [handler[h] EXCEPT !.pc = pc] PROVE Fresh(h)'
    <2>1. handler'[h].pc = pc /\ handler'[h].p = handler[h].p
      BY <1>1, <1>3 DEF Handler
    <2> QED
      BY <1>1, <1>2, <2>1 DEF Fresh, At
  <1> QED
    BY <1>1, <1>2, <1>3, GoesOnFresh

\* A payment that can fail is read and, in the next step, failed.
LEMMA FailReadFresh ==
  ASSUME OneAtATime, SequentialInv, PaymentsInv', NEW h \in Handlers, FailRead(h)
  PROVE  SequentialInv' /\ CompletedStay
  <1>1. /\ At(h, "fail") /\ handler[h] \in Handler
        /\ UNCHANGED <<session, payment, ledger, providerVars>>
    BY HandlerRow DEF FailRead
  <1>2. CASE payment[handler[h].p].status \in Failable /\ Goto(h, "failWrite")
    <2>1. ASSUME handler'[h] = [handler[h] EXCEPT !.pc = "failWrite"] PROVE Fresh(h)'
      <3>1. handler'[h].pc = "failWrite" /\ handler'[h].p = handler[h].p
        BY <1>1, <2>1 DEF Handler
      <3> QED
        BY <1>1, <1>2, <3>1 DEF Fresh, At
    <2> QED
      BY <1>1, <1>2, <2>1, GoesOnFresh
  <1>3. CASE Finish(h)
    BY <1>1, <1>3, EndsFresh
  <1> QED
    BY <1>2, <1>3 DEF FailRead

\* The three writes that leave a payment waiting or failed find it as it was read.
LEMMA AttachWriteFresh ==
  ASSUME OneAtATime, SequentialInv, PaymentsInv', NEW h \in Handlers, AttachWrite(h)
  PROVE  SequentialInv' /\ CompletedStay
  <1> DEFINE p == handler[h].p
             row == [payment[p] EXCEPT !.order = TRUE, !.status = "PENDING"]
  <1>1. RowsOK /\ RowsFresh /\ Fresh(h) /\ At(h, "attachWrite") /\ p \in Payers
    BY HandlerRow DEF AttachWrite, At
  <1>2. /\ payment[p] \in PaymentRow /\ payment[p].status \in Failable
        /\ payment[p].pay # None => Signed(p, payment[p].pay)
    BY <1>1 DEF RowsOK, RowsFresh, RowFresh, Fresh, At, Failable
  <1>3. /\ row \in PaymentRow /\ row.status = "PENDING" /\ row.pay = payment[p].pay
        /\ row.amount = payment[p].amount /\ row.refunded = payment[p].refunded
    BY <1>2 DEF PaymentRow, PaymentStatus
  <1>4. payment' = [payment EXCEPT ![p] = row] /\ UNCHANGED <<session, ledger, providerVars>>
    BY DEF AttachWrite
  <1>5. RowsFresh' /\ CompletedStay
    BY <1>1, <1>2, <1>3, <1>4, WaitingRowWritten
  <1> QED
    BY <1>5, FreshWhenIdle DEF AttachWrite

\* A payment is failed that still waits.
LEMMA FailWriteFresh ==
  ASSUME OneAtATime, SequentialInv, PaymentsInv', NEW h \in Handlers, FailWrite(h)
  PROVE  SequentialInv' /\ CompletedStay
  <1> DEFINE p == handler[h].p
             row == [payment[p] EXCEPT !.status = "FAILED"]
  <1>1. RowsOK /\ RowsFresh /\ Fresh(h) /\ At(h, "failWrite") /\ p \in Payers
    BY HandlerRow DEF FailWrite, At
  <1>2. /\ payment[p] \in PaymentRow /\ payment[p].status \in Failable
        /\ payment[p].pay # None => Signed(p, payment[p].pay)
    BY <1>1 DEF RowsOK, RowsFresh, RowFresh, Fresh, At
  <1>3. /\ row \in PaymentRow /\ row.status = "FAILED" /\ row.pay = payment[p].pay
        /\ row.amount = payment[p].amount /\ row.refunded = payment[p].refunded
    BY <1>2 DEF PaymentRow, PaymentStatus
  <1>4. CASE payment' = [payment EXCEPT ![p].status = "FAILED"]
    <2>1. payment' = [payment EXCEPT ![p] = row] /\ UNCHANGED <<session, ledger, providerVars>>
      BY <1>4 DEF FailWrite
    <2>2. RowsFresh' /\ CompletedStay
      BY <1>1, <1>2, <1>3, <2>1, WaitingRowWritten
    <2> QED
      BY <2>2, FreshWhenIdle DEF FailWrite
  <1>5. CASE UNCHANGED payment
    BY <1>5, EndsFresh DEF FailWrite
  <1> QED
    BY <1>4, <1>5 DEF FailWrite

\* A payment is authorized that still waits, by an attempt on its order.
LEMMA AuthorizeWriteFresh ==
  ASSUME OneAtATime, SequentialInv, PaymentsInv', NEW h \in Handlers, AuthorizeWrite(h)
  PROVE  SequentialInv' /\ CompletedStay
  <1> DEFINE p == handler[h].p
             row == [payment[p] EXCEPT !.status = "AUTHORIZED", !.pay = handler[h].pay]
  <1>1. /\ RowsOK /\ RowsFresh /\ Fresh(h) /\ At(h, "authorizeWrite") /\ p \in Payers
        /\ handler[h] \in Handler
    BY HandlerRow DEF AuthorizeWrite, At
  <1>2. /\ payment[p] \in PaymentRow /\ payment[p].status \in Failable
        /\ Signed(p, handler[h].pay)
    BY <1>1 DEF RowsOK, Fresh, At, Failable, Authorizable
  <1>3. /\ row \in PaymentRow /\ row.status = "AUTHORIZED" /\ row.pay = handler[h].pay
        /\ row.amount = payment[p].amount /\ row.refunded = payment[p].refunded
    BY <1>1, <1>2 DEF PaymentRow, PaymentStatus, Handler
  <1>4. payment' = [payment EXCEPT ![p] = row] /\ UNCHANGED <<session, ledger, providerVars>>
    BY DEF AuthorizeWrite
  <1>5. RowsFresh' /\ CompletedStay
    BY <1>1, <1>2, <1>3, <1>4, WaitingRowWritten
  <1> QED
    BY <1>5, FreshWhenIdle DEF AuthorizeWrite

-----------------------------------------------------------------------------
(* The first steps of the requests *)

\* A request starts with what its guards have read.
LEMMA StartsFresh ==
  ASSUME OneAtATime, SequentialInv, PaymentsInv',
         UNCHANGED <<session, payment, ledger, providerVars>>,
         NEW h \in Handlers, NEW w, handler' = [handler EXCEPT ![h] = w],
         handler'[h] = w => Fresh(h)'
  PROVE  SequentialInv' /\ CompletedStay
  <1>1. handler'[h] = w
    BY HandlerRow
  <1> QED
    BY <1>1, RowsStayFresh, Together

\* createOrder has the session's price.
LEMMA StartCreateOrderFresh ==
  ASSUME OneAtATime, SequentialInv, PaymentsInv', NEW h \in Handlers, NEW p \in Payers,
         StartCreateOrder(h, p)
  PROVE  SequentialInv' /\ CompletedStay
  <1> DEFINE w == [Idle EXCEPT !.pc = "create", !.p = p, !.amt = session.price]
  <1>1. w.pc = "create" /\ w.amt = session.price /\ UNCHANGED session
    BY DEF Idle, StartCreateOrder
  <1>2. handler'[h] = w => Fresh(h)'
    BY <1>1 DEF Fresh, At
  <1> QED
    BY <1>2, StartsFresh DEF StartCreateOrder

\* verify has an attempt that paid the order of a payment that waits.
LEMMA StartVerifyFresh ==
  ASSUME OneAtATime, SequentialInv, PaymentsInv', NEW h \in Handlers, NEW p \in Payers,
         NEW id \in PayIds, StartVerify(h, p, id)
  PROVE  SequentialInv' /\ CompletedStay
  <1> DEFINE w == [Idle EXCEPT !.pc = "authorizeWrite", !.p = p, !.pay = id]
  <1>1. /\ w.pc = "authorizeWrite" /\ w.p = p /\ w.pay = id
        /\ payment[p].status \in Authorizable /\ Signed(p, id)
        /\ UNCHANGED <<payment, attempts>>
    BY DEF Idle, StartVerify, providerVars
  <1>2. handler'[h] = w => Fresh(h)'
    BY <1>1 DEF Fresh, At, Signed
  <1> QED
    BY <1>2, StartsFresh DEF StartVerify

\* payment.failed finds a payment that can fail.
LEMMA DeliverFailedFresh ==
  ASSUME OneAtATime, SequentialInv, PaymentsInv', NEW h \in Handlers, NEW p \in Payers,
         NEW id \in PayIds, DeliverFailed(h, p, id)
  PROVE  SequentialInv' /\ CompletedStay
  <1> DEFINE w == [Idle EXCEPT !.pc = "failWrite", !.p = p, !.key = <<"payment.failed", id>>]
  <1>1. /\ w.pc = "failWrite" /\ w.p = p
        /\ payment[p].status \in Failable /\ UNCHANGED payment
    BY DEF Idle, DeliverFailed
  <1>2. handler'[h] = w => Fresh(h)'
    BY <1>1 DEF Fresh, At
  <1> QED
    BY <1>2, StartsFresh DEF DeliverFailed

\* payment.captured finds a payment that waits.
LEMMA DeliverCapturedFresh ==
  ASSUME OneAtATime, SequentialInv, PaymentsInv', NEW h \in Handlers, NEW p \in Payers,
         NEW id \in PayIds, DeliverCaptured(h, p, id)
  PROVE  SequentialInv' /\ CompletedStay
  <1> DEFINE w == [Idle EXCEPT !.pc = "captureWrite", !.p = p, !.pay = id,
                               !.key = CapturedKey(id)]
  <1>1. /\ w.pc = "captureWrite" /\ w.p = p
        /\ payment[p].status \in Capturable /\ UNCHANGED payment
    BY DEF Idle, DeliverCaptured
  <1>2. handler'[h] = w => Fresh(h)'
    BY <1>1 DEF Fresh, At
  <1> QED
    BY <1>2, StartsFresh DEF DeliverCaptured

\* A refund of the whole amount leaves nothing that other refunds could have returned:
\* the row it completes is of what is missing.
LEMMA FullRefundIsOnRecord ==
  ASSUME SequentialInv, NEW p \in Payers, NEW r \in RefundIds, NEW i \in PendingRefunds(p),
         refunds[r].status # "none", payment[p].pay = refunds[r].pay,
         refunds[r].amount >= payment[p].amount
  PROVE  RefundedAfter(p, i) >= payment[p].amount
  <1> DEFINE id == refunds[r].pay
  <1>1. RowsOK /\ RowFresh(p) /\ RefundsFresh
    BY Halves DEF SequentialInv
  <1>2. id \in PayIds /\ id # None
    BY <1>1, ProviderAssumption DEF RowsOK, AttemptsOK
  <1>3. attempts[id].payer = p
    BY <1>1, <1>2 DEF RowFresh, Signed
  <1>4. attempts[id].returned <= payment[p].refunded + ledger[p][i].amount
    BY <1>1, <1>2, <1>3 DEF RowFresh
  <1>5. refunds[r].amount <= attempts[id].returned
    BY <1>1 DEF RefundsFresh
  <1>6. /\ refunds[r].amount \in Nat /\ attempts[id].returned \in Nat
        /\ payment[p].amount \in Nat /\ payment[p].refunded \in Nat
        /\ ledger[p][i].amount \in Nat
    <2>1. i \in DOMAIN ledger[p] /\ ledger[p] \in Seq(Transaction)
      BY <1>1 DEF PendingRefunds, RowsOK
    <2>2. ledger[p][i] \in Transaction
      BY <2>1
    <2> QED
      BY <1>1, <1>2, <2>2 DEF RowsOK, ProviderTypeOK, PaymentRow, Attempt, Refund, Transaction
  <1> QED
    BY <1>4, <1>5, <1>6 DEF RefundedAfter

\* refund.processed finds the one refund that is pending.
LEMMA DeliverRefundFresh ==
  ASSUME OneAtATime, SequentialInv, PaymentsInv', NEW h \in Handlers, NEW p \in Payers,
         NEW r \in RefundIds, DeliverRefund(h, p, r)
  PROVE  SequentialInv' /\ CompletedStay
  <1> DEFINE to == IF refunds[r].amount >= payment[p].amount THEN "REFUNDED" ELSE "PARTIALLY_REFUNDED"
             w(i) == [Idle EXCEPT !.pc = "completeWrite", !.p = p, !.tx = i, !.ref = r,
                                  !.to = to, !.key = RefundKey(r)]
  <1>1. PICK i \in PendingRefunds(p) : handler' = [handler EXCEPT ![h] = w(i)]
    BY DEF DeliverRefund
  <1>2. /\ refunds[r].status # "none" /\ payment[p].pay = refunds[r].pay
        /\ payment[p].status = "REFUND_PENDING"
        /\ UNCHANGED <<session, payment, ledger, providerVars>>
    BY DEF DeliverRefund
  <1>3. /\ w(i).pc = "completeWrite" /\ w(i).p = p /\ w(i).tx = i
        /\ w(i).to = "REFUNDED" => refunds[r].amount >= payment[p].amount
    BY DEF Idle
  <1>4. w(i).to = "REFUNDED" => RefundedAfter(p, i) >= payment[p].amount
    BY <1>2, <1>3, FullRefundIsOnRecord
  <1>5. handler'[h] = w(i) => Fresh(h)'
    BY <1>2, <1>3, <1>4 DEF Fresh, At, PendingRefunds, RefundedAfter
  <1> QED
    BY <1>1, <1>2, <1>5, StartsFresh

\* requestRefund has the attempt that paid, and what has been refunded of it.
LEMMA StartRefundFresh ==
  ASSUME OneAtATime, SequentialInv, PaymentsInv', NEW h \in Handlers, NEW p \in Payers,
         NEW admin \in BOOLEAN, NEW amt, StartRefund(h, p, admin, amt)
  PROVE  SequentialInv' /\ CompletedStay
  <1> DEFINE w == [Idle EXCEPT !.pc = "refund", !.p = p, !.amt = amt,
                               !.pay = payment[p].pay, !.read = payment[p].refunded]
  <1>1. /\ payment[p].pay # None /\ UNCHANGED <<payment, attempts>>
        /\ Signed(p, payment[p].pay)
    BY DEF StartRefund, SequentialInv, RowFresh, providerVars
  <1>2. /\ w.pc = "refund" /\ w.p = p /\ w.pay = payment[p].pay
        /\ w.read = payment[p].refunded
    BY DEF Idle
  <1>3. handler'[h] = w => Fresh(h)'
    BY <1>1, <1>2 DEF Fresh, At, Signed
  <1> QED
    BY <1>3, StartsFresh DEF StartRefund

\* The terms of a session change that nobody has started to pay.
LEMMA StartChangeTermsFresh ==
  ASSUME OneAtATime, SequentialInv, PaymentsInv', NEW h \in Handlers,
         NEW price \in Amounts \cup {0}, StartChangeTerms(h, price)
  PROVE  SequentialInv' /\ CompletedStay
  <1> DEFINE w == [Idle EXCEPT !.pc = "termsWrite", !.amt = price]
  <1>1. w.pc = "termsWrite" /\ ~HasPaymentForSession /\ UNCHANGED payment
    BY DEF Idle, StartChangeTerms
  <1>2. handler'[h] = w => Fresh(h)'
    BY <1>1 DEF Fresh, At, HasPaymentForSession
  <1> QED
    BY <1>2, StartsFresh DEF StartChangeTerms

\* A crash loses what the request has read and nothing else.
LEMMA CrashFresh ==
  ASSUME OneAtATime, SequentialInv, PaymentsInv', NEW h \in Handlers, Crash(h)
  PROVE  SequentialInv' /\ CompletedStay
  BY EndsFresh DEF Crash

-----------------------------------------------------------------------------
(* The steps of the webhooks and of the refunds *)

\* The receipt is the first row of a ledger whose payment waited.
LEMMA CaptureWriteFresh ==
  ASSUME OneAtATime, SequentialInv, PaymentsInv', NEW h \in Handlers, CaptureWrite(h)
  PROVE  SequentialInv' /\ CompletedStay
  <1>0. PICK p \in Payers : p = handler[h].p
    BY HandlerRow DEF CaptureWrite, At
  <1>1. PICK id, key : p = handler[h].p /\ id = handler[h].pay /\ key = handler[h].key
    BY <1>0
  <1> DEFINE row == [payment[p] EXCEPT !.status = "CAPTURED", !.pay = id]
             receipt == Receipt(p, id, key)
  <1>2. /\ RowsOK /\ RowsFresh /\ Fresh(h) /\ HandlerOK(h) /\ At(h, "captureWrite")
        /\ Finish(h) /\ UNCHANGED <<session, orders, attempts, refunds>>
    BY HandlerRow DEF CaptureWrite, providerVars
  <1>3. /\ payment[p] \in PaymentRow /\ payment[p].status \in Capturable
        /\ Signed(p, id) /\ RowFresh(p)
    BY <1>1, <1>2 DEF RowsOK, RowsFresh, Fresh, HandlerOK, At, Signed
  <1>4. ledger[p] = <<>> /\ PendingRefunds(p) = {}
    BY <1>3 DEF RowFresh, Capturable, Settled
  <1>5. CASE /\ payment' = [payment EXCEPT ![p].status = "CAPTURED", ![p].pay = id]
             /\ ledger' = AppendRow(p, receipt)
    <2>1. payment' = [payment EXCEPT ![p] = row]
      BY <1>5
    <2>2. ledger' = [ledger EXCEPT ![p] = <<receipt>>]
      BY <1>4, <1>5 DEF AppendRow
    <2>3. /\ payment'[p] = row /\ \A q \in Payers \ {p} : payment'[q] = payment[q]
          /\ ledger'[p] = <<receipt>> /\ \A q \in Payers \ {p} : ledger'[q] = ledger[q]
      BY <1>2, <2>1, <2>2 DEF RowsOK
    <2>4. /\ row.status = "CAPTURED" /\ row.pay = id
          /\ row.amount = payment[p].amount /\ row.refunded = payment[p].refunded
      BY <1>3 DEF PaymentRow
    <2>5. PendingRefunds(p)' = {}
      <3>1. DOMAIN ledger'[p] = {1} /\ ledger'[p][1] = receipt
        BY <2>3
      <3>2. receipt.type = "PAYMENT"
        BY DEF Receipt
      <3> HIDE DEF receipt
      <3> QED
        BY <3>1, <3>2 DEF PendingRefunds
    <2>6. Signed(p, id)'
      BY <1>2, <1>3 DEF Signed
    <2> HIDE DEF row, receipt
    <2>7. ASSUME NEW q \in Payers PROVE RowFresh(q)'
      <3>1. CASE q = p
        BY <1>2, <1>3, <1>4, <2>3, <2>4, <2>5, <2>6, <3>1 DEF RowFresh, Settled, Capturable
      <3>2. CASE q # p
        BY <1>2, <2>3, <3>2 DEF RowsFresh, RowFresh, PendingRefunds, Signed
      <3> QED
        BY <3>1, <3>2
    <2>8. RowsFresh'
      BY <1>2, <2>7 DEF RowsFresh, RefundsFresh
    <2>9. CompletedStay
      BY <1>4, <2>3 DEF CompletedStay
    <2> QED
      BY <1>2, <2>8, <2>9, FreshWhenIdle
  <1>6. CASE UNCHANGED <<payment, ledger>>
    BY <1>2, <1>6, EndsFresh DEF providerVars
  <1> QED
    BY <1>1, <1>5, <1>6 DEF CaptureWrite

\* A refund that is within what is left is read and, in the next step, written.
LEMMA RefundReadFresh ==
  ASSUME OneAtATime, SequentialInv, PaymentsInv', NEW h \in Handlers, RefundRead(h)
  PROVE  SequentialInv' /\ CompletedStay
  <1> DEFINE p == handler[h].p
  <1>1. /\ Fresh(h) /\ At(h, "refund") /\ handler[h] \in Handler
        /\ UNCHANGED <<session, payment, ledger, attempts, providerVars>>
    BY HandlerRow DEF RefundRead, providerVars
  <1>2. CASE /\ payment[p].status \in Refundable
             /\ handler[h].amt <= payment[p].amount - payment[p].refunded
             /\ Goto(h, "refundWrite")
    <2>1. ASSUME handler'[h] = [handler[h] EXCEPT !.pc = "refundWrite"] PROVE Fresh(h)'
      <3>1. /\ handler'[h].pc = "refundWrite" /\ handler'[h].p = p
            /\ handler'[h].pay = handler[h].pay /\ handler'[h].amt = handler[h].amt
            /\ handler'[h].read = handler[h].read
        BY <1>1, <2>1 DEF Handler
      <3> QED
        BY <1>1, <1>2, <3>1 DEF Fresh, At, Signed
    <2> QED
      BY <1>1, <1>2, <2>1, GoesOnFresh
  <1>3. CASE Finish(h)
    BY <1>1, <1>3, EndsFresh
  <1> QED
    BY <1>2, <1>3 DEF RefundRead

\* The refund that is written is the only one that is pending.
LEMMA RefundWriteFresh ==
  ASSUME OneAtATime, SequentialInv, PaymentsInv', NEW h \in Handlers, RefundWrite(h)
  PROVE  SequentialInv' /\ CompletedStay
  <1>a. PICK p \in Payers : p = handler[h].p
    BY HandlerRow DEF RefundWrite, At
  <1>0. PICK amt : p = handler[h].p /\ amt = handler[h].amt
    BY <1>a
  <1> DEFINE row == [payment[p] EXCEPT !.status = "REFUND_PENDING"]
             refund == PendingRefund(amt)
             n == Len(ledger[p]) + 1
  <1>1. /\ RowsOK /\ RowsFresh /\ Fresh(h) /\ HandlerOK(h) /\ At(h, "refundWrite")
        /\ handler \in [Handlers -> Handler] /\ handler[h] \in Handler
    BY HandlerRow DEF RefundWrite
  <1>2. /\ payment[p] \in PaymentRow /\ payment[p].status \in Refundable
        /\ RowFresh(p) /\ ledger[p] \in Seq(Transaction)
    BY <1>0, <1>1 DEF RowsOK, RowsFresh, Fresh, At
  <1>3. PendingRefunds(p) = {}
    BY <1>2 DEF RowFresh, Refundable
  <1>4. /\ payment' = [payment EXCEPT ![p] = row]
        /\ ledger' = [ledger EXCEPT ![p] = Append(@, refund)]
        /\ UNCHANGED <<session, orders, attempts, refunds>>
    BY <1>0 DEF RefundWrite, AppendRow, providerVars
  <1>5. /\ payment'[p] = row /\ \A q \in Payers \ {p} : payment'[q] = payment[q]
        /\ ledger'[p] = Append(ledger[p], refund)
        /\ \A q \in Payers \ {p} : ledger'[q] = ledger[q]
    BY <1>1, <1>4 DEF RowsOK
  <1>6. /\ row.status = "REFUND_PENDING" /\ row.pay = payment[p].pay
        /\ row.amount = payment[p].amount /\ row.refunded = payment[p].refunded
    BY <1>2 DEF PaymentRow
  <1>7. /\ n \in Nat /\ n > 0 /\ DOMAIN ledger[p] = 1 .. n - 1 /\ DOMAIN ledger'[p] = 1 .. n
        /\ \A i \in 1 .. n - 1 : ledger'[p][i] = ledger[p][i]
        /\ ledger'[p][n] = refund
    BY <1>2, <1>5
  <1>8. refund.type = "REFUND" /\ refund.status = "PENDING" /\ refund.amount = amt
    BY DEF PendingRefund
  <1>9. PendingRefunds(p)' = {n}
    <2>1. \A i \in 1 .. n - 1 : ~(ledger[p][i].type = "REFUND" /\ ledger[p][i].status = "PENDING")
      BY <1>3, <1>7 DEF PendingRefunds
    <2> HIDE DEF n, refund
    <2>2. n \in 1 .. n /\ \A i \in 1 .. n : i # n => i \in 1 .. n - 1
      BY <1>7
    <2>3. \A i \in 1 .. n :
            ledger'[p][i].type = "REFUND" /\ ledger'[p][i].status = "PENDING" <=> i = n
      BY <1>7, <1>8, <2>1, <2>2
    <2>4. PendingRefunds(p)' =
            {i \in 1 .. n : ledger'[p][i].type = "REFUND" /\ ledger'[p][i].status = "PENDING"}
      BY <1>7 DEF PendingRefunds
    <2> QED
      BY <2>2, <2>3, <2>4
  <1>10. amt \in Nat /\ amt > 0 /\ handler[h].pay \in PayIds /\ ledger[p] # <<>>
    BY <1>0, <1>1 DEF HandlerOK, At, Handler
  <1>11. \A id \in PayIds : attempts[id].returned \in Nat
    BY <1>1 DEF RowsOK, ProviderTypeOK, Attempt
  <1>12. payment[p].refunded \in Nat
    BY <1>2 DEF PaymentRow
  <1> HIDE DEF row, refund, n
  <1>13. ASSUME NEW q \in Payers PROVE RowFresh(q)'
    <2>1. CASE q = p
      <3>1. \A id \in PayIds : attempts[id].payer = p => attempts[id].returned <= payment[p].refunded + amt
        BY <1>2, <1>3, <1>10, <1>11, <1>12 DEF RowFresh
      <3>2. /\ payment'[q].status = "REFUND_PENDING" /\ PendingRefunds(q)' = {n}
            /\ payment'[q].refunded = payment[p].refunded /\ ledger'[q][n].amount = amt
            /\ payment'[q].amount = payment[p].amount /\ payment'[q].pay = payment[p].pay
        BY <1>5, <1>6, <1>7, <1>8, <1>9, <2>1
      <3>3. payment[p].pay # None => Signed(q, payment[p].pay)
        BY <1>2, <2>1 DEF RowFresh
      <3>4. session'.price = payment[p].amount
        BY <1>2, <1>4 DEF RowFresh, Refundable
      <3> QED
        BY <1>4, <2>1, <3>1, <3>2, <3>3, <3>4 DEF RowFresh, Settled, Signed
    <2>2. CASE q # p
      BY <1>1, <1>4, <1>5, <2>2 DEF RowsFresh, RowFresh, PendingRefunds, Signed
    <2> QED
      BY <2>1, <2>2
  <1>14. RowsFresh'
    BY <1>1, <1>4, <1>13 DEF RowsFresh, RefundsFresh
  <1>15. CompletedStay
    BY <1>5, <1>7 DEF CompletedStay
  <1>16. handler'[h] = [handler[h] EXCEPT !.pc = "callRefund"]
    BY <1>1 DEF RefundWrite, Goto
  <1>17. /\ handler'[h].pc = "callRefund" /\ handler'[h].p = p /\ handler'[h].amt = amt
         /\ handler'[h].pay = handler[h].pay /\ handler'[h].read = handler[h].read
    BY <1>0, <1>1, <1>16 DEF Handler
  <1>18. /\ Signed(p, handler[h].pay) /\ handler[h].read = payment[p].refunded
         /\ attempts[handler[h].pay].returned <= payment[p].refunded
    BY <1>0, <1>1, <1>2, <1>3, <1>10 DEF Fresh, At, RowFresh, Signed
  <1>19. Fresh(h)'
    BY <1>4, <1>5, <1>6, <1>7, <1>8, <1>9, <1>17, <1>18 DEF Fresh, At, Signed
  <1> QED
    BY <1>14, <1>15, <1>19, Together

\* Razorpay returns what the pending row is of, and returned no more than the
\* completed rows before.
LEMMA RefundAccepted ==
  ASSUME SequentialInv, NEW p \in Payers, NEW id \in PayIds, NEW amt \in Nat,
         NEW r \in RefundIds, NEW status, AcceptRefund(r, id, amt, status),
         payment[p].status = "REFUND_PENDING", Signed(p, id),
         \A i \in PendingRefunds(p) : ledger[p][i].amount = amt,
         attempts[id].returned <= payment[p].refunded,
         UNCHANGED <<session, payment, ledger>>
  PROVE  RowsFresh' /\ \A q \in Payers, jd \in PayIds : Signed(q, jd) => Signed(q, jd)'
  <1>1. RowsOK /\ RowsFresh
    BY HandlerRow, Halves DEF SequentialInv, RowsFresh
  <1>2. /\ attempts' = [attempts EXCEPT ![id].returned = @ + amt]
        /\ refunds' = [refunds EXCEPT ![r] = [status |-> status, pay |-> id, amount |-> amt]]
    BY DEF AcceptRefund
  <1>3. attempts \in [PayIds -> Attempt] /\ refunds \in [RefundIds -> Refund]
    BY <1>1 DEF RowsOK, ProviderTypeOK
  <1>4. /\ attempts'[id].returned = attempts[id].returned + amt
        /\ attempts[id].returned \in Nat
        /\ \A jd \in PayIds \ {id} : attempts'[jd] = attempts[jd]
        /\ \A jd \in PayIds : /\ attempts'[jd].status = attempts[jd].status
                              /\ attempts'[jd].payer = attempts[jd].payer
    BY <1>2, <1>3 DEF Attempt
  <1>5. \A q \in Payers, jd \in PayIds : Signed(q, jd) <=> Signed(q, jd)'
    BY <1>4 DEF Signed
  <1>6. \A q \in Payers : PendingRefunds(q)' = PendingRefunds(q)
    BY DEF PendingRefunds
  <1>7. ASSUME NEW q \in Payers PROVE RowFresh(q)'
    <2>1. RowFresh(q) /\ payment[q] \in PaymentRow
      BY <1>1 DEF RowsFresh, RowsOK
    <2>2. payment[q].pay # None => attempts'[payment[q].pay].payer = q /\ payment[q].pay \in PayIds
                                     /\ Signed(q, payment[q].pay)
      BY <1>4, <2>1 DEF RowFresh, Signed, PaymentRow
    <2>3. payment[q].pay # None =>
            attempts'[payment[q].pay].payer = q /\ attempts'[payment[q].pay].status \in {"authorized", "captured"}
      BY <1>4, <2>2 DEF Signed
    <2>4. ASSUME NEW jd \in PayIds, attempts'[jd].payer = q
          PROVE  /\ PendingRefunds(q) = {} => attempts'[jd].returned <= payment[q].refunded
                 /\ \A i \in PendingRefunds(q) :
                      attempts'[jd].returned <= payment[q].refunded + ledger[q][i].amount
      <3>1. attempts[jd].payer = q
        BY <1>4, <2>4
      <3>2. CASE jd # id
        BY <1>4, <2>1, <3>1, <3>2 DEF RowFresh
      <3>3. CASE jd = id
        <4>1. q = p
          BY <3>1, <3>3 DEF Signed
        <4>2. PendingRefunds(q) # {}
          BY <2>1, <4>1 DEF RowFresh
        <4>3. payment[p].refunded \in Nat
          BY <2>1, <4>1 DEF PaymentRow
        <4> QED
          BY <1>4, <3>3, <4>1, <4>2, <4>3
      <3> QED
        BY <3>2, <3>3
    <2> QED
      BY <1>6, <2>1, <2>3, <2>4 DEF RowFresh, Signed
  <1>8. RefundsFresh'
    <2>1. ASSUME NEW s \in RefundIds, refunds'[s].status # "none"
          PROVE  /\ attempts'[refunds'[s].pay].status = "captured"
                 /\ refunds'[s].amount <= attempts'[refunds'[s].pay].returned
      <3>1. CASE s = r
        <4>1. attempts[id].status = "captured"
          BY DEF AcceptRefund
        <4> QED
          BY <1>2, <1>3, <1>4, <3>1, <4>1
      <3>2. CASE s # r
        <4>1. /\ refunds'[s] = refunds[s] /\ refunds[s].pay \in PayIds
              /\ refunds[s].amount \in Nat
              /\ attempts[refunds[s].pay].status = "captured"
              /\ refunds[s].amount <= attempts[refunds[s].pay].returned
          BY <1>1, <1>2, <1>3, <2>1, <3>2 DEF RowsFresh, RefundsFresh, RowsOK, AttemptsOK, Refund
        <4>2. CASE refunds[s].pay = id
          BY <1>4, <4>1, <4>2
        <4>3. CASE refunds[s].pay # id
          BY <1>4, <4>1, <4>3
        <4> QED
          BY <4>2, <4>3
      <3> QED
        BY <3>1, <3>2
    <2> QED
      BY <2>1 DEF RefundsFresh
  <1> QED
    BY <1>5, <1>7, <1>8 DEF RowsFresh

\* A refund that Razorpay accepts is of the row that waits for it.
LEMMA CallRefundFresh ==
  ASSUME OneAtATime, SequentialInv, PaymentsInv', NEW h \in Handlers, CallRefund(h)
  PROVE  SequentialInv' /\ CompletedStay
  <1>1. PICK p \in Payers, id \in PayIds, amt \in Nat :
          p = handler[h].p /\ id = handler[h].pay /\ amt = handler[h].amt
    BY HandlerRow DEF CallRefund, At, HandlerOK, Handler
  <1>2. /\ Fresh(h) /\ At(h, "callRefund") /\ handler[h] \in Handler
        /\ handler \in [Handlers -> Handler] /\ UNCHANGED <<session, payment, ledger>>
    BY HandlerRow DEF CallRefund
  <1>3. /\ payment[p].status = "REFUND_PENDING" /\ Signed(p, id)
        /\ \A i \in PendingRefunds(p) : ledger[p][i].amount = amt
        /\ attempts[id].returned <= payment[p].refunded
        /\ handler[h].read = payment[p].refunded
    BY <1>1, <1>2 DEF Fresh, At
  <1>4. CASE Finish(h) /\ UNCHANGED providerVars
    BY <1>2, <1>4, EndsFresh
  <1>5. ASSUME NEW r \in RefundIds, NEW status, AcceptRefund(r, id, amt, status),
               Finish(h) \/ handler' = [handler EXCEPT ![h].pc = "complete", ![h].ref = r]
        PROVE  SequentialInv' /\ CompletedStay
    <2>1. RowsFresh' /\ Signed(p, id)'
      BY <1>2, <1>3, <1>5, RefundAccepted
    <2>2. CompletedStay
      BY <1>2 DEF CompletedStay
    <2>3. CASE Finish(h)
      BY <2>1, <2>2, <2>3, FreshWhenIdle
    <2>4. CASE handler' = [handler EXCEPT ![h].pc = "complete", ![h].ref = r]
      <3>1. handler'[h] = [handler[h] EXCEPT !.pc = "complete", !.ref = r]
        BY <1>2, <2>4
      <3>2. /\ handler'[h].pc = "complete" /\ handler'[h].p = p /\ handler'[h].pay = id
            /\ handler'[h].amt = amt /\ handler'[h].read = handler[h].read
        BY <1>1, <1>2, <3>1 DEF Handler
      <3>3. PendingRefunds(p)' = PendingRefunds(p)
        BY <1>2 DEF PendingRefunds
      <3>4. Fresh(h)'
        BY <1>2, <1>3, <2>1, <3>2, <3>3 DEF Fresh, At
      <3> QED
        BY <2>1, <2>2, <3>4, Together
    <2> QED
      BY <1>5, <2>3, <2>4
  <1> QED
    BY <1>1, <1>4, <1>5 DEF CallRefund

\* The refund that is completed is the one that the request has written.
LEMMA CompleteReadFresh ==
  ASSUME OneAtATime, SequentialInv, PaymentsInv', NEW h \in Handlers, CompleteRead(h)
  PROVE  SequentialInv' /\ CompletedStay
  <1>1. PICK p \in Payers, amt \in Nat, read \in Nat :
          p = handler[h].p /\ amt = handler[h].amt /\ read = handler[h].read
    BY HandlerRow DEF CompleteRead, At, Handler
  <1>2. /\ Fresh(h) /\ At(h, "complete") /\ handler[h] \in Handler
        /\ handler \in [Handlers -> Handler]
        /\ UNCHANGED <<session, payment, ledger, providerVars>>
    BY HandlerRow DEF CompleteRead
  <1>3. /\ \A i \in PendingRefunds(p) : ledger[p][i].amount = amt
        /\ read = payment[p].refunded
    BY <1>1, <1>2 DEF Fresh, At
  <1>4. ASSUME NEW i \in PendingRefunds(p), payment[p].status = "REFUND_PENDING",
               NEW to, to = IF RefundAmountIsFull(read, amt, payment[p].amount)
                            THEN "REFUNDED" ELSE "PARTIALLY_REFUNDED",
               handler' = [handler EXCEPT ![h].pc = "completeWrite", ![h].tx = i, ![h].to = to]
        PROVE  SequentialInv' /\ CompletedStay
    <2>1. handler'[h] = [handler[h] EXCEPT !.pc = "completeWrite", !.tx = i, !.to = to]
      BY <1>2, <1>4
    <2>2. /\ handler'[h].pc = "completeWrite" /\ handler'[h].p = p
          /\ handler'[h].tx = i /\ handler'[h].to = to
      BY <1>1, <1>2, <2>1 DEF Handler
    <2>3. to = "REFUNDED" => RefundedAfter(p, i) >= payment[p].amount
      BY <1>3, <1>4 DEF RefundAmountIsFull, RefundedAfter
    <2>4. PendingRefunds(p)' = PendingRefunds(p)
      BY <1>2 DEF PendingRefunds
    <2>5. Fresh(h)'
      BY <1>2, <1>4, <2>2, <2>3, <2>4 DEF Fresh, At, RefundedAfter
    <2> QED
      BY <1>2, <2>5, RowsStayFresh, Together
  <1>5. CASE Finish(h)
    BY <1>2, <1>5, EndsFresh
  <1> QED
    BY <1>1, <1>4, <1>5 DEF CompleteRead

\* The row that a refund completes was the only one that was pending, and it is counted.
LEMMA PendingRowCompleted ==
  ASSUME SequentialInv, NEW p \in Payers, NEW i \in PendingRefunds(p),
         NEW row \in PaymentRow, NEW refund,
         payment' = [payment EXCEPT ![p] = row],
         ledger' = [ledger EXCEPT ![p] = [ledger[p] EXCEPT ![i] = refund]],
         refund.status = "COMPLETED", row.status \in {"REFUNDED", "PARTIALLY_REFUNDED"},
         row.amount = payment[p].amount, row.pay = payment[p].pay,
         row.refunded = payment[p].refunded + ledger[p][i].amount,
         row.status = "REFUNDED" => row.refunded = row.amount,
         payment[p].status = "REFUND_PENDING",
         UNCHANGED <<session, providerVars>>
  PROVE  RowsFresh' /\ CompletedStay
  <1>1. /\ RowsOK /\ RowsFresh /\ RowFresh(p)
        /\ UNCHANGED <<attempts, refunds>>
    BY Halves DEF SequentialInv, RowsFresh, providerVars
  <1>2. /\ payment'[p] = row /\ \A q \in Payers \ {p} : payment'[q] = payment[q]
        /\ ledger[p] \in Seq(Transaction)
        /\ ledger'[p] = [ledger[p] EXCEPT ![i] = refund]
        /\ \A q \in Payers \ {p} : ledger'[q] = ledger[q]
    BY <1>1 DEF RowsOK
  <1>3. /\ i \in DOMAIN ledger[p] /\ DOMAIN ledger'[p] = DOMAIN ledger[p]
        /\ ledger'[p][i] = refund
        /\ \A j \in DOMAIN ledger[p] : j # i => ledger'[p][j] = ledger[p][j]
    BY <1>2 DEF PendingRefunds
  <1>4. PendingRefunds(p)' = {}
    BY <1>1, <1>3 DEF PendingRefunds, RowFresh
  <1>5. \A id \in PayIds : attempts[id].payer = p => attempts[id].returned <= row.refunded
    BY <1>1 DEF RowFresh
  <1>6. ASSUME NEW q \in Payers PROVE RowFresh(q)'
    <2>1. CASE q = p
      BY <1>1, <1>2, <1>4, <1>5, <2>1 DEF RowFresh, Settled, Signed
    <2>2. CASE q # p
      BY <1>1, <1>2, <2>2 DEF RowsFresh, RowFresh, PendingRefunds, Signed
    <2> QED
      BY <2>1, <2>2
  <1>7. RowsFresh'
    BY <1>1, <1>6 DEF RowsFresh, RefundsFresh
  <1>8. CompletedStay
    <2>1. ledger[p][i].status = "PENDING"
      BY DEF PendingRefunds
    <2>2. ASSUME NEW q \in Payers, NEW j \in DOMAIN ledger[q], ledger[q][j].status = "COMPLETED"
          PROVE  ledger'[q][j] = ledger[q][j]
      <3>1. CASE q = p
        BY <1>3, <2>1, <2>2, <3>1
      <3>2. CASE q # p
        BY <1>2, <3>2
      <3> QED
        BY <3>1, <3>2
    <2> QED
      BY <2>2 DEF CompletedStay
  <1> QED
    BY <1>7, <1>8

\* REFUNDED is written with the whole amount, which the table does not let it exceed.
LEMMA CompleteWriteFresh ==
  ASSUME OneAtATime, SequentialInv, PaymentsInv', NEW h \in Handlers, CompleteWrite(h)
  PROVE  SequentialInv' /\ CompletedStay
  <1>0. PICK p \in Payers : p = handler[h].p
    BY HandlerRow DEF CompleteWrite, At
  <1>1. PICK i, key, to, ref :
          /\ p = handler[h].p /\ i = handler[h].tx /\ key = handler[h].key
          /\ to = handler[h].to /\ ref = handler[h].ref
    BY <1>0
  <1>2. /\ RowsOK /\ Fresh(h) /\ HandlerOK(h) /\ At(h, "completeWrite")
        /\ Finish(h) /\ UNCHANGED <<session, providerVars>>
    BY HandlerRow DEF CompleteWrite
  <1>3. /\ i \in PendingRefunds(p) /\ payment[p].status = "REFUND_PENDING"
        /\ to = "REFUNDED" => RefundedAfter(p, i) >= payment[p].amount
        /\ to \in {"REFUNDED", "PARTIALLY_REFUNDED"} /\ payment[p] \in PaymentRow
    BY <1>1, <1>2 DEF Fresh, HandlerOK, At, RowsOK
  <1>4. CASE /\ CompleteAdmitted(p, i, key)
             /\ payment' = [payment EXCEPT ![p].status = to, ![p].refunded = RefundedAfter(p, i)]
             /\ ledger' = [ledger EXCEPT ![p][i].status = "COMPLETED", ![p][i].ref = ref,
                                         ![p][i].event = key]
    <2> DEFINE row == [payment[p] EXCEPT !.status = to, !.refunded = RefundedAfter(p, i)]
               refund == [ledger[p][i] EXCEPT !.status = "COMPLETED", !.ref = ref, !.event = key]
    <2>1. payment' = [payment EXCEPT ![p] = row]
      BY <1>4
    <2>2. ledger' = [ledger EXCEPT ![p] = [ledger[p] EXCEPT ![i] = refund]]
      BY <1>4
    <2>3. i \in DOMAIN ledger[p] /\ ledger[p] \in Seq(Transaction)
      BY <1>2, <1>3 DEF RowsOK, PendingRefunds
    <2>4. ledger[p][i] \in Transaction
      BY <2>3
    <2>5. RefundedAfter(p, i) = payment[p].refunded + ledger[p][i].amount
      BY DEF RefundedAfter
    <2>6. RefundedAfter(p, i) \in Nat /\ RefundedAfter(p, i) <= payment[p].amount
      <3>1. payment[p].refunded \in Nat /\ ledger[p][i].amount \in Nat
        BY <1>3, <2>4 DEF PaymentRow, Transaction
      <3>2. RefundedAfter(p, i) <= payment[p].amount
        BY <1>4 DEF CompleteAdmitted
      <3> QED
        BY <2>5, <3>1, <3>2
    <2>7. /\ row \in PaymentRow /\ row.status = to /\ row.pay = payment[p].pay
          /\ row.amount = payment[p].amount /\ row.refunded = RefundedAfter(p, i)
      BY <1>3, <2>6 DEF PaymentRow, PaymentStatus
    <2>8. row.status = "REFUNDED" => row.refunded = row.amount
      <3>1. payment[p].amount \in Nat
        BY <1>3 DEF PaymentRow
      <3> QED
        BY <1>3, <2>6, <2>7, <3>1
    <2>9. refund.status = "COMPLETED"
      BY <2>4 DEF Transaction
    <2> HIDE DEF row, refund
    <2>10. RowsFresh' /\ CompletedStay
      BY <1>2, <1>3, <2>1, <2>2, <2>5, <2>7, <2>8, <2>9, PendingRowCompleted
    <2> QED
      BY <1>2, <2>10, FreshWhenIdle
  <1>5. CASE UNCHANGED <<payment, ledger>>
    BY <1>2, <1>5, EndsFresh
  <1> QED
    BY <1>1, <1>4, <1>5 DEF CompleteWrite

-----------------------------------------------------------------------------
(* The session, the payer and Razorpay *)

\* The session changes, and no payment that exists has another price.
LEMMA SessionChangedFresh ==
  ASSUME SequentialInv, UNCHANGED <<payment, ledger, providerVars>>,
         ~HasPaymentForSession \/ session'.price = session.price
  PROVE  RowsFresh' /\ CompletedStay
  <1>1. RowsFresh /\ UNCHANGED <<attempts, refunds>>
    BY DEF SequentialInv, RowsFresh, providerVars
  <1>2. ASSUME NEW p \in Payers PROVE RowFresh(p)'
    BY <1>1 DEF RowsFresh, RowFresh, PendingRefunds, Signed, HasPaymentForSession
  <1> QED
    BY <1>1, <1>2 DEF RowsFresh, RefundsFresh, CompletedStay

\* The terms change of a session without a payment, also in the end.
LEMMA TermsWriteFresh ==
  ASSUME OneAtATime, SequentialInv, PaymentsInv', NEW h \in Handlers, TermsWrite(h)
  PROVE  SequentialInv' /\ CompletedStay
  <1>1. ~HasPaymentForSession
    BY HandlerRow DEF TermsWrite, Fresh
  <1>2. UNCHANGED <<payment, ledger, providerVars>> /\ Finish(h)
    BY DEF TermsWrite
  <1> QED
    BY <1>1, <1>2, SessionChangedFresh, FreshWhenIdle

\* A step beside the requests that changes no payment, and no attempt that paid or
\* returned something, lets a request rely on what it has read.
LEMMA WaitingFresh ==
  ASSUME SequentialInv, PaymentsInv', RowsFresh',
         UNCHANGED <<payment, ledger, handler>>, session'.price = session.price,
         \A p \in Payers, id \in PayIds : Signed(p, id) =>
           Signed(p, id)' /\ attempts'[id].returned = attempts[id].returned
  PROVE  SequentialInv'
  <1>1. ASSUME NEW h \in Handlers PROVE Fresh(h)'
    <2>1. PICK p, pay : p = handler[h].p /\ pay = handler[h].pay
      OBVIOUS
    <2>2. handler'[h].p = p /\ handler'[h].pay = pay
      BY <2>1
    <2>3. Fresh(h) /\ HandlerOK(h) /\ (~At(h, "idle") /\ ~At(h, "termsWrite") => p \in Payers)
      BY <2>1, HandlerRow
    <2>4. handler[h].pc \in {"refund", "refundWrite", "callRefund", "complete"} =>
            /\ p \in Payers /\ pay \in PayIds /\ Signed(p, pay)
            /\ Signed(p, pay)' /\ attempts'[pay].returned = attempts[pay].returned
      BY <2>1, <2>3 DEF HandlerOK, Fresh, At
    <2>5. At(h, "authorizeWrite") => Signed(p, pay) /\ pay \in PayIds
      BY <2>1, <2>3 DEF Fresh
    <2>6. At(h, "authorizeWrite") => Signed(p, pay)'
      BY <2>3, <2>5 DEF At
    <2>7. PendingRefunds(p)' = PendingRefunds(p)
      BY DEF PendingRefunds
    <2> QED
      BY <2>1, <2>2, <2>3, <2>4, <2>6, <2>7
         DEF Fresh, At, RefundedAfter, HasPaymentForSession
  <1> QED
    BY <1>1 DEF SequentialInv, RowsFresh

\* A session that ends keeps its price.
LEMMA EndSessionFresh ==
  ASSUME SequentialInv, PaymentsInv', NEW status, EndSession(status)
  PROVE  SequentialInv' /\ CompletedStay
  <1>1. /\ UNCHANGED <<payment, ledger, handler, attempts, providerVars>>
        /\ session'.price = session.price
    <2>1. session \in SessionRow /\ session' = [session EXCEPT !.status = status]
      BY Halves DEF SequentialInv, RowsOK, EndSession
    <2> QED
      BY <2>1 DEF EndSession, SessionRow, providerVars
  <1> QED
    BY <1>1, SessionChangedFresh, WaitingFresh DEF Signed

\* A new attempt has returned nothing, and an attempt that paid is not tried again.
LEMMA PayerPaysFresh ==
  ASSUME SequentialInv, PaymentsInv', NEW p \in Payers, NEW id \in PayIds,
         NEW status \in {"failed", "authorized"}, NEW amount \in Amounts,
         PayerPays(p, id, status, amount)
  PROVE  SequentialInv' /\ CompletedStay
  <1>1. /\ attempts[id].status = "none" /\ UNCHANGED <<session, payment, ledger, handler, refunds>>
        /\ attempts' = [attempts EXCEPT ![id] =
             [status |-> status, payer |-> p, amount |-> amount, returned |-> 0]]
    BY DEF PayerPays, TryToPay
  <1>2. RowsOK /\ RowsFresh
    BY Halves DEF SequentialInv, RowsFresh
  <1>3. /\ attempts'[id].returned = 0 /\ attempts'[id].payer = p
        /\ \A jd \in PayIds \ {id} : attempts'[jd] = attempts[jd]
    BY <1>1, <1>2 DEF RowsOK, ProviderTypeOK
  <1>4. \A q \in Payers, jd \in PayIds : Signed(q, jd) =>
          Signed(q, jd)' /\ attempts'[jd].returned = attempts[jd].returned
    BY <1>1, <1>3 DEF Signed
  <1>5. ASSUME NEW q \in Payers PROVE RowFresh(q)'
    <2>1. RowFresh(q) /\ payment[q] \in PaymentRow /\ ledger[q] \in Seq(Transaction)
      BY <1>2 DEF RowsOK, RowsFresh
    <2>2. payment[q].pay # None => payment[q].pay \in PayIds
      BY <2>1 DEF PaymentRow
    <2>3. PICK pay : pay = payment[q].pay
      OBVIOUS
    <2>4. pay # None => Signed(q, pay)'
      BY <1>4, <2>1, <2>2, <2>3 DEF RowFresh
    <2>5. payment[q].refunded \in Nat /\ \A i \in PendingRefunds(q) : ledger[q][i].amount \in Nat
      <3>1. \A i \in DOMAIN ledger[q] : ledger[q][i] \in Transaction
        BY <2>1
      <3> QED
        BY <2>1, <3>1 DEF PaymentRow, Transaction, PendingRefunds
    <2>6. PendingRefunds(q)' = PendingRefunds(q)
      BY <1>1 DEF PendingRefunds
    <2>7. ASSUME NEW jd \in PayIds, attempts'[jd].payer = q
          PROVE  /\ PendingRefunds(q) = {} => attempts'[jd].returned <= payment[q].refunded
                 /\ \A i \in PendingRefunds(q) :
                      attempts'[jd].returned <= payment[q].refunded + ledger[q][i].amount
      <3>1. CASE jd = id
        BY <1>3, <2>5, <3>1
      <3>2. CASE jd # id
        BY <1>3, <2>1, <2>7, <3>2 DEF RowFresh
      <3> QED
        BY <3>1, <3>2
    <2> QED
      BY <1>1, <2>1, <2>3, <2>4, <2>6, <2>7 DEF RowFresh
  <1>6. RefundsFresh'
    <2>1. ASSUME NEW r \in RefundIds, refunds[r].status # "none"
          PROVE  /\ attempts'[refunds[r].pay].status = "captured"
                 /\ refunds[r].amount <= attempts'[refunds[r].pay].returned
      <3>1. /\ refunds[r].pay \in PayIds /\ refunds[r].amount \in Nat
            /\ attempts[refunds[r].pay].status = "captured"
            /\ refunds[r].amount <= attempts[refunds[r].pay].returned
        BY <1>2, <2>1 DEF RowsOK, ProviderTypeOK, Refund, AttemptsOK, RowsFresh, RefundsFresh
      <3> QED
        BY <1>1, <1>3, <3>1
    <2> QED
      BY <1>1, <2>1 DEF RefundsFresh
  <1>7. RowsFresh'
    BY <1>5, <1>6 DEF RowsFresh
  <1>8. CompletedStay
    BY <1>1 DEF CompletedStay
  <1> QED
    BY <1>1, <1>4, <1>7, <1>8, WaitingFresh

\* An attempt that is captured is still the one that paid.
LEMMA ProviderCapturesFresh ==
  ASSUME SequentialInv, PaymentsInv', NEW id \in PayIds, ProviderCaptures(id)
  PROVE  SequentialInv' /\ CompletedStay
  <1>1. /\ UNCHANGED <<session, payment, ledger, handler, refunds>>
        /\ attempts' = [attempts EXCEPT ![id].status = "captured"]
    BY DEF ProviderCaptures, CaptureAttempt
  <1>2. RowsOK /\ RowsFresh
    BY Halves DEF SequentialInv, RowsFresh
  <1>3. \A jd \in PayIds : /\ attempts'[jd].payer = attempts[jd].payer
                           /\ attempts'[jd].returned = attempts[jd].returned
                           /\ attempts'[jd].status \in {attempts[jd].status, "captured"}
    BY <1>1, <1>2 DEF RowsOK, ProviderTypeOK, Attempt
  <1>4. \A q \in Payers, jd \in PayIds : Signed(q, jd) =>
          Signed(q, jd)' /\ attempts'[jd].returned = attempts[jd].returned
    BY <1>3 DEF Signed
  <1>5. ASSUME NEW q \in Payers PROVE RowFresh(q)'
    <2>1. PICK pay : pay = payment[q].pay
      OBVIOUS
    <2>2. RowFresh(q) /\ (pay # None => pay \in PayIds)
      BY <1>2, <2>1 DEF RowsOK, RowsFresh, PaymentRow
    <2>3. pay # None => Signed(q, pay)'
      BY <1>4, <2>1, <2>2 DEF RowFresh
    <2>4. PendingRefunds(q)' = PendingRefunds(q)
      BY <1>1 DEF PendingRefunds
    <2> QED
      BY <1>1, <1>3, <2>1, <2>2, <2>3, <2>4 DEF RowFresh
  <1>6. RefundsFresh'
    BY <1>1, <1>2, <1>3 DEF RowsOK, AttemptsOK, RowsFresh, RefundsFresh
  <1>7. RowsFresh'
    BY <1>5, <1>6 DEF RowsFresh
  <1>8. CompletedStay
    BY <1>1 DEF CompletedStay
  <1> QED
    BY <1>1, <1>4, <1>7, <1>8, WaitingFresh

\* A refund that is processed is of the same amount.
LEMMA ProviderRefundsFresh ==
  ASSUME SequentialInv, PaymentsInv', NEW r \in RefundIds, ProviderRefunds(r)
  PROVE  SequentialInv' /\ CompletedStay
  <1>1. /\ UNCHANGED <<session, payment, ledger, handler, attempts>>
        /\ refunds[r].status = "pending"
        /\ refunds' = [refunds EXCEPT ![r].status = "processed"]
    BY DEF ProviderRefunds, ProcessRefund
  <1>2. RowsOK /\ RowsFresh
    BY Halves DEF SequentialInv, RowsFresh
  <1>3. \A s \in RefundIds : /\ refunds'[s].pay = refunds[s].pay
                             /\ refunds'[s].amount = refunds[s].amount
                             /\ refunds'[s].status # "none" => refunds[s].status # "none"
    BY <1>1, <1>2 DEF RowsOK, ProviderTypeOK, Refund
  <1>4. RefundsFresh'
    BY <1>1, <1>2, <1>3 DEF RowsFresh, RefundsFresh
  <1>5. RowsFresh'
    BY <1>1, <1>2, <1>4 DEF RowsFresh, RowFresh, PendingRefunds, Signed
  <1>6. CompletedStay
    BY <1>1 DEF CompletedStay
  <1> QED
    BY <1>1, <1>5, <1>6, WaitingFresh DEF Signed

-----------------------------------------------------------------------------
(* Every step of requests that do not overlap *)

\* In the initial states no payment exists.
LEMMA InitSequentialInv == Init => SequentialInv
  <1> SUFFICES ASSUME Init PROVE SequentialInv
    OBVIOUS
  <1>1. ASSUME NEW p \in Payers PROVE RowFresh(p)
    BY ProviderAssumption DEF Init, ProviderInit, RowFresh, NoPayment, PendingRefunds
  <1>2. RefundsFresh
    BY DEF Init, ProviderInit, RefundsFresh
  <1>3. ASSUME NEW h \in Handlers PROVE Fresh(h)
    BY DEF Init, Fresh, At, Idle
  <1> QED
    BY <1>1, <1>2, <1>3, InitPaymentsInv DEF SequentialInv

\* Any step keeps what a request relies on, and the rows that are COMPLETED.
LEMMA NextSequentialInv ==
  ASSUME OneAtATime, SequentialInv, [Next]_vars
  PROVE  SequentialInv' /\ CompletedStay
  <1>1. PaymentsInv'
    BY NextInv DEF SequentialInv
  <1>2. CASE UNCHANGED vars
    <2>1. UNCHANGED <<session, payment, ledger, handler, attempts, providerVars>>
      BY <1>2 DEF vars, providerVars
    <2> QED
      BY <1>1, <2>1, RowsStayFresh, WaitingFresh DEF Signed
  <1>3. ASSUME NEW h \in Handlers, Request(h) PROVE SequentialInv' /\ CompletedStay
    <2>1. ASSUME NEW p \in Payers, NEW id \in PayIds,
                 StartVerify(h, p, id) \/ DeliverFailed(h, p, id) \/ DeliverCaptured(h, p, id)
          PROVE  SequentialInv' /\ CompletedStay
      BY <1>1, <2>1, StartVerifyFresh, DeliverFailedFresh, DeliverCapturedFresh
    <2>2. ASSUME NEW p \in Payers, NEW admin \in BOOLEAN, NEW amt, StartRefund(h, p, admin, amt)
          PROVE  SequentialInv' /\ CompletedStay
      BY <1>1, <2>2, StartRefundFresh
    <2>3. ASSUME NEW p \in Payers, NEW r \in RefundIds, DeliverRefund(h, p, r)
          PROVE  SequentialInv' /\ CompletedStay
      BY <1>1, <2>3, DeliverRefundFresh
    <2> QED
      BY <1>1, <1>3, <2>1, <2>2, <2>3, StartCreateOrderFresh, StartChangeTermsFresh DEF Request
  <1>4. ASSUME NEW h \in Handlers, HandlerStep(h) PROVE SequentialInv' /\ CompletedStay
    BY <1>1, <1>4, CreatePaymentFresh, CallCreateOrderFresh, AttachReadFresh, AttachWriteFresh,
       FailReadFresh, FailWriteFresh, AuthorizeWriteFresh, CaptureWriteFresh, RefundReadFresh,
       RefundWriteFresh, CallRefundFresh, CompleteReadFresh, CompleteWriteFresh, TermsWriteFresh
       DEF HandlerStep
  <1>5. ASSUME Environment PROVE SequentialInv' /\ CompletedStay
    BY <1>1, <1>5, EndSessionFresh, PayerPaysFresh, ProviderCapturesFresh, ProviderRefundsFresh
       DEF Environment
  <1> QED
    BY <1>1, <1>2, <1>3, <1>4, <1>5, CrashFresh DEF Next

\* The sequential invariant holds in every reachable state of one request at a time.
LEMMA SequentialInvariance == ASSUME OneAtATime PROVE Spec => []SequentialInv
  <1>1. Init => SequentialInv
    BY InitSequentialInv
  <1>2. SequentialInv /\ [Next]_vars => SequentialInv'
    BY NextSequentialInv
  <1> QED
    BY <1>1, <1>2, PTL DEF Spec

-----------------------------------------------------------------------------
(* Theorems of requests that do not overlap *)

\* The price does not change under a payer who has started to pay.
THEOREM TermsFrozenOneAtATime == ASSUME OneAtATime PROVE Spec => []TermsFrozen
  <1>1. SequentialInv => TermsFrozen
    BY DEF SequentialInv, RowFresh, TermsFrozen
  <1> QED
    BY <1>1, SequentialInvariance, PTL

\* A payment whose receipt is booked does not fall back to waiting or failed.
THEOREM ReceiptMeansSettledOneAtATime == ASSUME OneAtATime PROVE Spec => []ReceiptMeansSettled
  <1>1. SequentialInv => ReceiptMeansSettled
    BY DEF SequentialInv, RowFresh, ReceiptMeansSettled
  <1> QED
    BY <1>1, SequentialInvariance, PTL

\* A payment is REFUND_PENDING while exactly one refund of its ledger is.
THEOREM OnePendingRefundOneAtATime == ASSUME OneAtATime PROVE Spec => []OnePendingRefund
  <1>1. SequentialInv => OnePendingRefund
    BY DEF SequentialInv, RowFresh, OnePendingRefund
  <1> QED
    BY <1>1, SequentialInvariance, PTL

\* REFUNDED is shown when the whole amount has been booked as returned, also when the
\* webhook of an earlier refund completes a later one.
THEOREM RefundedInFullOneAtATime == ASSUME OneAtATime PROVE Spec => []RefundedInFull
  <1>1. SequentialInv => RefundedInFull
    BY DEF SequentialInv, RowFresh, RefundedInFull
  <1> QED
    BY <1>1, SequentialInvariance, PTL

\* A COMPLETED row keeps its Razorpay reference and its event id.
THEOREM CompletedRowsFixedOneAtATime == ASSUME OneAtATime PROVE Spec => CompletedRowsFixed
  <1>1. SequentialInv /\ [Next]_vars =>
          [\A p \in Payers : \A i \in DOMAIN ledger[p] :
             ledger[p][i].status = "COMPLETED" => ledger'[p][i] = ledger[p][i]]_vars
    BY NextSequentialInv DEF CompletedStay
  <1> QED
    BY <1>1, SequentialInvariance, PTL DEF Spec, CompletedRowsFixed
=============================================================================
