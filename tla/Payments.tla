------------------------------ MODULE Payments ------------------------------
(***************************************************************************)
(* The payments module of the API (src/apps/api/src/modules/payments) with *)
(* the part of the sessions module that fixes the price, over the rows the *)
(* two share and over Razorpay.                                            *)
(*                                                                         *)
(* A request is run by a handler, and a handler gives way to the others at *)
(* every await.  PrismaPaymentsRepository reads a row, decides, and then   *)
(* updates the row by its id alone, so each of its methods is a reading    *)
(* step and a writing step: what was read may be stale when it is used.    *)
(* The statements of one $transaction are one step.  Consecutive reads of  *)
(* one handler are one step where a write by another handler between them  *)
(* leads to nothing that the later read alone does not lead to.            *)
(* A request that is refused changes nothing: the guard of its first step  *)
(* is false.                                                               *)
(***************************************************************************)
EXTENDS Razorpay, Sequences

CONSTANTS
  Handlers,          \* the requests the API runs at the same time
  ProviderIdsStored, \* may an outbox row have a Razorpay event id as its id?
  RefundNamesPayment \* does a refund webhook carry the payment entity too?

ASSUME PaymentsAssumption == /\ ProviderIdsStored \in BOOLEAN
                             /\ RefundNamesPayment \in BOOLEAN

VARIABLES
  session,    \* the learning_sessions row: its status and price (0 when FREE)
  payment,    \* [Payers -> payments row], unique per (session_id, payer_user_id)
  ledger,     \* [Payers -> Seq(transactions row)], by created_at
  published,  \* the Razorpay event ids among the ids of outbox_events
  handler     \* [Handlers -> what the request has read and does next]

vars == <<session, payment, ledger, published, handler, orders, attempts, refunds>>

-----------------------------------------------------------------------------
(* Rows *)

PaymentStatus == {"NONE", "CREATED", "PENDING", "AUTHORIZED", "CAPTURED", "FAILED",
                  "REFUND_PENDING", "REFUNDED", "PARTIALLY_REFUNDED"}

\* order: does provider_order_id hold the id of the order of this payment?
PaymentRow == [status : PaymentStatus, amount : Nat, order : BOOLEAN,
               pay : PayIds \cup {None}, refunded : Nat]

NoPayment == [status |-> "NONE", amount |-> 0, order |-> FALSE,
              pay |-> None, refunded |-> 0]

\* Event ids: `${event}:${entity id}` for a webhook, a random UUID otherwise.
Uuid == <<"uuid", None>>
EventKey == ({"payment.captured", "payment.failed"} \X PayIds)
              \cup ({"refund.processed"} \X (PayIds \cup RefundIds))

Transaction == [type : {"PAYMENT", "REFUND"}, amount : Nat,
                status : {"PENDING", "COMPLETED"},
                ref : PayIds \cup RefundIds \cup {None},
                event : EventKey \cup {Uuid}]

SessionRow == [status : {"SCHEDULED", "COMPLETED", "CANCELLED"}, price : Nat]

Idle == [pc |-> "idle", p |-> None, pay |-> None, amt |-> 0, read |-> 0,
         tx |-> 0, ref |-> None, to |-> "NONE", key |-> Uuid]

Handler == [pc : {"idle", "create", "callOrder", "attach", "attachWrite", "fail",
                  "failWrite", "authorizeWrite", "captureWrite", "refund",
                  "refundWrite", "callRefund", "complete", "completeWrite",
                  "termsWrite"},
            p : Payers \cup {None}, pay : PayIds \cup {None}, amt : Nat, read : Nat,
            tx : Nat, ref : RefundIds \cup {None}, to : PaymentStatus,
            key : EventKey \cup {Uuid}]

TypeOK ==
  /\ ProviderTypeOK
  /\ session \in SessionRow
  /\ payment \in [Payers -> PaymentRow]
  /\ ledger \in [Payers -> Seq(Transaction)]
  /\ published \subseteq EventKey
  /\ handler \in [Handlers -> Handler]

Init ==
  /\ ProviderInit
  /\ session \in [status : {"SCHEDULED"}, price : Amounts \cup {0}]
  /\ payment = [p \in Payers |-> NoPayment]
  /\ ledger = [p \in Payers |-> <<>>]
  /\ published = {}
  /\ handler = [h \in Handlers |-> Idle]

-----------------------------------------------------------------------------
(* Control of the handlers *)

At(h, pc) == handler[h].pc = pc

\* A handler goes on in its request, or ends it with an answer or an error.
Goto(h, pc) == handler' = [handler EXCEPT ![h].pc = pc]
Finish(h) == handler' = [handler EXCEPT ![h] = Idle]

\* The process stops, or the database refuses, between two steps of a request.
Crash(h) ==
  /\ ~At(h, "idle")
  /\ Finish(h)
  /\ UNCHANGED <<session, payment, ledger, published, providerVars>>

(* Rows the repository looks up, and the constraints of the database *)

\* hasProcessedProviderEvent: a webhook is a duplicate if the ledger has its id.
Processed(key) == \E p \in Payers : \E i \in DOMAIN ledger[p] : ledger[p][i].event = key

\* transactions_provider_event_id_key: may row i of ledger p get this event id?
EventFree(key, p, i) ==
  \A q \in Payers : \A j \in DOMAIN ledger[q] :
     (key # Uuid /\ ledger[q][j].event = key) => (q = p /\ j = i)

\* outbox_events.id is a UUID primary key: does this event get its row?
Enqueued(key) == key = Uuid \/ (ProviderIdsStored /\ key \notin published)
Publish(key) == published' = published \cup ({key} \ {Uuid})

\* The refunds of a payment, and those that are PENDING.
AllRefunds(p) == {i \in DOMAIN ledger[p] : ledger[p][i].type = "REFUND"}
PendingRefunds(p) ==
  {i \in DOMAIN ledger[p] : ledger[p][i].type = "REFUND" /\ ledger[p][i].status = "PENDING"}

\* transaction.create.  (Mutation: a REFUND row is written over an earlier one.)
UpsertRow(p, row) ==
  IF Len(ledger[p]) > 1 THEN [ledger EXCEPT ![p][Len(ledger[p])] = row]
                        ELSE [ledger EXCEPT ![p] = Append(@, row)]
AppendRow(p, row) == [ledger EXCEPT ![p] = Append(@, row)]

IsLatest(i, S) == i \in S /\ \A j \in S : j <= i

-----------------------------------------------------------------------------
(* POST /payments/order: createOrder *)

\* The session is PAID, its terms are accepted and there is no payment yet.
StartCreateOrder(h, p) ==
  /\ session.price > 0
  /\ payment[p].status = "NONE"
  /\ At(h, "idle")
  /\ handler' = [handler EXCEPT ![h] =
       [Idle EXCEPT !.pc = "create", !.p = p, !.amt = session.price]]
  /\ UNCHANGED <<session, payment, ledger, published, providerVars>>

\* repository.create: a second row for the payer is refused by the unique index.
\* (Mutation: no unique index, so a second row replaces the first.)
PayableAgain(p) == TRUE
Payable(p) == payment[p].status = "NONE"

CreatePayment(h) ==
  LET p == handler[h].p IN
  /\ At(h, "create")
  /\ \/ /\ Payable(p)
        /\ payment' = [payment EXCEPT ![p] =
             [NoPayment EXCEPT !.status = "CREATED", !.amount = handler[h].amt]]
        /\ Goto(h, "callOrder")
     \/ /\ ~Payable(p)
        /\ Finish(h)
        /\ UNCHANGED payment
  /\ UNCHANGED <<session, ledger, published, providerVars>>

\* The order is made for the amount of the row.  (Mutation: for the current price.)
OrderAmountCurrent(h) == session.price
OrderAmount(h) == handler[h].amt

\* razorpay.createOrder answers, fails, or makes the order and its answer is lost.
CallCreateOrder(h) ==
  /\ At(h, "callOrder")
  /\ \/ /\ orders' = [orders EXCEPT ![handler[h].p] = OrderAmount(h)]
        /\ Goto(h, "attach") \/ Goto(h, "fail")
     \/ /\ UNCHANGED orders
        /\ Goto(h, "fail")
  /\ UNCHANGED <<session, payment, ledger, published, attempts, refunds>>

AttachRead(h) ==
  /\ At(h, "attach")
  /\ IF payment[handler[h].p].status = "CREATED" THEN Goto(h, "attachWrite")
                                                 ELSE Goto(h, "fail")
  /\ UNCHANGED <<session, payment, ledger, published, providerVars>>

AttachWrite(h) ==
  /\ At(h, "attachWrite")
  /\ payment' = [payment EXCEPT ![handler[h].p].order = TRUE,
                                ![handler[h].p].status = "PENDING"]
  /\ Finish(h)
  /\ UNCHANGED <<session, ledger, published, providerVars>>

(* repository.fail, for an order that could not be made and for payment.failed *)

Failable == {"CREATED", "PENDING", "AUTHORIZED"}

FailRead(h) ==
  /\ At(h, "fail")
  /\ IF payment[handler[h].p].status \in Failable THEN Goto(h, "failWrite")
                                                  ELSE Finish(h)
  /\ UNCHANGED <<session, payment, ledger, published, providerVars>>

FailWrite(h) ==
  LET p == handler[h].p
      key == handler[h].key IN
  /\ At(h, "failWrite")
  /\ \/ /\ Enqueued(key)
        /\ payment' = [payment EXCEPT ![p].status = "FAILED"]
        /\ Publish(key)
     \/ /\ ~Enqueued(key)
        /\ UNCHANGED <<payment, published>>
  /\ Finish(h)
  /\ UNCHANGED <<session, ledger, providerVars>>

-----------------------------------------------------------------------------
(* POST /payments/verify: verify *)

\* authorize returns early unless the payment still waits.  (Mutation: no early return.)
AuthorizableAlways == {"CREATED", "PENDING", "AUTHORIZED", "CAPTURED"}
Authorizable == {"CREATED", "PENDING"}

\* The signature is the one Checkout gave for this order and attempt.
StartVerify(h, p, id) ==
  /\ payment[p].order
  /\ payment[p].status \in Authorizable
  /\ Signed(p, id)
  /\ At(h, "idle")
  /\ handler' = [handler EXCEPT ![h] =
       [Idle EXCEPT !.pc = "authorizeWrite", !.p = p, !.pay = id]]
  /\ UNCHANGED <<session, payment, ledger, published, providerVars>>

AuthorizeWrite(h) ==
  /\ At(h, "authorizeWrite")
  /\ payment' = [payment EXCEPT ![handler[h].p].status = "AUTHORIZED",
                                ![handler[h].p].pay = handler[h].pay]
  /\ Finish(h)
  /\ UNCHANGED <<session, ledger, published, providerVars>>

-----------------------------------------------------------------------------
(* POST /payments/webhook: handleWebhook *)

DeliverFailed(h, p, id) ==
  LET key == <<"payment.failed", id>> IN
  /\ attempts[id].status = "failed" /\ attempts[id].payer = p
  /\ ~Processed(key)
  /\ payment[p].order
  /\ payment[p].status \in Failable
  /\ At(h, "idle")
  /\ handler' = [handler EXCEPT ![h] =
       [Idle EXCEPT !.pc = "failWrite", !.p = p, !.key = key]]
  /\ UNCHANGED <<session, payment, ledger, published, providerVars>>

\* The webhook's own event id goes to the ledger.  (Mutation: a random one.)
CapturedKeyRandom(id) == Uuid
CapturedKey(id) == <<"payment.captured", id>>

\* The amount Razorpay reports is the one on record.  (Mutation: any amount.)
AmountUnchecked(p, id) == TRUE
AmountMatches(p, id) == attempts[id].amount = payment[p].amount

\* capture is for a payment that waits.  (Mutation: not for a verified one.)
CapturableUnverified == {"PENDING"}
Capturable == {"AUTHORIZED", "PENDING"}

DeliverCaptured(h, p, id) ==
  LET key == CapturedKey(id) IN
  /\ attempts[id].status = "captured" /\ attempts[id].payer = p
  /\ ~Processed(key)
  /\ payment[p].order
  /\ AmountMatches(p, id)
  /\ payment[p].status \in Capturable
  /\ At(h, "idle")
  /\ handler' = [handler EXCEPT ![h] =
       [Idle EXCEPT !.pc = "captureWrite", !.p = p, !.pay = id, !.key = key]]
  /\ UNCHANGED <<session, payment, ledger, published, providerVars>>

Receipt(p, id, key) ==
  [type |-> "PAYMENT", amount |-> payment[p].amount, status |-> "COMPLETED",
   ref |-> id, event |-> key]

CaptureWrite(h) ==
  LET p == handler[h].p
      id == handler[h].pay
      key == handler[h].key IN
  /\ At(h, "captureWrite")
  /\ \/ /\ Enqueued(key) /\ EventFree(key, p, Len(ledger[p]) + 1)
        /\ payment' = [payment EXCEPT ![p].status = "CAPTURED", ![p].pay = id]
        /\ ledger' = AppendRow(p, Receipt(p, id, key))
        /\ Publish(key)
     \/ /\ ~(Enqueued(key) /\ EventFree(key, p, Len(ledger[p]) + 1))
        /\ UNCHANGED <<payment, ledger, published>>
  /\ Finish(h)
  /\ UNCHANGED <<session, providerVars>>

RefundKey(r) ==
  <<"refund.processed", IF RefundNamesPayment THEN refunds[r].pay ELSE r>>

\* The status a refund leaves is judged by the amount of this refund alone.
DeliverRefund(h, p, r) ==
  LET full == refunds[r].amount >= payment[p].amount IN
  /\ refunds[r].status = "processed"
  /\ ~Processed(RefundKey(r))
  /\ payment[p].pay = refunds[r].pay
  /\ payment[p].status = "REFUND_PENDING"
  /\ At(h, "idle")
  /\ \E i \in PendingRefunds(p) :
       /\ IsLatest(i, PendingRefunds(p))
       /\ handler' = [handler EXCEPT ![h] =
            [Idle EXCEPT !.pc = "completeWrite", !.p = p, !.tx = i, !.ref = r,
                         !.to = IF full THEN "REFUNDED" ELSE "PARTIALLY_REFUNDED",
                         !.key = RefundKey(r)]]
  /\ UNCHANGED <<session, payment, ledger, published, providerVars>>

-----------------------------------------------------------------------------
(* POST /payments/:id/refund: requestRefund *)

\* The payer may ask once the session is CANCELLED (or NO_SHOW), an ADMIN always.
StartRefund(h, p, admin, amt) ==
  /\ payment[p].pay # None
  /\ admin \/ session.status = "CANCELLED"
  /\ amt \in 1 .. payment[p].amount - payment[p].refunded
  /\ At(h, "idle")
  /\ handler' = [handler EXCEPT ![h] =
       [Idle EXCEPT !.pc = "refund", !.p = p, !.amt = amt,
                    !.pay = payment[p].pay, !.read = payment[p].refunded]]
  /\ UNCHANGED <<session, payment, ledger, published, providerVars>>

\* requestRefund is for money received.  (Mutations: also for money only
\* authorized; also while another refund is pending.)
RefundableAuthorized == {"AUTHORIZED", "CAPTURED", "PARTIALLY_REFUNDED"}
RefundablePending == {"CAPTURED", "PARTIALLY_REFUNDED", "REFUND_PENDING"}
Refundable == {"CAPTURED", "PARTIALLY_REFUNDED"}

\* (Mutation: Razorpay is called before the refund is on record.)
RefundReadCallFirst(h) ==
  /\ At(h, "refund")
  /\ payment[handler[h].p].status \in Refundable
  /\ Goto(h, "callRefund")
  /\ UNCHANGED <<session, payment, ledger, published, providerVars>>

RefundRead(h) ==
  LET p == handler[h].p IN
  /\ At(h, "refund")
  /\ IF /\ payment[p].status \in Refundable
        /\ handler[h].amt <= payment[p].amount - payment[p].refunded
     THEN Goto(h, "refundWrite") ELSE Finish(h)
  /\ UNCHANGED <<session, payment, ledger, published, providerVars>>

PendingRefund(amt) ==
  [type |-> "REFUND", amount |-> amt, status |-> "PENDING", ref |-> None, event |-> Uuid]

RefundWrite(h) ==
  LET p == handler[h].p IN
  /\ At(h, "refundWrite")
  /\ payment' = [payment EXCEPT ![p].status = "REFUND_PENDING"]
  /\ ledger' = AppendRow(p, PendingRefund(handler[h].amt))
  /\ Goto(h, "callRefund")
  /\ UNCHANGED <<session, published, providerVars>>

\* razorpay.createRefund refuses or is unavailable; or the refund is made, and the
\* answer is lost, says that it is pending, or says that it is processed.
CallRefund(h) ==
  /\ At(h, "callRefund")
  /\ \/ /\ Finish(h)
        /\ UNCHANGED providerVars
     \/ \E r \in RefundIds, status \in {"pending", "processed"} :
          /\ AcceptRefund(r, handler[h].pay, handler[h].amt, status)
          /\ \/ Finish(h)
             \/ /\ status = "processed"
                /\ handler' = [handler EXCEPT ![h].pc = "complete", ![h].ref = r]
  /\ UNCHANGED <<session, payment, ledger, published>>

\* refundAmountIsFull, from the refunded amount read when the request began.
\* (Mutation: off by one.)
RefundAmountNearlyFull(read, amt, amount) == read + amt >= amount - 1
RefundAmountIsFull(read, amt, amount) == read + amt >= amount

CompleteRead(h) ==
  LET p == handler[h].p
      full == RefundAmountIsFull(handler[h].read, handler[h].amt, payment[p].amount) IN
  /\ At(h, "complete")
  /\ IF payment[p].status = "REFUND_PENDING" /\ PendingRefunds(p) # {}
     THEN \E i \in PendingRefunds(p) :
            /\ IsLatest(i, PendingRefunds(p))
            /\ handler' = [handler EXCEPT
                 ![h].pc = "completeWrite", ![h].tx = i,
                 ![h].to = IF full THEN "REFUNDED" ELSE "PARTIALLY_REFUNDED"]
     ELSE Finish(h)
  /\ UNCHANGED <<session, payment, ledger, published, providerVars>>

\* (Mutation: the amount replaces the total.)
RefundedReplaced(p, i) == ledger[p][i].amount
RefundedAfter(p, i) == payment[p].refunded + ledger[p][i].amount

\* The transaction of completeRefund commits if every constraint admits it.
\* (Mutation: payments_refund_amount_check is missing.)
CompleteUnbounded(p, i, key) == Enqueued(key) /\ EventFree(key, p, i)
CompleteAdmitted(p, i, key) ==
  /\ Enqueued(key)
  /\ EventFree(key, p, i)
  /\ RefundedAfter(p, i) <= payment[p].amount

CompleteWrite(h) ==
  LET p == handler[h].p
      i == handler[h].tx
      key == handler[h].key IN
  /\ At(h, "completeWrite")
  /\ \/ /\ CompleteAdmitted(p, i, key)
        /\ payment' = [payment EXCEPT ![p].status = handler[h].to,
                                      ![p].refunded = RefundedAfter(p, i)]
        /\ ledger' = [ledger EXCEPT ![p][i].status = "COMPLETED",
                                    ![p][i].ref = handler[h].ref,
                                    ![p][i].event = key]
        /\ Publish(key)
     \/ /\ ~CompleteAdmitted(p, i, key)
        /\ UNCHANGED <<payment, ledger, published>>
  /\ Finish(h)
  /\ UNCHANGED <<session, providerVars>>

-----------------------------------------------------------------------------
(* PATCH /sessions/:id: the terms, and the status a refund depends on *)

\* hasPaymentForSession.  (Mutation: a payment without an order does not count.)
HasOrderForSession == \E p \in Payers : payment[p].order
HasPaymentForSession == \E p \in Payers : payment[p].status # "NONE"

StartChangeTerms(h, price) ==
  /\ session.status = "SCHEDULED"
  /\ ~HasPaymentForSession
  /\ At(h, "idle")
  /\ handler' = [handler EXCEPT ![h] = [Idle EXCEPT !.pc = "termsWrite", !.amt = price]]
  /\ UNCHANGED <<session, payment, ledger, published, providerVars>>

\* PrismaSessionsRepository.update: only if the status is still the one read.
TermsWrite(h) ==
  /\ At(h, "termsWrite")
  /\ \/ /\ session.status = "SCHEDULED"
        /\ session' = [session EXCEPT !.price = handler[h].amt]
     \/ /\ session.status # "SCHEDULED"
        /\ UNCHANGED session
  /\ Finish(h)
  /\ UNCHANGED <<payment, ledger, published, providerVars>>

\* The session takes place, or it is cancelled or not attended.
EndSession(status) ==
  /\ session.status = "SCHEDULED"
  /\ session' = [session EXCEPT !.status = status]
  /\ UNCHANGED <<payment, ledger, published, handler, providerVars>>

-----------------------------------------------------------------------------
(* The payer in Checkout, and Razorpay *)

\* The browser knows the order once its id is stored and returned.
PayerPays(p, id, status, amount) ==
  /\ payment[p].order
  /\ TryToPay(p, id, status, amount)
  /\ UNCHANGED <<session, payment, ledger, published, handler>>

ProviderCaptures(id) ==
  CaptureAttempt(id) /\ UNCHANGED <<session, payment, ledger, published, handler>>

ProviderRefunds(r) ==
  ProcessRefund(r) /\ UNCHANGED <<session, payment, ledger, published, handler>>

-----------------------------------------------------------------------------
HandlerStep(h) ==
  \/ CreatePayment(h) \/ CallCreateOrder(h) \/ AttachRead(h) \/ AttachWrite(h)
  \/ FailRead(h) \/ FailWrite(h)
  \/ AuthorizeWrite(h)
  \/ CaptureWrite(h)
  \/ RefundRead(h) \/ RefundWrite(h) \/ CallRefund(h)
  \/ CompleteRead(h) \/ CompleteWrite(h)
  \/ TermsWrite(h)

Request(h) ==
  \/ \E p \in Payers :
       \/ StartCreateOrder(h, p)
       \/ \E id \in PayIds : \/ StartVerify(h, p, id)
                             \/ DeliverFailed(h, p, id)
                             \/ DeliverCaptured(h, p, id)
       \/ \E r \in RefundIds : DeliverRefund(h, p, r)
       \/ \E admin \in BOOLEAN : \E amt \in 1 .. payment[p].amount :
            StartRefund(h, p, admin, amt)
  \/ \E price \in Amounts \cup {0} : StartChangeTerms(h, price)

Environment ==
  \/ \E status \in {"COMPLETED", "CANCELLED"} : EndSession(status)
  \/ \E p \in Payers, id \in PayIds, status \in {"failed", "authorized"}, amount \in Amounts :
       PayerPays(p, id, status, amount)
  \/ \E id \in PayIds : ProviderCaptures(id)
  \/ \E r \in RefundIds : ProviderRefunds(r)

Next ==
  \/ \E h \in Handlers : Request(h) \/ HandlerStep(h) \/ Crash(h)
  \/ Environment

Spec == Init /\ [][Next]_vars

-----------------------------------------------------------------------------
(* Fairness *)

\* A request that runs goes on running, and a crash does not hit the same kind of
\* request every time; Razorpay repeats a webhook until it is answered with 2xx.
Fairness ==
  /\ \A h \in Handlers : WF_vars(HandlerStep(h))
  /\ \A h \in Handlers : SF_vars(CaptureWrite(h))
  /\ \A p \in Payers, id \in PayIds : SF_vars(\E h \in Handlers : DeliverCaptured(h, p, id))

FairSpec == Spec /\ Fairness

-----------------------------------------------------------------------------
(* Properties of any number of concurrent requests *)

Settled == {"CAPTURED", "REFUND_PENDING", "REFUNDED", "PARTIALLY_REFUNDED"}

\* However the steps of verify, webhooks and refunds interleave, a payment that is
\* shown as received (or as refunded from there) has a receipt in the ledger: the
\* stale writes of authorize, fail and requestRefund never invent a settled status.
SettledHasReceipt ==
  \A p \in Payers : payment[p].status \in Settled =>
    \E i \in DOMAIN ledger[p] : ledger[p][i].type = "PAYMENT"

\* Deliveries of one payment.captured that overlap, repeat or come late record one
\* receipt, and it is the first row of the ledger, before every refund.
OneReceiptFirst ==
  \A p \in Payers : \A i \in DOMAIN ledger[p] : ledger[p][i].type = "PAYMENT" <=> i = 1

\* The receipt is of an attempt Razorpay has captured on this payment's order, for
\* exactly the amount the payer accepted: a report of another amount is never booked.
ReceiptIsCapture ==
  \A p \in Payers : ledger[p] # <<>> =>
    LET receipt == ledger[p][1] IN
    /\ receipt.ref \in PayIds
    /\ attempts[receipt.ref].status = "captured"
    /\ attempts[receipt.ref].payer = p
    /\ attempts[receipt.ref].amount = receipt.amount
    /\ receipt.amount = payment[p].amount

\* Razorpay is asked for the amount on record, also when the session's price
\* changes between the reading of the session and the making of the order.
ChargedPriceRecorded ==
  \A p \in Payers : orders[p] \in {0, payment[p].amount}

\* No step of any handler takes a row out of the ledger, changes its type or its
\* amount, or reopens it once it is COMPLETED.
LedgerOnlyGrows ==
  [][\A p \in Payers : \A i \in DOMAIN ledger[p] :
       /\ i \in DOMAIN ledger'[p]
       /\ ledger'[p][i].type = ledger[p][i].type
       /\ ledger'[p][i].amount = ledger[p][i].amount
       /\ ledger[p][i].status = "COMPLETED" => ledger'[p][i].status = "COMPLETED"]_vars

\* What the module promises of the money (PaymentPromise): one price that never
\* changes, received at most once, given back only after that and never in excess.
Promise == INSTANCE PaymentPromise WITH
  price <- [p \in Payers |-> payment[p].amount],
  received <- [p \in Payers |-> ledger[p] # <<>>],
  returned <- [p \in Payers |-> payment[p].refunded]

KeepsPromise == Promise!Spec

-----------------------------------------------------------------------------
(* Properties of requests that do not overlap (one handler): crashes, lost      *)
(* answers and webhooks that are late, repeated or out of order remain.         *)

\* The price cannot change under a payer who has started to pay.
TermsFrozen ==
  \A p \in Payers : payment[p].status # "NONE" => session.price = payment[p].amount

\* Once its receipt is booked a payment does not fall back to waiting or failed,
\* whatever verify requests and webhooks of earlier attempts still arrive.
ReceiptMeansSettled ==
  \A p \in Payers : ledger[p] # <<>> => payment[p].status \in Settled

\* A payment is REFUND_PENDING while exactly one refund of its ledger is PENDING.
OnePendingRefund ==
  \A p \in Payers :
    /\ \A i, j \in PendingRefunds(p) : i = j
    /\ PendingRefunds(p) # {} <=> payment[p].status = "REFUND_PENDING"

\* REFUNDED is only shown when the whole amount has been booked as returned.
RefundedInFull ==
  \A p \in Payers : payment[p].status = "REFUNDED" => payment[p].refunded = payment[p].amount

\* A COMPLETED row is never written again: it keeps the Razorpay reference and the
\* event id by which a repeated webhook is recognised.
CompletedRowsFixed ==
  [][\A p \in Payers : \A i \in DOMAIN ledger[p] :
       ledger[p][i].status = "COMPLETED" => ledger'[p][i] = ledger[p][i]]_vars

-----------------------------------------------------------------------------
(* What the documentation and the interface say of a payment *)

\* A verified payment whose capture Razorpay reports does not stay AUTHORIZED.
AuthorizedSettles ==
  \A p \in Payers, id \in PayIds :
    (/\ payment[p].status = "AUTHORIZED"
     /\ attempts[id].payer = p /\ attempts[id].status = "captured"
     /\ attempts[id].amount = payment[p].amount) ~> payment[p].status # "AUTHORIZED"

=============================================================================
