------------------------- MODULE PaymentsInvariant --------------------------
(***************************************************************************)
(* The inductive invariant of Payments, for any number of handlers: what a *)
(* handler may still rely on when it writes, however long ago it read.     *)
(***************************************************************************)
EXTENDS Payments

\* A payment that does not exist yet has left no trace; one that exists has a price
\* a payer could agree to, was ordered for that price, and returned no more than it.
PaymentOK(p) ==
  /\ payment[p].status = "NONE" =>
       payment[p] = NoPayment /\ ledger[p] = <<>> /\ orders[p] = 0
  /\ payment[p].status # "NONE" => payment[p].amount \in Amounts
  /\ orders[p] \in {0, payment[p].amount}
  /\ payment[p].refunded <= payment[p].amount
  /\ payment[p].status \in Settled => ledger[p] # <<>>

\* Row 1 is the receipt of a captured attempt and holds that attempt's event id, by
\* which the unique index refuses a second receipt; the rows after it are refunds.
LedgerOK(p) ==
  /\ \A i \in DOMAIN ledger[p] : /\ ledger[p][i].type = "PAYMENT" <=> i = 1
                                 /\ ledger[p][i].type = "REFUND" => ledger[p][i].amount > 0
  /\ ledger[p] # <<>> =>
       LET receipt == ledger[p][1] IN
       /\ receipt.ref \in PayIds
       /\ receipt.event = <<"payment.captured", receipt.ref>>
       /\ attempts[receipt.ref].status = "captured"
       /\ attempts[receipt.ref].payer = p
       /\ attempts[receipt.ref].amount = receipt.amount
       /\ receipt.amount = payment[p].amount

\* An order is paid by one attempt, and what is refunded is an attempt.
AttemptsOK ==
  /\ \A p \in Payers : \A id, jd \in PayIds : Signed(p, id) /\ Signed(p, jd) => id = jd
  /\ \A r \in RefundIds : refunds[r].status # "none" => refunds[r].pay \in PayIds

\* What has been read by a request is stale, but not in this.
HandlerOK(h) ==
  LET p == handler[h].p IN
  /\ At(h, "termsWrite") => handler[h].amt \in Amounts \cup {0}
  /\ ~At(h, "idle") /\ ~At(h, "termsWrite") => p \in Payers
  /\ At(h, "create") => handler[h].amt \in Amounts
  /\ (p \in Payers /\ ~At(h, "create")) => payment[p].status # "NONE"
  /\ At(h, "callOrder") => handler[h].amt = payment[p].amount
  /\ At(h, "captureWrite") =>
       /\ handler[h].pay \in PayIds
       /\ handler[h].key = <<"payment.captured", handler[h].pay>>
       /\ attempts[handler[h].pay].status = "captured"
       /\ attempts[handler[h].pay].payer = p
       /\ attempts[handler[h].pay].amount = payment[p].amount
  /\ handler[h].pc \in {"refund", "refundWrite", "callRefund", "complete"} =>
       handler[h].pay \in PayIds /\ handler[h].amt > 0
  /\ handler[h].pc \in {"refundWrite", "callRefund", "complete"} => ledger[p] # <<>>
  /\ At(h, "completeWrite") =>
       /\ handler[h].tx \in DOMAIN ledger[p]
       /\ ledger[p][handler[h].tx].type = "REFUND"
       /\ handler[h].to \in {"REFUNDED", "PARTIALLY_REFUNDED"}

\* The inductive invariant: the rows of every payment agree with its ledger and with
\* Razorpay, and every handler with what no other handler can change under it.
PaymentsInv ==
  /\ TypeOK
  /\ session.price \in Amounts \cup {0}
  /\ \A p \in Payers : PaymentOK(p) /\ LedgerOK(p)
  /\ AttemptsOK
  /\ \A h \in Handlers : HandlerOK(h)

-----------------------------------------------------------------------------
(* Requests that do not overlap *)

\* At most one request runs.
OneAtATime == \A g, h \in Handlers : g = h

\* A payment waits for exactly the refund that is pending, and no attempt on it has
\* returned more than its refunds are on record for.
RowFresh(p) ==
  /\ payment[p].status # "NONE" => session.price = payment[p].amount
  /\ ledger[p] # <<>> => payment[p].status \in Settled
  /\ \A i, j \in PendingRefunds(p) : i = j
  /\ PendingRefunds(p) # {} <=> payment[p].status = "REFUND_PENDING"
  /\ payment[p].status = "REFUNDED" => payment[p].refunded = payment[p].amount
  /\ payment[p].pay # None => Signed(p, payment[p].pay)
  /\ \A id \in PayIds : attempts[id].payer = p =>
       /\ PendingRefunds(p) = {} => attempts[id].returned <= payment[p].refunded
       /\ \A i \in PendingRefunds(p) :
            attempts[id].returned <= payment[p].refunded + ledger[p][i].amount

\* What Razorpay returned of a captured attempt includes each of its refunds.
RefundsFresh ==
  \A r \in RefundIds : refunds[r].status # "none" =>
    /\ attempts[refunds[r].pay].status = "captured"
    /\ refunds[r].amount <= attempts[refunds[r].pay].returned

\* What a request that is alone has read is still so when it writes.
Fresh(h) ==
  LET p == handler[h].p
      pay == handler[h].pay
      amt == handler[h].amt IN
  /\ At(h, "create") => amt = session.price
  /\ handler[h].pc \in {"callOrder", "attach", "attachWrite", "fail"} =>
       payment[p].status = "CREATED"
  /\ At(h, "failWrite") => payment[p].status \in Failable
  /\ At(h, "authorizeWrite") =>
       payment[p].status \in Authorizable /\ pay \in PayIds /\ Signed(p, pay)
  /\ At(h, "captureWrite") => payment[p].status \in Capturable
  /\ handler[h].pc \in {"refund", "refundWrite", "callRefund", "complete"} =>
       Signed(p, pay) /\ handler[h].read = payment[p].refunded
  /\ At(h, "refundWrite") =>
       payment[p].status \in Refundable /\ amt <= payment[p].amount - payment[p].refunded
  /\ handler[h].pc \in {"callRefund", "complete", "completeWrite"} =>
       payment[p].status = "REFUND_PENDING"
  /\ handler[h].pc \in {"callRefund", "complete"} =>
       \A i \in PendingRefunds(p) : ledger[p][i].amount = amt
  /\ At(h, "callRefund") => attempts[pay].returned <= payment[p].refunded
  /\ At(h, "completeWrite") =>
       /\ handler[h].tx \in PendingRefunds(p)
       /\ handler[h].to = "REFUNDED" =>
            RefundedAfter(p, handler[h].tx) >= payment[p].amount
  /\ At(h, "termsWrite") => ~HasPaymentForSession

\* The inductive invariant of requests that do not overlap.
SequentialInv ==
  /\ PaymentsInv
  /\ \A p \in Payers : RowFresh(p)
  /\ RefundsFresh
  /\ \A h \in Handlers : Fresh(h)
=============================================================================
