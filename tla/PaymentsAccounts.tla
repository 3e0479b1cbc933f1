-------------------------- MODULE PaymentsAccounts --------------------------
(***************************************************************************)
(* Properties of Payments that add up amounts: the total a payment row     *)
(* keeps against its ledger, and the ledger against Razorpay.              *)
(***************************************************************************)
EXTENDS Payments

\* The amounts of some rows of a ledger, added up from its first row on.
Total(rows, counted) ==
  LET upTo[n \in 0 .. Len(rows)] ==
        IF n = 0 THEN 0
                 ELSE upTo[n - 1] + (IF n \in counted THEN rows[n].amount ELSE 0)
  IN  upTo[Len(rows)]

Booked(p, counted) == Total(ledger[p], counted)

CompletedRefunds(p) == AllRefunds(p) \ PendingRefunds(p)

\* Any number of requests: every refund the ledger completes is counted in the
\* payment, and the total never exceeds what was paid, also when an answer of
\* Razorpay and its webhook complete the same refund at the same time.
RefundsCounted ==
  \A p \in Payers : /\ Booked(p, CompletedRefunds(p)) <= payment[p].refunded
                    /\ payment[p].refunded <= payment[p].amount

\* Any number of requests: what Razorpay was made to return of an attempt is in the
\* ledger first, so a crash or a lost answer never leaves a refund without a row.
RefundsWrittenAhead ==
  \A p \in Payers, id \in PayIds :
    attempts[id].payer = p => attempts[id].returned <= Booked(p, AllRefunds(p))

\* One request at a time: the refunded total is the sum of the completed refunds.
LedgerReconciles ==
  \A p \in Payers : Booked(p, CompletedRefunds(p)) = payment[p].refunded

-----------------------------------------------------------------------------
(* The invariant behind RefundsWrittenAhead *)

\* The requests that have written a refund of p and now call Razorpay for it.
Calling(p) == {h \in Handlers : At(h, "callRefund") /\ handler[h].p = p}

\* Some rows are enough for what Razorpay returned of an attempt, and each request
\* that calls Razorpay has a row of its own, for its amount, that is none of them.
WrittenAhead(p, id) ==
  \E spent \in SUBSET AllRefunds(p), own \in [Handlers -> 0 .. Len(ledger[p])] :
    /\ attempts[id].payer = p => attempts[id].returned <= Booked(p, spent)
    /\ \A h \in Calling(p) : /\ own[h] \in AllRefunds(p) \ spent
                             /\ ledger[p][own[h]].amount = handler[h].amt
    /\ \A g, h \in Calling(p) : own[g] = own[h] => g = h

\* The attempt a payment or a request refers to has paid this payment's order.
PaysOrder ==
  /\ \A p \in Payers : payment[p].pay # None => Signed(p, payment[p].pay)
  /\ \A h \in Handlers :
       handler[h].pc \in {"authorizeWrite", "refund", "refundWrite", "callRefund"} =>
         handler[h].pay \in PayIds /\ Signed(handler[h].p, handler[h].pay)

AccountsInv == PaysOrder /\ \A p \in Payers, id \in PayIds : WrittenAhead(p, id)
=============================================================================
