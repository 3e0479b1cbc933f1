------------------------------ MODULE Razorpay ------------------------------
(***************************************************************************)
(* The payment provider and the payer's Checkout window, as the code under *)
(* src/apps/api/src/modules/payments uses them.  Nothing here is code of   *)
(* the repository: it is the environment of module Payments.               *)
(*                                                                         *)
(* Webhooks are not a variable.  Razorpay may deliver the notification of  *)
(* anything that has happened at any later time, any number of times and   *)
(* in any order, or never; so the set of notifications in flight is a      *)
(* function of the state of the attempts and of the refunds.               *)
(***************************************************************************)
EXTENDS Integers

CONSTANTS
  Payers,      \* the payments: a payer of the session has at most one
  PayIds,      \* Razorpay payment ids (pay_...), one per attempt to pay
  RefundIds,   \* Razorpay refund ids (rfnd_...)
  Amounts,     \* what a payer may be charged, in paise
  None         \* no payer, payment id or refund id

ASSUME ProviderAssumption ==
  /\ Amounts \subseteq Nat \ {0}
  /\ None \notin Payers \cup PayIds \cup RefundIds

VARIABLES
  orders,      \* [Payers -> Nat]: amount of the order of a payment, 0 if none
  attempts,    \* [PayIds -> Attempt]
  refunds      \* [RefundIds -> Refund]

providerVars == <<orders, attempts, refunds>>

\* returned: how much of a captured attempt has been promised back by refunds.
Attempt == [status : {"none", "failed", "authorized", "captured"},
            payer : Payers \cup {None}, amount : Nat, returned : Nat]

Refund == [status : {"none", "pending", "processed"},
           pay : PayIds \cup {None}, amount : Nat]

ProviderTypeOK ==
  /\ orders \in [Payers -> Nat]
  /\ attempts \in [PayIds -> Attempt]
  /\ refunds \in [RefundIds -> Refund]

ProviderInit ==
  /\ orders = [p \in Payers |-> 0]
  /\ attempts = [id \in PayIds |->
       [status |-> "none", payer |-> None, amount |-> 0, returned |-> 0]]
  /\ refunds = [r \in RefundIds |->
       [status |-> "none", pay |-> None, amount |-> 0]]

-----------------------------------------------------------------------------
\* An order is paid by at most one attempt; failed attempts may precede it.
Paid(p) == \E id \in PayIds : /\ attempts[id].payer = p
                              /\ attempts[id].status \in {"authorized", "captured"}

\* Checkout hands the browser a signature for this attempt.
Signed(p, id) == /\ attempts[id].payer = p
                 /\ attempts[id].status \in {"authorized", "captured"}

\* The payer tries to pay order p in Checkout, and the attempt is authorized or
\* fails.  The amount is the provider's word, not the order's: the code checks it.
TryToPay(p, id, status, amount) ==
  /\ attempts[id].status = "none"
  /\ ~Paid(p)
  /\ attempts' = [attempts EXCEPT ![id] =
       [status |-> status, payer |-> p, amount |-> amount, returned |-> 0]]
  /\ UNCHANGED <<orders, refunds>>

CaptureAttempt(id) ==
  /\ attempts[id].status = "authorized"
  /\ attempts' = [attempts EXCEPT ![id].status = "captured"]
  /\ UNCHANGED <<orders, refunds>>

\* A refund the API asks for is accepted while money is left to return.
AcceptRefund(r, id, amount, status) ==
  /\ refunds[r].status = "none"
  /\ attempts[id].status = "captured"
  /\ attempts[id].returned + amount <= attempts[id].amount
  /\ attempts' = [attempts EXCEPT ![id].returned = @ + amount]
  /\ refunds' = [refunds EXCEPT ![r] =
       [status |-> status, pay |-> id, amount |-> amount]]
  /\ UNCHANGED orders

ProcessRefund(r) ==
  /\ refunds[r].status = "pending"
  /\ refunds' = [refunds EXCEPT ![r].status = "processed"]
  /\ UNCHANGED <<orders, attempts>>
=============================================================================
