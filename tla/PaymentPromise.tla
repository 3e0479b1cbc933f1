--------------------------- MODULE PaymentPromise ---------------------------
(***************************************************************************)
(* What the payments module promises of the money of one session: a payer  *)
(* agrees to one price, which never changes; the price is received at most *)
(* once; money is given back only after it was received, and never more    *)
(* than was received.                                                      *)
(***************************************************************************)
EXTENDS Integers

CONSTANTS
  Payers,
  Amounts    \* the prices a payer can agree to, in paise

VARIABLES
  price,     \* [Payers -> Amounts \cup {0}]: the price agreed on, 0 before
  received,  \* [Payers -> BOOLEAN]
  returned   \* [Payers -> Nat]

promiseVars == <<price, received, returned>>

Init ==
  /\ price = [p \in Payers |-> 0]
  /\ received = [p \in Payers |-> FALSE]
  /\ returned = [p \in Payers |-> 0]

Agree(p, amount) ==
  /\ price[p] = 0
  /\ price' = [price EXCEPT ![p] = amount]
  /\ UNCHANGED <<received, returned>>

Receive(p) ==
  /\ price[p] > 0 /\ ~received[p]
  /\ received' = [received EXCEPT ![p] = TRUE]
  /\ UNCHANGED <<price, returned>>

Return(p, amount) ==
  /\ received[p]
  /\ returned' = [returned EXCEPT ![p] = @ + amount]
  /\ UNCHANGED <<price, received>>

Next ==
  \E p \in Payers : \/ \E amount \in Amounts : Agree(p, amount)
                    \/ Receive(p)
                    \/ \E amount \in 1 .. price[p] - returned[p] : Return(p, amount)

Spec == Init /\ [][Next]_promiseVars
=============================================================================
