----------------------------- MODULE MCPayments -----------------------------
(* Small instances of Payments for TLC. *)
EXTENDS PaymentsAccounts, PaymentsInvariant, TLC

MCSymmetry == Permutations(Handlers) \cup Permutations(PayIds) \cup Permutations(RefundIds)
=============================================================================
