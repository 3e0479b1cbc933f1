----------------------- MODULE PaymentsAccountsProofs -----------------------
(***************************************************************************)
(* The sums of the ledgers of Payments against what a payment shows as     *)
(* returned and what Razorpay returned, for ledgers of any length.         *)
(*                                                                         *)
(* The induction is over the length of a ledger.  It rests on the set of   *)
(* the lengths for which a fact is true, which has 0, has n + 1 whenever   *)
(* it has n, and so is Nat: Induct, from the least number that it lacks.   *)
(***************************************************************************)
EXTENDS PaymentsAccounts, PaymentsProofs, WellFoundedInduction

-----------------------------------------------------------------------------
(* Induction *)

\* Every set of numbers that is not empty has a least one.
LEMMA Least ==
  ASSUME NEW T \in SUBSET Nat, T # {}
  PROVE  \E x \in T : \A y \in T : x <= y
  <1> DEFINE R == OpToRel(<, Nat)
  <1>1. IsWellFoundedOn(R, Nat)
    BY NatLessThanWellFounded
  <1> HIDE DEF R
  <1>2. PICK x \in T : \A y \in T : ~(<<y, x>> \in R)
    BY <1>1, WFMin
  <1>3. \A y \in T : y < x => <<y, x>> \in R
    BY DEF R, OpToRel
  <1>4. \A y \in T : ~(y < x) /\ x \in Nat /\ y \in Nat
    BY <1>2, <1>3
  <1>5. \A y \in T : x <= y
    BY <1>4
  <1> QED
    BY <1>5

\* A set of numbers that has 0 and the successor of each of its numbers has them all.
LEMMA Induct ==
  ASSUME NEW T \in SUBSET Nat, 0 \in T, \A n \in T : n + 1 \in T
  PROVE  T = Nat
  <1> SUFFICES ASSUME Nat \ T # {} PROVE FALSE
    OBVIOUS
  <1>1. PICK m \in Nat \ T : \A y \in Nat \ T : m <= y
    BY Least
  <1>2. m # 0 /\ m - 1 \in Nat
    BY <1>1
  <1>3. m - 1 \in T
    BY <1>1, <1>2
  <1> QED
    BY <1>1, <1>2, <1>3

-----------------------------------------------------------------------------
(* Running totals *)

\* The running total of the first k rows: what the recursion of Total satisfies.
Running(f, rows, counted, k) ==
  f = [n \in 0 .. k |->
         IF n = 0 THEN 0
                  ELSE f[n - 1] + (IF n \in counted THEN rows[n].amount ELSE 0)]

\* There are running totals of rows, whatever is counted of them.
LEMMA RunningExists ==
  ASSUME NEW rows, NEW counted, NEW k \in Nat,
         \A i \in 1 .. k : rows[i].amount \in Nat
  PROVE  \E f : Running(f, rows, counted, k)
  <1> DEFINE T == {n \in Nat : n <= k =>
                     \E f \in [0 .. n -> Nat] : Running(f, rows, counted, n)}
  <1>1. 0 \in T
    <2>1. Running([n \in 0 .. 0 |-> 0], rows, counted, 0)
      BY SMT DEF Running
    <2> QED
      BY <2>1
  <1>2. ASSUME NEW n \in T, n + 1 <= k
        PROVE  \E f \in [0 .. n + 1 -> Nat] : Running(f, rows, counted, n + 1)
    <2>1. PICK f \in [0 .. n -> Nat] : Running(f, rows, counted, n)
      BY <1>2
    <2> DEFINE x == IF n + 1 \in counted THEN rows[n + 1].amount ELSE 0
               g == [i \in 0 .. n + 1 |-> IF i = n + 1 THEN f[n] + x ELSE f[i]]
    <2>2. n \in Nat /\ x \in Nat /\ f[n] \in Nat
      BY <1>2
    <2>3. g \in [0 .. n + 1 -> Nat]
      BY <2>2
    <2>4. ASSUME NEW i \in 0 .. n + 1
          PROVE  g[i] = IF i = 0 THEN 0
                        ELSE g[i - 1] + (IF i \in counted THEN rows[i].amount ELSE 0)
      <3>1. CASE i = n + 1
        BY <2>2, <3>1
      <3>2. CASE i \in 0 .. n /\ i # 0
        <4>1. g[i] = f[i] /\ g[i - 1] = f[i - 1]
          BY <2>2, <3>2
        <4> QED
          BY <2>1, <3>2, <4>1 DEF Running
      <3>3. CASE i = 0
        BY <2>1, <2>2, <3>3 DEF Running
      <3> QED
        BY <2>2, <3>1, <3>2, <3>3
    <2>5. g = [i \in 0 .. n + 1 |->
                 IF i = 0 THEN 0
                 ELSE g[i - 1] + (IF i \in counted THEN rows[i].amount ELSE 0)]
      BY <2>4
    <2> HIDE DEF g
    <2> QED
      BY <2>3, <2>5 DEF Running
  <1>3. T = Nat
    <2>1. T \in SUBSET Nat /\ 0 \in T
      BY <1>1
    <2>2. ASSUME NEW n \in T PROVE n + 1 \in T
      <3>1. n + 1 <= k => \E f \in [0 .. n + 1 -> Nat] : Running(f, rows, counted, n + 1)
        BY <1>2
      <3> QED
        BY <3>1
    <2> HIDE DEF T
    <2> QED
      BY <2>1, <2>2, Induct
  <1> QED
    BY <1>3

\* What each row adds to the total.
Counts(rows, counted) ==
  [n \in 1 .. Len(rows) |-> IF n \in counted THEN rows[n].amount ELSE 0]

\* f adds up the first k of the amounts a.
SumsUp(f, a, k) ==
  /\ f[0] = 0
  /\ \A n \in 1 .. k : /\ f[n - 1] \in Nat /\ f[n] \in Nat
                        /\ f[n] = f[n - 1] + a[n]

\* The first k of the amounts b are those of a, but the i-th is greater by d.
SameBut(a, b, k, i, d) ==
  \A n \in 1 .. k : a[n] \in Nat /\ b[n] = a[n] + (IF n = i THEN d ELSE 0)

HasAmounts(rows) ==
  /\ Len(rows) \in Nat
  /\ \A n \in 1 .. Len(rows) : rows[n].amount \in Nat

\* Total is the last running total, and every one of them is a number.
LEMMA RunningTotal ==
  ASSUME NEW rows, NEW counted, HasAmounts(rows)
  PROVE  \E f : /\ SumsUp(f, Counts(rows, counted), Len(rows))
               /\ Total(rows, counted) = f[Len(rows)]
  <1> DEFINE k == Len(rows)
             f == CHOOSE g : Running(g, rows, counted, k)
  <1>1. Running(f, rows, counted, k)
    <2>1. \E g : Running(g, rows, counted, k)
      <3> HIDE DEF k
      <3>1. k \in Nat /\ \A i \in 1 .. k : rows[i].amount \in Nat
        BY DEF k, HasAmounts
      <3> QED
        BY <3>1, RunningExists
    <2> HIDE DEF k
    <2> QED
      BY <2>1
  <1>2. Total(rows, counted) = f[k]
    BY DEF Total, Running
  <1> HIDE DEF f
  <1>3. /\ f[0] = 0
        /\ \A n \in 1 .. k :
             /\ f[n] = f[n - 1] + (IF n \in counted THEN rows[n].amount ELSE 0)
             /\ f[n] = f[n - 1] + Counts(rows, counted)[n]
             /\ rows[n].amount \in Nat
    BY <1>1 DEF Running, Counts, HasAmounts
  <1> DEFINE T == {n \in Nat : n <= k => f[n] \in Nat}
  <1>4. 0 \in T /\ \A n \in T : n + 1 \in T
    <2>1. ASSUME NEW n \in Nat, f[n] \in Nat, n + 1 <= k PROVE f[n + 1] \in Nat
      <3>1. n + 1 \in 1 .. k /\ (n + 1) - 1 = n
        BY <2>1 DEF HasAmounts
      <3> QED
        BY <1>3, <2>1, <3>1, SMTT(30)
    <2>2. k \in Nat
      BY DEF HasAmounts
    <2> HIDE DEF k
    <2> QED
      BY <1>3, <2>1, <2>2
  <1>5. T = Nat
    <2>1. T \in SUBSET Nat
      OBVIOUS
    <2> HIDE DEF T
    <2> QED
      BY <1>4, <2>1, Induct
  <1>6. \A n \in 1 .. k : f[n - 1] \in Nat /\ f[n] \in Nat
    BY <1>5 DEF HasAmounts
  <1> QED
    BY <1>2, <1>3, <1>6 DEF SumsUp

\* A running total is a number.
LEMMA SumIsNat ==
  ASSUME NEW k \in Nat, NEW f, NEW a, SumsUp(f, a, k)
  PROVE  f[k] \in Nat
  <1>1. CASE k = 0
    BY <1>1 DEF SumsUp
  <1>2. CASE k # 0
    BY <1>2 DEF SumsUp
  <1> QED
    BY <1>1, <1>2

\* Amounts that differ in one place add up to totals that differ by as much.
LEMMA SumsDiffer ==
  ASSUME NEW k \in Nat, NEW i \in Nat, NEW d \in Int, NEW f, NEW g, NEW a, NEW b,
         SumsUp(f, a, k), SumsUp(g, b, k), SameBut(a, b, k, i, d)
  PROVE  g[k] = f[k] + (IF i \in 1 .. k THEN d ELSE 0)
  <1> DEFINE T == {n \in Nat : n <= k => g[n] = f[n] + (IF i \in 1 .. n THEN d ELSE 0)}
  <1>1. 0 \in T
    BY DEF SumsUp
  <1>2. ASSUME NEW n \in T, n + 1 <= k
        PROVE  g[n + 1] = f[n + 1] + (IF i \in 1 .. n + 1 THEN d ELSE 0)
    <2>1. n \in Nat /\ n + 1 \in 1 .. k /\ (n + 1) - 1 = n
      BY <1>2
    <2>2. g[n] = f[n] + (IF i \in 1 .. n THEN d ELSE 0)
      BY <1>2
    <2>3. /\ f[n] \in Nat /\ a[n + 1] \in Nat
          /\ f[n + 1] = f[n] + a[n + 1]
          /\ g[n + 1] = g[n] + b[n + 1]
          /\ b[n + 1] = a[n + 1] + (IF n + 1 = i THEN d ELSE 0)
      BY <2>1 DEF SumsUp, SameBut
    <2> QED
      BY <2>1, <2>2, <2>3
  <1>3. T = Nat
    <2>1. ASSUME NEW n \in T PROVE n + 1 \in T
      <3>1. n + 1 <= k => g[n + 1] = f[n + 1] + (IF i \in 1 .. n + 1 THEN d ELSE 0)
        BY <1>2
      <3> QED
        BY <3>1
    <2>2. T \in SUBSET Nat
      OBVIOUS
    <2> HIDE DEF T
    <2> QED
      BY <1>1, <2>1, <2>2, Induct
  <1> QED
    BY <1>3

\* Amounts none of which is greater add up to no more.
LEMMA SumsBelow ==
  ASSUME NEW k \in Nat, NEW f, NEW g, NEW a, NEW b,
         SumsUp(f, a, k), SumsUp(g, b, k),
         \A n \in 1 .. k : a[n] \in Nat /\ b[n] \in Nat /\ a[n] <= b[n]
  PROVE  f[k] <= g[k]
  <1> DEFINE T == {n \in Nat : n <= k => f[n] <= g[n]}
  <1>1. 0 \in T
    BY DEF SumsUp
  <1>2. ASSUME NEW n \in T, n + 1 <= k PROVE f[n + 1] <= g[n + 1]
    <2>1. n \in Nat /\ n + 1 \in 1 .. k /\ (n + 1) - 1 = n /\ f[n] <= g[n]
      BY <1>2
    <2>2. /\ f[n] \in Nat /\ g[n] \in Nat
          /\ a[n + 1] \in Nat /\ b[n + 1] \in Nat /\ a[n + 1] <= b[n + 1]
          /\ f[n + 1] = f[n] + a[n + 1]
          /\ g[n + 1] = g[n] + b[n + 1]
      BY <2>1 DEF SumsUp
    <2> QED
      BY <2>1, <2>2
  <1>3. T = Nat
    <2>1. ASSUME NEW n \in T PROVE n + 1 \in T
      <3>1. n + 1 <= k => f[n + 1] <= g[n + 1]
        BY <1>2
      <3> QED
        BY <3>1
    <2>2. T \in SUBSET Nat
      OBVIOUS
    <2> HIDE DEF T
    <2> QED
      BY <1>1, <2>1, <2>2, Induct
  <1> QED
    BY <1>3

\* Amounts of which the last are 0 add up to what the first do.
LEMMA SumsLevel ==
  ASSUME NEW k \in Nat, NEW m \in Nat, k <= m, NEW g, NEW b, SumsUp(g, b, m),
         \A n \in k + 1 .. m : b[n] = 0
  PROVE  g[m] = g[k]
  <1> DEFINE T == {n \in Nat : k + n <= m => g[k + n] = g[k]}
  <1>1. 0 \in T
    BY SMT
  <1>2. ASSUME NEW n \in T, k + (n + 1) <= m PROVE g[k + (n + 1)] = g[k]
    <2>1. /\ n \in Nat /\ g[k + n] = g[k] /\ k + (n + 1) \in k + 1 .. m
          /\ k + (n + 1) \in 1 .. m /\ (k + (n + 1)) - 1 = k + n
      BY <1>2
    <2>2. /\ g[k + n] \in Nat /\ b[k + (n + 1)] = 0
          /\ g[k + (n + 1)] = g[k + n] + b[k + (n + 1)]
      BY <2>1 DEF SumsUp
    <2> QED
      BY <2>1, <2>2
  <1>3. T = Nat
    <2>1. ASSUME NEW n \in T PROVE n + 1 \in T
      <3>1. k + (n + 1) <= m => g[k + (n + 1)] = g[k]
        BY <1>2
      <3> QED
        BY <3>1
    <2>2. T \in SUBSET Nat
      OBVIOUS
    <2> HIDE DEF T
    <2> QED
      BY <1>1, <2>1, <2>2, Induct
  <1>4. m - k \in T
    <2>1. m - k \in Nat
      OBVIOUS
    <2> HIDE DEF T
    <2> QED
      BY <1>3, <2>1
  <1>5. k + (m - k) = m
    OBVIOUS
  <1> QED
    BY <1>4, <1>5

-----------------------------------------------------------------------------
(* Totals *)

LEMMA TotalIsNat ==
  ASSUME NEW rows, NEW S, HasAmounts(rows)
  PROVE  Total(rows, S) \in Nat
  <1>1. PICK f : SumsUp(f, Counts(rows, S), Len(rows)) /\ Total(rows, S) = f[Len(rows)]
    BY RunningTotal
  <1> QED
    BY <1>1, SumIsNat DEF HasAmounts

\* A row that was not counted adds its amount.
LEMMA TotalAdds ==
  ASSUME NEW rows, NEW S, HasAmounts(rows), NEW i \in 1 .. Len(rows), i \notin S
  PROVE  Total(rows, S \cup {i}) = Total(rows, S) + rows[i].amount
  <1> DEFINE k == Len(rows)
             T == S \cup {i}
             a == Counts(rows, S)
             b == Counts(rows, T)
             d == rows[i].amount
  <1>1. PICK f : SumsUp(f, a, k) /\ Total(rows, S) = f[k]
    BY RunningTotal
  <1>2. PICK g : SumsUp(g, b, k) /\ Total(rows, T) = g[k]
    BY RunningTotal
  <1>3. k \in Nat /\ i \in Nat /\ d \in Int /\ SameBut(a, b, k, i, d)
    BY DEF HasAmounts, SameBut, Counts
  <1>4. g[k] = f[k] + (IF i \in 1 .. k THEN d ELSE 0)
    <2> HIDE DEF k, a, b, d
    <2> QED
      BY <1>1, <1>2, <1>3, SumsDiffer
  <1> QED
    BY <1>1, <1>2, <1>4

\* Counting more rows never makes a total smaller.
LEMMA TotalBelow ==
  ASSUME NEW rows, NEW S, NEW T, HasAmounts(rows), S \subseteq T
  PROVE  Total(rows, S) <= Total(rows, T)
  <1>1. PICK f : SumsUp(f, Counts(rows, S), Len(rows)) /\ Total(rows, S) = f[Len(rows)]
    BY RunningTotal
  <1>2. PICK g : SumsUp(g, Counts(rows, T), Len(rows)) /\ Total(rows, T) = g[Len(rows)]
    BY RunningTotal
  <1>3. /\ Len(rows) \in Nat
        /\ \A n \in 1 .. Len(rows) : /\ Counts(rows, S)[n] \in Nat
                                      /\ Counts(rows, T)[n] \in Nat
                                      /\ Counts(rows, S)[n] <= Counts(rows, T)[n]
    BY DEF Counts, HasAmounts
  <1> QED
    BY <1>1, <1>2, <1>3, SumsBelow

\* Rows that are not counted, at the end, add nothing.
LEMMA TotalKept ==
  ASSUME NEW rows, NEW longer, NEW S, HasAmounts(rows), HasAmounts(longer),
         Len(rows) <= Len(longer), S \subseteq 1 .. Len(rows),
         \A n \in 1 .. Len(rows) : longer[n].amount = rows[n].amount
  PROVE  Total(longer, S) = Total(rows, S)
  <1> DEFINE k == Len(rows)
             m == Len(longer)
             a == Counts(rows, S)
             b == Counts(longer, S)
  <1>1. PICK f : SumsUp(f, a, k) /\ Total(rows, S) = f[k]
    BY RunningTotal
  <1>2. PICK g : SumsUp(g, b, m) /\ Total(longer, S) = g[m]
    BY RunningTotal
  <1>3. k \in Nat /\ m \in Nat /\ k <= m
    BY DEF HasAmounts
  <1>4. SumsUp(g, b, k)
    BY <1>2, <1>3 DEF SumsUp
  <1>5. \A n \in k + 1 .. m : b[n] = 0
    BY <1>3 DEF Counts
  <1>6. \A n \in 1 .. k : a[n] \in Nat /\ b[n] = a[n]
    BY <1>3 DEF Counts, HasAmounts
  <1>7. g[k] = f[k]
    <2>1. PICK z \in Nat, d \in Int : z = 0 /\ d = 0
      OBVIOUS
    <2>2. SameBut(a, b, k, z, d)
      BY <1>6, <2>1 DEF SameBut
    <2> HIDE DEF a, b, k
    <2>3. g[k] = f[k] + (IF z \in 1 .. k THEN d ELSE 0)
      BY <1>1, <1>3, <1>4, <2>2, SumsDiffer
    <2>4. f[k] \in Nat
      BY <1>1, <1>3, SumIsNat
    <2> QED
      BY <2>1, <2>3, <2>4
  <1>8. g[m] = g[k]
    <2> HIDE DEF b, k, m
    <2> QED
      BY <1>2, <1>3, <1>5, SumsLevel
  <1> QED
    BY <1>1, <1>2, <1>7, <1>8

\* Nothing adds up to nothing.
LEMMA TotalOfNone ==
  ASSUME NEW S
  PROVE  Total(<<>>, S) = 0
  <1>1. HasAmounts(<<>>) /\ Len(<<>>) = 0
    BY DEF HasAmounts
  <1>2. PICK f : SumsUp(f, Counts(<<>>, S), Len(<<>>)) /\ Total(<<>>, S) = f[Len(<<>>)]
    BY <1>1, RunningTotal
  <1> QED
    BY <1>1, <1>2 DEF SumsUp

-----------------------------------------------------------------------------
(* The books of a payment *)

\* The rows of a ledger have amounts.
LEMMA LedgerHasAmounts ==
  ASSUME NEW rows \in Seq(Transaction)
  PROVE  /\ HasAmounts(rows) /\ DOMAIN rows = 1 .. Len(rows)
         /\ \A i \in DOMAIN rows : rows[i] \in Transaction /\ rows[i].amount \in Nat
  <1>1. \A i \in DOMAIN rows : rows[i] \in Transaction
    OBVIOUS
  <1> QED
    BY <1>1 DEF HasAmounts, Transaction

\* No step changes what rows that are there add up to.
LEMMA BookedKept ==
  ASSUME PaymentsInv, PaymentsInv', Keeps, NEW p \in Payers, NEW S \in SUBSET DOMAIN ledger[p]
  PROVE  Total(ledger'[p], S) = Total(ledger[p], S)
  <1>1. ledger[p] \in Seq(Transaction) /\ ledger'[p] \in Seq(Transaction)
    BY DEF PaymentsInv, TypeOK
  <1>2. HasAmounts(ledger[p]) /\ DOMAIN ledger[p] = 1 .. Len(ledger[p])
    BY <1>1, LedgerHasAmounts
  <1>3. HasAmounts(ledger'[p]) /\ DOMAIN ledger'[p] = 1 .. Len(ledger'[p])
    BY <1>1, LedgerHasAmounts
  <1>4. \A n \in 1 .. Len(ledger[p]) : /\ n \in 1 .. Len(ledger'[p])
                                       /\ ledger'[p][n].amount = ledger[p][n].amount
    BY <1>2, <1>3 DEF Keeps
  <1>5. Len(ledger[p]) <= Len(ledger'[p])
    <2>1. Len(ledger[p]) \in Nat /\ Len(ledger'[p]) \in Nat
      BY <1>2, <1>3 DEF HasAmounts
    <2> QED
      BY <2>1, <1>4
  <1>6. S \subseteq 1 .. Len(ledger[p])
    BY <1>2
  <1> QED
    BY <1>2, <1>3, <1>4, <1>5, <1>6, TotalKept

\* A refund is completed: its row, and what the payment shows as returned.
Completed(p, i) ==
  /\ i \in AllRefunds(p)
  /\ payment'[p].refunded = payment[p].refunded + ledger[p][i].amount
  /\ DOMAIN ledger'[p] = DOMAIN ledger[p]
  /\ ledger'[p][i].type = "REFUND" /\ ledger'[p][i].status = "COMPLETED"
  /\ \A j \in DOMAIN ledger[p] : j # i => ledger'[p][j] = ledger[p][j]

\* The ledger of a payment stays, or has a row more that completes no refund.
NoneCompleted(p) ==
  /\ payment'[p].refunded = payment[p].refunded
  /\ \/ ledger'[p] = ledger[p]
     \/ \E row \in Transaction : /\ row.type = "PAYMENT" \/ row.status = "PENDING"
                                 /\ ledger'[p] = Append(ledger[p], row)

\* The books of a payment, in the step in which its refund is completed.
LEMMA CompleteWriteBooks ==
  ASSUME PaymentsInv, NEW h \in Handlers, CompleteWrite(h), NEW q \in Payers
  PROVE  NoneCompleted(q) \/ (q = handler[h].p /\ Completed(q, handler[h].tx))
  <1>0. PICK p \in Payers : p = handler[h].p
    BY Halves DEF HandlerOK, CompleteWrite, At
  <1>1. PICK i, key, to, ref :
          /\ p = handler[h].p /\ i = handler[h].tx /\ key = handler[h].key
          /\ to = handler[h].to /\ ref = handler[h].ref
    BY <1>0
  <1>2. RowsOK /\ HandlerOK(h) /\ At(h, "completeWrite")
    BY Halves DEF CompleteWrite
  <1>3. CASE /\ payment' = [payment EXCEPT ![p].status = to, ![p].refunded = RefundedAfter(p, i)]
             /\ ledger' = [ledger EXCEPT ![p][i].status = "COMPLETED", ![p][i].ref = ref,
                                         ![p][i].event = key]
    <2> DEFINE refund == [ledger[p][i] EXCEPT !.status = "COMPLETED", !.ref = ref, !.event = key]
    <2>1. ledger' = [ledger EXCEPT ![p] = [ledger[p] EXCEPT ![i] = refund]]
      BY <1>3
    <2>2. i \in AllRefunds(p)
      BY <1>1, <1>2 DEF HandlerOK, AllRefunds
    <2>3. ledger[p] \in Seq(Transaction) /\ i \in DOMAIN ledger[p]
      BY <1>2, <2>2 DEF RowsOK, AllRefunds
    <2>4. ledger[p][i] \in Transaction
      BY <2>3
    <2>5. refund.type = "REFUND" /\ refund.status = "COMPLETED"
      BY <2>2, <2>4 DEF Transaction, AllRefunds
    <2> HIDE DEF refund
    <2>6. /\ payment'[p].refunded = payment[p].refunded + ledger[p][i].amount
          /\ \A r \in Payers \ {p} : payment'[r] = payment[r] /\ ledger'[r] = ledger[r]
          /\ ledger'[p] = [ledger[p] EXCEPT ![i] = refund]
      <3>1. /\ payment \in [Payers -> PaymentRow] /\ ledger \in [Payers -> Seq(Transaction)]
            /\ RefundedAfter(p, i) = payment[p].refunded + ledger[p][i].amount
            /\ payment' = [payment EXCEPT ![p] =
                 [payment[p] EXCEPT !.status = to, !.refunded = RefundedAfter(p, i)]]
        BY <1>2, <1>3 DEF RowsOK, RefundedAfter
      <3>2. payment'[p] = [payment[p] EXCEPT !.status = to, !.refunded = RefundedAfter(p, i)]
        BY <3>1
      <3>3. payment'[p].refunded = RefundedAfter(p, i)
        BY <3>1, <3>2 DEF PaymentRow
      <3> QED
        BY <2>1, <3>1, <3>3
    <2>7. /\ DOMAIN ledger'[p] = DOMAIN ledger[p] /\ ledger'[p][i] = refund
          /\ \A j \in DOMAIN ledger[p] : j # i => ledger'[p][j] = ledger[p][j]
      BY <2>3, <2>6
    <2>8. Completed(p, i)
      BY <2>2, <2>5, <2>6, <2>7 DEF Completed
    <2>9. \A r \in Payers \ {p} : NoneCompleted(r)
      BY <2>6 DEF NoneCompleted
    <2> QED
      BY <1>1, <2>8, <2>9
  <1>4. CASE UNCHANGED <<payment, ledger>>
    BY <1>4 DEF NoneCompleted
  <1> QED
    BY <1>1, <1>3, <1>4 DEF CompleteWrite

\* A receipt is booked.
LEMMA CaptureWriteBooks ==
  ASSUME PaymentsInv, NEW h \in Handlers, CaptureWrite(h), NEW q \in Payers
  PROVE  NoneCompleted(q)
  <1>1. PICK p \in Payers, id \in PayIds, key \in EventKey \cup {Uuid} :
          p = handler[h].p /\ id = handler[h].pay /\ key = handler[h].key
    BY Halves DEF HandlerOK, Handler, CaptureWrite, At
  <1>2. /\ payment \in [Payers -> PaymentRow] /\ ledger \in [Payers -> Seq(Transaction)]
    BY Halves DEF RowsOK
  <1>3. CASE /\ payment' = [payment EXCEPT ![p].status = "CAPTURED", ![p].pay = id]
             /\ ledger' = AppendRow(p, Receipt(p, id, key))
    <2> DEFINE row == Receipt(p, id, key)
    <2>1. row \in Transaction /\ row.type = "PAYMENT"
      BY <1>2 DEF Receipt, Transaction, PaymentRow
    <2> HIDE DEF row
    <2>2. /\ ledger'[p] = Append(ledger[p], row)
          /\ \A r \in Payers \ {p} : payment'[r] = payment[r] /\ ledger'[r] = ledger[r]
      BY <1>2, <1>3 DEF AppendRow, row
    <2>3. payment'[p] = [payment[p] EXCEPT !.status = "CAPTURED", !.pay = id]
      BY <1>2, <1>3
    <2>4. payment'[p].refunded = payment[p].refunded
      BY <1>2, <2>3 DEF PaymentRow
    <2> QED
      BY <2>1, <2>2, <2>4 DEF NoneCompleted
  <1>4. CASE UNCHANGED <<payment, ledger>>
    BY <1>4 DEF NoneCompleted
  <1> QED
    BY <1>1, <1>3, <1>4 DEF CaptureWrite

\* A refund is written as PENDING.
LEMMA RefundWriteBooks ==
  ASSUME PaymentsInv, NEW h \in Handlers, RefundWrite(h), NEW q \in Payers
  PROVE  NoneCompleted(q)
  <1>1. PICK p \in Payers, amt \in Nat : p = handler[h].p /\ amt = handler[h].amt
    BY Halves DEF HandlerOK, Handler, RefundWrite, At
  <1>2. /\ payment \in [Payers -> PaymentRow] /\ ledger \in [Payers -> Seq(Transaction)]
    BY Halves DEF RowsOK
  <1> DEFINE row == PendingRefund(amt)
  <1>3. row \in Transaction /\ row.status = "PENDING"
    BY DEF PendingRefund, Transaction
  <1>4. /\ payment' = [payment EXCEPT ![p].status = "REFUND_PENDING"]
        /\ ledger' = [ledger EXCEPT ![p] = Append(@, row)]
    BY <1>1 DEF RefundWrite, AppendRow
  <1> HIDE DEF row
  <1>5. /\ ledger'[p] = Append(ledger[p], row)
        /\ \A r \in Payers \ {p} : payment'[r] = payment[r] /\ ledger'[r] = ledger[r]
        /\ payment'[p] = [payment[p] EXCEPT !.status = "REFUND_PENDING"]
    BY <1>2, <1>4
  <1>6. payment'[p].refunded = payment[p].refunded
    BY <1>2, <1>5 DEF PaymentRow
  <1> QED
    BY <1>3, <1>5, <1>6 DEF NoneCompleted

\* The steps that write no ledger leave what a payment shows as returned as it is.
LEMMA StatusWriteBooks ==
  ASSUME PaymentsInv, NEW h \in Handlers, NEW q \in Payers,
         CreatePayment(h) \/ AttachWrite(h) \/ FailWrite(h) \/ AuthorizeWrite(h)
  PROVE  NoneCompleted(q)
  <1>1. /\ payment \in [Payers -> PaymentRow]
        /\ \A p \in Payers : payment[p].status = "NONE" => payment[p].refunded = 0
    BY Halves DEF RowsOK, PaymentOK, NoPayment
  <1>2. ledger' = ledger
    BY DEF CreatePayment, AttachWrite, FailWrite, AuthorizeWrite
  <1>3. PICK p : p = handler[h].p
    OBVIOUS
  <1>4. CASE CreatePayment(h)
    <2>1. CASE /\ Payable(p)
               /\ payment' = [payment EXCEPT ![p] =
                    [NoPayment EXCEPT !.status = "CREATED", !.amount = handler[h].amt]]
      <3>1. p = q => payment'[q].refunded = 0
        BY <1>1, <2>1 DEF NoPayment
      <3>2. p # q => payment'[q] = payment[q]
        BY <1>1, <2>1
      <3> QED
        BY <1>1, <1>2, <2>1, <3>1, <3>2 DEF NoneCompleted, Payable
    <2> QED
      BY <1>2, <1>3, <1>4, <2>1 DEF CreatePayment, NoneCompleted
  <1>5. CASE AttachWrite(h)
    <2>1. payment' = [payment EXCEPT ![p] =
            [payment[p] EXCEPT !.order = TRUE, !.status = "PENDING"]]
      BY <1>3, <1>5 DEF AttachWrite
    <2>2. payment'[q].refunded = payment[q].refunded
      BY <1>1, <2>1 DEF PaymentRow
    <2> QED
      BY <1>2, <2>2 DEF NoneCompleted
  <1>6. CASE FailWrite(h)
    <2>1. payment' = [payment EXCEPT ![p].status = "FAILED"] \/ payment' = payment
      BY <1>3, <1>6 DEF FailWrite
    <2>2. payment'[q].refunded = payment[q].refunded
      BY <1>1, <2>1 DEF PaymentRow
    <2> QED
      BY <1>2, <2>2 DEF NoneCompleted
  <1>7. CASE AuthorizeWrite(h)
    <2>1. PICK id : id = handler[h].pay
      OBVIOUS
    <2>2. payment' = [payment EXCEPT ![p] =
            [payment[p] EXCEPT !.status = "AUTHORIZED", !.pay = id]]
      BY <1>3, <1>7, <2>1 DEF AuthorizeWrite
    <2>3. payment'[q].refunded = payment[q].refunded
      BY <1>1, <2>2 DEF PaymentRow
    <2> QED
      BY <1>2, <2>3 DEF NoneCompleted
  <1> QED
    BY <1>4, <1>5, <1>6, <1>7

\* Any step: it completes no refund, or it is the write of the one it completes.
LEMMA BooksMove ==
  ASSUME PaymentsInv, [Next]_vars, NEW q \in Payers
  PROVE  \/ NoneCompleted(q)
         \/ \E h \in Handlers : /\ At(h, "completeWrite") /\ q = handler[h].p
                                /\ Completed(q, handler[h].tx)
  <1>1. CASE UNCHANGED <<payment, ledger>>
    BY <1>1 DEF NoneCompleted
  <1>2. CASE UNCHANGED vars
    BY <1>1, <1>2 DEF vars
  <1>3. CASE Environment
    BY <1>1, <1>3 DEF Environment, EndSession, PayerPays, ProviderCaptures, ProviderRefunds
  <1>4. ASSUME NEW h \in Handlers, Request(h) \/ Crash(h) PROVE NoneCompleted(q)
    BY <1>1, <1>4 DEF Request, Crash, StartCreateOrder, StartVerify, DeliverFailed,
       DeliverCaptured, DeliverRefund, StartRefund, StartChangeTerms, NoneCompleted
  <1>5. ASSUME NEW h \in Handlers, HandlerStep(h)
        PROVE  NoneCompleted(q) \/ CompleteWrite(h)
    <2>1. CASE UNCHANGED <<payment, ledger>>
      BY <2>1 DEF NoneCompleted
    <2>2. \/ UNCHANGED <<payment, ledger>>
          \/ CreatePayment(h) \/ AttachWrite(h) \/ FailWrite(h) \/ AuthorizeWrite(h)
          \/ CaptureWrite(h) \/ RefundWrite(h) \/ CompleteWrite(h)
      BY <1>5 DEF HandlerStep, CallCreateOrder, AttachRead, FailRead, RefundRead,
         CallRefund, CompleteRead, TermsWrite
    <2> QED
      BY <2>1, <2>2, StatusWriteBooks, CaptureWriteBooks, RefundWriteBooks
  <1>6. ASSUME NEW h \in Handlers, CompleteWrite(h)
        PROVE  \/ NoneCompleted(q)
               \/ At(h, "completeWrite") /\ q = handler[h].p /\ Completed(q, handler[h].tx)
    BY <1>6, CompleteWriteBooks DEF CompleteWrite
  <1> QED
    BY <1>2, <1>3, <1>4, <1>5, <1>6 DEF Next

\* The completed refunds stay what they are.
LEMMA NoneCompletedTotal ==
  ASSUME PaymentsInv, PaymentsInv', Keeps, NEW p \in Payers, NoneCompleted(p)
  PROVE  Booked(p, CompletedRefunds(p))' = Booked(p, CompletedRefunds(p))
  <1> DEFINE C == CompletedRefunds(p)
  <1>1. ledger[p] \in Seq(Transaction)
    BY DEF PaymentsInv, TypeOK
  <1>2. /\ C = {i \in DOMAIN ledger[p] : /\ ledger[p][i].type = "REFUND"
                                         /\ ledger[p][i].status # "PENDING"}
        /\ C' = {i \in DOMAIN ledger'[p] : /\ ledger'[p][i].type = "REFUND"
                                           /\ ledger'[p][i].status # "PENDING"}
    BY DEF CompletedRefunds, AllRefunds, PendingRefunds
  <1>3. ASSUME NEW row \in Transaction, row.type = "PAYMENT" \/ row.status = "PENDING",
               ledger'[p] = Append(ledger[p], row)
        PROVE  C' = C
    <2> DEFINE n == Len(ledger[p]) + 1
    <2>1. DOMAIN ledger'[p] = DOMAIN ledger[p] \cup {n} /\ n \notin DOMAIN ledger[p]
      BY <1>1, <1>3
    <2>2. ledger'[p][n] = row /\ \A i \in DOMAIN ledger[p] : ledger'[p][i] = ledger[p][i]
      BY <1>1, <1>3
    <2>3. n \notin C'
      BY <1>2, <1>3, <2>2
    <2> HIDE DEF n, C
    <2> QED
      BY <1>2, <2>1, <2>2, <2>3
  <1>4. C' = C
    BY <1>2, <1>3 DEF NoneCompleted
  <1>5. C \in SUBSET DOMAIN ledger[p]
    BY <1>2
  <1> HIDE DEF C
  <1>6. Total(ledger'[p], C) = Total(ledger[p], C)
    BY <1>5, BookedKept
  <1> QED
    BY <1>4, <1>6 DEF Booked, C

\* A refund that was not completed before adds its amount to the completed ones.
LEMMA CompletedTotal ==
  ASSUME PaymentsInv, PaymentsInv', Keeps, NEW p \in Payers, NEW i, Completed(p, i)
  PROVE  Booked(p, CompletedRefunds(p))' =
           Booked(p, CompletedRefunds(p))
             + (IF i \in PendingRefunds(p) THEN ledger[p][i].amount ELSE 0)
  <1> DEFINE C == CompletedRefunds(p)
  <1>1. /\ HasAmounts(ledger[p]) /\ i \in 1 .. Len(ledger[p])
        /\ DOMAIN ledger[p] = 1 .. Len(ledger[p])
    BY LedgerHasAmounts DEF PaymentsInv, TypeOK, Completed, AllRefunds
  <1>2. /\ C = {j \in DOMAIN ledger[p] : /\ ledger[p][j].type = "REFUND"
                                         /\ ledger[p][j].status # "PENDING"}
        /\ C' = {j \in DOMAIN ledger'[p] : /\ ledger'[p][j].type = "REFUND"
                                           /\ ledger'[p][j].status # "PENDING"}
        /\ i \in PendingRefunds(p) <=> i \notin C
    BY DEF CompletedRefunds, AllRefunds, PendingRefunds, Completed
  <1>3. C' = C \cup {i} /\ C \cup {i} \in SUBSET DOMAIN ledger[p]
    BY <1>1, <1>2 DEF Completed
  <1> HIDE DEF C
  <1>4. Total(ledger'[p], C \cup {i}) = Total(ledger[p], C \cup {i})
    <2> DEFINE S == C \cup {i}
    <2>1. S \in SUBSET DOMAIN ledger[p]
      BY <1>3
    <2> HIDE DEF S
    <2>2. Total(ledger'[p], S) = Total(ledger[p], S)
      BY <2>1, BookedKept
    <2> QED
      BY <2>2 DEF S
  <1>5. CASE i \in C
    <2>1. C \cup {i} = C
      BY <1>5
    <2>2. Total(ledger[p], C) \in Nat
      BY <1>1, TotalIsNat
    <2>3. Total(ledger'[p], C') = Total(ledger[p], C)
      BY <1>3, <1>4, <2>1
    <2>4. i \notin PendingRefunds(p)
      BY <1>2, <1>5
    <2> QED
      BY <2>2, <2>3, <2>4 DEF Booked, C
  <1>6. CASE i \notin C
    <2>1. Total(ledger[p], C \cup {i}) = Total(ledger[p], C) + ledger[p][i].amount
      BY <1>1, <1>6, TotalAdds
    <2> QED
      BY <1>2, <1>3, <1>4, <1>6, <2>1 DEF Booked, C
  <1> QED
    BY <1>5, <1>6

-----------------------------------------------------------------------------
(* What a payment shows as returned *)

\* The amounts of the books are numbers.
LEMMA BooksAreNumbers ==
  ASSUME PaymentsInv, NEW p \in Payers
  PROVE  /\ Booked(p, CompletedRefunds(p)) \in Nat /\ payment[p].refunded \in Nat
         /\ \A i \in AllRefunds(p) : ledger[p][i].amount \in Nat
  <1>1. ledger[p] \in Seq(Transaction) /\ payment[p] \in PaymentRow
    BY DEF PaymentsInv, TypeOK
  <1> QED
    BY <1>1, LedgerHasAmounts, TotalIsNat DEF Booked, PaymentRow, AllRefunds

\* No refund is booked that the payment does not show.
CountedOf(p) == Booked(p, CompletedRefunds(p)) <= payment[p].refunded
ReconciledOf(p) == Booked(p, CompletedRefunds(p)) = payment[p].refunded

\* Before any payment there is nothing to count.
LEMMA InitBooks == ASSUME Init, NEW p \in Payers PROVE CountedOf(p) /\ ReconciledOf(p)
  <1>1. ledger[p] = <<>> /\ payment[p].refunded = 0
    BY DEF Init, NoPayment
  <1>2. Total(<<>>, CompletedRefunds(p)) = 0
    BY TotalOfNone
  <1> QED
    BY <1>1, <1>2 DEF CountedOf, ReconciledOf, Booked

\* A refund that two answers complete at the same time is counted twice in the payment
\* and once in the ledger, never the other way round.
LEMMA NextCounted ==
  ASSUME PaymentsInv, [Next]_vars, NEW p \in Payers, CountedOf(p)
  PROVE  CountedOf(p)'
  <1>1. PaymentsInv' /\ Keeps
    BY NextInv
  <1>2. CASE NoneCompleted(p)
    BY <1>1, <1>2, NoneCompletedTotal DEF CountedOf, NoneCompleted
  <1>3. ASSUME NEW i, Completed(p, i) PROVE CountedOf(p)'
    <2>1. Booked(p, CompletedRefunds(p))' =
            Booked(p, CompletedRefunds(p))
              + (IF i \in PendingRefunds(p) THEN ledger[p][i].amount ELSE 0)
      BY <1>1, <1>3, CompletedTotal
    <2>2. /\ payment'[p].refunded = payment[p].refunded + ledger[p][i].amount
          /\ ledger[p][i].amount \in Nat /\ payment[p].refunded \in Nat
          /\ Booked(p, CompletedRefunds(p)) \in Nat
      BY <1>3, BooksAreNumbers DEF Completed
    <2> QED
      BY <2>1, <2>2 DEF CountedOf
  <1> QED
    BY <1>2, <1>3, BooksMove

\* However an answer of Razorpay and its webhook overlap, every refund the ledger
\* completes is counted in the payment, whose total never exceeds what was paid.
THEOREM RefundsCountedAlways == Spec => []RefundsCounted
  <1> DEFINE Inv == PaymentsInv /\ \A p \in Payers : CountedOf(p)
  <1>1. Init => Inv
    BY InitPaymentsInv, InitBooks
  <1>2. Inv /\ [Next]_vars => Inv'
    BY NextInv, NextCounted
  <1>3. Inv => RefundsCounted
    BY DEF PaymentsInv, PaymentOK, CountedOf, RefundsCounted
  <1> HIDE DEF Inv
  <1> QED
    BY <1>1, <1>2, <1>3, PTL DEF Spec

\* A request that is alone completes a refund that is pending, and counts it once.
LEMMA NextReconciled ==
  ASSUME SequentialInv, [Next]_vars, NEW p \in Payers, ReconciledOf(p)
  PROVE  ReconciledOf(p)'
  <1>1. PaymentsInv /\ PaymentsInv' /\ Keeps
    BY NextInv DEF SequentialInv
  <1>2. CASE NoneCompleted(p)
    BY <1>1, <1>2, NoneCompletedTotal DEF ReconciledOf, NoneCompleted
  <1>3. ASSUME NEW i, i \in PendingRefunds(p), Completed(p, i) PROVE ReconciledOf(p)'
    <2>1. Booked(p, CompletedRefunds(p))' =
            Booked(p, CompletedRefunds(p)) + ledger[p][i].amount
      BY <1>1, <1>3, CompletedTotal
    <2> QED
      BY <1>3, <2>1 DEF ReconciledOf, Completed
  <1>4. ASSUME NEW h \in Handlers, At(h, "completeWrite"), p = handler[h].p
        PROVE  handler[h].tx \in PendingRefunds(p)
    BY <1>4 DEF SequentialInv, Fresh
  <1> QED
    BY <1>1, <1>2, <1>3, <1>4, BooksMove

\* When requests do not overlap, the payment shows as returned exactly what its
\* completed refunds add up to, also over crashes, lost answers and late webhooks.
THEOREM LedgerReconcilesOneAtATime == ASSUME OneAtATime PROVE Spec => []LedgerReconciles
  <1> DEFINE Inv == SequentialInv /\ \A p \in Payers : ReconciledOf(p)
  <1>1. Init => Inv
    BY InitSequentialInv, InitBooks
  <1>2. Inv /\ [Next]_vars => Inv'
    BY NextSequentialInv, NextReconciled
  <1>3. Inv => LedgerReconciles
    BY DEF ReconciledOf, LedgerReconciles
  <1> HIDE DEF Inv
  <1> QED
    BY <1>1, <1>2, <1>3, PTL DEF Spec

-----------------------------------------------------------------------------
(* What Razorpay was made to return *)

\* The steps of a request in which it refers to an attempt that paid its order.
Paying == {"authorizeWrite", "refund", "refundWrite", "callRefund"}

\* The attempts stay paid, and no refund of them is accepted.
NoRefundAccepted ==
  \A p \in Payers, id \in PayIds :
    /\ Signed(p, id) => Signed(p, id)'
    /\ attempts'[id].payer = p =>
         \/ attempts'[id].returned = 0
         \/ attempts[id].payer = p /\ attempts'[id].returned = attempts[id].returned

\* A payment keeps its attempt, has none, or gets one that paid its order.
PayStays ==
  \A p \in Payers, id \in PayIds : payment'[p].pay = id =>
    payment[p].pay = id \/ Signed(p, id)'

\* A request waits, or it moves to a step in which it does not call Razorpay.
CallsStay(h) ==
  \/ handler'[h] = handler[h]
  \/ /\ handler'[h].pc # "callRefund"
     /\ handler'[h].pc \in Paying =>
          \E p \in Payers, id \in PayIds :
            handler'[h].p = p /\ handler'[h].pay = id /\ Signed(p, id)'

\* The rows that covered what was returned still do, and the others are still owned.
LEMMA AheadStays ==
  ASSUME PaymentsInv, PaymentsInv', Keeps, NEW p \in Payers, NEW id \in PayIds,
         WrittenAhead(p, id),
         attempts'[id].payer = p =>
           \/ attempts'[id].returned = 0
           \/ attempts[id].payer = p /\ attempts'[id].returned = attempts[id].returned,
         \A h \in Handlers : h \in Calling(p)' =>
           h \in Calling(p) /\ handler'[h].amt = handler[h].amt
  PROVE  WrittenAhead(p, id)'
  <1>1. PICK spent \in SUBSET AllRefunds(p), own \in [Handlers -> 0 .. Len(ledger[p])] :
          /\ attempts[id].payer = p => attempts[id].returned <= Booked(p, spent)
          /\ \A h \in Calling(p) : /\ own[h] \in AllRefunds(p) \ spent
                                   /\ ledger[p][own[h]].amount = handler[h].amt
          /\ \A g, h \in Calling(p) : own[g] = own[h] => g = h
    BY DEF WrittenAhead
  <1>2. /\ ledger[p] \in Seq(Transaction) /\ ledger'[p] \in Seq(Transaction)
    BY DEF PaymentsInv, TypeOK
  <1>3. /\ HasAmounts(ledger[p]) /\ DOMAIN ledger[p] = 1 .. Len(ledger[p])
    BY <1>2, LedgerHasAmounts
  <1>4. /\ HasAmounts(ledger'[p]) /\ DOMAIN ledger'[p] = 1 .. Len(ledger'[p])
    BY <1>2, LedgerHasAmounts
  <1>5. /\ AllRefunds(p) \subseteq DOMAIN ledger[p] /\ AllRefunds(p) \subseteq AllRefunds(p)'
        /\ \A i \in AllRefunds(p) : ledger'[p][i].amount = ledger[p][i].amount
        /\ AllRefunds(p)' \subseteq DOMAIN ledger'[p]
    BY DEF AllRefunds, Keeps
  <1>6. Total(ledger'[p], spent) = Total(ledger[p], spent) /\ Total(ledger[p], spent) \in Nat
    BY <1>3, <1>5, BookedKept, TotalIsNat
  <1>7. own \in [Handlers -> 0 .. Len(ledger'[p])]
    <2>1. Len(ledger[p]) \in Nat /\ Len(ledger'[p]) \in Nat
      BY <1>2
    <2>2. Len(ledger[p]) <= Len(ledger'[p])
      <3>1. \A n \in 1 .. Len(ledger[p]) : n \in 1 .. Len(ledger'[p])
        BY <1>3, <1>4 DEF Keeps
      <3> QED
        BY <2>1, <3>1
    <2>3. 0 .. Len(ledger[p]) \subseteq 0 .. Len(ledger'[p])
      BY <2>1, <2>2
    <2> QED
      BY <2>3
  <1>8. attempts'[id].payer = p => attempts'[id].returned <= Total(ledger'[p], spent)
    BY <1>1, <1>6 DEF Booked
  <1>9. \A h \in Calling(p)' : /\ own[h] \in AllRefunds(p)' \ spent
                               /\ ledger'[p][own[h]].amount = handler'[h].amt
    BY <1>1, <1>5 DEF Calling
  <1>10. \A g, h \in Calling(p)' : own[g] = own[h] => g = h
    BY <1>1 DEF Calling
  <1>11. spent \in SUBSET AllRefunds(p)'
    BY <1>5
  <1> QED
    BY <1>7, <1>8, <1>9, <1>10, <1>11 DEF WrittenAhead, Booked

\* A step in which Razorpay accepts no refund, and none is written.
LEMMA AccountsStay ==
  ASSUME PaymentsInv, PaymentsInv', Keeps, AccountsInv, NoRefundAccepted, PayStays,
         \A h \in Handlers : CallsStay(h)
  PROVE  AccountsInv'
  <1>1. ASSUME NEW p \in Payers, NEW id \in PayIds PROVE WrittenAhead(p, id)'
    <2>1. \A h \in Handlers : h \in Calling(p)' =>
            h \in Calling(p) /\ handler'[h].amt = handler[h].amt
      BY DEF CallsStay, Calling, At
    <2> QED
      BY <2>1, AheadStays DEF AccountsInv, NoRefundAccepted
  <1>2. ASSUME NEW p \in Payers, payment'[p].pay # None PROVE Signed(p, payment[p].pay)'
    <2>1. PICK id : id = payment'[p].pay
      OBVIOUS
    <2>2. id \in PayIds
      BY <1>2, <2>1 DEF PaymentsInv, TypeOK, PaymentRow
    <2>3. payment[p].pay = id => Signed(p, id)
      BY <1>2, <2>1 DEF AccountsInv, PaysOrder
    <2>4. Signed(p, id)'
      BY <2>1, <2>2, <2>3 DEF PayStays, NoRefundAccepted
    <2> QED
      BY <2>1, <2>4 DEF Signed
  <1>3. ASSUME NEW h \in Handlers, handler'[h].pc \in Paying
        PROVE  handler'[h].pay \in PayIds /\ Signed(handler[h].p, handler[h].pay)'
    <2>1. PICK p, id : p = handler'[h].p /\ id = handler'[h].pay
      OBVIOUS
    <2>2. CASE handler'[h] = handler[h]
      <3>1. id \in PayIds /\ Signed(p, id)
        BY <1>3, <2>1, <2>2 DEF AccountsInv, PaysOrder, Paying
      <3>2. p \in Payers
        BY <1>3, <2>1, <2>2, Halves DEF HandlerOK, Paying, At
      <3>3. Signed(p, id)'
        BY <3>1, <3>2 DEF NoRefundAccepted
      <3> QED
        BY <2>1, <3>1, <3>3 DEF Signed
    <2>3. CASE handler'[h] # handler[h]
      <3>1. id \in PayIds /\ Signed(p, id)'
        BY <1>3, <2>1, <2>3 DEF CallsStay
      <3> QED
        BY <2>1, <3>1 DEF Signed
    <2> QED
      BY <2>2, <2>3
  <1>4. PaysOrder'
    BY <1>2, <1>3 DEF PaysOrder, Paying
  <1> QED
    BY <1>1, <1>4 DEF AccountsInv

\* One request moves, and does not call Razorpay for a refund next.
LEMMA MovesAccounts ==
  ASSUME PaymentsInv, PaymentsInv', Keeps, AccountsInv, UNCHANGED attempts, PayStays,
         NEW h \in Handlers, NEW w, handler' = [handler EXCEPT ![h] = w],
         w.pc # "callRefund",
         w.pc \in Paying => \E p \in Payers, id \in PayIds :
                              w.p = p /\ w.pay = id /\ Signed(p, id)
  PROVE  AccountsInv'
  <1>1. handler \in [Handlers -> Handler]
    BY Halves
  <1>2. handler'[h] = w /\ \A g \in Handlers \ {h} : handler'[g] = handler[g]
    BY <1>1
  <1>3. NoRefundAccepted
    BY DEF NoRefundAccepted, Signed
  <1>4. CallsStay(h)
    BY <1>2 DEF CallsStay, Signed
  <1>5. \A g \in Handlers : CallsStay(g)
    BY <1>2, <1>4 DEF CallsStay
  <1> QED
    BY <1>3, <1>5, AccountsStay

\* The request goes on in a step that refers to no attempt, or it is over.
LEMMA GoesOnAccounts ==
  ASSUME PaymentsInv, PaymentsInv', Keeps, AccountsInv, UNCHANGED attempts, PayStays,
         NEW h \in Handlers, NEW pc, Goto(h, pc) \/ Finish(h),
         pc \notin Paying
  PROVE  AccountsInv'
  <1>1. CASE Goto(h, pc)
    <2>1. handler' = [handler EXCEPT ![h] = [handler[h] EXCEPT !.pc = pc]]
      BY <1>1 DEF Goto
    <2>2. [handler[h] EXCEPT !.pc = pc].pc = pc
      BY Halves DEF Handler
    <2> QED
      BY <2>1, <2>2, MovesAccounts DEF Paying
  <1>2. CASE Finish(h)
    <2>1. Idle.pc = "idle"
      BY DEF Idle
    <2> QED
      BY <1>2, <2>1, MovesAccounts DEF Finish, Paying
  <1> QED
    BY <1>1, <1>2

\* The first step of a request: verify and requestRefund refer to an attempt that paid.
LEMMA RequestAccounts ==
  ASSUME PaymentsInv, PaymentsInv', Keeps, AccountsInv, NEW h \in Handlers, Request(h)
  PROVE  AccountsInv'
  <1>1. UNCHANGED <<payment, attempts>>
    BY DEF Request, StartCreateOrder, StartVerify, DeliverFailed, DeliverCaptured,
       DeliverRefund, StartRefund, StartChangeTerms, providerVars
  <1>2. PayStays
    BY <1>1 DEF PayStays
  <1>3. ASSUME NEW p \in Payers, StartCreateOrder(h, p) PROVE AccountsInv'
    <2> DEFINE w == [Idle EXCEPT !.pc = "create", !.p = p, !.amt = session.price]
    <2>1. w.pc = "create" /\ handler' = [handler EXCEPT ![h] = w]
      BY <1>3 DEF Idle, StartCreateOrder
    <2> HIDE DEF w
    <2> QED
      BY <1>1, <1>2, <2>1, MovesAccounts DEF Paying
  <1>4. ASSUME NEW p \in Payers, NEW id \in PayIds, StartVerify(h, p, id) PROVE AccountsInv'
    <2> DEFINE w == [Idle EXCEPT !.pc = "authorizeWrite", !.p = p, !.pay = id]
    <2>1. /\ w.pc = "authorizeWrite" /\ w.p = p /\ w.pay = id /\ Signed(p, id)
          /\ handler' = [handler EXCEPT ![h] = w]
      BY <1>4 DEF Idle, StartVerify
    <2> HIDE DEF w
    <2> QED
      BY <1>1, <1>2, <2>1, MovesAccounts DEF Paying
  <1>5. ASSUME NEW p \in Payers, NEW id \in PayIds, DeliverFailed(h, p, id) PROVE AccountsInv'
    <2> DEFINE w == [Idle EXCEPT !.pc = "failWrite", !.p = p, !.key = <<"payment.failed", id>>]
    <2>1. w.pc = "failWrite" /\ handler' = [handler EXCEPT ![h] = w]
      BY <1>5 DEF Idle, DeliverFailed
    <2> HIDE DEF w
    <2> QED
      BY <1>1, <1>2, <2>1, MovesAccounts DEF Paying
  <1>6. ASSUME NEW p \in Payers, NEW id \in PayIds, DeliverCaptured(h, p, id) PROVE AccountsInv'
    <2> DEFINE w == [Idle EXCEPT !.pc = "captureWrite", !.p = p, !.pay = id,
                                 !.key = CapturedKey(id)]
    <2>1. w.pc = "captureWrite" /\ handler' = [handler EXCEPT ![h] = w]
      BY <1>6 DEF Idle, DeliverCaptured
    <2> HIDE DEF w
    <2> QED
      BY <1>1, <1>2, <2>1, MovesAccounts DEF Paying
  <1>7. ASSUME NEW p \in Payers, NEW r \in RefundIds, DeliverRefund(h, p, r) PROVE AccountsInv'
    <2>1. PICK i, to : handler' = [handler EXCEPT ![h] =
                         [Idle EXCEPT !.pc = "completeWrite", !.p = p, !.tx = i, !.ref = r,
                                      !.to = to, !.key = RefundKey(r)]]
      BY <1>7, ZenonT(40) DEF DeliverRefund
    <2> DEFINE w == [Idle EXCEPT !.pc = "completeWrite", !.p = p, !.tx = i, !.ref = r,
                                 !.to = to, !.key = RefundKey(r)]
    <2>2. w.pc = "completeWrite" /\ handler' = [handler EXCEPT ![h] = w]
      BY <2>1 DEF Idle
    <2> HIDE DEF w
    <2> QED
      BY <1>1, <1>2, <2>2, MovesAccounts DEF Paying
  <1>8. ASSUME NEW p \in Payers, NEW admin \in BOOLEAN, NEW amt, StartRefund(h, p, admin, amt)
        PROVE  AccountsInv'
    <2>1. PICK id : id = payment[p].pay
      OBVIOUS
    <2>2. id \in PayIds /\ Signed(p, id)
      BY <1>8, <2>1 DEF StartRefund, AccountsInv, PaysOrder, PaymentsInv, TypeOK, PaymentRow
    <2> DEFINE w == [Idle EXCEPT !.pc = "refund", !.p = p, !.amt = amt, !.pay = id,
                                 !.read = payment[p].refunded]
    <2>3. w.pc = "refund" /\ w.p = p /\ w.pay = id /\ handler' = [handler EXCEPT ![h] = w]
      BY <1>8, <2>1 DEF Idle, StartRefund
    <2> HIDE DEF w
    <2> QED
      BY <1>1, <1>2, <2>2, <2>3, MovesAccounts DEF Paying
  <1>9. ASSUME NEW price, StartChangeTerms(h, price) PROVE AccountsInv'
    <2> DEFINE w == [Idle EXCEPT !.pc = "termsWrite", !.amt = price]
    <2>1. w.pc = "termsWrite" /\ handler' = [handler EXCEPT ![h] = w]
      BY <1>9 DEF Idle, StartChangeTerms
    <2> HIDE DEF w
    <2> QED
      BY <1>1, <1>2, <2>1, MovesAccounts DEF Paying
  <1> QED
    BY <1>3, <1>4, <1>5, <1>6, <1>7, <1>8, <1>9 DEF Request

\* The steps that write no payment, except those of a refund.
LEMMA ReadsAccounts ==
  ASSUME PaymentsInv, PaymentsInv', Keeps, AccountsInv, NEW h \in Handlers,
         \/ CallCreateOrder(h) \/ AttachRead(h) \/ FailRead(h) \/ TermsWrite(h)
         \/ Crash(h) \/ CompleteRead(h)
  PROVE  AccountsInv'
  <1>1. UNCHANGED <<payment, attempts>>
    BY DEF CallCreateOrder, AttachRead, FailRead, TermsWrite, Crash, CompleteRead, providerVars
  <1>2. PayStays
    BY <1>1 DEF PayStays
  <1>3. CASE CallCreateOrder(h) \/ AttachRead(h) \/ FailRead(h) \/ TermsWrite(h) \/ Crash(h)
    <2>1. PICK pc \in {"attach", "fail", "attachWrite", "failWrite"} : Goto(h, pc) \/ Finish(h)
      BY <1>3 DEF CallCreateOrder, AttachRead, FailRead, TermsWrite, Crash
    <2> QED
      BY <1>1, <1>2, <2>1, GoesOnAccounts DEF Paying
  <1>4. CASE CompleteRead(h)
    <2>1. CASE Finish(h)
      <3>1. (Goto(h, "idle") \/ Finish(h)) /\ "idle" \notin Paying
        BY <2>1 DEF Paying
      <3> QED
        BY <1>1, <1>2, <3>1, GoesOnAccounts
    <2>2. ASSUME NEW i, NEW to, handler' = [handler EXCEPT
                   ![h].pc = "completeWrite", ![h].tx = i, ![h].to = to]
          PROVE  AccountsInv'
      <3> DEFINE w == [handler[h] EXCEPT !.pc = "completeWrite", !.tx = i, !.to = to]
      <3>1. handler' = [handler EXCEPT ![h] = w]
        BY <2>2
      <3>2. w.pc = "completeWrite"
        BY Halves DEF Handler
      <3> HIDE DEF w
      <3> QED
        BY <1>1, <1>2, <3>1, <3>2, MovesAccounts DEF Paying
    <2> QED
      BY <1>4, <2>1, <2>2 DEF CompleteRead
  <1> QED
    BY <1>3, <1>4

\* The steps that write a payment and end its request: they leave it the attempt it
\* has, or give it one that paid its order.
LEMMA WritesAccounts ==
  ASSUME PaymentsInv, PaymentsInv', Keeps, AccountsInv, NEW h \in Handlers,
         \/ CreatePayment(h) \/ AttachWrite(h) \/ FailWrite(h) \/ AuthorizeWrite(h)
         \/ CaptureWrite(h) \/ CompleteWrite(h)
  PROVE  AccountsInv'
  <1>0. PICK p \in Payers, id \in PayIds \cup {None} :
          p = handler[h].p /\ id = handler[h].pay
    BY Halves DEF HandlerOK, Handler, At, CreatePayment, AttachWrite, FailWrite,
       AuthorizeWrite, CaptureWrite, CompleteWrite
  <1>1. PICK amt, i, to :
          /\ p = handler[h].p /\ id = handler[h].pay /\ amt = handler[h].amt
          /\ i = handler[h].tx /\ to = handler[h].to
    BY <1>0
  <1>2. payment \in [Payers -> PaymentRow] /\ HandlerOK(h)
    BY Halves DEF RowsOK
  <1>3. UNCHANGED attempts
    BY DEF CreatePayment, AttachWrite, FailWrite, AuthorizeWrite, CaptureWrite,
       CompleteWrite, providerVars
  <1>4. /\ Goto(h, "callOrder") \/ Finish(h)
        /\ "callOrder" \notin Paying
    BY DEF CreatePayment, AttachWrite, FailWrite, AuthorizeWrite, CaptureWrite,
       CompleteWrite, Paying
  <1>5. ASSUME NEW row, payment' = [payment EXCEPT ![p] = row],
               row.pay \in PayIds => row.pay = payment[p].pay \/ Signed(p, row.pay)
        PROVE  AccountsInv'
    <2>1. payment'[p] = row /\ \A q \in Payers \ {p} : payment'[q] = payment[q]
      BY <1>2, <1>5
    <2>2. PayStays
      BY <1>3, <1>5, <2>1 DEF PayStays, Signed
    <2> QED
      BY <1>3, <1>4, <2>2, GoesOnAccounts
  <1>6. CASE UNCHANGED payment
    <2>1. PayStays
      BY <1>6 DEF PayStays
    <2> QED
      BY <1>3, <1>4, <2>1, GoesOnAccounts
  <1>7. CASE CreatePayment(h)
    <2> DEFINE row == [NoPayment EXCEPT !.status = "CREATED", !.amount = amt]
    <2>1. payment' = [payment EXCEPT ![p] = row] \/ UNCHANGED payment
      BY <1>1, <1>7 DEF CreatePayment
    <2>2. row.pay = None /\ None \notin PayIds
      BY ProviderAssumption DEF NoPayment
    <2> HIDE DEF row
    <2> QED
      BY <1>5, <1>6, <2>1, <2>2
  <1>8. CASE AttachWrite(h)
    <2> DEFINE row == [payment[p] EXCEPT !.order = TRUE, !.status = "PENDING"]
    <2>1. payment' = [payment EXCEPT ![p] = row]
      BY <1>1, <1>8 DEF AttachWrite
    <2>2. row.pay = payment[p].pay
      BY <1>2 DEF PaymentRow
    <2> HIDE DEF row
    <2> QED
      BY <1>5, <2>1, <2>2
  <1>9. CASE FailWrite(h)
    <2> DEFINE row == [payment[p] EXCEPT !.status = "FAILED"]
    <2>1. payment' = [payment EXCEPT ![p] = row] \/ UNCHANGED payment
      BY <1>1, <1>9 DEF FailWrite
    <2>2. row.pay = payment[p].pay
      BY <1>2 DEF PaymentRow
    <2> HIDE DEF row
    <2> QED
      BY <1>5, <1>6, <2>1, <2>2
  <1>10. CASE AuthorizeWrite(h)
    <2> DEFINE row == [payment[p] EXCEPT !.status = "AUTHORIZED", !.pay = id]
    <2>1. payment' = [payment EXCEPT ![p] = row]
      BY <1>1, <1>10 DEF AuthorizeWrite
    <2>2. row.pay = id
      BY <1>2 DEF PaymentRow
    <2>3. Signed(p, id)
      BY <1>1, <1>10 DEF AccountsInv, PaysOrder, AuthorizeWrite, At
    <2> HIDE DEF row
    <2> QED
      BY <1>5, <2>1, <2>2, <2>3
  <1>11. CASE CaptureWrite(h)
    <2> DEFINE row == [payment[p] EXCEPT !.status = "CAPTURED", !.pay = id]
    <2>1. payment' = [payment EXCEPT ![p] = row] \/ UNCHANGED payment
      BY <1>1, <1>11 DEF CaptureWrite
    <2>2. row.pay = id
      BY <1>2 DEF PaymentRow
    <2>3. Signed(p, id)
      BY <1>1, <1>2, <1>11 DEF HandlerOK, CaptureWrite, At, Signed
    <2> HIDE DEF row
    <2> QED
      BY <1>5, <1>6, <2>1, <2>2, <2>3
  <1>12. CASE CompleteWrite(h)
    <2> DEFINE row == [payment[p] EXCEPT !.status = to, !.refunded = RefundedAfter(p, i)]
    <2>1. payment' = [payment EXCEPT ![p] = row] \/ UNCHANGED payment
      BY <1>1, <1>12 DEF CompleteWrite
    <2>2. row.pay = payment[p].pay
      BY <1>2 DEF PaymentRow
    <2> HIDE DEF row
    <2> QED
      BY <1>5, <1>6, <2>1, <2>2
  <1> QED
    BY <1>7, <1>8, <1>9, <1>10, <1>11, <1>12

\* requestRefund goes on with the attempt it has read.
LEMMA RefundReadAccounts ==
  ASSUME PaymentsInv, PaymentsInv', Keeps, AccountsInv, NEW h \in Handlers, RefundRead(h)
  PROVE  AccountsInv'
  <1>1. /\ UNCHANGED <<payment, attempts>> /\ At(h, "refund")
        /\ Goto(h, "refundWrite") \/ Finish(h)
    BY DEF RefundRead, providerVars
  <1>2. PayStays
    BY <1>1 DEF PayStays
  <1>3. CASE Finish(h)
    <2>1. (Goto(h, "idle") \/ Finish(h)) /\ "idle" \notin Paying
      BY <1>3 DEF Paying
    <2> QED
      BY <1>1, <1>2, <2>1, GoesOnAccounts
  <1>4. CASE Goto(h, "refundWrite")
    <2> DEFINE w == [handler[h] EXCEPT !.pc = "refundWrite"]
    <2>1. handler' = [handler EXCEPT ![h] = w]
      BY <1>4 DEF Goto
    <2>2. w.pc = "refundWrite" /\ w.p = handler[h].p /\ w.pay = handler[h].pay
      BY Halves DEF Handler
    <2>3. handler[h].p \in Payers
      BY <1>1, Halves DEF HandlerOK, At
    <2>4. handler[h].pay \in PayIds /\ Signed(handler[h].p, handler[h].pay)
      BY <1>1 DEF AccountsInv, PaysOrder, At
    <2> HIDE DEF w
    <2> QED
      BY <1>1, <1>2, <2>1, <2>2, <2>3, <2>4, MovesAccounts
  <1> QED
    BY <1>1, <1>3, <1>4

\* A row that no request owned before belongs to the request that has written it.
LEMMA RefundWriteAccounts ==
  ASSUME PaymentsInv, PaymentsInv', Keeps, AccountsInv, NEW h \in Handlers, RefundWrite(h)
  PROVE  AccountsInv'
  <1>1. PICK p \in Payers, pay \in PayIds, amt \in Nat :
          /\ p = handler[h].p /\ pay = handler[h].pay /\ amt = handler[h].amt
    BY Halves DEF HandlerOK, Handler, At, RefundWrite
  <1>2. /\ payment \in [Payers -> PaymentRow] /\ ledger \in [Payers -> Seq(Transaction)]
        /\ handler \in [Handlers -> Handler] /\ At(h, "refundWrite")
        /\ UNCHANGED attempts
    BY Halves DEF RowsOK, RefundWrite, providerVars
  <1> DEFINE row == PendingRefund(amt)
             n == Len(ledger[p]) + 1
             w == [handler[h] EXCEPT !.pc = "callRefund"]
  <1>3. row \in Transaction /\ row.type = "REFUND" /\ row.amount = amt
    BY DEF PendingRefund, Transaction
  <1>4. /\ handler' = [handler EXCEPT ![h] = w]
        /\ w.pc = "callRefund" /\ w.p = p /\ w.pay = pay /\ w.amt = amt
    BY <1>1, <1>2 DEF RefundWrite, Goto, Handler
  <1>5. /\ ledger' = [ledger EXCEPT ![p] = Append(@, row)]
        /\ payment' = [payment EXCEPT ![p] = [payment[p] EXCEPT !.status = "REFUND_PENDING"]]
    BY <1>1 DEF RefundWrite, AppendRow
  <1> HIDE DEF row, w
  <1>6. handler'[h] = w /\ \A g \in Handlers \ {h} : handler'[g] = handler[g]
    BY <1>2, <1>4
  <1>7. /\ ledger'[p] = Append(ledger[p], row) /\ n \in Nat
        /\ Len(ledger'[p]) = n /\ n \in DOMAIN ledger'[p] /\ n \notin DOMAIN ledger[p]
        /\ ledger'[p][n] = row
    BY <1>2, <1>3, <1>5
  <1>8. ASSUME NEW id \in PayIds PROVE WrittenAhead(p, id)'
    <2>1. PICK spent \in SUBSET AllRefunds(p), own \in [Handlers -> 0 .. Len(ledger[p])] :
            /\ attempts[id].payer = p => attempts[id].returned <= Booked(p, spent)
            /\ \A g \in Calling(p) : /\ own[g] \in AllRefunds(p) \ spent
                                     /\ ledger[p][own[g]].amount = handler[g].amt
            /\ \A f, g \in Calling(p) : own[f] = own[g] => f = g
      BY DEF AccountsInv, WrittenAhead
    <2> DEFINE mine == [own EXCEPT ![h] = n]
    <2>2. /\ mine[h] = n /\ \A g \in Handlers \ {h} : mine[g] = own[g]
          /\ mine \in [Handlers -> 0 .. Len(ledger'[p])]
      <3>1. Len(ledger[p]) \in Nat /\ Len(ledger'[p]) = Len(ledger[p]) + 1
        BY <1>2, <1>7
      <3> QED
        BY <1>7, <3>1
    <2>3. /\ AllRefunds(p) \subseteq DOMAIN ledger[p]
          /\ AllRefunds(p) \subseteq AllRefunds(p)' /\ n \in AllRefunds(p)'
          /\ \A i \in AllRefunds(p) : ledger'[p][i].amount = ledger[p][i].amount
      BY <1>3, <1>7 DEF AllRefunds, Keeps
    <2>4. \A g \in Handlers \ {h} : g \in Calling(p)' => g \in Calling(p)
      BY <1>6 DEF Calling, At
    <2>5. Total(ledger'[p], spent) = Total(ledger[p], spent)
      BY <2>3, BookedKept
    <2>6. attempts'[id].payer = p => attempts'[id].returned <= Total(ledger'[p], spent)
      BY <1>2, <2>1, <2>5 DEF Booked
    <2> HIDE DEF mine, n
    <2>7. ASSUME NEW g \in Handlers, g \in Calling(p)'
          PROVE  /\ mine[g] \in AllRefunds(p)' \ spent
                 /\ ledger'[p][mine[g]].amount = handler'[g].amt
      <3>1. CASE g = h
        BY <1>3, <1>4, <1>6, <1>7, <2>2, <2>3, <3>1
      <3>2. CASE g # h
        <4>1. g \in Calling(p) /\ mine[g] = own[g] /\ handler'[g] = handler[g]
          BY <1>6, <2>2, <2>4, <2>7, <3>2
        <4>2. own[g] \in AllRefunds(p) \ spent /\ ledger[p][own[g]].amount = handler[g].amt
          BY <2>1, <4>1
        <4> QED
          BY <2>3, <4>1, <4>2
      <3> QED
        BY <3>1, <3>2
    <2>8. ASSUME NEW f \in Handlers, NEW g \in Handlers, f \in Calling(p)', g \in Calling(p)',
                 mine[f] = mine[g]
          PROVE  f = g
      <3>1. \A e \in Handlers \ {h} : e \in Calling(p) => mine[e] # n
        BY <1>7, <2>1, <2>2, <2>3
      <3> QED
        BY <2>1, <2>2, <2>4, <2>8, <3>1
    <2>9. spent \in SUBSET AllRefunds(p)'
      BY <2>3
    <2>10. \A g \in Calling(p)' : g \in Handlers
      BY DEF Calling
    <2>11. /\ \A g \in Calling(p)' : /\ mine[g] \in AllRefunds(p)' \ spent
                                      /\ ledger'[p][mine[g]].amount = handler'[g].amt
           /\ \A f, g \in Calling(p)' : mine[f] = mine[g] => f = g
      BY <2>7, <2>8, <2>10
    <2> QED
      BY <2>2, <2>6, <2>9, <2>11 DEF WrittenAhead, Booked
  <1>9. ASSUME NEW q \in Payers \ {p}, NEW id \in PayIds PROVE WrittenAhead(q, id)'
    <2>1. \A g \in Handlers : g \in Calling(q)' =>
            g \in Calling(q) /\ handler'[g].amt = handler[g].amt
      BY <1>1, <1>4, <1>6 DEF Calling, At
    <2> QED
      BY <1>2, <2>1, AheadStays DEF AccountsInv
  <1>10. Signed(p, pay)
    BY <1>1, <1>2 DEF AccountsInv, PaysOrder, At
  <1>11. ASSUME NEW q \in Payers PROVE payment'[q].pay = payment[q].pay
    <2>1. payment'[p] = [payment[p] EXCEPT !.status = "REFUND_PENDING"]
      BY <1>2, <1>5
    <2>2. payment'[p].pay = payment[p].pay
      BY <1>2, <2>1 DEF PaymentRow
    <2> QED
      BY <1>2, <1>5, <2>2
  <1>12. PaysOrder'
    <2>1. ASSUME NEW g \in Handlers, handler'[g].pc \in Paying
          PROVE  handler'[g].pay \in PayIds /\ Signed(handler[g].p, handler[g].pay)'
      <3>1. CASE g = h
        BY <1>1, <1>2, <1>4, <1>6, <1>10, <3>1 DEF Signed
      <3>2. CASE g # h
        BY <1>2, <1>6, <2>1, <3>2 DEF AccountsInv, PaysOrder, Signed, Paying
      <3> QED
        BY <3>1, <3>2
    <2>2. ASSUME NEW q \in Payers, payment'[q].pay # None PROVE Signed(q, payment[q].pay)'
      BY <1>2, <1>11, <2>2 DEF AccountsInv, PaysOrder, Signed
    <2> QED
      BY <2>1, <2>2 DEF PaysOrder, Paying
  <1> QED
    BY <1>8, <1>9, <1>12 DEF AccountsInv

\* Razorpay returns the amount of a row that covered nothing before.
LEMMA CallRefundAccounts ==
  ASSUME PaymentsInv, PaymentsInv', Keeps, AccountsInv, NEW h \in Handlers, CallRefund(h)
  PROVE  AccountsInv'
  <1>1. PICK p \in Payers, pay \in PayIds, amt \in Nat :
          /\ p = handler[h].p /\ pay = handler[h].pay /\ amt = handler[h].amt
    BY Halves DEF HandlerOK, Handler, At, CallRefund
  <1>2. /\ ledger \in [Payers -> Seq(Transaction)] /\ attempts \in [PayIds -> Attempt]
        /\ handler \in [Handlers -> Handler] /\ At(h, "callRefund")
        /\ UNCHANGED <<payment, ledger>>
    BY Halves DEF RowsOK, ProviderTypeOK, CallRefund
  <1>3. PayStays
    BY <1>2 DEF PayStays
  <1>4. CASE Finish(h) /\ UNCHANGED attempts
    <2>1. (Goto(h, "idle") \/ Finish(h)) /\ "idle" \notin Paying
      BY <1>4 DEF Paying
    <2> QED
      BY <1>3, <1>4, <2>1, GoesOnAccounts
  <1>5. ASSUME NEW r \in RefundIds, NEW status, AcceptRefund(r, pay, amt, status),
               NEW w, handler' = [handler EXCEPT ![h] = w], w.pc \in {"idle", "complete"}
        PROVE  AccountsInv'
    <2>1. handler'[h] = w /\ \A g \in Handlers \ {h} : handler'[g] = handler[g]
      BY <1>2, <1>5
    <2>2. attempts' = [attempts EXCEPT ![pay] =
            [attempts[pay] EXCEPT !.returned = attempts[pay].returned + amt]]
      BY <1>5 DEF AcceptRefund
    <2>3. /\ attempts'[pay] = [attempts[pay] EXCEPT !.returned = attempts[pay].returned + amt]
          /\ \A id \in PayIds \ {pay} : attempts'[id] = attempts[id]
          /\ attempts[pay] \in Attempt
      BY <1>2, <2>2
    <2>4. /\ attempts'[pay].status = attempts[pay].status
          /\ attempts'[pay].payer = attempts[pay].payer
          /\ attempts'[pay].returned = attempts[pay].returned + amt
          /\ attempts[pay].returned \in Nat
      BY <2>3 DEF Attempt
    <2>5. \A q \in Payers : \A g \in Handlers : g \in Calling(q)' =>
            g # h /\ g \in Calling(q) /\ handler'[g] = handler[g]
      BY <1>5, <2>1 DEF Calling, At
    <2>6. Signed(p, pay)
      BY <1>1, <1>2 DEF AccountsInv, PaysOrder, At
    <2>7. WrittenAhead(p, pay)'
      <3>1. PICK spent \in SUBSET AllRefunds(p), own \in [Handlers -> 0 .. Len(ledger[p])] :
              /\ attempts[pay].payer = p => attempts[pay].returned <= Booked(p, spent)
              /\ \A g \in Calling(p) : /\ own[g] \in AllRefunds(p) \ spent
                                       /\ ledger[p][own[g]].amount = handler[g].amt
              /\ \A f, g \in Calling(p) : own[f] = own[g] => f = g
        BY DEF AccountsInv, WrittenAhead
      <3>2. h \in Calling(p)
        BY <1>1, <1>2 DEF Calling
      <3>3. PICK i : i = own[h]
        OBVIOUS
      <3>4. i \in AllRefunds(p) \ spent /\ ledger[p][i].amount = amt
        BY <1>1, <3>1, <3>2, <3>3
      <3>5. HasAmounts(ledger[p]) /\ i \in 1 .. Len(ledger[p])
        BY <1>2, <3>4, LedgerHasAmounts DEF AllRefunds
      <3>6. Total(ledger[p], spent \cup {i}) = Total(ledger[p], spent) + amt
        BY <3>4, <3>5, TotalAdds
      <3>7. Total(ledger[p], spent) \in Nat
        BY <3>5, TotalIsNat
      <3> DEFINE more == spent \cup {i}
      <3>8. attempts'[pay].payer = p => attempts'[pay].returned <= Total(ledger'[p], more)
        BY <1>2, <2>4, <3>1, <3>6, <3>7 DEF Booked
      <3>9. more \in SUBSET AllRefunds(p)' /\ AllRefunds(p)' = AllRefunds(p)
        BY <1>2, <3>4 DEF AllRefunds
      <3>10. ASSUME NEW g \in Calling(p)'
             PROVE  own[g] \in AllRefunds(p) \ more /\ ledger[p][own[g]].amount = handler'[g].amt
        <4>1. g \in Handlers
          BY DEF Calling
        <4>2. g # h /\ g \in Calling(p) /\ handler'[g] = handler[g]
          BY <2>5, <4>1
        <4>3. own[g] \in AllRefunds(p) \ spent /\ own[g] # i
          BY <3>1, <3>2, <3>3, <4>2
        <4> QED
          BY <3>1, <4>2, <4>3
      <3>11. \A f, g \in Calling(p)' : own[f] = own[g] => f = g
        <4>1. \A g \in Calling(p)' : g \in Calling(p)
          BY <2>5 DEF Calling
        <4> QED
          BY <3>1, <4>1
      <3>12. own \in [Handlers -> 0 .. Len(ledger'[p])]
        BY <1>2
      <3>13. \A g \in Calling(p)' : /\ own[g] \in AllRefunds(p)' \ more
                                    /\ ledger'[p][own[g]].amount = handler'[g].amt
        BY <1>2, <3>9, <3>10
      <3> HIDE DEF more
      <3> QED
        BY <3>8, <3>9, <3>11, <3>12, <3>13 DEF WrittenAhead, Booked
    <2>8. ASSUME NEW q \in Payers, NEW id \in PayIds, q # p \/ id # pay
          PROVE  WrittenAhead(q, id)'
      <3>1. attempts'[id].payer = q =>
              attempts[id].payer = q /\ attempts'[id].returned = attempts[id].returned
        <4>1. CASE id = pay
          BY <2>4, <2>6, <2>8, <4>1 DEF Signed
        <4>2. CASE id # pay
          BY <2>3, <4>2
        <4> QED
          BY <4>1, <4>2
      <3>2. \A g \in Handlers : g \in Calling(q)' =>
              g \in Calling(q) /\ handler'[g].amt = handler[g].amt
        BY <2>5
      <3>3. WrittenAhead(q, id)
        BY DEF AccountsInv
      <3> QED
        BY <3>1, <3>2, <3>3, AheadStays
    <2>9. \A q, id : id \in PayIds /\ Signed(q, id) => Signed(q, id)'
      BY <2>3, <2>4 DEF Signed
    <2>10. PaysOrder'
      <3>1. ASSUME NEW g \in Handlers, handler'[g].pc \in Paying
            PROVE  handler'[g].pay \in PayIds /\ Signed(handler[g].p, handler[g].pay)'
        <4>1. handler'[g] = handler[g]
          BY <1>5, <2>1, <3>1 DEF Paying
        <4>2. handler[g].pay \in PayIds /\ Signed(handler[g].p, handler[g].pay)
          BY <3>1, <4>1 DEF AccountsInv, PaysOrder, Paying
        <4>3. PICK q, id : q = handler[g].p /\ id = handler[g].pay
          OBVIOUS
        <4>4. Signed(q, id)'
          BY <2>9, <4>2, <4>3
        <4> QED
          BY <4>1, <4>2, <4>3, <4>4 DEF Signed
      <3>2. ASSUME NEW q \in Payers, payment'[q].pay # None PROVE Signed(q, payment[q].pay)'
        <4>1. PICK id : id = payment[q].pay
          OBVIOUS
        <4>2. id \in PayIds /\ Signed(q, id)
          BY <1>2, <3>2, <4>1 DEF AccountsInv, PaysOrder, PaymentsInv, TypeOK, PaymentRow
        <4>3. Signed(q, id)'
          BY <2>9, <4>2
        <4> QED
          BY <1>2, <4>1, <4>3 DEF Signed
      <3> QED
        BY <3>1, <3>2 DEF PaysOrder, Paying
    <2> QED
      BY <2>7, <2>8, <2>10 DEF AccountsInv
  <1>6. ASSUME NEW r \in RefundIds, NEW status, AcceptRefund(r, pay, amt, status),
               \/ Finish(h)
               \/ handler' = [handler EXCEPT ![h].pc = "complete", ![h].ref = r]
        PROVE  AccountsInv'
    <2>1. CASE Finish(h)
      <3>1. Idle.pc = "idle" /\ handler' = [handler EXCEPT ![h] = Idle]
        BY <2>1 DEF Idle, Finish
      <3> QED
        BY <1>5, <1>6, <3>1
    <2>2. CASE handler' = [handler EXCEPT ![h].pc = "complete", ![h].ref = r]
      <3> DEFINE w == [handler[h] EXCEPT !.pc = "complete", !.ref = r]
      <3>1. handler' = [handler EXCEPT ![h] = w] /\ w.pc = "complete"
        BY <1>2, <2>2 DEF Handler
      <3> HIDE DEF w
      <3> QED
        BY <1>5, <1>6, <3>1
    <2> QED
      BY <1>6, <2>1, <2>2
  <1> QED
    BY <1>1, <1>4, <1>6 DEF CallRefund, providerVars

\* The payer and Razorpay pay and capture; an attempt starts with nothing returned.
LEMMA EnvironmentAccounts ==
  ASSUME PaymentsInv, PaymentsInv', Keeps, AccountsInv,
         UNCHANGED <<payment, ledger, handler>>,
         \/ UNCHANGED attempts
         \/ \E p \in Payers, id \in PayIds : \E status, amount : TryToPay(p, id, status, amount)
         \/ \E id \in PayIds : CaptureAttempt(id)
  PROVE  AccountsInv'
  <1>1. attempts \in [PayIds -> Attempt]
    BY Halves DEF RowsOK, ProviderTypeOK
  <1>2. ASSUME UNCHANGED attempts PROVE NoRefundAccepted
    BY <1>2 DEF NoRefundAccepted, Signed
  <1>3. ASSUME NEW p \in Payers, NEW id \in PayIds, NEW status, NEW amount,
               TryToPay(p, id, status, amount)
        PROVE  NoRefundAccepted
    <2>1. /\ attempts'[id] = [status |-> status, payer |-> p, amount |-> amount, returned |-> 0]
          /\ \A jd \in PayIds \ {id} : attempts'[jd] = attempts[jd]
          /\ attempts[id].status = "none"
      BY <1>1, <1>3 DEF TryToPay
    <2>2. attempts'[id].returned = 0
      BY <2>1
    <2> QED
      BY <2>1, <2>2 DEF NoRefundAccepted, Signed
  <1>4. ASSUME NEW id \in PayIds, CaptureAttempt(id) PROVE NoRefundAccepted
    <2>1. /\ attempts'[id] = [attempts[id] EXCEPT !.status = "captured"]
          /\ \A jd \in PayIds \ {id} : attempts'[jd] = attempts[jd]
          /\ attempts[id] \in Attempt
      BY <1>1, <1>4 DEF CaptureAttempt
    <2>2. /\ attempts'[id].status = "captured" /\ attempts'[id].payer = attempts[id].payer
          /\ attempts'[id].returned = attempts[id].returned
      BY <2>1 DEF Attempt
    <2> QED
      BY <2>1, <2>2 DEF NoRefundAccepted, Signed
  <1>5. NoRefundAccepted
    BY <1>2, <1>3, <1>4
  <1>6. PayStays /\ \A h \in Handlers : CallsStay(h)
    BY DEF PayStays, CallsStay
  <1> QED
    BY <1>5, <1>6, AccountsStay

\* Before any payment Razorpay has returned nothing.
LEMMA InitAccounts == Init => AccountsInv
  <1> SUFFICES ASSUME Init PROVE AccountsInv
    OBVIOUS
  <1>1. PaysOrder
    BY DEF PaysOrder, Init, NoPayment, Idle
  <1>2. ASSUME NEW p \in Payers, NEW id \in PayIds PROVE WrittenAhead(p, id)
    <2>1. /\ ledger[p] = <<>> /\ attempts[id].returned = 0
          /\ \A h \in Handlers : handler[h].pc = "idle"
      BY <1>2 DEF Init, ProviderInit, Idle
    <2>2. Calling(p) = {}
      BY <2>1 DEF Calling, At
    <2>3. Booked(p, {}) = 0
      BY <2>1, TotalOfNone DEF Booked
    <2>4. [h \in Handlers |-> 0] \in [Handlers -> 0 .. Len(ledger[p])]
      BY <2>1
    <2> DEFINE own == [h \in Handlers |-> 0]
    <2>5. attempts[id].returned <= Booked(p, {})
      BY <2>1, <2>3
    <2>6. {} \in SUBSET AllRefunds(p) /\ own \in [Handlers -> 0 .. Len(ledger[p])]
      BY <2>4
    <2> HIDE DEF own
    <2> QED
      BY <2>2, <2>5, <2>6 DEF WrittenAhead
  <1> QED
    BY <1>1, <1>2 DEF AccountsInv

\* Any step keeps a row for what Razorpay returned.
LEMMA NextAccounts ==
  ASSUME PaymentsInv, AccountsInv, [Next]_vars PROVE AccountsInv'
  <1>1. PaymentsInv' /\ Keeps
    BY NextInv
  <1>2. CASE UNCHANGED vars
    BY <1>1, <1>2, EnvironmentAccounts DEF vars
  <1>3. CASE Environment
    BY <1>1, <1>3, EnvironmentAccounts
       DEF Environment, EndSession, PayerPays, ProviderCaptures, ProviderRefunds,
           ProcessRefund, providerVars
  <1>4. ASSUME NEW h \in Handlers, Request(h) \/ Crash(h) \/ HandlerStep(h) PROVE AccountsInv'
    BY <1>1, <1>4, RequestAccounts, ReadsAccounts, WritesAccounts, RefundReadAccounts,
       RefundWriteAccounts, CallRefundAccounts DEF HandlerStep
  <1> QED
    BY <1>2, <1>3, <1>4 DEF Next

\* However requests interleave and wherever they crash, what Razorpay was made to
\* return of an attempt is covered by the refunds in the ledger of its payment.
THEOREM RefundsWrittenAheadAlways == Spec => []RefundsWrittenAhead
  <1> DEFINE Inv == PaymentsInv /\ AccountsInv
  <1>1. Init => Inv
    BY InitPaymentsInv, InitAccounts
  <1>2. Inv /\ [Next]_vars => Inv'
    BY NextInv, NextAccounts
  <1>3. ASSUME Inv, NEW p \in Payers, NEW id \in PayIds, attempts[id].payer = p
        PROVE  attempts[id].returned <= Booked(p, AllRefunds(p))
    <2>1. PICK spent \in SUBSET AllRefunds(p) : attempts[id].returned <= Booked(p, spent)
      BY <1>3 DEF AccountsInv, WrittenAhead
    <2>2. HasAmounts(ledger[p])
      BY <1>3, LedgerHasAmounts DEF PaymentsInv, TypeOK
    <2>3. Booked(p, spent) <= Booked(p, AllRefunds(p))
      BY <2>2, TotalBelow DEF Booked
    <2>4. /\ Booked(p, spent) \in Nat /\ Booked(p, AllRefunds(p)) \in Nat
          /\ attempts[id].returned \in Nat
      BY <1>3, <2>2, TotalIsNat DEF Booked, PaymentsInv, TypeOK, ProviderTypeOK, Attempt
    <2> QED
      BY <2>1, <2>3, <2>4
  <1>4. Inv => RefundsWrittenAhead
    BY <1>3 DEF RefundsWrittenAhead
  <1> HIDE DEF Inv
  <1> QED
    BY <1>1, <1>2, <1>4, PTL DEF Spec
=============================================================================
