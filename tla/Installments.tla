----------------------------- MODULE Installments -----------------------------
(***************************************************************************)
(* The arithmetic of a payment plan (packages/db/payment-plans.ts): how a  *)
(* total is divided into installments, and which of them a sum of payments *)
(* covers.  Money is counted in cents; roundCurrency is Math.round of the  *)
(* amount in cents, which rounds halves up.                                *)
(***************************************************************************)
EXTENDS Integers

(* roundCurrency(total / count): the installment_amount column.            *)
InstallmentAmount(total, count) == (2 * total + count) \div (2 * count)

(* The amount of installment i (counted from 1): the last one takes what   *)
(* rounding left over, which may be nothing or less than nothing.          *)
DueAmount(total, count, i) ==
    IF i = count
    THEN total - InstallmentAmount(total, count) * (count - 1)
    ELSE InstallmentAmount(total, count)

(* What is due through installment k.                                      *)
BilledThrough(total, count, k) ==
    IF k = count THEN total ELSE InstallmentAmount(total, count) * k

(* The installments derivePlanState takes as its first unpaid one are the  *)
(* least of these (InstallmentSchedule checks that it is so).              *)
Uncovered(total, count, paid) ==
    {k \in 1..count : paid < BilledThrough(total, count, k)}

=============================================================================
