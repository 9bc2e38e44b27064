-------------------------- MODULE InstallmentSchedule --------------------------
(***************************************************************************)
(* buildPaymentPlanInstallments and derivePlanState                        *)
(* (packages/db/payment-plans.ts).  The schema stores only the aggregate   *)
(* plan; what each installment has been paid is derived, on every read, by *)
(* allocating the payments from the oldest installment to the newest.  One *)
(* step is one iteration of the loop.                                      *)
(***************************************************************************)
EXTENDS Installments

CONSTANTS
    MaxTotal,   \* bound of the model: total_amount, in cents
    MaxCount,   \* bound of the model: installment_count
    MaxPaid     \* bound of the model: payment_total, in cents

ASSUME ScheduleAssumption ==
    MaxTotal \in Nat \ {0} /\ MaxCount \in Nat \ {0} /\ MaxPaid \in Nat

VARIABLES
    total, count, paid,   \* the arguments
    i,                    \* installments built so far
    remaining,            \* remainingPaid
    billed,               \* sum of the amounts of the installments built
    paidCount,            \* how many have status 'paid'
    firstUnpaid           \* number of the first with status 'unpaid', 0 if none

vars == <<total, count, paid, i, remaining, billed, paidCount, firstUnpaid>>

Min2(a, b) == IF a <= b THEN a ELSE b
Max2(a, b) == IF a >= b THEN a ELSE b

(* The plans createPaymentPlan accepts, and any sum of payments.           *)
Init ==
    /\ total \in 1..MaxTotal
    /\ count \in 1..MaxCount
    /\ paid \in 0..MaxPaid
    /\ i = 0
    /\ remaining = paid
    /\ billed = 0
    /\ paidCount = 0
    /\ firstUnpaid = 0

PaidAmount(due) == Min2(due, Max2(0, remaining))

BuildInstallment ==
    /\ i < count
    /\ LET due == DueAmount(total, count, i + 1)
           amount == PaidAmount(due)
       IN  /\ billed' = billed + due
           /\ remaining' = remaining - amount
           /\ paidCount' = IF amount >= due THEN paidCount + 1 ELSE paidCount
           /\ firstUnpaid' = IF amount < due /\ firstUnpaid = 0 THEN i + 1 ELSE firstUnpaid
    /\ i' = i + 1
    /\ UNCHANGED <<total, count, paid>>

Done == i = count /\ UNCHANGED vars

Next == BuildInstallment \/ Done

Spec == Init /\ [][Next]_vars

(* derivePlanState: fullyPaid.                                             *)
FullyPaid == paid >= total \/ paidCount >= count

-----------------------------------------------------------------------------
TypeOK ==
    /\ total \in 1..MaxTotal /\ count \in 1..MaxCount /\ paid \in 0..MaxPaid
    /\ i \in 0..count
    /\ remaining \in Int /\ billed \in Int
    /\ paidCount \in 0..i
    /\ firstUnpaid \in 0..i

(* The installments of a plan add up to its total, to the cent, whatever   *)
(* rounding did to the installment amount.                                 *)
InstallmentsAddUp == i = count => billed = total

(* The two disjuncts of derivePlanState's fullyPaid agree with the money:  *)
(* a plan is fully paid exactly when its payments cover its total.         *)
(* updatePaymentPlanStatus refuses a completion on the latter test, so     *)
(* reconcilePaymentPlanLifecycle, which calls it on the former, never      *)
(* fails there.                                                            *)
FullyPaidIsPaid == i = count => (FullyPaid <=> paid >= total)

(* The first unpaid installment, whose due date decides a breach, is the   *)
(* first one that the payments, taken oldest first, do not reach, even     *)
(* when rounding leaves a last installment of nothing or less.             *)
FirstUnpaidIsFirstUncovered ==
    i = count /\ paid < total =>
        /\ firstUnpaid \in Uncovered(total, count, paid)
        /\ \A k \in Uncovered(total, count, paid) : firstUnpaid <= k

=============================================================================
