------------------------------ MODULE Receivables ------------------------------
(***************************************************************************)
(* Invoices, payments, dunning, collection cases, payment plans and        *)
(* write-offs: packages/db/{invoices, dunning, collection-cases,           *)
(* payment-plans, write-off-approvals}.ts, the routes over them in         *)
(* apps/server/src/api and the two daily jobs in apps/server/src/cron/jobs *)
(* (dunning-engine.ts, payment-plan-monitor.ts).                           *)
(*                                                                         *)
(* A statement is one step, except where a transaction holds a row lock    *)
(* that every competitor needs: then the transaction is one step.  The     *)
(* INSERT of a payment holds its invoice FOR KEY SHARE until it commits,   *)
(* which blocks the transactions that take the invoice FOR UPDATE (the     *)
(* transition to collection and the settlements) but no plain UPDATE.  A   *)
(* statement that violates the status trigger undoes its transaction.      *)
(*                                                                         *)
(* An invoice's age is the number of dunning milestones (D+1, D+7, D+14,   *)
(* D+30) its due date is past by; a plan's "late" the number of its        *)
(* installments that are past due.  Reads for display, contact logs and    *)
(* who may call what are not modelled.                                     *)
(***************************************************************************)
EXTENDS Installments, Sequences, FiniteSets

CONSTANTS
    Invoices,       \* ids of the invoices that can be created
    Amount,         \* Amount[i]: the amount column of invoice i
    Payers,         \* requests to POST /api/invoices/:id/payments in flight
    PayAmounts,     \* amounts they record
    Planners,       \* requests to POST /api/collection-cases/:id/payment-plans
    PlanTotals,     \* total_amount values they ask for
    PlanCounts,     \* installment_count values they ask for
    SettleAmounts,  \* amounts of settlement proposals
    Threshold,      \* WRITE_OFF_APPROVAL_THRESHOLD
    Engines,        \* runs of the dunning job that can overlap
    Monitors,       \* runs of the payment-plan monitor that can overlap
    MaxPaid,        \* bound of the model: payments to an invoice
    MaxPlans,       \* bound of the model: rows of rl_payment_plans
    MaxApprovals,   \* bound of the model: rows of rl_write_off_approvals
    MaxCrashes,     \* bound of the model: requests and runs cut short
    None            \* SQL NULL

Terminal == {"paid", "settled", "written_off"}
Statuses == {"draft", "sent", "partial_paid", "overdue", "in_collection"} \cup Terminal
Milestones == 1..4
Collection == 4    \* collection_d30

ASSUME ReceivablesAssumption ==
    /\ Amount \in [Invoices -> Nat \ {0}]
    /\ PayAmounts \subseteq Nat \ {0}
    /\ PlanTotals \subseteq Nat \ {0}
    /\ PlanCounts \subseteq Nat \ {0}
    /\ SettleAmounts \subseteq Nat \ {0}
    /\ Threshold \in Nat
    /\ IsFiniteSet(Engines)
    /\ {MaxPaid, MaxPlans, MaxApprovals, MaxCrashes} \subseteq Nat
    /\ None \notin Invoices \cup Statuses

VARIABLES
    status,      \* rl_invoices.status; "absent" before the row exists
    sending,     \* createInvoice is between its INSERT and its UPDATE to sent
    age,         \* milestones the due date is past by
    paid,        \* sum of the committed rl_payments of the invoice
    blind,       \* history: did the latest of them miss another in its total?
    cases,       \* rl_collection_cases
    plans,       \* rl_payment_plans
    approvals,   \* rl_write_off_approvals
    notices,     \* rl_dunning_actions: rows per invoice and milestone
    payer,       \* recordPayment, per request
    planner,     \* createPaymentPlan, per request
    engine,      \* the dunning job, per run
    monitor,     \* reconcilePaymentPlanLifecycle, per run
    crashes      \* requests and runs cut short so far

invoiceVars == <<status, sending, age, paid, blind>>
tableVars == <<cases, plans, approvals, notices>>
processVars == <<payer, planner, engine, monitor, crashes>>
vars == <<invoiceVars, tableVars, processVars>>

NoPayment == [pc |-> "idle", inv |-> None, amount |-> 0, seen |-> None, total |-> 0]
NoRequest == [pc |-> "idle", case |-> 0, total |-> 0, count |-> 0]
NoDunning ==
    [pc |-> "idle", todo |-> {}, inv |-> None, age |-> 0, next |-> 1, existing |-> {}]
NoReview == [pc |-> "idle", todo |-> {}]

Case == [inv: Invoices, status: {"open", "resolved", "written_off"},
         resolution: {None, "payment_plan", "settlement"}, settled: Nat]
Plan == [case: Nat \ {0}, total: Nat \ {0}, count: Nat \ {0}, late: Nat,
         status: {"current", "breached", "completed"}]
Approval == [case: Nat \ {0}, amount: Nat \ {0},
             status: {"pending_approval", "approved", "rejected"}]
Listed == [inv: Invoices, age: Milestones, paused: BOOLEAN]
Payment == [pc: {"idle", "inserted", "read"}, inv: Invoices \cup {None}, amount: Nat,
            seen: Statuses \cup {None}, total: Nat]
Request == [pc: {"idle", "checked"}, case: Nat, total: Nat, count: Nat]
Dunning == [pc: {"idle", "listed", "reading", "acting", "recording"}, todo: SUBSET Listed,
            inv: Invoices \cup {None}, age: 0..4, next: 1..5, existing: SUBSET Milestones]
Review == [pc: {"idle", "listed", "completing", "breaching"}, todo: SUBSET (Nat \ {0})]

TypeOK ==
    /\ status \in [Invoices -> Statuses \cup {"absent"}]
    /\ sending \in [Invoices -> BOOLEAN]
    /\ age \in [Invoices -> 0..4]
    /\ paid \in [Invoices -> Nat]
    /\ blind \in [Invoices -> BOOLEAN]
    /\ cases \in Seq(Case)
    /\ plans \in Seq(Plan) /\ \A p \in DOMAIN plans : plans[p].case \in DOMAIN cases
    /\ approvals \in Seq(Approval)
    /\ \A w \in DOMAIN approvals : approvals[w].case \in DOMAIN cases
    /\ notices \in [Invoices -> [Milestones -> Nat]]
    /\ payer \in [Payers -> Payment]
    /\ planner \in [Planners -> Request]
    /\ engine \in [Engines -> Dunning]
    /\ monitor \in [Monitors -> Review]
    /\ crashes \in Nat

Init ==
    /\ status = [i \in Invoices |-> "absent"]
    /\ sending = [i \in Invoices |-> FALSE]
    /\ age = [i \in Invoices |-> 0]
    /\ paid = [i \in Invoices |-> 0]
    /\ blind = [i \in Invoices |-> FALSE]
    /\ cases = <<>>
    /\ plans = <<>>
    /\ approvals = <<>>
    /\ notices = [i \in Invoices |-> [m \in Milestones |-> 0]]
    /\ payer = [q \in Payers |-> NoPayment]
    /\ planner = [n \in Planners |-> NoRequest]
    /\ engine = [e \in Engines |-> NoDunning]
    /\ monitor = [m \in Monitors |-> NoReview]
    /\ crashes = 0

-----------------------------------------------------------------------------
(* The invoice row and its trigger.                                        *)

(* guard_invoice_status_transition: what an UPDATE of status may do.       *)
Allowed(old, new) ==
    \/ old = new
    \/ <<old, new>> \in
        {<<"draft", "sent">>, <<"sent", "partial_paid">>, <<"sent", "overdue">>,
         <<"partial_paid", "overdue">>, <<"partial_paid", "in_collection">>,
         <<"overdue", "in_collection">>}
    \/ old = "in_collection" /\ new \in Terminal

(* The statements of one transaction that move an invoice along a path.    *)
PathAllowed(old, path) ==
    \A k \in 1..Len(path) : Allowed(IF k = 1 THEN old ELSE path[k - 1], path[k])

(* createInvoice: INSERT as draft, then, outside any transaction, an       *)
(* UPDATE to sent.                                                         *)
CreateInvoice(i, send) ==
    /\ status[i] = "absent"
    /\ status' = [status EXCEPT ![i] = "draft"]
    /\ sending' = [sending EXCEPT ![i] = send]
    /\ UNCHANGED <<age, paid, blind, tableVars, processVars>>

SendInvoice(i) ==
    /\ sending[i]
    /\ sending' = [sending EXCEPT ![i] = FALSE]
    /\ status' = IF Allowed(status[i], "sent") THEN [status EXCEPT ![i] = "sent"] ELSE status
    /\ UNCHANGED <<age, paid, blind, tableVars, processVars>>

(* Time: the invoice's due date is past by one more milestone.             *)
DayPasses(i) ==
    /\ status[i] # "absent" /\ age[i] < 4
    /\ age' = [age EXCEPT ![i] = @ + 1]
    /\ UNCHANGED <<status, sending, paid, blind, tableVars, processVars>>

-----------------------------------------------------------------------------
(* recordPayment: one transaction of three or more statements.             *)

InsertPayment(q, i, a) ==
    /\ payer[q].pc = "idle"
    /\ status[i] # "absent"
    /\ paid[i] + a <= MaxPaid
    /\ payer' = [payer EXCEPT ![q] = [NoPayment EXCEPT !.pc = "inserted", !.inv = i, !.amount = a]]
    /\ UNCHANGED <<invoiceVars, tableVars, planner, engine, monitor, crashes>>

(* The SELECT sees the committed payments and its own, no other request's. *)
ReadTotals(q) ==
    /\ payer[q].pc = "inserted"
    /\ payer' = [payer EXCEPT ![q] = [@ EXCEPT !.pc = "read",
                                               !.seen = status[payer[q].inv],
                                               !.total = paid[payer[q].inv] + payer[q].amount]]
    /\ UNCHANGED <<invoiceVars, tableVars, planner, engine, monitor, crashes>>

StepsToPaid(seen) ==
    CASE seen = "draft" -> <<"sent", "overdue", "in_collection", "paid">>
      [] seen \in {"sent", "partial_paid"} -> <<"overdue", "in_collection", "paid">>
      [] seen = "overdue" -> <<"in_collection", "paid">>
      [] seen = "in_collection" -> <<"paid">>
      [] OTHER -> <<>>

(* A slip: the payment that completes the amount is taken for a partial one. *)
PaymentPath_Strict(seen, total, amount) ==
    IF total > amount THEN StepsToPaid(seen)
    ELSE IF seen = "sent" THEN <<"partial_paid">> ELSE <<>>

(* The statuses the transaction writes, from what its SELECT saw.          *)
PaymentPath(seen, total, amount) ==
    IF total >= amount THEN StepsToPaid(seen)
    ELSE IF seen = "sent" THEN <<"partial_paid">> ELSE <<>>

(* The UPDATEs and the commit; a trigger violation rolls the payment back. *)
SettlePayment(q) ==
    LET i == payer[q].inv
        path == PaymentPath(payer[q].seen, payer[q].total, Amount[i])
    IN  /\ payer[q].pc = "read"
        /\ IF PathAllowed(status[i], path)
           THEN /\ paid' = [paid EXCEPT ![i] = @ + payer[q].amount]
                /\ blind' = [blind EXCEPT ![i] = payer[q].total # paid[i] + payer[q].amount]
                /\ status' = IF path = <<>> THEN status
                             ELSE [status EXCEPT ![i] = path[Len(path)]]
           ELSE UNCHANGED <<paid, blind, status>>
        /\ payer' = [payer EXCEPT ![q] = NoPayment]
        /\ UNCHANGED <<sending, age, tableVars, planner, engine, monitor, crashes>>

(* No payment in flight holds the invoice: FOR UPDATE does not wait.       *)
Unlocked(i) == \A q \in Payers : payer[q].inv # i

-----------------------------------------------------------------------------
(* Collection cases and payment plans.                                     *)

InvoiceOf(p) == cases[plans[p].case].inv

OpenCases(i) == {c \in DOMAIN cases : cases[c].inv = i /\ cases[c].status = "open"}

(* createPaymentPlan: the case exists and has no current plan ...          *)
CheckPlan(n, c, total, count) ==
    /\ planner[n].pc = "idle"
    /\ Len(plans) + Cardinality({k \in Planners : planner[k].pc = "checked"}) < MaxPlans
    /\ ~ \E p \in DOMAIN plans : plans[p].case = c /\ plans[p].status = "current"
    /\ planner' = [planner EXCEPT ![n] =
                     [pc |-> "checked", case |-> c, total |-> total, count |-> count]]
    /\ UNCHANGED <<invoiceVars, tableVars, payer, engine, monitor, crashes>>

(* ... INSERT and commit.  Whether the case is open is not looked at.      *)
InsertPlan(n) ==
    /\ planner[n].pc = "checked"
    /\ plans' = Append(plans, [case |-> planner[n].case, total |-> planner[n].total,
                               count |-> planner[n].count, late |-> 0, status |-> "current"])
    /\ planner' = [planner EXCEPT ![n] = NoRequest]
    /\ UNCHANGED <<invoiceVars, cases, approvals, notices, payer, engine, monitor, crashes>>

(* Time: one more installment of the plan is past due.                     *)
InstallmentFallsDue(p) ==
    /\ plans[p].late < plans[p].count
    /\ plans' = [plans EXCEPT ![p].late = @ + 1]
    /\ UNCHANGED <<invoiceVars, cases, approvals, notices, processVars>>

(* derivePlanState, from the payments of the plan's invoice.               *)
FullyPaid(p) == paid[InvoiceOf(p)] >= plans[p].total

Breached(p) ==
    /\ ~ FullyPaid(p)
    /\ \E k \in Uncovered(plans[p].total, plans[p].count, paid[InvoiceOf(p)]) :
          k <= plans[p].late

(* updatePaymentPlanStatus(p, 'completed') succeeds: the payments cover    *)
(* the total, and the invoice may go to paid.                              *)
CanComplete(p) == FullyPaid(p) /\ Allowed(status[InvoiceOf(p)], "paid")

(* The three UPDATEs of the completion, none conditional.                  *)
CompletePlan(p) ==
    /\ plans' = [plans EXCEPT ![p].status = "completed"]
    /\ cases' = [cases EXCEPT ![plans[p].case] = [@ EXCEPT !.status = "resolved",
                                                          !.resolution = "payment_plan"]]
    /\ status' = [status EXCEPT ![InvoiceOf(p)] = "paid"]

(* PATCH /api/payment-plans/:id/status.  A refused or failed completion    *)
(* leaves everything as it is; 'breached' is written whatever the status.  *)
PatchPlan(p, new) ==
    /\ IF new = "completed"
       THEN CanComplete(p) /\ CompletePlan(p)
       ELSE /\ plans' = [plans EXCEPT ![p].status = "breached"]
            /\ UNCHANGED <<cases, status>>
    /\ UNCHANGED <<sending, age, paid, blind, approvals, notices, processVars>>

-----------------------------------------------------------------------------
(* Settlements and write-offs; both transactions lock case and invoice.    *)

Remaining(i, a) == Amount[i] - a

(* applySettlement; the trigger lets it close only an invoice that is in   *)
(* collection.                                                             *)
ApplySettlement(c, a) ==
    LET i == cases[c].inv
        closed == IF Remaining(i, a) > 0 THEN "written_off" ELSE "settled"
    IN  /\ Allowed(status[i], closed)
        /\ status' = [status EXCEPT ![i] = closed]
        /\ cases' = [cases EXCEPT
                       ![c] = [@ EXCEPT !.status = IF closed = "settled" THEN "resolved" ELSE closed,
                                        !.resolution = "settlement",
                                        !.settled = a]]

(* A slip: what has been paid already is taken off before comparing.       *)
RequiresApproval_OfOutstanding(i, a) == Remaining(i, a) - paid[i] > Threshold

RequiresApproval(i, a) == Remaining(i, a) > Threshold

(* proposeSettlement: queued for a Finance Controller, or applied at once. *)
ProposeSettlement(c, a) ==
    LET i == cases[c].inv
    IN  /\ cases[c].status = "open" /\ a <= Amount[i]
        /\ Unlocked(i)
        /\ \/ /\ RequiresApproval(i, a) /\ Len(approvals) < MaxApprovals
              /\ approvals' = Append(approvals,
                                [case |-> c, amount |-> a, status |-> "pending_approval"])
              /\ UNCHANGED <<status, cases>>
           \/ /\ ~ RequiresApproval(i, a)
              /\ ApplySettlement(c, a)
              /\ UNCHANGED approvals
        /\ UNCHANGED <<sending, age, paid, blind, plans, notices, processVars>>

(* decideWriteOffApproval; both decisions lock the request and the invoice. *)
DecideApproval(w, decision) ==
    LET c == approvals[w].case
    IN  /\ approvals[w].status = "pending_approval"
        /\ Unlocked(cases[c].inv)
        /\ IF decision = "approved"
           THEN cases[c].status = "open" /\ ApplySettlement(c, approvals[w].amount)
           ELSE UNCHANGED <<status, cases>>
        /\ approvals' = [approvals EXCEPT ![w].status = decision]
        /\ UNCHANGED <<sending, age, paid, blind, plans, notices, processVars>>

-----------------------------------------------------------------------------
(* The dunning job.                                                        *)

Dunnable(i) == status[i] \notin {"absent", "draft"} \cup Terminal /\ age[i] > 0

(* has_active_payment_plan                                                 *)
Paused(i) ==
    \E p \in DOMAIN plans :
        /\ plans[p].status = "current"
        /\ plans[p].case \in OpenCases(i)

(* listOverdueInvoicesForDunning: the list the whole run works from.       *)
ListOverdue(e) ==
    /\ engine[e].pc = "idle"
    /\ engine' = [engine EXCEPT ![e] = [NoDunning EXCEPT
                    !.pc = "listed",
                    !.todo = {[inv |-> i, age |-> age[i], paused |-> Paused(i)] :
                                i \in {j \in Invoices : Dunnable(j)}}]]
    /\ UNCHANGED <<invoiceVars, tableVars, payer, planner, monitor, crashes>>

(* The next invoice, oldest due date first; one with a current plan is     *)
(* skipped.                                                                *)
TakeInvoice(e, s) ==
    /\ engine[e].pc = "listed"
    /\ s \in engine[e].todo /\ \A t \in engine[e].todo : t.age <= s.age
    /\ engine' = [engine EXCEPT ![e] = [NoDunning EXCEPT
                    !.pc = IF s.paused THEN "listed" ELSE "reading",
                    !.todo = engine[e].todo \ {s},
                    !.inv = IF s.paused THEN None ELSE s.inv,
                    !.age = IF s.paused THEN 0 ELSE s.age]]
    /\ UNCHANGED <<invoiceVars, tableVars, payer, planner, monitor, crashes>>

FinishRun(e) ==
    /\ engine[e].pc = "listed" /\ engine[e].todo = {}
    /\ engine' = [engine EXCEPT ![e] = NoDunning]
    /\ UNCHANGED <<invoiceVars, tableVars, payer, planner, monitor, crashes>>

(* hasDunningAction, one milestone at a time.                              *)
HasDunningAction(e) ==
    /\ engine[e].pc = "reading"
    /\ LET run == engine[e]
           found == IF notices[run.inv][run.next] > 0 THEN {run.next} ELSE {}
       IN  engine' = [engine EXCEPT ![e] = [run EXCEPT
                        !.existing = run.existing \cup found,
                        !.next = run.next + 1,
                        !.pc = IF run.next = 4 THEN "acting" ELSE "reading"]]
    /\ UNCHANGED <<invoiceVars, tableVars, payer, planner, monitor, crashes>>

(* A slip: only the milestone of today is looked at.                       *)
DueMilestones_Today(e) == {engine[e].age} \ engine[e].existing

(* A slip: min_days must be exceeded, not reached.                         *)
DueMilestones_Strict(e) == (1..(engine[e].age - 1)) \ engine[e].existing

DueMilestones(e) == (1..engine[e].age) \ engine[e].existing

IsNextMilestone(e, m) ==
    m \in DueMilestones(e) /\ \A k \in DueMilestones(e) : m <= k

(* transitionInvoiceToCollection; the job catches its failure and goes on. *)
TransitionToCollection(e) ==
    LET i == engine[e].inv
    IN  /\ engine[e].pc = "acting" /\ IsNextMilestone(e, Collection)
        /\ Unlocked(i)
        /\ IF Allowed(status[i], "in_collection")
           THEN /\ status' = [status EXCEPT ![i] = "in_collection"]
                /\ cases' = IF OpenCases(i) # {} THEN cases
                            ELSE Append(cases, [inv |-> i, status |-> "open",
                                                resolution |-> None, settled |-> 0])
           ELSE UNCHANGED <<status, cases>>
        /\ engine' = [engine EXCEPT ![e].pc = "recording"]
        /\ UNCHANGED <<sending, age, paid, blind, plans, approvals, notices,
                       payer, planner, monitor, crashes>>

(* createDunningAction and the dispatch of the message.                    *)
CreateDunningAction(e) ==
    \E m \in Milestones :
        /\ IsNextMilestone(e, m)
        /\ engine[e].pc = IF m = Collection THEN "recording" ELSE "acting"
        /\ notices' = [notices EXCEPT ![engine[e].inv][m] = @ + 1]
        /\ engine' = [engine EXCEPT ![e] =
                        [engine[e] EXCEPT !.existing = engine[e].existing \cup {m}, !.pc = "acting"]]
        /\ UNCHANGED <<invoiceVars, cases, plans, approvals, payer, planner, monitor, crashes>>

FinishInvoice(e) ==
    /\ engine[e].pc = "acting" /\ DueMilestones(e) = {}
    /\ engine' = [engine EXCEPT ![e] = [NoDunning EXCEPT !.pc = "listed", !.todo = engine[e].todo]]
    /\ UNCHANGED <<invoiceVars, tableVars, payer, planner, monitor, crashes>>

-----------------------------------------------------------------------------
(* The payment-plan monitor: reconcilePaymentPlanLifecycle.                *)

ListPlans(m) ==
    /\ monitor[m].pc = "idle"
    /\ monitor' = [monitor EXCEPT ![m] =
         [pc |-> "listed",
          todo |-> {p \in DOMAIN plans : plans[p].status \in {"current", "breached"}}]]
    /\ UNCHANGED <<invoiceVars, tableVars, payer, planner, engine, crashes>>

(* ORDER BY created_at ASC: plans are numbered as they are created.        *)
IsOldest(m, p) == p \in monitor[m].todo /\ \A k \in monitor[m].todo : p <= k

(* The run goes on with the rest of its list.                              *)
NextPlan(m, p) == monitor' = [monitor EXCEPT ![m] = [pc |-> "listed", todo |-> @.todo \ {p}]]

(* getPaymentPlanDetail and derivePlanState, outside the transaction that  *)
(* applies what they say.                                                  *)
ReadPlan(m, p) ==
    /\ monitor[m].pc = "listed" /\ IsOldest(m, p)
    /\ IF FullyPaid(p) /\ plans[p].status # "completed"
       THEN monitor' = [monitor EXCEPT ![m].pc = "completing"]
       ELSE IF plans[p].status = "current" /\ Breached(p)
       THEN monitor' = [monitor EXCEPT ![m].pc = "breaching"]
       ELSE NextPlan(m, p)
    /\ UNCHANGED <<invoiceVars, tableVars, payer, planner, engine, crashes>>

(* An exception in the completion ends the run; the scheduler logs it.     *)
ApplyCompletion(m, p) ==
    /\ monitor[m].pc = "completing" /\ IsOldest(m, p)
    /\ \/ CanComplete(p) /\ CompletePlan(p) /\ NextPlan(m, p)
       \/ /\ ~ CanComplete(p)
          /\ monitor' = [monitor EXCEPT ![m] = NoReview]
          /\ UNCHANGED <<plans, cases, status>>
    /\ UNCHANGED <<sending, age, paid, blind, approvals, notices, payer, planner, engine, crashes>>

ApplyBreach(m, p) ==
    /\ monitor[m].pc = "breaching" /\ IsOldest(m, p)
    /\ plans' = [plans EXCEPT ![p].status = "breached"]
    /\ NextPlan(m, p)
    /\ UNCHANGED <<invoiceVars, cases, approvals, notices, payer, planner, engine, crashes>>

FinishReview(m) ==
    /\ monitor[m].pc = "listed" /\ monitor[m].todo = {}
    /\ monitor' = [monitor EXCEPT ![m] = NoReview]
    /\ UNCHANGED <<invoiceVars, tableVars, payer, planner, engine, crashes>>

-----------------------------------------------------------------------------
(* The server stops: open transactions roll back, runs and creations are   *)
(* cut short where they are.                                               *)
Crash ==
    /\ crashes < MaxCrashes
    /\ crashes' = crashes + 1
    /\ sending' = [i \in Invoices |-> FALSE]
    /\ payer' = [q \in Payers |-> NoPayment]
    /\ planner' = [n \in Planners |-> NoRequest]
    /\ engine' = [e \in Engines |-> NoDunning]
    /\ monitor' = [m \in Monitors |-> NoReview]
    /\ UNCHANGED <<status, age, paid, blind, tableVars>>

PaymentStep(q) == ReadTotals(q) \/ SettlePayment(q)

DunningStep(e) ==
    \/ ListOverdue(e)
    \/ \E s \in engine[e].todo : TakeInvoice(e, s)
    \/ FinishRun(e)
    \/ HasDunningAction(e)
    \/ TransitionToCollection(e)
    \/ CreateDunningAction(e)
    \/ FinishInvoice(e)

MonitorStep(m) ==
    \/ ListPlans(m)
    \/ \E p \in monitor[m].todo : ReadPlan(m, p) \/ ApplyCompletion(m, p) \/ ApplyBreach(m, p)
    \/ FinishReview(m)

Next ==
    \/ \E i \in Invoices, send \in BOOLEAN : CreateInvoice(i, send)
    \/ \E i \in Invoices : SendInvoice(i) \/ DayPasses(i)
    \/ \E q \in Payers : \/ \E i \in Invoices, a \in PayAmounts : InsertPayment(q, i, a)
                         \/ PaymentStep(q)
    \/ \E n \in Planners :
          \/ \E c \in DOMAIN cases, t \in PlanTotals, k \in PlanCounts : CheckPlan(n, c, t, k)
          \/ InsertPlan(n)
    \/ \E p \in DOMAIN plans : \/ InstallmentFallsDue(p)
                              \/ \E new \in {"completed", "breached"} : PatchPlan(p, new)
    \/ \E c \in DOMAIN cases, a \in SettleAmounts : ProposeSettlement(c, a)
    \/ \E w \in DOMAIN approvals, d \in {"approved", "rejected"} : DecideApproval(w, d)
    \/ \E e \in Engines : DunningStep(e)
    \/ \E m \in Monitors : MonitorStep(m)
    \/ Crash

Spec == Init /\ [][Next]_vars

(* A request the server has started is carried out, and croner starts each *)
(* job every day and lets it run to its end.                               *)
Fairness ==
    /\ \A q \in Payers : WF_vars(PaymentStep(q))
    /\ \A e \in Engines : WF_vars(DunningStep(e))
    /\ \A m \in Monitors : WF_vars(MonitorStep(m))

FairSpec == Spec /\ Fairness

-----------------------------------------------------------------------------
(* A collection case and its invoice agree, although the jobs, the agents' *)
(* routes and the payments write them in separate transactions of which    *)
(* only some lock both: an invoice is in collection only with an open      *)
(* case, and a case that is closed was closed the way its invoice was.     *)
CaseAgreesWithInvoice ==
    /\ \A i \in Invoices : status[i] = "in_collection" => OpenCases(i) # {}
    /\ \A c \in DOMAIN cases :
          LET s == status[cases[c].inv]
          IN  \/ cases[c].status = "open" /\ s \in {"in_collection", "paid"}
              \/ cases[c].status = "resolved" /\ cases[c].resolution = "payment_plan" /\ s = "paid"
              \/ cases[c].status = "resolved" /\ cases[c].resolution = "settlement" /\ s = "settled"
              \/ cases[c].status = "written_off" /\ s = "written_off"

(* An invoice never has a second case, open or closed: overlapping dunning *)
(* runs that work from an old list do not open another one beside it, nor  *)
(* after it is closed.                                                     *)
OneCasePerInvoice ==
    \A c, d \in DOMAIN cases : cases[c].inv = cases[d].inv => c = d

(* More than the threshold is written off only under an approved request   *)
(* for that very amount, and a case is settled by at most one request,     *)
(* however many were proposed and decided at the same time.                *)
WriteOffsAreApproved ==
    \A c \in DOMAIN cases :
        LET approved == {w \in DOMAIN approvals :
                            approvals[w].case = c /\ approvals[w].status = "approved"}
        IN  /\ Cardinality(approved) <= 1
            /\ \A w \in approved : cases[c].settled = approvals[w].amount
            /\ cases[c].settled > 0 /\ Remaining(cases[c].inv, cases[c].settled) > Threshold
                  => approved # {}

(* The dunning job is idempotent: a milestone is noticed once, also by a   *)
(* run that repeats what a stopped one had begun, and at most once per run *)
(* when runs overlap (hasDunningAction and createDunningAction are two     *)
(* statements).                                                            *)
OneNoticePerRun ==
    \A i \in Invoices, m \in Milestones : notices[i][m] <= Cardinality(Engines)

(* The customer gets the notices of an invoice in the order of their       *)
(* severity, none skipped, also when a run is cut short or two overlap.    *)
NoticesInOrder ==
    \A i \in Invoices : \A m \in Milestones :
        notices[i][m] > 0 => \A k \in 1..m : notices[i][k] > 0

(* recordPayment: "If total payments >= invoice amount -> status set to    *)
(* 'paid'".  Two payments in flight total without each other, so together  *)
(* they may cover an invoice that neither closes; that is all that can go  *)
(* wrong.  Payments that reach the amount leave the invoice closed unless  *)
(* the latest of them missed another in its total: the next one that       *)
(* misses none closes it, whatever plans, settlements and the dunning job  *)
(* did in between and whichever commits the trigger undid.                 *)
PaymentsSettleInvoice ==
    \A i \in Invoices : paid[i] >= Amount[i] => status[i] \in Terminal \/ blind[i]

(* An invoice that is marked paid has been paid in full, or to the total   *)
(* of one of its plans, although the monitor decides on payments it read   *)
(* before and agents settle and patch in between.                          *)
PaidMeansPaid ==
    \A i \in Invoices : status[i] = "paid" =>
        \/ paid[i] >= Amount[i]
        \/ \E p \in DOMAIN plans : InvoiceOf(p) = i /\ FullyPaid(p)

(* An overdue invoice that nothing closes gets every notice of the dunning *)
(* sequence up to the last one, even if runs are cut short on the way.     *)
(* The last one opens no case for an invoice that is still 'sent': the     *)
(* trigger refuses its move to 'in_collection'.                            *)
DunningReachesLastNotice ==
    \A i \in Invoices :
        (Dunnable(i) /\ age[i] = 4 /\ ~ Paused(i))
            ~> (notices[i][Collection] > 0 \/ ~ Dunnable(i) \/ Paused(i))

(* A plan that is paid but whose invoice was settled or written off: the   *)
(* completion fails in the trigger and ends the run.                       *)
Poisoned(p) ==
    FullyPaid(p) /\ plans[p].status # "completed" /\ ~ Allowed(status[InvoiceOf(p)], "paid")

(* A plan whose total has been paid is completed by the monitor in the     *)
(* end, unless it, or a plan that is listed before it, cannot be: the      *)
(* first failure ends every run of the monitor at the same plan.           *)
FullyPaidPlanCompletes ==
    \A p \in 1..MaxPlans :
        (p \in DOMAIN plans /\ FullyPaid(p))
            ~> (/\ p \in DOMAIN plans
                /\ \/ plans[p].status = "completed"
                   \/ \E r \in 1..p : Poisoned(r))

(* A case, its invoice and the requests to write it off tell one story,     *)
(* although jobs, agents and payments write them in transactions of which   *)
(* only some lock both.                                                     *)
CasesAddUp ==
    /\ TypeOK /\ CaseAgreesWithInvoice /\ WriteOffsAreApproved

(* The money decides: payments that cover an invoice close it, unless the   *)
(* latest one missed another in its total, and nothing but payments marks   *)
(* one paid.                                                                *)
MoneyDecides ==
    /\ PaymentsSettleInvoice /\ PaidMeansPaid

(* Overlapping and interrupted runs of the dunning job: notices in order,   *)
(* none twice in a run, and one case per invoice (dunning-engine.ts).       *)
DunningIsOrderly ==
    /\ OneNoticePerRun /\ OneCasePerInvoice /\ NoticesInOrder

(* Under the daily jobs an overdue invoice gets all its notices, and a plan *)
(* that is paid is completed.                                               *)
DebtsMoveOn ==
    /\ DunningReachesLastNotice /\ FullyPaidPlanCompletes

=============================================================================
