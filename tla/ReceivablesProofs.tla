--------------------------- MODULE ReceivablesProofs ---------------------------
(***************************************************************************)
(* Theorems about Receivables, for any numbers of invoices, requests, runs *)
(* of the jobs and crashes, and any amounts.  The invariant has two parts: *)
(* what a request or a run knows between two of its statements, and what   *)
(* the tables say of each other.  The second does not need the first where *)
(* a transaction looks again before it writes; where it does not (a        *)
(* payment's total, a run's list of notices) it needs that what was read   *)
(* is still true, because rows are only added and sums only grow.          *)
(***************************************************************************)
EXTENDS Receivables, FiniteSetTheorems, SequenceTheorems, TLAPS

(* A payment in flight is for an invoice that exists; the total it read    *)
(* counts its own amount and no payment that is not committed by now.      *)
PaymentOK(p) ==
    p.pc # "idle" =>
        /\ p.inv \in Invoices /\ status[p.inv] # "absent"
        /\ p.pc = "read" => p.seen \in Statuses /\ p.total <= paid[p.inv] + p.amount

PayerInv == \A q \in Payers : PaymentOK(payer[q])

RequestOK(r) ==
    r.pc = "checked" => /\ r.case \in DOMAIN cases
                        /\ r.total \in Nat \ {0} /\ r.count \in Nat \ {0}

PlannerInv == \A n \in Planners : RequestOK(planner[n])

(* A run of the dunning job that has an invoice in hand reads its four     *)
(* milestones before it acts, and what it read of them still holds.        *)
RunOK(r, sent) ==
    /\ r.pc \in {"idle", "listed"} => r.inv = None /\ r.existing = {}
    /\ r.pc \in {"reading", "acting", "recording"} => r.inv \in Invoices
    /\ r.pc = "reading" => r.next \in Milestones
    /\ r.pc \in {"acting", "recording"} => r.next = 5
    /\ \A m \in r.existing : m < r.next /\ sent[r.inv][m] > 0

EngineInv == \A e \in Engines : RunOK(engine[e], notices)

MonitorInv == \A m \in Monitors : monitor[m].todo \subseteq DOMAIN plans

ProcessInv == PayerInv /\ PlannerInv /\ EngineInv /\ MonitorInv

ApprovedFor(c) == {w \in DOMAIN approvals : approvals[w].case = c /\ approvals[w].status = "approved"}

(* A case and the requests for it that were approved: an open case has not *)
(* been settled and has none, a closed one was settled by at most one.     *)
Decided(row, approved, requests) ==
    /\ row.status = "open" => row.settled = 0 /\ approved = {}
    /\ \A v, w \in approved : v = w
    /\ \A w \in approved : row.settled = requests[w].amount
    /\ row.settled > 0 /\ Remaining(row.inv, row.settled) > Threshold => approved # {}

DecisionInv == \A c \in DOMAIN cases : Decided(cases[c], ApprovedFor(c), approvals)

LedgerInv == CaseAgreesWithInvoice /\ OneCasePerInvoice /\ DecisionInv

DeskInv == TypeOK /\ ProcessInv /\ LedgerInv

-----------------------------------------------------------------------------
(* Tables are sequences of rows: an UPDATE replaces one row, an INSERT     *)
(* adds one at the end.                                                    *)
LEMMA RowUpdated ==
    ASSUME NEW Row, NEW table \in Seq(Row), NEW r \in DOMAIN table, NEW row \in Row,
           NEW new, new = [table EXCEPT ![r] = row]
    PROVE  /\ new \in Seq(Row) /\ Len(new) = Len(table) /\ DOMAIN new = DOMAIN table
           /\ new[r] = row /\ \A k \in DOMAIN table \ {r} : new[k] = table[k]
<1>1. r \in 1..Len(table)
  BY LenProperties
<1>2. new \in Seq(Row) /\ Len(new) = Len(table)
  BY <1>1, ExceptSeq
<1> QED
  BY <1>2

(* An inserted row gets the next id, and the others keep theirs. *)
LEMMA RowInserted ==
    ASSUME NEW Row, NEW table \in Seq(Row), NEW row \in Row, NEW new, new = Append(table, row)
    PROVE  /\ new \in Seq(Row) /\ Len(new) = Len(table) + 1
           /\ DOMAIN new = DOMAIN table \cup {Len(new)} /\ Len(new) \notin DOMAIN table
           /\ new[Len(new)] = row /\ \A k \in DOMAIN table : new[k] = table[k]
  OBVIOUS

(* The ids of a table are positive numbers. *)
LEMMA RowIds ==
    ASSUME NEW Row, NEW table \in Seq(Row)
    PROVE  /\ DOMAIN table \subseteq Nat \ {0}
           /\ \A r \in DOMAIN table : table[r] \in Row
  BY LenProperties, ElementOfSeq

-----------------------------------------------------------------------------
(* A request or a run that moves to its next statement keeps its type.     *)
LEMMA ProcessTypes ==
    /\ NoPayment \in Payment /\ NoRequest \in Request
    /\ NoDunning \in Dunning /\ NoReview \in Review
  BY DEF NoPayment, NoRequest, NoDunning, NoReview, Payment, Request, Dunning, Review

(* A process that is replaced by a value of its type leaves the rest as it *)
(* is.                                                                     *)
LEMMA TypeFrame ==
    ASSUME TypeOK, UNCHANGED <<invoiceVars, tableVars, crashes>>,
           UNCHANGED payer \/ \E q \in Payers, v \in Payment : payer' = [payer EXCEPT ![q] = v],
           UNCHANGED planner \/ \E n \in Planners, v \in Request : planner' = [planner EXCEPT ![n] = v],
           UNCHANGED engine \/ \E e \in Engines, v \in Dunning : engine' = [engine EXCEPT ![e] = v],
           UNCHANGED monitor \/ \E m \in Monitors, v \in Review : monitor' = [monitor EXCEPT ![m] = v]
    PROVE  TypeOK'
  BY DEF TypeOK, invoiceVars, tableVars

(* The statements on the invoice row. *)
LEMMA InvoiceTypes ==
    ASSUME TypeOK, NEW i \in Invoices, NEW send \in BOOLEAN,
           CreateInvoice(i, send) \/ SendInvoice(i) \/ DayPasses(i)
    PROVE  TypeOK'
<1>1. CASE CreateInvoice(i, send) \/ SendInvoice(i)
  BY <1>1 DEF CreateInvoice, SendInvoice, TypeOK, Statuses, tableVars, processVars
<1>2. CASE DayPasses(i)
  <2>1. age[i] \in 0..4 /\ age[i] < 4
    BY <1>2 DEF DayPasses, TypeOK
  <2>2. age[i] + 1 \in 0..4
    BY <2>1
  <2> QED BY <1>2, <2>2 DEF DayPasses, TypeOK, tableVars, processVars
<1> QED BY <1>1, <1>2

(* Where a payment's statements may take an invoice: the paths that end in *)
(* 'paid' begin at a status that is neither settled nor written off, and a *)
(* partial payment only marks an invoice that was just sent.               *)
PathMoves(old, seen, total, amount, path) ==
    \/ path = <<>> /\ (total >= amount => seen \in Terminal)
    \/ /\ path # <<>> /\ path[Len(path)] = "paid" /\ total >= amount
       /\ old \in Statuses \ {"settled", "written_off"}
    \/ /\ path # <<>> /\ path[Len(path)] = "partial_paid" /\ ~ (total >= amount)
       /\ old \in {"sent", "partial_paid"}

(* The trigger lets a payment's path through only from there. *)
LEMMA PathEnd ==
    ASSUME NEW old, NEW seen \in Statuses, NEW total, NEW amount, NEW path,
           path = PaymentPath(seen, total, amount), PathAllowed(old, path)
    PROVE  PathMoves(old, seen, total, amount, path)
<1> USE DEF Statuses, Terminal
<1>1. \/ path = <<>> /\ (total >= amount => seen \in Terminal)
      \/ ~ (total >= amount) /\ path = <<"partial_paid">>
      \/ total >= amount /\ path = <<"sent", "overdue", "in_collection", "paid">>
      \/ total >= amount /\ path = <<"overdue", "in_collection", "paid">>
      \/ total >= amount /\ path = <<"in_collection", "paid">>
      \/ total >= amount /\ path = <<"paid">>
  BY DEF PaymentPath, StepsToPaid
<1>2. path # <<>> => /\ Allowed(old, path[1])
                     /\ path[Len(path)] = IF path = <<"partial_paid">> THEN "partial_paid" ELSE "paid"
  <2>1. CASE path = <<"sent", "overdue", "in_collection", "paid">>
    BY <2>1 DEF PathAllowed
  <2>2. CASE path = <<"overdue", "in_collection", "paid">>
    BY <2>2 DEF PathAllowed
  <2>3. CASE path = <<"in_collection", "paid">>
    BY <2>3 DEF PathAllowed
  <2>4. CASE path = <<"paid">>
    BY <2>4 DEF PathAllowed
  <2>5. CASE path = <<"partial_paid">>
    BY <2>5 DEF PathAllowed
  <2> QED BY <1>1, <2>1, <2>2, <2>3, <2>4, <2>5
<1> QED BY <1>1, <1>2 DEF Allowed, PathMoves

PaymentEffect(q) ==
    LET i == payer[q].inv
        full == payer[q].total >= Amount[i]
    IN  \/ UNCHANGED <<paid, blind, status>>
        \/ /\ paid' = [paid EXCEPT ![i] = @ + payer[q].amount]
           /\ blind' = [blind EXCEPT ![i] = payer[q].total # paid[i] + payer[q].amount]
           /\ \/ status' = status /\ (full => payer[q].seen \in Terminal)
              \/ /\ full /\ status' = [status EXCEPT ![i] = "paid"]
                 /\ status[i] \in Statuses \ {"settled", "written_off"}
              \/ /\ ~ full /\ status' = [status EXCEPT ![i] = "partial_paid"]
                 /\ status[i] \in {"sent", "partial_paid"}

(* What the UPDATEs and the commit of a payment do to its invoice. *)
LEMMA SettleEffect ==
    ASSUME PayerInv, NEW q \in Payers, SettlePayment(q)
    PROVE  PaymentEffect(q)
<1> DEFINE i == payer[q].inv
           path == PaymentPath(payer[q].seen, payer[q].total, Amount[i])
<1>1. payer[q].seen \in Statuses
  BY DEF SettlePayment, PayerInv, PaymentOK
<1>a. path = PaymentPath(payer[q].seen, payer[q].total, Amount[i])
  OBVIOUS
<1>2. \/ UNCHANGED <<paid, blind, status>>
      \/ /\ PathAllowed(status[i], path)
         /\ paid' = [paid EXCEPT ![i] = @ + payer[q].amount]
         /\ blind' = [blind EXCEPT ![i] = payer[q].total # paid[i] + payer[q].amount]
         /\ status' = IF path = <<>> THEN status ELSE [status EXCEPT ![i] = path[Len(path)]]
  BY DEF SettlePayment
<1> HIDE DEF path
<1>3. PathAllowed(status[i], path)
        => PathMoves(status[i], payer[q].seen, payer[q].total, Amount[i], path)
  BY <1>1, <1>a, PathEnd
<1> QED BY <1>2, <1>3 DEF PaymentEffect, PathMoves

(* The statements of recordPayment. *)
LEMMA PaymentTypes ==
    ASSUME TypeOK, PayerInv, NEW q \in Payers,
           \/ \E i \in Invoices, a \in PayAmounts : InsertPayment(q, i, a)
           \/ PaymentStep(q)
    PROVE  TypeOK'
<1> USE ReceivablesAssumption
<1>1. payer[q] \in Payment
  BY DEF TypeOK
<1>2. ASSUME NEW i \in Invoices, NEW a \in PayAmounts, InsertPayment(q, i, a) PROVE TypeOK'
  <2>1. [NoPayment EXCEPT !.pc = "inserted", !.inv = i, !.amount = a] \in Payment
    BY DEF NoPayment, Payment
  <2> QED BY <1>2, <2>1, TypeFrame DEF InsertPayment
<1>3. CASE ReadTotals(q)
  <2>1. /\ payer[q].inv \in Invoices /\ status[payer[q].inv] \in Statuses
        /\ paid[payer[q].inv] + payer[q].amount \in Nat
    <3>a. payer[q].inv \in Invoices /\ status[payer[q].inv] # "absent"
      BY <1>3 DEF ReadTotals, PayerInv, PaymentOK
    <3>1. payer[q].inv \in Invoices /\ status[payer[q].inv] \in Statuses
      BY <3>a DEF TypeOK
    <3>2. paid[payer[q].inv] \in Nat
      BY <3>1 DEF TypeOK
    <3>3. payer[q].amount \in Nat
      BY <1>1 DEF Payment
    <3> QED BY <3>1, <3>2, <3>3
  <2>2. [payer[q] EXCEPT !.pc = "read", !.seen = status[payer[q].inv],
                         !.total = paid[payer[q].inv] + payer[q].amount] \in Payment
    BY <1>1, <2>1 DEF Payment
  <2> QED BY <1>3, <2>2, TypeFrame DEF ReadTotals
<1>4. CASE SettlePayment(q)
  <2> DEFINE i == payer[q].inv
  <2>1. i \in Invoices /\ payer[q].amount \in Nat
    BY <1>1, <1>4 DEF SettlePayment, PayerInv, PaymentOK, Payment
  <2>2. PaymentEffect(q)
    BY <1>4, SettleEffect
  <2>a. blind' \in [Invoices -> BOOLEAN]
    <3>1. UNCHANGED blind \/ \E b \in BOOLEAN : blind' = [blind EXCEPT ![i] = b]
      BY <2>2, Zenon DEF PaymentEffect
    <3>2. blind \in [Invoices -> BOOLEAN]
      BY DEF TypeOK
    <3> QED BY <2>1, <3>1, <3>2
  <2>3. status' \in [Invoices -> Statuses \cup {"absent"}] /\ paid' \in [Invoices -> Nat]
    <3>1. UNCHANGED paid \/ paid' = [paid EXCEPT ![i] = @ + payer[q].amount]
      BY <2>2 DEF PaymentEffect
    <3>2. UNCHANGED status \/ \E s \in Statuses : status' = [status EXCEPT ![i] = s]
      BY <2>2 DEF PaymentEffect, Statuses, Terminal
    <3>a. paid[i] \in Nat
      BY <2>1 DEF TypeOK
    <3>3. paid[i] + payer[q].amount \in Nat
      BY <2>1, <3>a
    <3>4. paid' \in [Invoices -> Nat]
      BY <2>1, <3>1, <3>3 DEF TypeOK
    <3>5. status \in [Invoices -> Statuses \cup {"absent"}]
      BY DEF TypeOK
    <3> QED BY <2>1, <3>2, <3>4, <3>5
  <2>4. payer' \in [Payers -> Payment]
    BY <1>4, ProcessTypes DEF SettlePayment, TypeOK
  <2> QED BY <1>4, <2>a, <2>3, <2>4 DEF SettlePayment, TypeOK, tableVars
<1> QED BY <1>2, <1>3, <1>4 DEF PaymentStep
-----------------------------------------------------------------------------
(* Rows of the three tables that refer to each other. *)
TablesOK ==
    /\ cases \in Seq(Case)
    /\ plans \in Seq(Plan) /\ \A p \in DOMAIN plans : plans[p].case \in DOMAIN cases
    /\ approvals \in Seq(Approval)
    /\ \A w \in DOMAIN approvals : approvals[w].case \in DOMAIN cases

(* A step that keeps the tables well formed, moves an invoice to a status  *)
(* at most and leaves the processes alone keeps every type.                *)
LEMMA TableFrame ==
    ASSUME TypeOK, TablesOK',
           status' \in [Invoices -> Statuses \cup {"absent"}],
           UNCHANGED <<sending, age, paid, blind, crashes>>,
           UNCHANGED notices \/ notices' \in [Invoices -> [Milestones -> Nat]],
           UNCHANGED payer, UNCHANGED planner \/ planner' \in [Planners -> Request],
           UNCHANGED engine \/ engine' \in [Engines -> Dunning],
           UNCHANGED monitor \/ monitor' \in [Monitors -> Review]
    PROVE  TypeOK'
  BY DEF TypeOK, TablesOK

(* A case's invoice and a plan's case are never rewritten, and no row is   *)
(* deleted: what refers to a row goes on doing so.                         *)
RowsKept ==
    /\ DOMAIN cases \subseteq DOMAIN cases'
    /\ \A c \in DOMAIN cases : cases'[c].inv = cases[c].inv
    /\ DOMAIN plans \subseteq DOMAIN plans'
    /\ \A p \in DOMAIN plans : plans'[p].case = plans[p].case /\ plans'[p].total = plans[p].total
    /\ DOMAIN approvals \subseteq DOMAIN approvals'

(* An UPDATE of a plan that leaves its case, its total and its count. *)
LEMMA PlanUpdated ==
    ASSUME TablesOK, NEW p \in DOMAIN plans, NEW row \in Plan,
           row.case = plans[p].case, row.total = plans[p].total,
           plans' = [plans EXCEPT ![p] = row], UNCHANGED <<cases, approvals>>
    PROVE  TablesOK' /\ RowsKept /\ DOMAIN plans' = DOMAIN plans
<1>1. /\ plans' \in Seq(Plan) /\ DOMAIN plans' = DOMAIN plans
      /\ plans'[p] = row /\ \A k \in DOMAIN plans \ {p} : plans'[k] = plans[k]
  BY RowUpdated DEF TablesOK
<1> QED BY <1>1 DEF TablesOK, RowsKept

(* An UPDATE of a case that leaves its invoice. *)
LEMMA CaseUpdated ==
    ASSUME TablesOK, NEW c \in DOMAIN cases, NEW row \in Case, row.inv = cases[c].inv,
           cases' = [cases EXCEPT ![c] = row]
    PROVE  /\ cases' \in Seq(Case) /\ DOMAIN cases' = DOMAIN cases
           /\ cases'[c] = row /\ \A k \in DOMAIN cases \ {c} : cases'[k] = cases[k]
           /\ \A k \in DOMAIN cases : cases'[k].inv = cases[k].inv
<1>1. /\ cases' \in Seq(Case) /\ DOMAIN cases' = DOMAIN cases
      /\ cases'[c] = row /\ \A k \in DOMAIN cases \ {c} : cases'[k] = cases[k]
  BY RowUpdated DEF TablesOK
<1> QED BY <1>1

(* What the completion of a plan writes to its case and its invoice. *)
CompletedCase(c) == [cases[c] EXCEPT !.status = "resolved", !.resolution = "payment_plan"]

(* The three UPDATEs of a completion, row by row. *)
LEMMA CompletionRows ==
    ASSUME TypeOK, NEW p \in DOMAIN plans, CompletePlan(p), UNCHANGED approvals
    PROVE  /\ TablesOK' /\ RowsKept /\ DOMAIN plans' = DOMAIN plans
           /\ plans[p].case \in DOMAIN cases /\ InvoiceOf(p) \in Invoices
           /\ DOMAIN cases' = DOMAIN cases
           /\ cases'[plans[p].case] = CompletedCase(plans[p].case)
           /\ \A k \in DOMAIN cases \ {plans[p].case} : cases'[k] = cases[k]
           /\ status' \in [Invoices -> Statuses \cup {"absent"}]
<1> DEFINE c == plans[p].case
<1>1. TablesOK /\ status \in [Invoices -> Statuses \cup {"absent"}]
  BY DEF TypeOK, TablesOK
<1>2. plans[p] \in Plan /\ c \in DOMAIN cases /\ cases[c] \in Case
  BY <1>1, RowIds DEF TablesOK
<1>3. CompletedCase(c) \in Case /\ CompletedCase(c).inv = cases[c].inv
  BY <1>2 DEF CompletedCase, Case
<1>4. cases' = [cases EXCEPT ![c] = CompletedCase(c)]
  BY DEF CompletePlan, CompletedCase
<1>5. /\ cases' \in Seq(Case) /\ DOMAIN cases' = DOMAIN cases
      /\ cases'[c] = CompletedCase(c) /\ \A k \in DOMAIN cases \ {c} : cases'[k] = cases[k]
      /\ \A k \in DOMAIN cases : cases'[k].inv = cases[k].inv
  BY <1>1, <1>2, <1>3, <1>4, CaseUpdated
<1>6. [plans[p] EXCEPT !.status = "completed"] \in Plan
  BY <1>2 DEF Plan
<1>7. /\ plans' \in Seq(Plan) /\ DOMAIN plans' = DOMAIN plans
      /\ plans'[p] = [plans[p] EXCEPT !.status = "completed"]
      /\ \A k \in DOMAIN plans \ {p} : plans'[k] = plans[k]
  BY <1>1, <1>6, RowUpdated DEF CompletePlan, TablesOK
<1>8. plans'[p].case = plans[p].case /\ plans'[p].total = plans[p].total
  BY <1>2, <1>7 DEF Plan
<1>9. TablesOK' /\ RowsKept
  BY <1>1, <1>5, <1>7, <1>8 DEF TablesOK, RowsKept
<1>10. InvoiceOf(p) \in Invoices
  BY <1>2 DEF InvoiceOf, Case
<1>11. status' \in [Invoices -> Statuses \cup {"absent"}]
  BY <1>1, <1>10 DEF CompletePlan, Statuses, Terminal
<1> QED BY <1>2, <1>5, <1>7, <1>9, <1>10, <1>11

(* What a settlement writes to its case and its invoice. *)
SettledStatus(i, a) == IF Remaining(i, a) > 0 THEN "written_off" ELSE "settled"

SettledCase(c, a) ==
    [cases[c] EXCEPT
        !.status = IF SettledStatus(cases[c].inv, a) = "settled" THEN "resolved" ELSE "written_off",
        !.resolution = "settlement", !.settled = a]

(* The UPDATEs of a settlement, row by row. *)
LEMMA SettlementRows ==
    ASSUME TypeOK, NEW c \in DOMAIN cases, NEW a \in Nat \ {0}, ApplySettlement(c, a)
    PROVE  /\ cases[c] \in Case
           /\ cases' \in Seq(Case) /\ DOMAIN cases' = DOMAIN cases
           /\ cases'[c] = SettledCase(c, a) /\ \A k \in DOMAIN cases \ {c} : cases'[k] = cases[k]
           /\ \A k \in DOMAIN cases : cases'[k].inv = cases[k].inv
           /\ status' \in [Invoices -> Statuses \cup {"absent"}]
           /\ Allowed(status[cases[c].inv], SettledStatus(cases[c].inv, a))
           /\ status' = [status EXCEPT ![cases[c].inv] = SettledStatus(cases[c].inv, a)]
<1>1. TablesOK /\ status \in [Invoices -> Statuses \cup {"absent"}]
  BY DEF TypeOK, TablesOK
<1>2. cases[c] \in Case
  BY <1>1, RowIds DEF TablesOK
<1>3. SettledCase(c, a) \in Case /\ SettledCase(c, a).inv = cases[c].inv
  BY <1>2 DEF SettledCase, Case
<1>4. /\ cases' = [cases EXCEPT ![c] = SettledCase(c, a)]
      /\ status' = [status EXCEPT ![cases[c].inv] = SettledStatus(cases[c].inv, a)]
      /\ Allowed(status[cases[c].inv], SettledStatus(cases[c].inv, a))
  BY DEF ApplySettlement, SettledCase, SettledStatus
<1>5. SettledStatus(cases[c].inv, a) \in Statuses /\ cases[c].inv \in Invoices
  BY <1>2 DEF SettledStatus, Statuses, Terminal, Case
<1>6. status' \in [Invoices -> Statuses \cup {"absent"}]
  BY <1>1, <1>4, <1>5
<1> QED BY <1>1, <1>2, <1>3, <1>4, <1>6, CaseUpdated
-----------------------------------------------------------------------------
(* The statements of createPaymentPlan, the monitor's other writes and the *)
(* passing of an installment's due date.                                   *)
LEMMA PlanTypes ==
    ASSUME TypeOK, PlannerInv,
           \/ \E n \in Planners :
                 \/ \E c \in DOMAIN cases, t \in PlanTotals, k \in PlanCounts : CheckPlan(n, c, t, k)
                 \/ InsertPlan(n)
           \/ \E p \in DOMAIN plans :
                 \/ InstallmentFallsDue(p)
                 \/ \E new \in {"completed", "breached"} : PatchPlan(p, new)
    PROVE  TypeOK' /\ RowsKept
<1>1. TablesOK /\ status \in [Invoices -> Statuses \cup {"absent"}]
  BY DEF TypeOK, TablesOK
<1>2. UNCHANGED <<cases, plans, approvals>> => RowsKept
  BY DEF RowsKept
<1>3. ASSUME NEW n \in Planners, NEW c \in DOMAIN cases, NEW t \in PlanTotals, NEW k \in PlanCounts,
             CheckPlan(n, c, t, k)
      PROVE  TypeOK' /\ RowsKept
  <2>1. [pc |-> "checked", case |-> c, total |-> t, count |-> k] \in Request
    BY <1>1, RowIds, ReceivablesAssumption DEF Request, TablesOK
  <2>2. TypeOK'
    BY <1>3, <2>1, TypeFrame DEF CheckPlan
  <2> QED BY <1>2, <1>3, <2>2 DEF CheckPlan, tableVars
<1>4. ASSUME NEW n \in Planners, InsertPlan(n) PROVE TypeOK' /\ RowsKept
  <2> DEFINE row == [case |-> planner[n].case, total |-> planner[n].total,
                     count |-> planner[n].count, late |-> 0, status |-> "current"]
  <2>1. planner[n].case \in DOMAIN cases /\ row \in Plan /\ row.case = planner[n].case
    BY <1>1, <1>4, RowIds DEF InsertPlan, PlannerInv, RequestOK, Plan, TablesOK
  <2>2. plans' = Append(plans, row)
    BY <1>4 DEF InsertPlan
  <2> HIDE DEF row
  <2>3. /\ plans' \in Seq(Plan) /\ DOMAIN plans' = DOMAIN plans \cup {Len(plans')}
        /\ plans'[Len(plans')] = row /\ \A k \in DOMAIN plans : plans'[k] = plans[k]
    BY <1>1, <2>1, <2>2, RowInserted DEF TablesOK
  <2>4. TablesOK' /\ RowsKept
    BY <1>1, <1>4, <2>1, <2>3 DEF InsertPlan, TablesOK, RowsKept
  <2>5. planner' \in [Planners -> Request]
    BY <1>4, ProcessTypes DEF InsertPlan, TypeOK
  <2> QED BY <1>1, <1>4, <2>4, <2>5, TableFrame DEF InsertPlan, invoiceVars
<1>5. ASSUME NEW p \in DOMAIN plans, InstallmentFallsDue(p) PROVE TypeOK' /\ RowsKept
  <2> DEFINE row == [plans[p] EXCEPT !.late = @ + 1]
  <2>1. plans[p] \in Plan
    BY <1>1, RowIds DEF TablesOK
  <2>2. row \in Plan /\ row.case = plans[p].case /\ row.total = plans[p].total
    BY <2>1 DEF Plan
  <2>3. plans' = [plans EXCEPT ![p] = row]
    BY <1>5 DEF InstallmentFallsDue
  <2> HIDE DEF row
  <2>4. TablesOK' /\ RowsKept
    BY <1>1, <1>5, <2>2, <2>3, PlanUpdated DEF InstallmentFallsDue
  <2> QED BY <1>1, <1>5, <2>4, TableFrame DEF InstallmentFallsDue, invoiceVars, processVars
<1>6. ASSUME NEW p \in DOMAIN plans, PatchPlan(p, "completed") PROVE TypeOK' /\ RowsKept
  BY <1>6, CompletionRows, TableFrame DEF PatchPlan, processVars
<1>7. ASSUME NEW p \in DOMAIN plans, PatchPlan(p, "breached") PROVE TypeOK' /\ RowsKept
  <2> DEFINE row == [plans[p] EXCEPT !.status = "breached"]
  <2>1. plans[p] \in Plan
    BY <1>1, RowIds DEF TablesOK
  <2>2. row \in Plan /\ row.case = plans[p].case /\ row.total = plans[p].total
    BY <2>1 DEF Plan
  <2>3. plans' = [plans EXCEPT ![p] = row]
    BY <1>7 DEF PatchPlan
  <2> HIDE DEF row
  <2>4. TablesOK' /\ RowsKept
    BY <1>1, <1>7, <2>2, <2>3, PlanUpdated DEF PatchPlan
  <2> QED BY <1>1, <1>7, <2>4, TableFrame DEF PatchPlan, processVars
<1> QED BY <1>3, <1>4, <1>5, <1>6, <1>7

(* Settlements, proposed and decided. *)
LEMMA SettlementTypes ==
    ASSUME TypeOK,
           \/ \E c \in DOMAIN cases, a \in SettleAmounts : ProposeSettlement(c, a)
           \/ \E w \in DOMAIN approvals, d \in {"approved", "rejected"} : DecideApproval(w, d)
    PROVE  TypeOK' /\ RowsKept
<1>1. TablesOK /\ status \in [Invoices -> Statuses \cup {"absent"}]
  BY DEF TypeOK, TablesOK
<1>2. ASSUME NEW c \in DOMAIN cases, NEW a \in SettleAmounts, ProposeSettlement(c, a)
      PROVE  TypeOK' /\ RowsKept
  <2>1. a \in Nat \ {0} /\ c \in Nat \ {0}
    BY <1>1, RowIds, ReceivablesAssumption DEF TablesOK
  <2>2. CASE ApplySettlement(c, a) /\ UNCHANGED approvals
    <3>1. TablesOK' /\ RowsKept
      BY <1>1, <1>2, <2>1, <2>2, SettlementRows DEF ProposeSettlement, TablesOK, RowsKept
    <3> QED
      BY <1>2, <2>1, <2>2, <3>1, SettlementRows, TableFrame DEF ProposeSettlement, processVars
  <2>3. CASE UNCHANGED <<status, cases>> /\ ~ UNCHANGED approvals
    <3> DEFINE row == [case |-> c, amount |-> a, status |-> "pending_approval"]
    <3>1. row \in Approval /\ row.case = c
      BY <2>1 DEF Approval
    <3>2. approvals' = Append(approvals, row)
      BY <1>2, <2>3 DEF ProposeSettlement
    <3> HIDE DEF row
    <3>3. /\ approvals' \in Seq(Approval) /\ DOMAIN approvals' = DOMAIN approvals \cup {Len(approvals')}
          /\ approvals'[Len(approvals')] = row
          /\ \A k \in DOMAIN approvals : approvals'[k] = approvals[k]
      BY <1>1, <3>1, <3>2, RowInserted DEF TablesOK
    <3>4. TablesOK' /\ RowsKept
      BY <1>1, <1>2, <2>3, <3>1, <3>3 DEF ProposeSettlement, TablesOK, RowsKept
    <3> QED BY <1>1, <1>2, <2>3, <3>4, TableFrame DEF ProposeSettlement, processVars
  <2>4. CASE UNCHANGED <<status, cases, approvals>>
    <3>1. TablesOK' /\ RowsKept
      BY <1>1, <1>2, <2>4 DEF ProposeSettlement, TablesOK, RowsKept
    <3> QED BY <1>1, <1>2, <2>4, <3>1, TableFrame DEF ProposeSettlement, processVars
  <2> QED BY <1>2, <2>2, <2>3, <2>4 DEF ProposeSettlement
<1>3. ASSUME NEW w \in DOMAIN approvals, NEW d \in {"approved", "rejected"}, DecideApproval(w, d)
      PROVE  TypeOK' /\ RowsKept
  <2> DEFINE row == [approvals[w] EXCEPT !.status = d]
  <2>1. approvals[w] \in Approval /\ approvals[w].case \in DOMAIN cases
        /\ approvals[w].amount \in Nat \ {0}
    <3>1. approvals[w] \in Approval /\ approvals[w].case \in DOMAIN cases
      BY <1>1, RowIds DEF TablesOK
    <3> QED BY <3>1 DEF Approval
  <2>2. row \in Approval /\ row.case = approvals[w].case
    BY <2>1 DEF Approval
  <2>3. approvals' = [approvals EXCEPT ![w] = row]
    BY <1>3 DEF DecideApproval
  <2> HIDE DEF row
  <2>4. /\ approvals' \in Seq(Approval) /\ DOMAIN approvals' = DOMAIN approvals
        /\ approvals'[w] = row /\ \A k \in DOMAIN approvals \ {w} : approvals'[k] = approvals[k]
    BY <1>1, <2>2, <2>3, RowUpdated DEF TablesOK
  <2>5. /\ cases' \in Seq(Case) /\ DOMAIN cases' = DOMAIN cases
        /\ \A k \in DOMAIN cases : cases'[k].inv = cases[k].inv
        /\ status' \in [Invoices -> Statuses \cup {"absent"}]
    <3>1. CASE ApplySettlement(approvals[w].case, approvals[w].amount)
      BY <2>1, <3>1, SettlementRows
    <3>2. CASE UNCHANGED <<status, cases>>
      BY <1>1, <3>2 DEF TablesOK
    <3> QED BY <1>3, <3>1, <3>2 DEF DecideApproval
  <2>6. TablesOK' /\ RowsKept
    BY <1>1, <1>3, <2>1, <2>2, <2>4, <2>5 DEF DecideApproval, TablesOK, RowsKept
  <2> QED BY <1>3, <2>5, <2>6, TableFrame DEF DecideApproval, processVars
<1> QED BY <1>2, <1>3
(* The statements of a run of the dunning job. *)
LEMMA DunningTypes ==
    ASSUME TypeOK, EngineInv, NEW e \in Engines, DunningStep(e)
    PROVE  TypeOK' /\ RowsKept
<1>1. engine[e] \in Dunning /\ TablesOK /\ notices \in [Invoices -> [Milestones -> Nat]]
      /\ status \in [Invoices -> Statuses \cup {"absent"}] /\ engine \in [Engines -> Dunning]
      /\ age \in [Invoices -> 0..4]
  BY DEF TypeOK, TablesOK
<1>2. UNCHANGED <<cases, plans, approvals>> => RowsKept
  BY DEF RowsKept
<1>3. ASSUME NEW v \in Dunning, engine' = [engine EXCEPT ![e] = v],
             UNCHANGED <<invoiceVars, tableVars, payer, planner, monitor, crashes>>
      PROVE  TypeOK' /\ RowsKept
  BY <1>2, <1>3, TypeFrame DEF tableVars
<1>4. CASE ListOverdue(e)
  <2> DEFINE list == {[inv |-> i, age |-> age[i], paused |-> Paused(i)] :
                        i \in {j \in Invoices : Dunnable(j)}}
  <2>1. \A i \in Invoices : Paused(i) \in BOOLEAN
    BY DEF Paused
  <2>2. \A i \in Invoices : Dunnable(i) => age[i] \in Milestones
    <3> SUFFICES ASSUME NEW i \in Invoices, Dunnable(i) PROVE age[i] \in Milestones
      OBVIOUS
    <3>1. age[i] \in 0..4 /\ age[i] > 0
      BY <1>1 DEF Dunnable
    <3> QED BY <3>1 DEF Milestones
  <2>3. list \in SUBSET Listed
    BY <2>1, <2>2 DEF Listed
  <2>4. engine' = [engine EXCEPT ![e] = [NoDunning EXCEPT !.pc = "listed", !.todo = list]]
    BY <1>4 DEF ListOverdue
  <2> HIDE DEF list
  <2>5. [NoDunning EXCEPT !.pc = "listed", !.todo = list] \in Dunning
    BY <2>3, ProcessTypes DEF Dunning
  <2> QED BY <1>3, <1>4, <2>4, <2>5 DEF ListOverdue
<1>5. ASSUME NEW s \in engine[e].todo, TakeInvoice(e, s) PROVE TypeOK' /\ RowsKept
  <2>1. s \in Listed /\ engine[e].todo \ {s} \in SUBSET Listed
    BY <1>1 DEF Dunning
  <2>2. s.inv \in Invoices /\ s.age \in 0..4
    <3>1. s.inv \in Invoices /\ s.age \in Milestones
      BY <2>1 DEF Listed
    <3> QED BY <3>1 DEF Milestones
  <2> DEFINE v == [NoDunning EXCEPT
                     !.pc = IF s.paused THEN "listed" ELSE "reading",
                     !.todo = engine[e].todo \ {s},
                     !.inv = IF s.paused THEN None ELSE s.inv,
                     !.age = IF s.paused THEN 0 ELSE s.age]
  <2>3. v \in Dunning
    <3>1. \A to \in {"listed", "reading"}, todo \in SUBSET Listed,
              i \in Invoices \cup {None}, a \in 0..4 :
            [NoDunning EXCEPT !.pc = to, !.todo = todo, !.inv = i, !.age = a] \in Dunning
      BY ProcessTypes DEF Dunning
    <3>2. /\ (IF s.paused THEN "listed" ELSE "reading") \in {"listed", "reading"}
          /\ (IF s.paused THEN None ELSE s.inv) \in Invoices \cup {None}
          /\ (IF s.paused THEN 0 ELSE s.age) \in 0..4
      BY <2>2
    <3> QED BY <2>1, <3>1, <3>2
  <2>4. engine' = [engine EXCEPT ![e] = v]
    BY <1>5 DEF TakeInvoice
  <2> HIDE DEF v
  <2> QED BY <1>3, <1>5, <2>3, <2>4 DEF TakeInvoice
<1>6. CASE FinishRun(e)
  BY <1>3, <1>6, ProcessTypes DEF FinishRun
<1>7. CASE HasDunningAction(e)
  <2> DEFINE run == engine[e]
             found == IF notices[run.inv][run.next] > 0 THEN {run.next} ELSE {}
             v == [run EXCEPT !.existing = run.existing \cup found,
                              !.next = run.next + 1,
                              !.pc = IF run.next = 4 THEN "acting" ELSE "reading"]
  <2>1. engine[e].next \in Milestones
    BY <1>7 DEF HasDunningAction, EngineInv, RunOK
  <2>2. engine[e].next + 1 \in 1..5
    BY <2>1 DEF Milestones
  <2>3. v \in Dunning
    BY <1>1, <2>1, <2>2 DEF Dunning
  <2>4. engine' = [engine EXCEPT ![e] = v]
    BY <1>7 DEF HasDunningAction
  <2> HIDE DEF v
  <2> QED BY <1>3, <1>7, <2>3, <2>4 DEF HasDunningAction
<1>8. CASE TransitionToCollection(e)
  <2> DEFINE i == engine[e].inv
             row == [inv |-> i, status |-> "open", resolution |-> None, settled |-> 0]
  <2>1. i \in Invoices
    BY <1>8 DEF TransitionToCollection, EngineInv, RunOK
  <2>2. row \in Case
    BY <2>1 DEF Case
  <2>3. [engine[e] EXCEPT !.pc = "recording"] \in Dunning
    BY <1>1 DEF Dunning
  <2>4. engine' \in [Engines -> Dunning]
    BY <1>1, <1>8, <2>3 DEF TransitionToCollection
  <2>5. \/ UNCHANGED <<status, cases>>
        \/ /\ status' = [status EXCEPT ![i] = "in_collection"]
           /\ UNCHANGED cases \/ cases' = Append(cases, row)
    BY <1>8 DEF TransitionToCollection
  <2>6. status' \in [Invoices -> Statuses \cup {"absent"}]
    BY <1>1, <2>1, <2>5 DEF Statuses
  <2> HIDE DEF row
  <2>7. TablesOK' /\ RowsKept
    <3>1. cases' \in Seq(Case) /\ DOMAIN cases \subseteq DOMAIN cases'
          /\ \A k \in DOMAIN cases : cases'[k] = cases[k]
      <4>1. CASE UNCHANGED cases
        BY <1>1, <4>1 DEF TablesOK
      <4>2. CASE cases' = Append(cases, row)
        BY <1>1, <2>2, <4>2, RowInserted DEF TablesOK
      <4> QED BY <2>5, <4>1, <4>2
    <3> QED BY <1>1, <1>8, <3>1 DEF TransitionToCollection, TablesOK, RowsKept
  <2> QED BY <1>8, <2>4, <2>6, <2>7, TableFrame DEF TransitionToCollection
<1>9. CASE CreateDunningAction(e)
  <2>1. PICK m \in Milestones :
          /\ engine[e].pc \in {"acting", "recording"}
          /\ notices' = [notices EXCEPT ![engine[e].inv][m] = @ + 1]
          /\ engine' = [engine EXCEPT ![e] =
                 [engine[e] EXCEPT !.existing = engine[e].existing \cup {m}, !.pc = "acting"]]
          /\ UNCHANGED <<invoiceVars, cases, plans, approvals, payer, planner, monitor, crashes>>
    BY <1>9 DEF CreateDunningAction
  <2>2. [engine[e] EXCEPT !.existing = engine[e].existing \cup {m}, !.pc = "acting"] \in Dunning
    BY <1>1 DEF Dunning
  <2>3. engine' \in [Engines -> Dunning]
    BY <1>1, <2>1, <2>2
  <2>4. engine[e].inv \in Invoices
    BY <2>1 DEF EngineInv, RunOK
  <2>5. notices' \in [Invoices -> [Milestones -> Nat]]
    <3>1. notices[engine[e].inv] \in [Milestones -> Nat]
      BY <1>1, <2>4
    <3>2. [notices[engine[e].inv] EXCEPT ![m] = @ + 1] \in [Milestones -> Nat]
      BY <3>1
    <3>3. notices' = [notices EXCEPT ![engine[e].inv] = [notices[engine[e].inv] EXCEPT ![m] = @ + 1]]
      BY <2>1
    <3> QED BY <1>1, <3>2, <3>3
  <2>6. TablesOK' /\ RowsKept
    BY <1>1, <2>1 DEF TablesOK, RowsKept
  <2> QED BY <1>1, <2>1, <2>3, <2>5, <2>6, TableFrame DEF invoiceVars
<1>10. CASE FinishInvoice(e)
  <2>1. [NoDunning EXCEPT !.pc = "listed", !.todo = engine[e].todo] \in Dunning
    BY <1>1, ProcessTypes DEF Dunning
  <2> QED BY <1>3, <1>10, <2>1 DEF FinishInvoice
<1> QED BY <1>4, <1>5, <1>6, <1>7, <1>8, <1>9, <1>10 DEF DunningStep

(* The statements of a run of the payment-plan monitor. *)
LEMMA MonitorTypes ==
    ASSUME TypeOK, MonitorInv, NEW m \in Monitors, MonitorStep(m)
    PROVE  TypeOK' /\ RowsKept
<1>1. monitor[m] \in Review /\ TablesOK /\ monitor \in [Monitors -> Review]
      /\ status \in [Invoices -> Statuses \cup {"absent"}]
  BY DEF TypeOK, TablesOK
<1>2. DOMAIN plans \subseteq Nat \ {0}
  BY <1>1, RowIds DEF TablesOK
<1>3. ASSUME NEW v \in Review, monitor' = [monitor EXCEPT ![m] = v],
             UNCHANGED <<invoiceVars, tableVars, payer, planner, engine, crashes>>
      PROVE  TypeOK' /\ RowsKept
  BY <1>3, TypeFrame DEF tableVars, RowsKept
<1>4. CASE ListPlans(m)
  <2>1. [pc |-> "listed", todo |-> {p \in DOMAIN plans : plans[p].status \in {"current", "breached"}}]
          \in Review
    BY <1>2 DEF Review
  <2> QED BY <1>3, <1>4, <2>1 DEF ListPlans
<1>5. \A p : NextPlan(m, p) => \E v \in Review : monitor' = [monitor EXCEPT ![m] = v]
  <2>1. \A p : [pc |-> "listed", todo |-> monitor[m].todo \ {p}] \in Review
    BY <1>1 DEF Review
  <2> QED BY <2>1 DEF NextPlan
<1>6. ASSUME NEW p \in monitor[m].todo, ReadPlan(m, p) PROVE TypeOK' /\ RowsKept
  <2>1. [monitor[m] EXCEPT !.pc = "completing"] \in Review
        /\ [monitor[m] EXCEPT !.pc = "breaching"] \in Review
    BY <1>1 DEF Review
  <2> QED BY <1>3, <1>5, <1>6, <2>1 DEF ReadPlan
<1>7. ASSUME NEW p \in monitor[m].todo, ApplyCompletion(m, p) PROVE TypeOK' /\ RowsKept
  <2>1. p \in DOMAIN plans
    BY DEF MonitorInv
  <2>2. monitor' \in [Monitors -> Review]
    BY <1>1, <1>5, <1>7, ProcessTypes DEF ApplyCompletion
  <2>3. CASE CompletePlan(p)
    BY <1>7, <2>1, <2>2, <2>3, CompletionRows, TableFrame DEF ApplyCompletion
  <2>4. CASE UNCHANGED <<plans, cases, status>>
    <3>1. TablesOK' /\ RowsKept
      BY <1>1, <1>7, <2>4 DEF ApplyCompletion, TablesOK, RowsKept
    <3> QED BY <1>1, <1>7, <2>2, <2>4, <3>1, TableFrame DEF ApplyCompletion
  <2> QED BY <1>7, <2>3, <2>4 DEF ApplyCompletion
<1>8. ASSUME NEW p \in monitor[m].todo, ApplyBreach(m, p) PROVE TypeOK' /\ RowsKept
  <2> DEFINE row == [plans[p] EXCEPT !.status = "breached"]
  <2>1. p \in DOMAIN plans
    BY DEF MonitorInv
  <2>2. plans[p] \in Plan
    BY <1>1, <2>1, RowIds DEF TablesOK
  <2>3. row \in Plan /\ row.case = plans[p].case /\ row.total = plans[p].total
    BY <2>2 DEF Plan
  <2>4. plans' = [plans EXCEPT ![p] = row]
    BY <1>8 DEF ApplyBreach
  <2> HIDE DEF row
  <2>5. TablesOK' /\ RowsKept
    BY <1>1, <1>8, <2>1, <2>3, <2>4, PlanUpdated DEF ApplyBreach
  <2>6. monitor' \in [Monitors -> Review]
    BY <1>1, <1>5, <1>8 DEF ApplyBreach
  <2> QED BY <1>1, <1>8, <2>5, <2>6, TableFrame DEF ApplyBreach, invoiceVars
<1>9. CASE FinishReview(m)
  BY <1>3, <1>9, ProcessTypes DEF FinishReview
<1> QED BY <1>4, <1>6, <1>7, <1>8, <1>9 DEF MonitorStep

(* Every statement keeps every variable in its type and every row.         *)
LEMMA TypeStep == TypeOK /\ ProcessInv /\ [Next]_vars => TypeOK' /\ RowsKept
<1> SUFFICES ASSUME TypeOK, ProcessInv, [Next]_vars PROVE TypeOK' /\ RowsKept
  OBVIOUS
<1>1. UNCHANGED <<cases, plans, approvals>> => RowsKept
  BY DEF RowsKept
<1>2. ASSUME NEW i \in Invoices, NEW send \in BOOLEAN,
             CreateInvoice(i, send) \/ SendInvoice(i) \/ DayPasses(i)
      PROVE  TypeOK' /\ RowsKept
  BY <1>1, <1>2, InvoiceTypes DEF CreateInvoice, SendInvoice, DayPasses, tableVars
<1>3. ASSUME NEW q \in Payers,
             \/ \E i \in Invoices, a \in PayAmounts : InsertPayment(q, i, a)
             \/ PaymentStep(q)
      PROVE  TypeOK' /\ RowsKept
  BY <1>1, <1>3, PaymentTypes
  DEF ProcessInv, InsertPayment, PaymentStep, ReadTotals, SettlePayment, tableVars
<1>4. CASE Crash
  BY <1>1, <1>4, ProcessTypes DEF Crash, TypeOK, tableVars
<1>5. CASE UNCHANGED vars
  BY <1>1, <1>5 DEF TypeOK, vars, invoiceVars, tableVars, processVars
<1> QED
  BY <1>2, <1>3, <1>4, <1>5, PlanTypes, SettlementTypes, DunningTypes, MonitorTypes
  DEF ProcessInv, Next
-----------------------------------------------------------------------------
(* What a request read stays true: an invoice goes on existing, committed  *)
(* payments only add up and a notice that was sent stays recorded.         *)
Grows ==
    /\ \A i \in Invoices : status[i] # "absent" => status'[i] # "absent"
    /\ \A i \in Invoices : paid'[i] >= paid[i]
    /\ \A i \in Invoices, m \in Milestones : notices'[i][m] >= notices[i][m]

(* A step that writes a status to an invoice at most. *)
LEMMA StatusGrows ==
    ASSUME TypeOK, UNCHANGED <<paid, notices>>,
           UNCHANGED status \/ \E i \in Invoices, s \in Statuses : status' = [status EXCEPT ![i] = s]
    PROVE  Grows
<1>1. "absent" \notin Statuses
  BY DEF Statuses, Terminal
<1>2. \A i \in Invoices : status[i] # "absent" => status'[i] # "absent"
  BY <1>1 DEF TypeOK
<1>3. \A i \in Invoices : paid[i] \in Nat /\ \A m \in Milestones : notices[i][m] \in Nat
  BY DEF TypeOK
<1> QED BY <1>2, <1>3 DEF Grows

(* Each statement. *)
LEMMA GrowStep == TypeOK /\ ProcessInv /\ [Next]_vars => Grows
<1> SUFFICES ASSUME TypeOK, ProcessInv, [Next]_vars PROVE Grows
  OBVIOUS
<1> USE DEF ProcessInv
<1>1. UNCHANGED <<status, paid, notices>> => Grows
  BY StatusGrows
<1>2. ASSUME NEW i \in Invoices, NEW send \in BOOLEAN,
             CreateInvoice(i, send) \/ SendInvoice(i) \/ DayPasses(i)
      PROVE  Grows
  <2>1. "draft" \in Statuses /\ "sent" \in Statuses
    BY DEF Statuses
  <2> QED
    BY <1>2, <2>1, StatusGrows DEF CreateInvoice, SendInvoice, DayPasses, tableVars
<1>3. ASSUME NEW q \in Payers, SettlePayment(q) PROVE Grows
  <2> DEFINE i == payer[q].inv
  <2>1. i \in Invoices /\ payer[q].amount \in Nat
    BY <1>3 DEF SettlePayment, PayerInv, PaymentOK, TypeOK, Payment
  <2>2. \A j \in Invoices : paid[j] \in Nat /\ \A m \in Milestones : notices[j][m] \in Nat
    BY DEF TypeOK
  <2>3. PaymentEffect(q) /\ UNCHANGED notices
    BY <1>3, SettleEffect DEF SettlePayment, tableVars
  <2>4. \A j \in Invoices : paid'[j] >= paid[j]
    <3>1. UNCHANGED paid \/ paid' = [paid EXCEPT ![i] = @ + payer[q].amount]
      BY <2>3 DEF PaymentEffect
    <3>2. paid[i] + payer[q].amount >= paid[i] /\ \A j \in Invoices : paid[j] >= paid[j]
      BY <2>1, <2>2
    <3> QED BY <2>1, <3>1, <3>2 DEF TypeOK
  <2>5. UNCHANGED status \/ \E s \in {"paid", "partial_paid"} : status' = [status EXCEPT ![i] = s]
    BY <2>3 DEF PaymentEffect
  <2>6. \A j \in Invoices : status[j] # "absent" => status'[j] # "absent"
    BY <2>1, <2>5 DEF TypeOK
  <2> QED BY <2>2, <2>3, <2>4, <2>6 DEF Grows
<1>4. ASSUME NEW p \in DOMAIN plans, CompletePlan(p), UNCHANGED <<paid, approvals, notices>>
      PROVE  Grows
  <2>1. InvoiceOf(p) \in Invoices
    BY <1>4, CompletionRows
  <2>2. "paid" \in Statuses
    BY DEF Statuses, Terminal
  <2> QED BY <1>4, <2>1, <2>2, StatusGrows DEF CompletePlan
<1>5. ASSUME NEW c \in DOMAIN cases, NEW a, ApplySettlement(c, a), UNCHANGED <<paid, notices>>
      PROVE  Grows
  <2>1. cases[c].inv \in Invoices
    <3>1. cases[c] \in Case
      BY RowIds DEF TypeOK
    <3> QED BY <3>1 DEF Case
  <2>2. \E s \in {"written_off", "settled"} : status' = [status EXCEPT ![cases[c].inv] = s]
    BY <1>5 DEF ApplySettlement
  <2>3. {"written_off", "settled"} \subseteq Statuses
    BY DEF Statuses, Terminal
  <2> QED BY <1>5, <2>1, <2>2, <2>3, StatusGrows
<1>6. ASSUME NEW e \in Engines, TransitionToCollection(e) PROVE Grows
  <2>1. engine[e].inv \in Invoices /\ "in_collection" \in Statuses
    BY <1>6 DEF TransitionToCollection, EngineInv, RunOK, Statuses
  <2> QED BY <1>6, <2>1, StatusGrows DEF TransitionToCollection
<1>7. ASSUME NEW e \in Engines, CreateDunningAction(e) PROVE Grows
  <2>1. PICK m \in Milestones :
          /\ engine[e].pc \in {"acting", "recording"}
          /\ notices' = [notices EXCEPT ![engine[e].inv][m] = @ + 1]
          /\ UNCHANGED <<status, paid>>
    BY <1>7 DEF CreateDunningAction, invoiceVars
  <2> DEFINE i == engine[e].inv
  <2>2. i \in Invoices
    BY <2>1 DEF EngineInv, RunOK
  <2>3. notices \in [Invoices -> [Milestones -> Nat]] /\ paid \in [Invoices -> Nat]
    BY DEF TypeOK
  <2>4. \A k \in Milestones : notices'[i][k] = IF k = m THEN notices[i][k] + 1 ELSE notices[i][k]
    BY <2>1, <2>2, <2>3
  <2>5. \A j \in Invoices \ {i} : notices'[j] = notices[j]
    BY <2>1, <2>3
  <2>6. \A j \in Invoices, k \in Milestones : notices[j][k] \in Nat
    BY <2>3
  <2>7. \A j \in Invoices, k \in Milestones : notices'[j][k] >= notices[j][k]
    BY <2>4, <2>5, <2>6
  <2>8. \A j \in Invoices : paid'[j] >= paid[j]
    BY <2>1, <2>3
  <2> QED BY <2>1, <2>7, <2>8 DEF Grows
<1>8. ASSUME NEW q \in Payers,
             (\E i \in Invoices, a \in PayAmounts : InsertPayment(q, i, a)) \/ ReadTotals(q)
      PROVE  Grows
  BY <1>1, <1>8 DEF InsertPayment, ReadTotals, invoiceVars, tableVars
<1>9. ASSUME NEW n \in Planners,
             \/ \E c \in DOMAIN cases, t \in PlanTotals, k \in PlanCounts : CheckPlan(n, c, t, k)
             \/ InsertPlan(n)
      PROVE  Grows
  BY <1>1, <1>9 DEF CheckPlan, InsertPlan, invoiceVars, tableVars
<1>10. ASSUME NEW p \in DOMAIN plans,
              InstallmentFallsDue(p) \/ \E new \in {"completed", "breached"} : PatchPlan(p, new)
       PROVE  Grows
  BY <1>1, <1>4, <1>10 DEF InstallmentFallsDue, PatchPlan, invoiceVars, tableVars
<1>11. ASSUME NEW c \in DOMAIN cases, NEW a \in SettleAmounts, ProposeSettlement(c, a) PROVE Grows
  BY <1>1, <1>5, <1>11 DEF ProposeSettlement
<1>12. ASSUME NEW w \in DOMAIN approvals, NEW d, DecideApproval(w, d) PROVE Grows
  BY <1>1, <1>5, <1>12 DEF DecideApproval, TypeOK
<1>13. ASSUME NEW e \in Engines, DunningStep(e) PROVE Grows
  BY <1>1, <1>6, <1>7, <1>13
  DEF DunningStep, ListOverdue, TakeInvoice, FinishRun, HasDunningAction, FinishInvoice,
      invoiceVars, tableVars
<1>14. ASSUME NEW m \in Monitors, MonitorStep(m) PROVE Grows
  <2>1. monitor[m].todo \subseteq DOMAIN plans
    BY DEF MonitorInv
  <2> QED
    BY <1>1, <1>4, <1>14, <2>1
    DEF MonitorStep, ListPlans, ReadPlan, ApplyCompletion, ApplyBreach, FinishReview,
        invoiceVars, tableVars
<1>15. CASE Crash \/ UNCHANGED vars
  BY <1>1, <1>15 DEF Crash, vars, invoiceVars, tableVars
<1> QED
  BY <1>2, <1>3, <1>8, <1>9, <1>10, <1>11, <1>12, <1>13, <1>14, <1>15
  DEF Next, PaymentStep
-----------------------------------------------------------------------------
PayerMoves ==
    \E q \in Payers : \/ \E i \in Invoices, a \in PayAmounts : InsertPayment(q, i, a)
                     \/ PaymentStep(q)

(* What a payment in flight knows stays true while it waits. *)
LEMMA PayerStep ==
    ASSUME TypeOK, TypeOK', PayerInv, Grows,
           UNCHANGED payer \/ PayerMoves \/ Crash
    PROVE  PayerInv'
<1>1. payer \in [Payers -> Payment] /\ NoPayment \in Payment
  BY ProcessTypes DEF TypeOK
<1>2. ASSUME NEW q \in Payers, payer'[q] = payer[q] PROVE PaymentOK(payer[q])'
  <2> SUFFICES ASSUME payer[q].pc # "idle" PROVE PaymentOK(payer[q])'
    BY <1>2 DEF PaymentOK
  <2>1. PaymentOK(payer[q]) /\ payer[q].total \in Nat /\ payer[q].amount \in Nat
    BY <1>1 DEF PayerInv, Payment
  <2>2. payer[q].inv \in Invoices /\ status'[payer[q].inv] # "absent"
    BY <2>1 DEF PaymentOK, Grows
  <2>3. paid[payer[q].inv] \in Nat /\ paid'[payer[q].inv] \in Nat
        /\ paid'[payer[q].inv] >= paid[payer[q].inv]
    BY <2>2 DEF Grows, TypeOK
  <2>4. payer[q].total <= paid[payer[q].inv] + payer[q].amount
          => payer[q].total <= paid'[payer[q].inv] + payer[q].amount
    BY <2>1, <2>3
  <2> QED BY <1>2, <2>1, <2>2, <2>4 DEF PaymentOK
<1>3. NoPayment.pc = "idle"
  BY DEF NoPayment
<1>4. ASSUME NEW q \in Payers, NEW i \in Invoices, NEW a \in PayAmounts, InsertPayment(q, i, a)
      PROVE  PayerInv'
  <2> DEFINE v == [NoPayment EXCEPT !.pc = "inserted", !.inv = i, !.amount = a]
  <2>1. payer' = [payer EXCEPT ![q] = v] /\ status'[i] # "absent"
    BY <1>4 DEF InsertPayment, invoiceVars
  <2>2. v.pc = "inserted" /\ v.inv = i
    BY <1>1 DEF Payment
  <2> HIDE DEF v
  <2>3. PaymentOK(payer[q])'
    BY <1>1, <2>1, <2>2 DEF PaymentOK
  <2>4. \A r \in Payers \ {q} : payer'[r] = payer[r]
    BY <1>1, <2>1
  <2> QED BY <1>2, <2>3, <2>4 DEF PayerInv
<1>5. ASSUME NEW q \in Payers, ReadTotals(q) PROVE PayerInv'
  <2> DEFINE i == payer[q].inv
             v == [payer[q] EXCEPT !.pc = "read", !.seen = status[i],
                                   !.total = paid[i] + payer[q].amount]
  <2>1. payer' = [payer EXCEPT ![q] = v] /\ UNCHANGED <<status, paid>>
    BY <1>5 DEF ReadTotals, invoiceVars
  <2>2. i \in Invoices /\ status[i] # "absent" /\ payer[q].amount \in Nat
    BY <1>1, <1>5 DEF ReadTotals, PayerInv, PaymentOK, Payment
  <2>a. status[i] \in Statuses /\ paid[i] \in Nat
    BY <2>2 DEF TypeOK
  <2>3. status[i] \in Statuses /\ paid[i] + payer[q].amount \in Nat
    BY <2>2, <2>a
  <2>4. v.inv = i /\ v.seen = status[i] /\ v.total = paid[i] + payer[q].amount
        /\ v.amount = payer[q].amount
    BY <1>1 DEF Payment
  <2> HIDE DEF v
  <2>5. payer'[q] = v
    BY <1>1, <2>1
  <2>6. v.total <= paid[i] + v.amount
    BY <2>3, <2>4
  <2>7. PaymentOK(payer[q])'
    BY <2>1, <2>2, <2>3, <2>4, <2>5, <2>6 DEF PaymentOK
  <2>8. \A r \in Payers \ {q} : payer'[r] = payer[r]
    BY <1>1, <2>1
  <2> QED BY <1>2, <2>7, <2>8 DEF PayerInv
<1>6. ASSUME NEW q \in Payers, SettlePayment(q) PROVE PayerInv'
  <2>1. payer' = [payer EXCEPT ![q] = NoPayment]
    BY <1>6 DEF SettlePayment
  <2>2. PaymentOK(payer[q])' /\ \A r \in Payers \ {q} : payer'[r] = payer[r]
    BY <1>1, <1>3, <2>1 DEF PaymentOK
  <2> QED BY <1>2, <2>2 DEF PayerInv
<1>7. CASE Crash
  BY <1>3, <1>7 DEF Crash, PayerInv, PaymentOK
<1>8. CASE UNCHANGED payer
  BY <1>2, <1>8 DEF PayerInv
<1> QED BY <1>4, <1>5, <1>6, <1>7, <1>8 DEF PayerMoves, PaymentStep

PlannerMoves ==
    \E n \in Planners :
        \/ \E c \in DOMAIN cases, t \in PlanTotals, k \in PlanCounts : CheckPlan(n, c, t, k)
        \/ InsertPlan(n)

(* A plan that was checked can still be inserted: its case exists. *)
LEMMA PlannerStep ==
    ASSUME TypeOK, PlannerInv, RowsKept,
           UNCHANGED planner \/ PlannerMoves \/ Crash
    PROVE  PlannerInv'
<1>1. planner \in [Planners -> Request] /\ NoRequest.pc = "idle"
  BY DEF TypeOK, NoRequest
<1>2. ASSUME NEW n \in Planners, planner'[n] = planner[n] PROVE RequestOK(planner[n])'
  BY <1>2 DEF PlannerInv, RequestOK, RowsKept
<1>3. ASSUME NEW n \in Planners, NEW v, planner' = [planner EXCEPT ![n] = v], RequestOK(v)'
      PROVE  PlannerInv'
  <2>1. planner'[n] = v /\ \A k \in Planners \ {n} : planner'[k] = planner[k]
    BY <1>1, <1>3
  <2> QED BY <1>2, <1>3, <2>1 DEF PlannerInv
<1>4. ASSUME NEW n \in Planners, NEW c \in DOMAIN cases, NEW t \in PlanTotals, NEW k \in PlanCounts,
             CheckPlan(n, c, t, k)
      PROVE  PlannerInv'
  <2> DEFINE v == [pc |-> "checked", case |-> c, total |-> t, count |-> k]
  <2>1. RequestOK(v)'
    BY ReceivablesAssumption DEF RequestOK, RowsKept
  <2> QED BY <1>3, <1>4, <2>1 DEF CheckPlan
<1>5. ASSUME NEW n \in Planners, InsertPlan(n) PROVE PlannerInv'
  <2>1. RequestOK(NoRequest)'
    BY <1>1 DEF RequestOK
  <2> QED BY <1>3, <1>5, <2>1 DEF InsertPlan
<1>6. CASE Crash
  BY <1>1, <1>6 DEF Crash, PlannerInv, RequestOK
<1>7. CASE UNCHANGED planner
  BY <1>2, <1>7 DEF PlannerInv
<1> QED BY <1>4, <1>5, <1>6, <1>7 DEF PlannerMoves

(* The plans a run of the monitor has listed go on existing. *)
LEMMA MonitorKept ==
    ASSUME TypeOK, MonitorInv, RowsKept,
           UNCHANGED monitor \/ (\E m \in Monitors : MonitorStep(m)) \/ Crash
    PROVE  MonitorInv'
<1>1. monitor \in [Monitors -> Review] /\ NoReview.todo = {}
  BY DEF TypeOK, NoReview
<1>2. ASSUME NEW m \in Monitors, NEW v, monitor' = [monitor EXCEPT ![m] = v],
             v.todo \subseteq DOMAIN plans
      PROVE  MonitorInv'
  BY <1>1, <1>2 DEF MonitorInv, RowsKept
<1>3. ASSUME NEW m \in Monitors, NEW p, NextPlan(m, p) PROVE MonitorInv'
  <2> DEFINE v == [pc |-> "listed", todo |-> monitor[m].todo \ {p}]
  <2>1. v.todo \subseteq DOMAIN plans
    BY DEF MonitorInv
  <2>2. monitor' = [monitor EXCEPT ![m] = v]
    BY <1>3 DEF NextPlan
  <2> HIDE DEF v
  <2> QED BY <1>2, <2>1, <2>2
<1>4. ASSUME NEW m \in Monitors, ListPlans(m) PROVE MonitorInv'
  <2> DEFINE v == [pc |-> "listed",
                   todo |-> {p \in DOMAIN plans : plans[p].status \in {"current", "breached"}}]
  <2>1. v.todo \subseteq DOMAIN plans
    OBVIOUS
  <2>2. monitor' = [monitor EXCEPT ![m] = v]
    BY <1>4 DEF ListPlans
  <2> HIDE DEF v
  <2> QED BY <1>2, <2>1, <2>2
<1>5. ASSUME NEW m \in Monitors, NEW s, monitor' = [monitor EXCEPT ![m].pc = s] PROVE MonitorInv'
  <2>1. [monitor[m] EXCEPT !.pc = s].todo = monitor[m].todo
    BY <1>1 DEF Review
  <2> QED BY <1>2, <1>5, <2>1 DEF MonitorInv
<1>6. ASSUME NEW m \in Monitors, monitor' = [monitor EXCEPT ![m] = NoReview] PROVE MonitorInv'
  BY <1>1, <1>2, <1>6
<1>7. ASSUME NEW m \in Monitors, MonitorStep(m) PROVE MonitorInv'
  BY <1>3, <1>4, <1>5, <1>6, <1>7
  DEF MonitorStep, ReadPlan, ApplyCompletion, ApplyBreach, FinishReview
<1>8. CASE UNCHANGED monitor
  BY <1>8 DEF MonitorInv, RowsKept
<1>9. CASE Crash
  BY <1>1, <1>9 DEF Crash, MonitorInv
<1> QED BY <1>7, <1>8, <1>9

(* What a statement of run e of the dunning job does: v is its next state. *)
RunEffect(e, v) ==
    LET run == engine[e]
        found == IF notices[run.inv][run.next] > 0 THEN {run.next} ELSE {}
    IN  \/ /\ v.pc \in {"idle", "listed"} /\ v.inv = None /\ v.existing = {}
           /\ UNCHANGED notices
        \/ /\ v.pc = "reading" /\ v.inv \in Invoices /\ v.next = 1 /\ v.existing = {}
           /\ UNCHANGED notices
        \/ /\ run.pc = "reading" /\ v.pc = (IF run.next = 4 THEN "acting" ELSE "reading")
           /\ v.inv = run.inv /\ v.next = run.next + 1 /\ v.existing = run.existing \cup found
           /\ UNCHANGED notices
        \/ /\ run.pc = "acting" /\ v.pc = "recording"
           /\ v.inv = run.inv /\ v.next = run.next /\ v.existing = run.existing
           /\ UNCHANGED notices
        \/ \E m \in Milestones :
              /\ IsNextMilestone(e, m)
              /\ run.pc \in {"acting", "recording"} /\ v.pc = "acting"
              /\ v.inv = run.inv /\ v.next = run.next /\ v.existing = run.existing \cup {m}
              /\ notices' = [notices EXCEPT ![run.inv][m] = @ + 1]

(* The statements of a run, in these words. *)
LEMMA RunEffects ==
    ASSUME TypeOK, NEW e \in Engines, DunningStep(e)
    PROVE  \E v : engine' = [engine EXCEPT ![e] = v] /\ RunEffect(e, v)
<1>1. /\ engine[e] \in Dunning /\ NoDunning \in Dunning
      /\ NoDunning.pc = "idle" /\ NoDunning.inv = None /\ NoDunning.existing = {}
      /\ NoDunning.next = 1
  BY ProcessTypes DEF TypeOK, NoDunning
<1>2. CASE ListOverdue(e)
  <2> DEFINE list == {[inv |-> i, age |-> age[i], paused |-> Paused(i)] :
                        i \in {j \in Invoices : Dunnable(j)}}
             v == [NoDunning EXCEPT !.pc = "listed", !.todo = list]
  <2>1. engine' = [engine EXCEPT ![e] = v] /\ UNCHANGED notices
    BY <1>2 DEF ListOverdue, tableVars
  <2> HIDE DEF list
  <2>2. v.pc = "listed" /\ v.inv = None /\ v.existing = {}
    BY <1>1 DEF Dunning
  <2> HIDE DEF v
  <2> QED BY <2>1, <2>2 DEF RunEffect
<1>3. ASSUME NEW s \in engine[e].todo, TakeInvoice(e, s)
      PROVE  \E v : engine' = [engine EXCEPT ![e] = v] /\ RunEffect(e, v)
  <2> DEFINE to == IF s.paused THEN "listed" ELSE "reading"
             inv == IF s.paused THEN None ELSE s.inv
             days == IF s.paused THEN 0 ELSE s.age
             v == [NoDunning EXCEPT !.pc = to, !.todo = engine[e].todo \ {s}, !.inv = inv, !.age = days]
  <2>1. engine' = [engine EXCEPT ![e] = v] /\ UNCHANGED notices
    BY <1>3 DEF TakeInvoice, tableVars
  <2>2. s.inv \in Invoices
    BY <1>1 DEF Dunning, Listed
  <2>3. (to = "listed" /\ inv = None) \/ (to = "reading" /\ inv \in Invoices)
    <3>1. CASE s.paused
      BY <3>1
    <3>2. CASE ~ s.paused
      BY <2>2, <3>2
    <3> QED BY <3>1, <3>2
  <2> HIDE DEF to, inv, days
  <2>4. v.pc = to /\ v.inv = inv /\ v.existing = {} /\ v.next = 1
    BY <1>1 DEF Dunning
  <2> HIDE DEF v
  <2> QED BY <2>1, <2>3, <2>4 DEF RunEffect
<1>4. CASE FinishRun(e)
  BY <1>1, <1>4 DEF FinishRun, RunEffect, tableVars
<1>5. CASE HasDunningAction(e)
  <2> DEFINE run == engine[e]
             found == IF notices[run.inv][run.next] > 0 THEN {run.next} ELSE {}
             to == IF run.next = 4 THEN "acting" ELSE "reading"
             v == [run EXCEPT !.existing = run.existing \cup found, !.next = run.next + 1, !.pc = to]
  <2>1. engine' = [engine EXCEPT ![e] = v] /\ UNCHANGED notices /\ run.pc = "reading"
    BY <1>5 DEF HasDunningAction, tableVars
  <2>2. v.pc = to /\ v.inv = run.inv /\ v.next = run.next + 1 /\ v.existing = run.existing \cup found
    BY <1>1 DEF Dunning
  <2> HIDE DEF v
  <2> QED BY <2>1, <2>2 DEF RunEffect
<1>6. CASE TransitionToCollection(e)
  <2> DEFINE run == engine[e]
             v == [run EXCEPT !.pc = "recording"]
  <2>1. engine' = [engine EXCEPT ![e] = v] /\ UNCHANGED notices /\ run.pc = "acting"
    BY <1>6 DEF TransitionToCollection
  <2>2. v.pc = "recording" /\ v.inv = run.inv /\ v.next = run.next /\ v.existing = run.existing
    BY <1>1 DEF Dunning
  <2> HIDE DEF v
  <2> QED BY <2>1, <2>2 DEF RunEffect
<1>7. CASE CreateDunningAction(e)
  <2>1. PICK m \in Milestones :
          /\ IsNextMilestone(e, m) /\ engine[e].pc \in {"acting", "recording"}
          /\ notices' = [notices EXCEPT ![engine[e].inv][m] = @ + 1]
          /\ engine' = [engine EXCEPT ![e] =
                 [engine[e] EXCEPT !.existing = engine[e].existing \cup {m}, !.pc = "acting"]]
    BY <1>7 DEF CreateDunningAction
  <2> DEFINE run == engine[e]
             v == [run EXCEPT !.existing = run.existing \cup {m}, !.pc = "acting"]
  <2>2. v.pc = "acting" /\ v.inv = run.inv /\ v.next = run.next /\ v.existing = run.existing \cup {m}
    BY <1>1 DEF Dunning
  <2>3. engine' = [engine EXCEPT ![e] = v]
    BY <2>1
  <2> HIDE DEF v
  <2> QED BY <2>1, <2>2, <2>3 DEF RunEffect
<1>8. CASE FinishInvoice(e)
  <2> DEFINE v == [NoDunning EXCEPT !.pc = "listed", !.todo = engine[e].todo]
  <2>1. engine' = [engine EXCEPT ![e] = v] /\ UNCHANGED notices
    BY <1>8 DEF FinishInvoice, tableVars
  <2>2. v.pc = "listed" /\ v.inv = None /\ v.existing = {}
    BY <1>1 DEF Dunning
  <2> HIDE DEF v
  <2> QED BY <2>1, <2>2 DEF RunEffect
<1> QED BY <1>2, <1>3, <1>4, <1>5, <1>6, <1>7, <1>8 DEF DunningStep

(* What a run of the dunning job has read of its invoice's notices stays   *)
(* true, and it acts only when it has read all four.                       *)
LEMMA EngineStep ==
    ASSUME TypeOK, TypeOK', EngineInv, Grows,
           UNCHANGED engine \/ (\E e \in Engines : DunningStep(e)) \/ Crash
    PROVE  EngineInv'
<1>1. engine \in [Engines -> Dunning] /\ notices \in [Invoices -> [Milestones -> Nat]]
  BY DEF TypeOK
<1>2. ASSUME NEW r \in Dunning, RunOK(r, notices) PROVE RunOK(r, notices')
  <2>1. \A m \in r.existing : m \in Milestones /\ r.inv \in Invoices
    BY <1>2 DEF Dunning, RunOK
  <2>2. \A i \in Invoices, m \in Milestones : notices[i][m] > 0 => notices'[i][m] > 0
    <3>1. \A i \in Invoices, m \in Milestones : notices[i][m] \in Nat /\ notices'[i][m] \in Nat
      BY DEF TypeOK
    <3>2. \A i \in Invoices, m \in Milestones : notices'[i][m] >= notices[i][m]
      BY DEF Grows
    <3> QED BY <3>1, <3>2
  <2> QED BY <1>2, <2>1, <2>2 DEF RunOK
<1>3. ASSUME NEW e \in Engines, DunningStep(e) PROVE EngineInv'
  <2>1. PICK v : engine' = [engine EXCEPT ![e] = v] /\ RunEffect(e, v)
    BY <1>3, RunEffects
  <2>2. engine'[e] = v /\ \A k \in Engines \ {e} : engine'[k] = engine[k]
    BY <1>1, <2>1
  <2> DEFINE run == engine[e]
  <2>3. run \in Dunning /\ RunOK(run, notices) /\ RunOK(run, notices')
    BY <1>1, <1>2 DEF EngineInv
  <2>4. RunOK(v, notices')
    <3>1. CASE v.pc \in {"idle", "listed"} /\ v.inv = None /\ v.existing = {}
      BY <3>1 DEF RunOK
    <3>2. CASE v.pc = "reading" /\ v.inv \in Invoices /\ v.next = 1 /\ v.existing = {}
      BY <3>2 DEF RunOK, Milestones
    <3>3. ASSUME NEW found, \A m \in found : m = run.next /\ notices[run.inv][m] > 0,
                 run.pc = "reading", v.pc = (IF run.next = 4 THEN "acting" ELSE "reading"),
                 v.inv = run.inv, v.next = run.next + 1, v.existing = run.existing \cup found,
                 UNCHANGED notices
          PROVE  RunOK(v, notices')
      <4>1. run.inv \in Invoices /\ run.next \in Milestones
        BY <2>3, <3>3 DEF RunOK
      <4>2. (v.pc = "acting" /\ v.next = 5) \/ (v.pc = "reading" /\ v.next \in Milestones)
        BY <3>3, <4>1 DEF Milestones
      <4>3. \A m \in v.existing : m < v.next
        BY <2>3, <3>3, <4>1 DEF Milestones, RunOK, Dunning
      <4>4. \A m \in v.existing : notices'[v.inv][m] > 0
        BY <2>3, <3>3 DEF RunOK
      <4> QED BY <3>3, <4>1, <4>2, <4>3, <4>4 DEF RunOK
    <3>4. CASE /\ run.pc = "acting" /\ v.pc = "recording"
               /\ v.inv = run.inv /\ v.next = run.next /\ v.existing = run.existing
      BY <2>3, <3>4 DEF RunOK
    <3>5. ASSUME NEW m \in Milestones, run.pc \in {"acting", "recording"}, v.pc = "acting",
                 v.inv = run.inv, v.next = run.next, v.existing = run.existing \cup {m},
                 notices' = [notices EXCEPT ![run.inv][m] = @ + 1]
          PROVE  RunOK(v, notices')
      <4>1. run.inv \in Invoices /\ run.next = 5
        BY <2>3, <3>5 DEF RunOK
      <4>2. notices[run.inv][m] \in Nat /\ notices'[run.inv][m] = notices[run.inv][m] + 1
        BY <1>1, <3>5, <4>1
      <4>3. notices'[run.inv][m] > 0 /\ m < 5
        BY <4>2 DEF Milestones
      <4> QED BY <2>3, <3>5, <4>1, <4>3 DEF RunOK
    <3> QED BY <2>1, <3>1, <3>2, <3>3, <3>4, <3>5 DEF RunEffect
  <2>5. \A k \in Engines : RunOK(engine'[k], notices')
    BY <1>1, <1>2, <2>2, <2>4 DEF EngineInv
  <2> QED BY <2>5 DEF EngineInv
<1>4. CASE UNCHANGED engine
  <2>1. \A k \in Engines : RunOK(engine'[k], notices')
    BY <1>1, <1>2, <1>4 DEF EngineInv
  <2> QED BY <2>1 DEF EngineInv
<1>5. CASE Crash
  BY <1>5 DEF Crash, EngineInv, RunOK, NoDunning
<1> QED BY <1>3, <1>4, <1>5

(* A step is one request's, one run's, or nobody's, and the others wait. *)
LEMMA WhoMoves ==
    ASSUME [Next]_vars
    PROVE  /\ UNCHANGED payer \/ PayerMoves \/ Crash
           /\ UNCHANGED planner \/ PlannerMoves \/ Crash
           /\ UNCHANGED engine \/ (\E e \in Engines : DunningStep(e)) \/ Crash
           /\ UNCHANGED monitor \/ (\E m \in Monitors : MonitorStep(m)) \/ Crash
<1>1. ASSUME NEW e \in Engines, DunningStep(e) PROVE UNCHANGED <<payer, planner, monitor>>
  BY <1>1
  DEF DunningStep, ListOverdue, TakeInvoice, FinishRun, HasDunningAction, TransitionToCollection,
      CreateDunningAction, FinishInvoice
<1>2. ASSUME NEW m \in Monitors, MonitorStep(m) PROVE UNCHANGED <<payer, planner, engine>>
  BY <1>2 DEF MonitorStep, ListPlans, ReadPlan, ApplyCompletion, ApplyBreach, FinishReview
<1>3. ASSUME PayerMoves PROVE UNCHANGED <<planner, engine, monitor>>
  BY <1>3 DEF PayerMoves, InsertPayment, PaymentStep, ReadTotals, SettlePayment
<1>4. ASSUME PlannerMoves PROVE UNCHANGED <<payer, engine, monitor>>
  BY <1>4 DEF PlannerMoves, CheckPlan, InsertPlan
<1>5. ASSUME \/ \E i \in Invoices, send \in BOOLEAN : CreateInvoice(i, send)
             \/ \E i \in Invoices : SendInvoice(i) \/ DayPasses(i)
             \/ \E p \in DOMAIN plans : \/ InstallmentFallsDue(p)
                                       \/ \E new \in {"completed", "breached"} : PatchPlan(p, new)
             \/ \E c \in DOMAIN cases, a \in SettleAmounts : ProposeSettlement(c, a)
             \/ \E w \in DOMAIN approvals, d \in {"approved", "rejected"} : DecideApproval(w, d)
             \/ UNCHANGED vars
      PROVE  UNCHANGED <<payer, planner, engine, monitor>>
  BY <1>5 DEF CreateInvoice, SendInvoice, DayPasses, InstallmentFallsDue, PatchPlan,
             ProposeSettlement, DecideApproval, vars, processVars
<1> QED BY <1>1, <1>2, <1>3, <1>4, <1>5 DEF Next, PayerMoves, PlannerMoves

(* Every statement keeps what the requests and the runs know. *)
LEMMA ProcessStep == TypeOK /\ ProcessInv /\ [Next]_vars => ProcessInv' /\ TypeOK' /\ RowsKept /\ Grows
<1> SUFFICES ASSUME TypeOK, ProcessInv, [Next]_vars
             PROVE  ProcessInv' /\ TypeOK' /\ RowsKept /\ Grows
  OBVIOUS
<1>1. TypeOK' /\ RowsKept /\ Grows
  BY TypeStep, GrowStep
<1>2. /\ UNCHANGED payer \/ PayerMoves \/ Crash
      /\ UNCHANGED planner \/ PlannerMoves \/ Crash
      /\ UNCHANGED engine \/ (\E e \in Engines : DunningStep(e)) \/ Crash
      /\ UNCHANGED monitor \/ (\E m \in Monitors : MonitorStep(m)) \/ Crash
  BY WhoMoves
<1>3. PayerInv'
  BY <1>1, <1>2, PayerStep DEF ProcessInv
<1>4. PlannerInv'
  BY <1>1, <1>2, PlannerStep DEF ProcessInv
<1>5. EngineInv'
  BY <1>1, <1>2, EngineStep DEF ProcessInv
<1>6. MonitorInv'
  BY <1>1, <1>2, MonitorKept DEF ProcessInv
<1> QED BY <1>1, <1>3, <1>4, <1>5, <1>6 DEF ProcessInv

-----------------------------------------------------------------------------
(* How a case and the status of its invoice go together. *)
Fits(row, s) ==
    \/ row.status = "open" /\ s \in {"in_collection", "paid"}
    \/ row.status = "resolved" /\ row.resolution = "payment_plan" /\ s = "paid"
    \/ row.status = "resolved" /\ row.resolution = "settlement" /\ s = "settled"
    \/ row.status = "written_off" /\ s = "written_off"

(* The agreement of cases and invoices, case by case. *)
LEMMA Agreement ==
    CaseAgreesWithInvoice
      <=> /\ \A i \in Invoices : status[i] = "in_collection" =>
                \E c \in DOMAIN cases : cases[c].inv = i /\ cases[c].status = "open"
          /\ \A c \in DOMAIN cases : Fits(cases[c], status[cases[c].inv])
  BY DEF CaseAgreesWithInvoice, OpenCases, Fits

(* The same of the next state. *)
LEMMA AgreementNext ==
    CaseAgreesWithInvoice'
      <=> /\ \A i \in Invoices : status'[i] = "in_collection" =>
                \E c \in DOMAIN cases' : cases'[c].inv = i /\ cases'[c].status = "open"
          /\ \A c \in DOMAIN cases' : Fits(cases'[c], status'[cases'[c].inv])
  BY DEF CaseAgreesWithInvoice, OpenCases, Fits

(* An invoice that has not reached collection has no case. *)
LEMMA NoCaseYet ==
    ASSUME LedgerInv, NEW i \in Invoices,
           status[i] \notin {"in_collection", "paid", "settled", "written_off"}
    PROVE  \A c \in DOMAIN cases : cases[c].inv # i
  BY Agreement DEF LedgerInv, Fits

(* A step that writes the cases and the requests to nobody. *)
LEMMA LedgerFrame ==
    ASSUME LedgerInv, UNCHANGED <<status, cases, approvals>>
    PROVE  LedgerInv'
  BY DEF LedgerInv, CaseAgreesWithInvoice, OpenCases, OneCasePerInvoice, DecisionInv, Decided, ApprovedFor

(* A step that only writes a status: to an invoice without a case, or, as  *)
(* a payment does, 'paid' to one that is not settled or written off.       *)
LEMMA StatusWritten ==
    ASSUME TypeOK, LedgerInv, NEW i \in Invoices, NEW s \in Statuses \ {"in_collection"},
           \/ status[i] \notin {"in_collection", "paid", "settled", "written_off"}
           \/ s = "paid" /\ status[i] \notin {"settled", "written_off"},
           status' = [status EXCEPT ![i] = s], UNCHANGED <<cases, approvals>>
    PROVE  LedgerInv'
<1>1. status'[i] = s /\ \A j \in Invoices \ {i} : status'[j] = status[j]
  BY DEF TypeOK
<1>2. \A c \in DOMAIN cases : cases[c].inv \in Invoices
  <2>1. \A c \in DOMAIN cases : cases[c] \in Case
    BY RowIds DEF TypeOK
  <2> QED BY <2>1 DEF Case
<1>3. \A c \in DOMAIN cases : Fits(cases[c], status'[cases[c].inv])
  <2> SUFFICES ASSUME NEW c \in DOMAIN cases PROVE Fits(cases[c], status'[cases[c].inv])
    OBVIOUS
  <2>1. CASE cases[c].inv # i
    BY <1>1, <1>2, <2>1, Agreement DEF LedgerInv
  <2>2. CASE cases[c].inv = i
    <3>1. s = "paid" /\ status[i] \notin {"settled", "written_off"}
      BY <2>2, NoCaseYet
    <3>2. Fits(cases[c], status[i])
      BY <2>2, Agreement DEF LedgerInv
    <3> QED BY <1>1, <2>2, <3>1, <3>2 DEF Fits
  <2> QED BY <2>1, <2>2
<1>4. CaseAgreesWithInvoice'
  BY <1>1, <1>3, Agreement, AgreementNext DEF LedgerInv
<1> QED BY <1>4 DEF LedgerInv, OneCasePerInvoice, DecisionInv, Decided, ApprovedFor

(* The completion of a plan closes the one case of an invoice that is in   *)
(* collection or already paid.                                             *)
LEMMA CompletionLedger ==
    ASSUME TypeOK, LedgerInv, NEW p \in DOMAIN plans, CanComplete(p), CompletePlan(p),
           UNCHANGED approvals
    PROVE  LedgerInv'
<1> DEFINE c == plans[p].case
           i == InvoiceOf(p)
<1>1. /\ c \in DOMAIN cases /\ i \in Invoices /\ i = cases[c].inv
      /\ DOMAIN cases' = DOMAIN cases
      /\ cases'[c] = CompletedCase(c) /\ \A k \in DOMAIN cases \ {c} : cases'[k] = cases[k]
  BY CompletionRows DEF InvoiceOf
<1>2. cases[c] \in Case
  BY <1>1, RowIds DEF TypeOK
<1>3. /\ cases'[c].inv = i /\ cases'[c].status = "resolved"
      /\ cases'[c].resolution = "payment_plan" /\ cases'[c].settled = cases[c].settled
  BY <1>1, <1>2 DEF CompletedCase, Case
<1>4. status'[i] = "paid" /\ \A j \in Invoices \ {i} : status'[j] = status[j]
  BY <1>1 DEF CompletePlan, TypeOK
<1>5. \A k \in DOMAIN cases : cases[k].inv \in Invoices
  <2>1. \A k \in DOMAIN cases : cases[k] \in Case
    BY RowIds DEF TypeOK
  <2> QED BY <2>1 DEF Case
<1>6. \A k \in DOMAIN cases \ {c} : cases[k].inv # i
  BY <1>1 DEF LedgerInv, OneCasePerInvoice
<1>7. CaseAgreesWithInvoice'
  <2>1. \A k \in DOMAIN cases \ {c} : Fits(cases'[k], status'[cases'[k].inv])
    BY <1>1, <1>4, <1>5, <1>6, Agreement DEF LedgerInv
  <2>2. Fits(cases'[c], status'[cases'[c].inv])
    BY <1>3, <1>4 DEF Fits
  <2>3. \A j \in Invoices : status'[j] = "in_collection" =>
           \E k \in DOMAIN cases' : cases'[k].inv = j /\ cases'[k].status = "open"
    <3> SUFFICES ASSUME NEW j \in Invoices, status'[j] = "in_collection"
                 PROVE  \E k \in DOMAIN cases' : cases'[k].inv = j /\ cases'[k].status = "open"
      OBVIOUS
    <3>1. j # i /\ status[j] = "in_collection"
      BY <1>4
    <3>2. PICK k \in DOMAIN cases : cases[k].inv = j /\ cases[k].status = "open"
      BY <3>1, Agreement DEF LedgerInv
    <3> QED BY <1>1, <3>1, <3>2
  <2> QED BY <1>1, <2>1, <2>2, <2>3, AgreementNext
<1>8. OneCasePerInvoice'
  BY <1>1, <1>3 DEF LedgerInv, OneCasePerInvoice
<1>9. DecisionInv'
  BY <1>1, <1>3 DEF LedgerInv, DecisionInv, Decided, ApprovedFor, Remaining
<1> QED BY <1>7, <1>8, <1>9 DEF LedgerInv

(* A settlement closes an open case whose invoice is in collection; what   *)
(* it says of requests depends on how it came about.                       *)
LEMMA SettlementLedger ==
    ASSUME TypeOK, LedgerInv, NEW c \in DOMAIN cases, NEW a \in Nat \ {0},
           cases[c].status = "open", ApplySettlement(c, a),
           \A k \in DOMAIN cases \ {c} : ApprovedFor(k)' = ApprovedFor(k)
                                         /\ \A w \in ApprovedFor(k) : approvals'[w] = approvals[w],
           \A v, w \in ApprovedFor(c)' : v = w,
           \A w \in ApprovedFor(c)' : approvals'[w].amount = a,
           Remaining(cases[c].inv, a) > Threshold => ApprovedFor(c)' # {}
    PROVE  LedgerInv'
<1> DEFINE i == cases[c].inv
           s == SettledStatus(i, a)
<1>1. /\ cases[c] \in Case /\ DOMAIN cases' = DOMAIN cases
      /\ cases'[c] = SettledCase(c, a) /\ \A k \in DOMAIN cases \ {c} : cases'[k] = cases[k]
      /\ Allowed(status[i], s) /\ status' = [status EXCEPT ![i] = s]
  BY SettlementRows
<1>2. i \in Invoices
  BY <1>1 DEF Case
<1>3. s \in {"settled", "written_off"}
  BY DEF SettledStatus
<1>4. /\ cases'[c].inv = i /\ cases'[c].settled = a /\ cases'[c].resolution = "settlement"
      /\ cases'[c].status = IF s = "settled" THEN "resolved" ELSE "written_off"
  BY <1>1 DEF SettledCase, Case
<1> HIDE DEF s
<1>5. status'[i] = s /\ \A j \in Invoices \ {i} : status'[j] = status[j]
  BY <1>1, <1>2 DEF TypeOK
<1>6. \A k \in DOMAIN cases : cases[k].inv \in Invoices
  <2>1. \A k \in DOMAIN cases : cases[k] \in Case
    BY RowIds DEF TypeOK
  <2> QED BY <2>1 DEF Case
<1>7. \A k \in DOMAIN cases \ {c} : cases[k].inv # i
  BY DEF LedgerInv, OneCasePerInvoice
<1>8. CaseAgreesWithInvoice'
  <2>1. \A k \in DOMAIN cases \ {c} : Fits(cases'[k], status'[cases'[k].inv])
    BY <1>1, <1>5, <1>6, <1>7, Agreement DEF LedgerInv
  <2>2. Fits(cases'[c], status'[cases'[c].inv])
    <3>1. CASE s = "settled"
      BY <1>4, <1>5, <3>1 DEF Fits
    <3>2. CASE s = "written_off"
      BY <1>4, <1>5, <3>2 DEF Fits
    <3> QED BY <1>3, <3>1, <3>2
  <2>3. \A j \in Invoices : status'[j] = "in_collection" =>
           \E k \in DOMAIN cases' : cases'[k].inv = j /\ cases'[k].status = "open"
    <3> SUFFICES ASSUME NEW j \in Invoices, status'[j] = "in_collection"
                 PROVE  \E k \in DOMAIN cases' : cases'[k].inv = j /\ cases'[k].status = "open"
      OBVIOUS
    <3>1. j # i /\ status[j] = "in_collection"
      BY <1>3, <1>5
    <3>2. PICK k \in DOMAIN cases : cases[k].inv = j /\ cases[k].status = "open"
      BY <3>1, Agreement DEF LedgerInv
    <3> QED BY <1>1, <3>1, <3>2
  <2> QED BY <1>1, <2>1, <2>2, <2>3, AgreementNext
<1>9. OneCasePerInvoice'
  BY <1>1, <1>4 DEF LedgerInv, OneCasePerInvoice
<1>10. DecisionInv'
  <2>1. cases'[c].status # "open"
    BY <1>3, <1>4
  <2>2. ASSUME NEW k \in DOMAIN cases \ {c}
        PROVE  Decided(cases'[k], ApprovedFor(k)', approvals')
    BY <1>1 DEF LedgerInv, DecisionInv, Decided
  <2> QED BY <1>1, <1>4, <2>1, <2>2 DEF DecisionInv, Decided
<1> QED BY <1>8, <1>9, <1>10 DEF LedgerInv

(* The transition to collection opens a case where the invoice has none:   *)
(* one that is not in collection yet never had a case.                     *)
LEMMA TransitionLedger ==
    ASSUME TypeOK, EngineInv, LedgerInv, NEW e \in Engines, TransitionToCollection(e)
    PROVE  LedgerInv'
<1> DEFINE i == engine[e].inv
           row == [inv |-> i, status |-> "open", resolution |-> None, settled |-> 0]
<1>1. i \in Invoices
  BY DEF TransitionToCollection, EngineInv, RunOK
<1>2. \/ UNCHANGED <<status, cases>>
      \/ /\ Allowed(status[i], "in_collection")
         /\ status' = [status EXCEPT ![i] = "in_collection"]
         /\ \/ UNCHANGED cases /\ OpenCases(i) # {}
            \/ cases' = Append(cases, row) /\ OpenCases(i) = {}
  BY DEF TransitionToCollection
<1>3. UNCHANGED approvals /\ row \in Case
  BY <1>1 DEF TransitionToCollection, Case
<1>4. row.inv = i /\ row.status = "open" /\ row.settled = 0
  OBVIOUS
<1> HIDE DEF row
<1>5. Allowed(status[i], "in_collection") => status[i] \in {"partial_paid", "overdue", "in_collection"}
  BY DEF Allowed, Terminal
<1>6. CASE UNCHANGED <<status, cases>>
  BY <1>3, <1>6, LedgerFrame
<1>7. CASE /\ status' = [status EXCEPT ![i] = "in_collection"]
           /\ UNCHANGED cases /\ OpenCases(i) # {}
           /\ Allowed(status[i], "in_collection")
  <2>1. PICK c \in DOMAIN cases : cases[c].inv = i /\ cases[c].status = "open"
    BY <1>7 DEF OpenCases
  <2>2. status[i] = "in_collection"
    BY <1>1, <1>5, <1>7, <2>1, Agreement DEF LedgerInv, Fits
  <2>3. status' = status
    BY <1>7, <2>2 DEF TypeOK
  <2> QED BY <1>3, <1>7, <2>3, LedgerFrame
<1>8. CASE /\ status' = [status EXCEPT ![i] = "in_collection"]
           /\ cases' = Append(cases, row) /\ OpenCases(i) = {}
           /\ Allowed(status[i], "in_collection")
  <2>1. PICK n : /\ DOMAIN cases' = DOMAIN cases \cup {n} /\ n \notin DOMAIN cases
                 /\ cases'[n] = row /\ \A k \in DOMAIN cases : cases'[k] = cases[k]
    <3>1. /\ DOMAIN cases' = DOMAIN cases \cup {Len(cases')} /\ Len(cases') \notin DOMAIN cases
          /\ cases'[Len(cases')] = row /\ \A k \in DOMAIN cases : cases'[k] = cases[k]
      BY <1>3, <1>8, RowInserted DEF TypeOK
    <3> QED BY <3>1
  <2>2. status[i] # "in_collection"
    BY <1>1, <1>8, Agreement DEF LedgerInv, OpenCases
  <2>3. \A k \in DOMAIN cases : cases[k].inv # i
    BY <1>1, <1>5, <1>8, <2>2, NoCaseYet
  <2>4. status'[i] = "in_collection" /\ \A j \in Invoices \ {i} : status'[j] = status[j]
    BY <1>1, <1>8 DEF TypeOK
  <2>5. \A k \in DOMAIN cases : cases[k].inv \in Invoices
    <3>1. \A k \in DOMAIN cases : cases[k] \in Case
      BY RowIds DEF TypeOK
    <3> QED BY <3>1 DEF Case
  <2>6. CaseAgreesWithInvoice'
    <3>1. \A k \in DOMAIN cases : Fits(cases'[k], status'[cases'[k].inv])
      BY <2>1, <2>3, <2>4, <2>5, Agreement DEF LedgerInv
    <3>2. Fits(cases'[n], status'[cases'[n].inv])
      BY <1>4, <2>1, <2>4 DEF Fits
    <3>3. \A j \in Invoices : status'[j] = "in_collection" =>
             \E k \in DOMAIN cases' : cases'[k].inv = j /\ cases'[k].status = "open"
      <4> SUFFICES ASSUME NEW j \in Invoices, status'[j] = "in_collection"
                   PROVE  \E k \in DOMAIN cases' : cases'[k].inv = j /\ cases'[k].status = "open"
        OBVIOUS
      <4>1. CASE j = i
        BY <1>4, <2>1, <4>1
      <4>2. CASE j # i
        <5>1. PICK k \in DOMAIN cases : cases[k].inv = j /\ cases[k].status = "open"
          BY <2>4, <4>2, Agreement DEF LedgerInv
        <5> QED BY <2>1, <5>1
      <4> QED BY <4>1, <4>2
    <3> QED BY <2>1, <3>1, <3>2, <3>3, AgreementNext
  <2>7. OneCasePerInvoice'
    BY <1>4, <2>1, <2>3 DEF LedgerInv, OneCasePerInvoice
  <2>8. DecisionInv'
    <3>1. ApprovedFor(n)' = {} /\ \A k \in DOMAIN cases : ApprovedFor(k)' = ApprovedFor(k)
      <4>1. \A w \in DOMAIN approvals : approvals[w].case \in DOMAIN cases
        BY DEF TypeOK
      <4> QED BY <1>3, <2>1, <4>1 DEF ApprovedFor
    <3>2. ASSUME NEW k \in DOMAIN cases
          PROVE  Decided(cases'[k], ApprovedFor(k)', approvals')
      BY <1>3, <2>1, <3>1 DEF LedgerInv, DecisionInv, Decided
    <3>3. cases'[n].status = "open" /\ cases'[n].settled = 0 /\ ~ (cases'[n].settled > 0)
      BY <1>4, <2>1
    <3> QED BY <2>1, <3>1, <3>2, <3>3 DEF DecisionInv, Decided
  <2> QED BY <2>6, <2>7, <2>8 DEF LedgerInv
<1> QED BY <1>2, <1>6, <1>7, <1>8

(* A settlement within the threshold is applied at once, without a         *)
(* request; a larger one waits as a request that changes nothing else.     *)
LEMMA ProposalLedger ==
    ASSUME TypeOK, LedgerInv, NEW c \in DOMAIN cases, NEW a \in SettleAmounts, ProposeSettlement(c, a)
    PROVE  LedgerInv'
<1>1. a \in Nat \ {0} /\ cases[c].status = "open"
  BY ReceivablesAssumption DEF ProposeSettlement
<1>2. CASE ~ RequiresApproval(cases[c].inv, a) /\ ApplySettlement(c, a) /\ UNCHANGED approvals
  <2>1. ~ (Remaining(cases[c].inv, a) > Threshold)
    BY <1>2 DEF RequiresApproval
  <2>2. ApprovedFor(c)' = {}
    BY <1>1, <1>2 DEF LedgerInv, DecisionInv, Decided, ApprovedFor
  <2>3. \A k \in DOMAIN cases \ {c} : ApprovedFor(k)' = ApprovedFor(k)
                                      /\ \A w \in ApprovedFor(k) : approvals'[w] = approvals[w]
    BY <1>2 DEF ApprovedFor
  <2> QED BY <1>1, <1>2, <2>1, <2>2, <2>3, SettlementLedger
<1>3. CASE /\ UNCHANGED <<status, cases>>
           /\ approvals' = Append(approvals,
                             [case |-> c, amount |-> a, status |-> "pending_approval"])
  <2> DEFINE row == [case |-> c, amount |-> a, status |-> "pending_approval"]
             n == Len(approvals')
  <2>1. DOMAIN cases \subseteq Nat \ {0}
    BY RowIds DEF TypeOK
  <2>2. row \in Approval /\ row.status = "pending_approval"
    BY <1>1, <2>1 DEF Approval
  <2>3. approvals' = Append(approvals, row)
    BY <1>3
  <2> HIDE DEF row
  <2>4. /\ DOMAIN approvals' = DOMAIN approvals \cup {n} /\ n \notin DOMAIN approvals
        /\ approvals'[n] = row /\ \A w \in DOMAIN approvals : approvals'[w] = approvals[w]
    BY <2>2, <2>3, RowInserted DEF TypeOK
  <2> HIDE DEF n
  <2>5. \A k \in DOMAIN cases : ApprovedFor(k)' = ApprovedFor(k)
    BY <2>2, <2>4 DEF ApprovedFor
  <2>6. \A k \in DOMAIN cases : \A w \in ApprovedFor(k) : approvals'[w] = approvals[w]
    BY <2>4 DEF ApprovedFor
  <2>7. DecisionInv'
    <3>1. ASSUME NEW k \in DOMAIN cases
          PROVE  Decided(cases[k], ApprovedFor(k)', approvals')
      BY <2>5, <2>6 DEF LedgerInv, DecisionInv, Decided
    <3> QED BY <1>3, <3>1 DEF DecisionInv, Decided
  <2> QED
    BY <1>3, <2>7 DEF LedgerInv, CaseAgreesWithInvoice, OpenCases, OneCasePerInvoice
<1> QED BY <1>2, <1>3 DEF ProposeSettlement

(* A decision: an approval settles the case if it is still open, and then  *)
(* it is the only one; a rejection changes nothing else.                   *)
LEMMA DecisionLedger ==
    ASSUME TypeOK, LedgerInv, NEW w \in DOMAIN approvals, NEW d \in {"approved", "rejected"},
           DecideApproval(w, d)
    PROVE  LedgerInv'
<1> DEFINE row == [approvals[w] EXCEPT !.status = d]
<1>a. approvals[w] \in Approval /\ approvals[w].case \in DOMAIN cases
  BY RowIds DEF TypeOK
<1>b. approvals[w].amount \in Nat \ {0}
  BY <1>a DEF Approval
<1>1. PICK c \in DOMAIN cases, a \in Nat \ {0} : c = approvals[w].case /\ a = approvals[w].amount
  BY <1>a, <1>b
<1>2. row \in Approval /\ row.case = c /\ row.amount = a /\ row.status = d
  BY <1>1, <1>a DEF Approval
<1>3. approvals' = [approvals EXCEPT ![w] = row] /\ approvals[w].status = "pending_approval"
  BY DEF DecideApproval
<1> HIDE DEF row
<1>4. /\ DOMAIN approvals' = DOMAIN approvals /\ approvals'[w] = row
      /\ \A k \in DOMAIN approvals \ {w} : approvals'[k] = approvals[k]
  BY <1>2, <1>3, RowUpdated DEF TypeOK
<1>5. \A k \in DOMAIN cases : w \notin ApprovedFor(k)
  BY <1>3 DEF ApprovedFor
<1>6. \A k \in DOMAIN cases : \A v \in ApprovedFor(k) : approvals'[v] = approvals[v]
  BY <1>4, <1>5 DEF ApprovedFor
<1>7. \A k \in DOMAIN cases \ {c} : ApprovedFor(k)' = ApprovedFor(k)
  BY <1>2, <1>4, <1>5 DEF ApprovedFor
<1>8. CASE d = "approved"
  <2>1. cases[c].status = "open" /\ ApplySettlement(c, a)
    BY <1>1, <1>8 DEF DecideApproval
  <2>2. ApprovedFor(c) = {}
    BY <1>1, <2>1 DEF LedgerInv, DecisionInv, Decided
  <2>3. ApprovedFor(c)' = {w}
    BY <1>2, <1>4, <1>8, <2>2 DEF ApprovedFor
  <2>4. \A v \in ApprovedFor(c)' : approvals'[v].amount = a
    BY <1>2, <1>4, <2>3
  <2> QED BY <1>1, <1>6, <1>7, <2>1, <2>3, <2>4, SettlementLedger
<1>9. CASE d = "rejected"
  <2>1. UNCHANGED <<status, cases>>
    BY <1>9 DEF DecideApproval
  <2>2. ApprovedFor(c)' = ApprovedFor(c)
    BY <1>2, <1>4, <1>5, <1>9 DEF ApprovedFor
  <2>3. DecisionInv'
    <3>1. ASSUME NEW k \in DOMAIN cases
          PROVE  Decided(cases[k], ApprovedFor(k)', approvals')
      BY <1>6, <1>7, <2>2 DEF LedgerInv, DecisionInv, Decided
    <3> QED BY <2>1, <3>1 DEF DecisionInv, Decided
  <2> QED
    BY <2>1, <2>3 DEF LedgerInv, CaseAgreesWithInvoice, OpenCases, OneCasePerInvoice
<1> QED BY <1>8, <1>9

(* Every statement keeps cases, invoices and requests telling one story. *)
LEMMA LedgerStep == DeskInv /\ [Next]_vars => LedgerInv'
<1> SUFFICES ASSUME TypeOK, ProcessInv, LedgerInv, [Next]_vars PROVE LedgerInv'
  BY DEF DeskInv
<1> USE DEF ProcessInv
<1>1. ASSUME NEW i \in Invoices, NEW send \in BOOLEAN,
             CreateInvoice(i, send) \/ SendInvoice(i) \/ DayPasses(i)
      PROVE  LedgerInv'
  <2>1. CASE CreateInvoice(i, send)
    <3>1. "draft" \in Statuses \ {"in_collection"}
      BY DEF Statuses, Terminal
    <3> QED BY <2>1, <3>1, StatusWritten DEF CreateInvoice, tableVars
  <2>2. CASE SendInvoice(i)
    <3>1. "sent" \in Statuses \ {"in_collection"}
      BY DEF Statuses, Terminal
    <3>2. Allowed(status[i], "sent")
            => status[i] \notin {"in_collection", "paid", "settled", "written_off"}
      BY DEF Allowed, Terminal
    <3> QED BY <2>2, <3>1, <3>2, StatusWritten, LedgerFrame DEF SendInvoice, tableVars
  <2>3. CASE DayPasses(i)
    BY <2>3, LedgerFrame DEF DayPasses, tableVars
  <2> QED BY <1>1, <2>1, <2>2, <2>3
<1>2. ASSUME NEW q \in Payers, SettlePayment(q) PROVE LedgerInv'
  <2> DEFINE i == payer[q].inv
  <2>1. i \in Invoices /\ UNCHANGED <<cases, approvals>>
    BY <1>2 DEF SettlePayment, PayerInv, PaymentOK, tableVars
  <2>2. \/ UNCHANGED status
        \/ status' = [status EXCEPT ![i] = "paid"] /\ status[i] \notin {"settled", "written_off"}
        \/ status' = [status EXCEPT ![i] = "partial_paid"] /\ status[i] \in {"sent", "partial_paid"}
    BY <1>2, SettleEffect DEF PaymentEffect
  <2>3. "paid" \in Statuses \ {"in_collection"} /\ "partial_paid" \in Statuses \ {"in_collection"}
    BY DEF Statuses, Terminal
  <2> QED BY <2>1, <2>2, <2>3, StatusWritten, LedgerFrame
<1>3. ASSUME NEW q \in Payers,
             (\E i \in Invoices, a \in PayAmounts : InsertPayment(q, i, a)) \/ ReadTotals(q)
      PROVE  LedgerInv'
  BY <1>3, LedgerFrame DEF InsertPayment, ReadTotals, invoiceVars, tableVars
<1>4. ASSUME NEW n \in Planners,
             \/ \E c \in DOMAIN cases, t \in PlanTotals, k \in PlanCounts : CheckPlan(n, c, t, k)
             \/ InsertPlan(n)
      PROVE  LedgerInv'
  BY <1>4, LedgerFrame DEF CheckPlan, InsertPlan, invoiceVars, tableVars
<1>5. ASSUME NEW p \in DOMAIN plans,
             InstallmentFallsDue(p) \/ \E new \in {"completed", "breached"} : PatchPlan(p, new)
      PROVE  LedgerInv'
  BY <1>5, LedgerFrame, CompletionLedger DEF InstallmentFallsDue, PatchPlan, invoiceVars
<1>6. ASSUME NEW e \in Engines, DunningStep(e) PROVE LedgerInv'
  BY <1>6, LedgerFrame, TransitionLedger
  DEF DunningStep, ListOverdue, TakeInvoice, FinishRun, HasDunningAction, CreateDunningAction,
      FinishInvoice, invoiceVars, tableVars
<1>7. ASSUME NEW m \in Monitors, MonitorStep(m) PROVE LedgerInv'
  <2>1. monitor[m].todo \subseteq DOMAIN plans
    BY DEF MonitorInv
  <2> QED
    BY <1>7, <2>1, LedgerFrame, CompletionLedger
    DEF MonitorStep, ListPlans, ReadPlan, ApplyCompletion, ApplyBreach, FinishReview,
        invoiceVars, tableVars
<1>8. CASE Crash \/ UNCHANGED vars
  BY <1>8, LedgerFrame DEF Crash, vars, invoiceVars, tableVars
<1> QED
  BY <1>1, <1>2, <1>3, <1>4, <1>5, <1>6, <1>7, <1>8, ProposalLedger, DecisionLedger
  DEF Next, PaymentStep

(* The invariant holds from the empty tables on. *)
LEMMA DeskCorrect == Spec => []DeskInv
<1>1. Init => DeskInv
  <2> SUFFICES ASSUME Init PROVE DeskInv
    OBVIOUS
  <2>1. /\ cases = <<>> /\ plans = <<>> /\ approvals = <<>>
        /\ status = [i \in Invoices |-> "absent"]
        /\ payer = [q \in Payers |-> NoPayment] /\ planner = [n \in Planners |-> NoRequest]
        /\ engine = [e \in Engines |-> NoDunning] /\ monitor = [m \in Monitors |-> NoReview]
    BY DEF Init
  <2>2. TypeOK
    BY ProcessTypes DEF Init, TypeOK
  <2>3. ProcessInv
    BY <2>1 DEF ProcessInv, PayerInv, PaymentOK, PlannerInv, RequestOK, EngineInv, RunOK, MonitorInv,
                NoPayment, NoRequest, NoDunning, NoReview
  <2>4. DOMAIN cases = {} /\ \A i \in Invoices : status[i] = "absent"
    BY <2>1
  <2>5. LedgerInv
    BY <2>4, Agreement DEF LedgerInv, OneCasePerInvoice, DecisionInv, Decided
  <2> QED BY <2>2, <2>3, <2>5 DEF DeskInv
<1>2. DeskInv /\ [Next]_vars => DeskInv'
  BY ProcessStep, LedgerStep DEF DeskInv
<1> QED BY <1>1, <1>2, PTL DEF Spec

(* A case, its invoice and its requests agree: the desk's invariant says   *)
(* so, a request at most being approved for a case.                        *)
THEOREM CasesCorrect == Spec => []CasesAddUp
<1>1. DeskInv => CasesAddUp
  <2> SUFFICES ASSUME DeskInv, NEW c \in DOMAIN cases
               PROVE  Cardinality(ApprovedFor(c)) <= 1 /\ Decided(cases[c], ApprovedFor(c), approvals)
    BY DEF CasesAddUp, WriteOffsAreApproved, DeskInv, LedgerInv, ApprovedFor, Decided
  <2>1. Decided(cases[c], ApprovedFor(c), approvals)
    BY DEF DeskInv, LedgerInv, DecisionInv
  <2>2. Cardinality(ApprovedFor(c)) <= 1
    <3>1. CASE ApprovedFor(c) = {}
      BY <3>1, FS_EmptySet
    <3>2. CASE ApprovedFor(c) # {}
      <4>1. PICK w : ApprovedFor(c) = {w}
        BY <2>1, <3>2 DEF Decided
      <4> QED BY <4>1, FS_Singleton
    <3> QED BY <3>1, <3>2
  <2> QED BY <2>1, <2>2
<1> QED BY <1>1, DeskCorrect, PTL

-----------------------------------------------------------------------------
(* What a step may do to the money and to what is said of it: a payment is *)
(* committed, a plan is completed, or a status other than paid is written, *)
(* a final one never being replaced by one that is not.                    *)
MoneyMove ==
    \/ /\ UNCHANGED <<paid, blind>>
       /\ \/ UNCHANGED status
          \/ \E i \in Invoices, s \in Statuses \ {"paid"} :
                /\ status' = [status EXCEPT ![i] = s]
                /\ status[i] \in Terminal => s \in Terminal
    \/ \E q \in Payers : SettlePayment(q)
    \/ /\ \E p \in DOMAIN plans : CanComplete(p) /\ CompletePlan(p)
       /\ UNCHANGED <<paid, blind, approvals>>

(* Every step is one of these. *)
LEMMA MoneyMoves == TypeOK /\ ProcessInv /\ [Next]_vars => MoneyMove
<1> SUFFICES ASSUME TypeOK, ProcessInv, [Next]_vars PROVE MoneyMove
  OBVIOUS
<1> USE DEF ProcessInv
<1>1. UNCHANGED <<status, paid, blind>> => MoneyMove
  BY DEF MoneyMove
<1>2. ASSUME UNCHANGED <<paid, blind>>, NEW i \in Invoices, NEW s \in Statuses \ {"paid"},
             status' = [status EXCEPT ![i] = s], status[i] \in Terminal => s \in Terminal
      PROVE  MoneyMove
  BY <1>2 DEF MoneyMove
<1>3. ASSUME NEW p \in DOMAIN plans, CanComplete(p), CompletePlan(p), UNCHANGED <<paid, blind, approvals>>
      PROVE  MoneyMove
  BY <1>3 DEF MoneyMove
<1>4. ASSUME NEW i \in Invoices, NEW send \in BOOLEAN,
             CreateInvoice(i, send) \/ SendInvoice(i) \/ DayPasses(i)
      PROVE  MoneyMove
  <2>1. "draft" \in Statuses \ {"paid"} /\ "sent" \in Statuses \ {"paid"}
    BY DEF Statuses, Terminal
  <2>2. "absent" \notin Terminal
    BY DEF Terminal
  <2>3. Allowed(status[i], "sent") => status[i] \notin Terminal
    BY DEF Allowed, Terminal
  <2> QED
    BY <1>1, <1>2, <1>4, <2>1, <2>2, <2>3 DEF CreateInvoice, SendInvoice, DayPasses
<1>5. ASSUME NEW c \in DOMAIN cases, NEW a, ApplySettlement(c, a), UNCHANGED <<paid, blind>>
      PROVE  MoneyMove
  <2>1. cases[c].inv \in Invoices
    <3>1. cases[c] \in Case
      BY RowIds DEF TypeOK
    <3> QED BY <3>1 DEF Case
  <2>2. PICK s \in {"written_off", "settled"} : status' = [status EXCEPT ![cases[c].inv] = s]
    BY <1>5 DEF ApplySettlement
  <2>3. s \in Statuses \ {"paid"} /\ s \in Terminal
    BY DEF Statuses, Terminal
  <2> QED BY <1>2, <1>5, <2>1, <2>2, <2>3
<1>6. ASSUME NEW e \in Engines, TransitionToCollection(e) PROVE MoneyMove
  <2>1. engine[e].inv \in Invoices /\ "in_collection" \in Statuses \ {"paid"}
    BY <1>6 DEF TransitionToCollection, EngineInv, RunOK, Statuses, Terminal
  <2>2. Allowed(status[engine[e].inv], "in_collection") => status[engine[e].inv] \notin Terminal
    BY DEF Allowed, Terminal
  <2> QED BY <1>1, <1>2, <1>6, <2>1, <2>2 DEF TransitionToCollection
<1>7. ASSUME NEW q \in Payers,
             \/ \E i \in Invoices, a \in PayAmounts : InsertPayment(q, i, a)
             \/ PaymentStep(q)
      PROVE  MoneyMove
  BY <1>1, <1>7 DEF MoneyMove, InsertPayment, PaymentStep, ReadTotals, invoiceVars
<1>8. ASSUME NEW n \in Planners,
             \/ \E c \in DOMAIN cases, t \in PlanTotals, k \in PlanCounts : CheckPlan(n, c, t, k)
             \/ InsertPlan(n)
      PROVE  MoneyMove
  BY <1>1, <1>8 DEF CheckPlan, InsertPlan, invoiceVars
<1>9. ASSUME NEW p \in DOMAIN plans,
             InstallmentFallsDue(p) \/ \E new \in {"completed", "breached"} : PatchPlan(p, new)
      PROVE  MoneyMove
  BY <1>1, <1>3, <1>9 DEF InstallmentFallsDue, PatchPlan, invoiceVars
<1>10. ASSUME NEW c \in DOMAIN cases, NEW a \in SettleAmounts, ProposeSettlement(c, a)
       PROVE  MoneyMove
  BY <1>1, <1>5, <1>10 DEF ProposeSettlement
<1>11. ASSUME NEW w \in DOMAIN approvals, NEW d, DecideApproval(w, d) PROVE MoneyMove
  BY <1>1, <1>5, <1>11 DEF DecideApproval, TypeOK
<1>12. ASSUME NEW e \in Engines, DunningStep(e) PROVE MoneyMove
  BY <1>1, <1>6, <1>12
  DEF DunningStep, ListOverdue, TakeInvoice, FinishRun, HasDunningAction, CreateDunningAction,
      FinishInvoice, invoiceVars
<1>13. ASSUME NEW m \in Monitors, MonitorStep(m) PROVE MoneyMove
  <2>1. monitor[m].todo \subseteq DOMAIN plans
    BY DEF MonitorInv
  <2> QED
    BY <1>1, <1>3, <1>13, <2>1
    DEF MonitorStep, ListPlans, ReadPlan, ApplyCompletion, ApplyBreach, FinishReview, invoiceVars
<1>14. CASE Crash \/ UNCHANGED vars
  BY <1>1, <1>14 DEF Crash, vars, invoiceVars
<1> QED
  BY <1>4, <1>7, <1>8, <1>9, <1>10, <1>11, <1>12, <1>13, <1>14 DEF Next

(* The payments of an invoice reach its amount or the total of a plan. *)
Covered(i) ==
    paid[i] >= Amount[i] \/ \E p \in DOMAIN plans : InvoiceOf(p) = i /\ FullyPaid(p)

(* Plans and payments stay, so an invoice that is covered stays covered. *)
LEMMA CoveredStays ==
    ASSUME TypeOK, TypeOK', RowsKept, Grows, NEW i \in Invoices, Covered(i)
    PROVE  Covered(i)'
<1>1. paid[i] \in Nat /\ paid'[i] \in Nat /\ paid'[i] >= paid[i] /\ Amount[i] \in Nat
  BY ReceivablesAssumption DEF TypeOK, Grows
<1>2. CASE paid[i] >= Amount[i]
  <2>1. paid'[i] >= Amount[i]
    BY <1>1, <1>2
  <2> QED BY <2>1 DEF Covered
<1>3. ASSUME NEW p \in DOMAIN plans, InvoiceOf(p) = i, FullyPaid(p) PROVE Covered(i)'
  <2>1. /\ p \in DOMAIN plans' /\ plans'[p].total = plans[p].total
        /\ plans'[p].case = plans[p].case /\ plans[p].case \in DOMAIN cases
    BY DEF RowsKept, TypeOK
  <2>2. InvoiceOf(p)' = i
    BY <1>3, <2>1 DEF InvoiceOf, RowsKept
  <2>3. plans[p].total \in Nat
    <3>1. plans[p] \in Plan
      BY RowIds DEF TypeOK
    <3> QED BY <3>1 DEF Plan
  <2>4. paid[i] >= plans[p].total
    BY <1>3 DEF FullyPaid
  <2>5. paid'[i] >= plans'[p].total
    BY <1>1, <2>1, <2>3, <2>4
  <2>6. FullyPaid(p)'
    BY <2>2, <2>5 DEF FullyPaid
  <2> QED BY <2>1, <2>2, <2>6 DEF Covered
<1> QED BY <1>2, <1>3 DEF Covered

(* A committed payment adds its amount, which its total did not overstate. *)
LEMMA PaymentCovers ==
    ASSUME TypeOK, TypeOK', PayerInv, NEW q \in Payers, SettlePayment(q), ~ UNCHANGED <<paid, status>>,
           payer[q].total >= Amount[payer[q].inv]
    PROVE  paid'[payer[q].inv] >= Amount[payer[q].inv]
<1> DEFINE i == payer[q].inv
<1>1. i \in Invoices /\ payer[q].total \in Nat /\ payer[q].amount \in Nat
      /\ payer[q].total <= paid[i] + payer[q].amount
  <2>1. payer[q] \in Payment
    BY DEF TypeOK
  <2> QED BY <2>1 DEF SettlePayment, PayerInv, PaymentOK, Payment
<1>2. paid[i] \in Nat /\ Amount[i] \in Nat
  BY <1>1, ReceivablesAssumption DEF TypeOK
<1>3. paid' = [paid EXCEPT ![i] = @ + payer[q].amount]
  BY SettleEffect DEF PaymentEffect
<1>4. paid'[i] = paid[i] + payer[q].amount
  BY <1>1, <1>3 DEF TypeOK
<1> QED BY <1>1, <1>2, <1>4

(* An invoice is marked paid by a payment whose total reaches the amount,  *)
(* or with a plan whose total is paid; both stay true.                     *)
LEMMA PaidStep ==
    ASSUME TypeOK, TypeOK', ProcessInv, RowsKept, Grows, MoneyMove, PaidMeansPaid
    PROVE  PaidMeansPaid'
<1> SUFFICES ASSUME NEW i \in Invoices, status'[i] = "paid" PROVE Covered(i)'
  BY DEF PaidMeansPaid, Covered
<1>1. status[i] = "paid" => Covered(i)'
  BY CoveredStays DEF PaidMeansPaid, Covered
<1>2. ASSUME NEW j \in Invoices, NEW s \in Statuses \ {"paid"}, status' = [status EXCEPT ![j] = s]
      PROVE  status[i] = "paid"
  BY <1>2 DEF TypeOK
<1>3. ASSUME NEW q \in Payers, SettlePayment(q) PROVE Covered(i)'
  <2>1. payer[q].inv \in Invoices
    BY <1>3 DEF SettlePayment, ProcessInv, PayerInv, PaymentOK
  <2>2. CASE payer[q].inv # i \/ UNCHANGED <<paid, status>>
    <3>1. UNCHANGED status \/ \E s \in {"paid", "partial_paid"} :
                                status' = [status EXCEPT ![payer[q].inv] = s]
      BY <1>3, SettleEffect DEF PaymentEffect, ProcessInv
    <3>2. status'[i] = status[i]
      BY <2>1, <2>2, <3>1 DEF TypeOK
    <3> QED BY <1>1, <3>2
  <2>3. CASE payer[q].inv = i /\ ~ UNCHANGED <<paid, status>>
    <3>1. CASE payer[q].total >= Amount[i]
      BY <1>3, <2>3, <3>1, PaymentCovers DEF ProcessInv, Covered
    <3>2. CASE ~ (payer[q].total >= Amount[i])
      <4>1. UNCHANGED status \/ status' = [status EXCEPT ![i] = "partial_paid"]
        BY <1>3, <2>3, <3>2, SettleEffect DEF PaymentEffect, ProcessInv
      <4>2. status[i] = "paid"
        BY <4>1 DEF TypeOK
      <4> QED BY <1>1, <4>2
    <3> QED BY <3>1, <3>2
  <2> QED BY <2>2, <2>3
<1>4. ASSUME NEW p \in DOMAIN plans, CanComplete(p), CompletePlan(p), UNCHANGED <<paid, blind, approvals>>
      PROVE  Covered(i)'
  <2>1. CASE InvoiceOf(p) = i
    <3>1. Covered(i)
      BY <1>4, <2>1 DEF CanComplete, Covered
    <3> QED BY <3>1, CoveredStays
  <2>2. CASE InvoiceOf(p) # i
    <3>1. status'[i] = status[i]
      BY <1>4, <2>2 DEF CompletePlan, TypeOK
    <3> QED BY <1>1, <3>1
  <2> QED BY <2>1, <2>2
<1> QED BY <1>1, <1>2, <1>3, <1>4 DEF MoneyMove

(* Whatever overlaps, an invoice that is marked paid is covered. *)
THEOREM PaidCorrect == Spec => []PaidMeansPaid
<1>1. Init => PaidMeansPaid
  BY DEF Init, PaidMeansPaid
<1>2. DeskInv /\ PaidMeansPaid /\ [Next]_vars => PaidMeansPaid'
  BY ProcessStep, MoneyMoves, PaidStep DEF DeskInv
<1> QED BY <1>1, <1>2, DeskCorrect, PTL DEF Spec

(* A status is final: no step replaces it by one that is not. *)
LEMMA FinalStays ==
    ASSUME TypeOK, ProcessInv, MoneyMove, NEW i \in Invoices, status[i] \in Terminal
    PROVE  status'[i] \in Terminal
<1>1. ASSUME NEW j \in Invoices, NEW s, status' = [status EXCEPT ![j] = s],
             status[j] \in Terminal => s \in Terminal
      PROVE  status'[i] \in Terminal
  BY <1>1 DEF TypeOK
<1>2. {"partial_paid", "sent"} \cap Terminal = {} /\ "paid" \in Terminal
  BY DEF Terminal
<1>3. ASSUME NEW q \in Payers, SettlePayment(q) PROVE status'[i] \in Terminal
  <2>1. payer[q].inv \in Invoices
    BY <1>3 DEF SettlePayment, ProcessInv, PayerInv, PaymentOK
  <2>2. \/ UNCHANGED status
        \/ status' = [status EXCEPT ![payer[q].inv] = "paid"]
        \/ /\ status' = [status EXCEPT ![payer[q].inv] = "partial_paid"]
           /\ status[payer[q].inv] \in {"sent", "partial_paid"}
    BY <1>3, SettleEffect DEF PaymentEffect, ProcessInv
  <2> QED BY <1>1, <1>2, <2>1, <2>2
<1>4. ASSUME NEW p \in DOMAIN plans, CompletePlan(p), UNCHANGED approvals
      PROVE  status'[i] \in Terminal
  <2>1. InvoiceOf(p) \in Invoices
    BY <1>4, CompletionRows
  <2> QED BY <1>1, <1>2, <1>4, <2>1 DEF CompletePlan
<1> QED BY <1>1, <1>3, <1>4 DEF MoneyMove

(* A final status that a payment saw is still final. *)
ReadsHold ==
    \A q \in Payers : payer[q].pc = "read" =>
        (payer[q].seen \in Terminal => status[payer[q].inv] \in Terminal)

(* A payment reads the status once, and no step reopens a final one. *)
LEMMA ReadsStep ==
    ASSUME TypeOK, ProcessInv, ReadsHold, MoneyMove,
           UNCHANGED payer \/ PayerMoves \/ Crash
    PROVE  ReadsHold'
<1>1. payer \in [Payers -> Payment] /\ NoPayment \in Payment /\ NoPayment.pc = "idle"
  BY ProcessTypes DEF TypeOK, NoPayment
<1>2. ASSUME NEW r \in Payers, payer'[r] = payer[r], payer[r].pc = "read",
             payer[r].seen \in Terminal
      PROVE  status'[payer'[r].inv] \in Terminal
  <2>1. payer[r].inv \in Invoices
    BY <1>2 DEF ProcessInv, PayerInv, PaymentOK
  <2> QED BY <1>2, <2>1, FinalStays DEF ReadsHold
<1>3. ASSUME NEW q \in Payers, NEW v, payer' = [payer EXCEPT ![q] = v],
             v.pc = "read" => (v.seen \in Terminal => status'[v.inv] \in Terminal)
      PROVE  ReadsHold'
  BY <1>1, <1>2, <1>3 DEF ReadsHold
<1>4. ASSUME NEW q \in Payers, SettlePayment(q) PROVE ReadsHold'
  BY <1>1, <1>3, <1>4 DEF SettlePayment
<1>5. ASSUME NEW q \in Payers, NEW i \in Invoices, NEW a \in PayAmounts, InsertPayment(q, i, a)
      PROVE  ReadsHold'
  <2> DEFINE v == [NoPayment EXCEPT !.pc = "inserted", !.inv = i, !.amount = a]
  <2>1. v.pc = "inserted"
    BY <1>1 DEF Payment
  <2>2. payer' = [payer EXCEPT ![q] = v]
    BY <1>5 DEF InsertPayment
  <2> HIDE DEF v
  <2> QED BY <1>3, <2>1, <2>2
<1>6. ASSUME NEW q \in Payers, ReadTotals(q) PROVE ReadsHold'
  <2> DEFINE i == payer[q].inv
             v == [payer[q] EXCEPT !.pc = "read", !.seen = status[i],
                                   !.total = paid[i] + payer[q].amount]
  <2>1. payer' = [payer EXCEPT ![q] = v] /\ UNCHANGED status
    BY <1>6 DEF ReadTotals, invoiceVars
  <2>2. v.inv = i /\ v.seen = status[i]
    BY <1>1 DEF Payment
  <2> HIDE DEF v
  <2> QED BY <1>3, <2>1, <2>2
<1>7. CASE Crash
  BY <1>1, <1>7 DEF Crash, ReadsHold
<1>8. CASE UNCHANGED payer
  BY <1>2, <1>8 DEF ReadsHold
<1> QED BY <1>4, <1>5, <1>6, <1>7, <1>8 DEF PayerMoves, PaymentStep

(* A payment that brings the committed ones to the amount and whose total  *)
(* missed none of them saw that it does, and closes the invoice or saw it  *)
(* closed.                                                                 *)
LEMMA SettleStep ==
    ASSUME TypeOK, ProcessInv, ReadsHold, MoneyMove, PaymentsSettleInvoice
    PROVE  PaymentsSettleInvoice'
<1> SUFFICES ASSUME NEW i \in Invoices, paid'[i] >= Amount[i], ~ blind'[i]
             PROVE  status'[i] \in Terminal
  BY DEF PaymentsSettleInvoice
<1>1. ASSUME paid'[i] = paid[i], blind'[i] = blind[i] PROVE status'[i] \in Terminal
  BY <1>1, FinalStays DEF PaymentsSettleInvoice
<1>2. ASSUME NEW q \in Payers, SettlePayment(q) PROVE status'[i] \in Terminal
  <2>1. payer[q].inv \in Invoices /\ payer[q].pc = "read"
    BY <1>2 DEF SettlePayment, ProcessInv, PayerInv, PaymentOK
  <2>2. PaymentEffect(q)
    BY <1>2, SettleEffect DEF ProcessInv
  <2>3. CASE payer[q].inv # i \/ UNCHANGED <<paid, blind>>
    <3>1. paid'[i] = paid[i]
      BY <2>1, <2>2, <2>3 DEF PaymentEffect, TypeOK
    <3>2. blind'[i] = blind[i]
      BY <2>1, <2>2, <2>3 DEF PaymentEffect, TypeOK
    <3> QED BY <1>1, <3>1, <3>2
  <2>4. CASE payer[q].inv = i /\ ~ UNCHANGED <<paid, blind>>
    <3>1. /\ paid' = [paid EXCEPT ![i] = @ + payer[q].amount]
          /\ blind' = [blind EXCEPT ![i] = payer[q].total # paid[i] + payer[q].amount]
      BY <2>2, <2>4 DEF PaymentEffect
    <3>2. payer[q].total = paid[i] + payer[q].amount
      BY <3>1 DEF TypeOK
    <3>3. payer[q].total >= Amount[i]
      BY <3>1, <3>2 DEF TypeOK
    <3>4. \/ UNCHANGED status /\ payer[q].seen \in Terminal
          \/ status' = [status EXCEPT ![i] = "paid"]
      BY <2>2, <2>4, <3>3 DEF PaymentEffect
    <3> QED BY <2>1, <2>4, <3>4 DEF ReadsHold, Terminal, TypeOK
  <2> QED BY <2>3, <2>4
<1>3. (\E q \in Payers : SettlePayment(q)) \/ UNCHANGED <<paid, blind>>
  BY DEF MoneyMove
<1> QED BY <1>1, <1>2, <1>3

(* The money decides, however many payments overlap. *)
THEOREM MoneyCorrect == Spec => []MoneyDecides
<1> DEFINE Inv == ReadsHold /\ PaymentsSettleInvoice
<1>1. Init => Inv
  <2> SUFFICES ASSUME Init PROVE ReadsHold /\ PaymentsSettleInvoice
    OBVIOUS
  <2>1. ReadsHold
    BY DEF Init, ReadsHold, NoPayment
  <2>2. \A i \in Invoices : ~ (paid[i] >= Amount[i])
    BY ReceivablesAssumption DEF Init
  <2> QED BY <2>1, <2>2 DEF PaymentsSettleInvoice
<1>2. DeskInv /\ Inv /\ [Next]_vars => Inv'
  <2> SUFFICES ASSUME DeskInv, Inv, [Next]_vars PROVE Inv'
    OBVIOUS
  <2>1. TypeOK /\ ProcessInv /\ MoneyMove
    BY MoneyMoves DEF DeskInv
  <2>2. UNCHANGED payer \/ PayerMoves \/ Crash
    BY WhoMoves
  <2> QED BY <2>1, <2>2, ReadsStep, SettleStep
<1>3. Spec => []PaymentsSettleInvoice
  BY <1>1, <1>2, DeskCorrect, PTL DEF Spec
<1> QED BY <1>3, PaidCorrect, PTL DEF MoneyDecides

-----------------------------------------------------------------------------
(* The runs that found no notice of milestone m and may still send one. *)
About(i, m) ==
    {e \in Engines : engine[e].inv = i /\ engine[e].next > m /\ m \notin engine[e].existing}

(* A run sends a milestone's notice when it is about to, and then never    *)
(* again; once one is recorded no other run becomes about to.              *)
NoticeInv ==
    \A i \in Invoices, m \in Milestones :
        notices[i][m] > 0 => notices[i][m] + Cardinality(About(i, m)) <= Cardinality(Engines)

(* Where no notice is added the runs about to send one only get fewer. *)
LEMMA AboutShrinks ==
    ASSUME TypeOK, EngineInv, NEW i \in Invoices, NEW m \in Milestones, NEW e \in Engines, NEW v,
           engine' = [engine EXCEPT ![e] = v], RunEffect(e, v)
    PROVE  /\ notices[i][m] > 0 => About(i, m)' \subseteq About(i, m)
           /\ notices'[i][m] # notices[i][m] =>
                 notices'[i][m] = notices[i][m] + 1 /\ e \in About(i, m) \ About(i, m)'
<1> DEFINE run == engine[e]
<1>1. engine'[e] = v /\ \A k \in Engines \ {e} : engine'[k] = engine[k]
  BY DEF TypeOK
<1>2. run \in Dunning /\ RunOK(run, notices) /\ notices \in [Invoices -> [Milestones -> Nat]]
  BY DEF TypeOK, EngineInv
<1>3. i # None /\ m \in 1..4
  BY ReceivablesAssumption DEF Milestones
<1>4. ASSUME v.inv = None \/ v.next = 1, UNCHANGED notices
      PROVE  e \notin About(i, m)'
  <2>1. ~ (v.inv = i /\ v.next > m)
    BY <1>3, <1>4
  <2> QED BY <1>1, <2>1 DEF About
<1>5. ASSUME UNCHANGED notices,
             notices[i][m] > 0 /\ e \in About(i, m)' => e \in About(i, m)
      PROVE  /\ notices[i][m] > 0 => About(i, m)' \subseteq About(i, m)
             /\ notices'[i][m] # notices[i][m] =>
                   notices'[i][m] = notices[i][m] + 1 /\ e \in About(i, m) \ About(i, m)'
  BY <1>1, <1>5 DEF About
<1>6. ASSUME NEW found, found = (IF notices[run.inv][run.next] > 0 THEN {run.next} ELSE {}),
             run.pc = "reading", v.inv = run.inv, v.next = run.next + 1,
             v.existing = run.existing \cup found
      PROVE  notices[i][m] > 0 /\ e \in About(i, m)' => e \in About(i, m)
  <2> SUFFICES ASSUME notices[i][m] > 0, run.inv = i, v.next > m, m \notin v.existing
               PROVE  run.next > m /\ m \notin run.existing
    BY <1>1, <1>6 DEF About
  <2>1. run.next \in Milestones
    BY <1>2, <1>6 DEF RunOK
  <2>2. run.next # m
    BY <1>6
  <2>3. run.next > m
    BY <1>3, <1>6, <2>1, <2>2 DEF Milestones
  <2> QED BY <1>6, <2>3
<1>7. ASSUME v.inv = run.inv, v.next = run.next, v.existing = run.existing
      PROVE  e \in About(i, m)' => e \in About(i, m)
  BY <1>1, <1>7 DEF About
<1>8. ASSUME NEW k \in Milestones, IsNextMilestone(e, k), run.pc \in {"acting", "recording"},
             v.inv = run.inv, v.next = run.next, v.existing = run.existing \cup {k},
             notices' = [notices EXCEPT ![run.inv][k] = @ + 1]
      PROVE  /\ About(i, m)' \subseteq About(i, m)
             /\ notices'[i][m] # notices[i][m] =>
                   notices'[i][m] = notices[i][m] + 1 /\ e \in About(i, m) \ About(i, m)'
  <2>1. About(i, m)' \subseteq About(i, m)
    BY <1>1, <1>8 DEF About
  <2>2. run.inv \in Invoices /\ run.next = 5 /\ k \notin run.existing
    BY <1>2, <1>8 DEF RunOK, IsNextMilestone, DueMilestones
  <2>3. notices'[i][m] # notices[i][m] => i = run.inv /\ m = k /\ notices'[i][m] = notices[i][m] + 1
    BY <1>2, <1>8, <2>2
  <2>4. i = run.inv /\ m = k => e \in About(i, m) \ About(i, m)'
    BY <1>1, <1>3, <1>8, <2>2 DEF About
  <2> QED BY <2>1, <2>3, <2>4
<1> QED BY <1>4, <1>5, <1>6, <1>7, <1>8 DEF RunEffect, RunOK

(* A notice is sent by a run that was about to and is not any more. *)
LEMMA NoticeInvStep ==
    ASSUME TypeOK, TypeOK', EngineInv, NoticeInv,
           UNCHANGED <<engine, notices>> \/ (\E e \in Engines : DunningStep(e)) \/ Crash
    PROVE  NoticeInv'
<1>1. IsFiniteSet(Engines)
  BY ReceivablesAssumption
<1>2. \A i \in Invoices, m \in Milestones :
        IsFiniteSet(About(i, m)) /\ Cardinality(About(i, m)) \in Nat
  <2>1. \A i \in Invoices, m \in Milestones : About(i, m) \subseteq Engines
    BY DEF About
  <2> QED BY <1>1, <2>1, FS_Subset, FS_CardinalityType
<1>3. \A i \in Invoices, m \in Milestones : notices[i][m] \in Nat /\ notices'[i][m] \in Nat
  BY DEF TypeOK
<1>4. ASSUME NEW e \in Engines, DunningStep(e) PROVE NoticeInv'
  <2>1. PICK v : engine' = [engine EXCEPT ![e] = v] /\ RunEffect(e, v)
    BY <1>4, RunEffects
  <2> SUFFICES ASSUME NEW i \in Invoices, NEW m \in Milestones, notices'[i][m] > 0
               PROVE  notices'[i][m] + Cardinality(About(i, m)') <= Cardinality(Engines)
    BY DEF NoticeInv
  <2>2. /\ notices[i][m] > 0 => About(i, m)' \subseteq About(i, m)
        /\ notices'[i][m] # notices[i][m] =>
              notices'[i][m] = notices[i][m] + 1 /\ e \in About(i, m) \ About(i, m)'
    BY <2>1, AboutShrinks
  <2>3. About(i, m)' \subseteq Engines
    BY DEF About
  <2>4. Cardinality(Engines) \in Nat
    BY <1>1, FS_CardinalityType
  <2>5. CASE notices'[i][m] = notices[i][m]
    <3>1. notices[i][m] + Cardinality(About(i, m)) <= Cardinality(Engines)
      BY <2>5 DEF NoticeInv
    <3>2. IsFiniteSet(About(i, m)') /\ Cardinality(About(i, m)') <= Cardinality(About(i, m))
      BY <1>2, <2>2, <2>5, FS_Subset
    <3>3. Cardinality(About(i, m)') \in Nat
      BY <3>2, FS_CardinalityType
    <3> QED BY <1>2, <1>3, <2>4, <2>5, <3>1, <3>2, <3>3
  <2>6. CASE notices'[i][m] # notices[i][m] /\ notices[i][m] > 0
    <3>1. notices[i][m] + Cardinality(About(i, m)) <= Cardinality(Engines)
      BY <2>6 DEF NoticeInv
    <3>2. About(i, m)' \subseteq About(i, m) \ {e} /\ e \in About(i, m)
      BY <2>2, <2>6
    <3>3. /\ IsFiniteSet(About(i, m) \ {e})
          /\ Cardinality(About(i, m) \ {e}) = Cardinality(About(i, m)) - 1
      BY <1>2, <3>2, FS_RemoveElement
    <3>4. IsFiniteSet(About(i, m)') /\ Cardinality(About(i, m)') <= Cardinality(About(i, m)) - 1
      BY <3>2, <3>3, FS_Subset
    <3>5. Cardinality(About(i, m)') \in Nat
      BY <3>4, FS_CardinalityType
    <3> QED BY <1>2, <1>3, <2>2, <2>4, <2>6, <3>1, <3>4, <3>5
  <2>7. CASE notices'[i][m] # notices[i][m] /\ ~ (notices[i][m] > 0)
    <3>1. notices'[i][m] = 1
      BY <1>3, <2>2, <2>7
    <3>2. About(i, m)' \subseteq Engines \ {e}
      BY <2>2, <2>3, <2>7
    <3>3. /\ IsFiniteSet(Engines \ {e}) /\ Cardinality(Engines \ {e}) = Cardinality(Engines) - 1
      BY <1>1, FS_RemoveElement
    <3>4. IsFiniteSet(About(i, m)') /\ Cardinality(About(i, m)') <= Cardinality(Engines) - 1
      BY <3>2, <3>3, FS_Subset
    <3>5. Cardinality(About(i, m)') \in Nat
      BY <3>4, FS_CardinalityType
    <3> QED BY <2>4, <3>1, <3>4, <3>5
  <2> QED BY <2>5, <2>6, <2>7
<1>5. CASE UNCHANGED <<engine, notices>>
  BY <1>5 DEF NoticeInv, About
<1>6. CASE Crash
  <2>1. \A i \in Invoices, m \in Milestones : About(i, m)' = {}
    BY <1>6, ReceivablesAssumption DEF Crash, About, NoDunning
  <2>2. Cardinality({}) = 0 /\ UNCHANGED notices
    BY <1>6, FS_EmptySet DEF Crash, tableVars
  <2> SUFFICES ASSUME NEW i \in Invoices, NEW m \in Milestones, notices[i][m] > 0
               PROVE  notices[i][m] + Cardinality(About(i, m)') <= Cardinality(Engines)
    BY <2>2 DEF NoticeInv
  <2>3. notices[i][m] + Cardinality(About(i, m)) <= Cardinality(Engines)
    BY DEF NoticeInv
  <2>4. Cardinality(Engines) \in Nat
    BY <1>1, FS_CardinalityType
  <2> QED BY <1>2, <1>3, <2>1, <2>2, <2>3, <2>4
<1> QED BY <1>4, <1>5, <1>6

(* A run sends the mildest notice that is due and missing, and those below *)
(* it that it found are still there.                                       *)
LEMMA OrderStep ==
    ASSUME TypeOK, EngineInv, NoticesInOrder,
           UNCHANGED <<engine, notices>> \/ (\E e \in Engines : DunningStep(e)) \/ Crash
    PROVE  NoticesInOrder'
<1>1. notices \in [Invoices -> [Milestones -> Nat]]
  BY DEF TypeOK
<1>2. CASE UNCHANGED notices
  BY <1>2 DEF NoticesInOrder
<1>3. ASSUME NEW e \in Engines, NEW k \in Milestones, IsNextMilestone(e, k),
             engine[e].pc \in {"acting", "recording"},
             notices' = [notices EXCEPT ![engine[e].inv][k] = @ + 1]
      PROVE  NoticesInOrder'
  <2> DEFINE j == engine[e].inv
  <2>1. j \in Invoices /\ RunOK(engine[e], notices) /\ engine[e].age \in 0..4
    BY <1>3 DEF EngineInv, RunOK, TypeOK, Dunning
  <2>2. \A n \in 1..k : n # k => notices[j][n] > 0
    <3> SUFFICES ASSUME NEW n \in 1..k, n # k PROVE notices[j][n] > 0
      OBVIOUS
    <3>1. k \in 1..engine[e].age /\ ~ (k <= n)
      BY <1>3 DEF IsNextMilestone, DueMilestones, Milestones
    <3>2. n \in 1..engine[e].age
      BY <2>1, <3>1 DEF Milestones
    <3>3. n \in engine[e].existing
      BY <1>3, <3>1, <3>2 DEF IsNextMilestone, DueMilestones
    <3> QED BY <2>1, <3>3 DEF RunOK
  <2>3. \A n \in Milestones : notices'[j][n] = IF n = k THEN notices[j][n] + 1 ELSE notices[j][n]
    BY <1>1, <1>3, <2>1
  <2>4. \A i \in Invoices \ {j} : notices'[i] = notices[i]
    BY <1>1, <1>3
  <2>5. \A n \in Milestones : notices[j][n] \in Nat
    BY <1>1, <2>1
  <2>6. \A n \in Milestones : notices[j][n] > 0 => notices'[j][n] > 0
    BY <2>3, <2>5
  <2>7. notices'[j][k] > 0
    BY <2>3, <2>5
  <2>8. \A m \in Milestones : \A n \in 1..m : n \in Milestones
    BY DEF Milestones
  <2>9. ASSUME NEW m \in Milestones, notices'[j][m] > 0, NEW n \in 1..m PROVE notices'[j][n] > 0
    <3>1. CASE m = k
      BY <2>2, <2>6, <2>7, <2>8, <3>1
    <3>2. CASE m # k
      <4>1. notices[j][m] > 0
        BY <2>3, <2>9, <3>2
      <4> QED BY <2>1, <2>6, <2>8, <4>1 DEF NoticesInOrder
    <3> QED BY <3>1, <3>2
  <2> QED BY <2>4, <2>9 DEF NoticesInOrder
<1>4. ASSUME NEW e \in Engines, DunningStep(e) PROVE NoticesInOrder'
  <2>1. PICK v : RunEffect(e, v)
    BY <1>4, RunEffects
  <2> QED BY <1>2, <1>3, <2>1 DEF RunEffect
<1> QED BY <1>2, <1>4 DEF Crash, tableVars

(* The statements that touch a notice are the dunning job's. *)
LEMMA NoticesMove == [Next]_vars => UNCHANGED <<engine, notices>> \/ (\E e \in Engines : DunningStep(e)) \/ Crash
<1> SUFFICES ASSUME [Next]_vars
             PROVE  UNCHANGED <<engine, notices>> \/ (\E e \in Engines : DunningStep(e)) \/ Crash
  OBVIOUS
<1>1. ASSUME NEW m \in Monitors, MonitorStep(m) PROVE UNCHANGED <<engine, notices>>
  BY <1>1 DEF MonitorStep, ListPlans, ReadPlan, ApplyCompletion, ApplyBreach, FinishReview, tableVars
<1>2. ASSUME NEW q \in Payers,
             \/ \E i \in Invoices, a \in PayAmounts : InsertPayment(q, i, a)
             \/ PaymentStep(q)
      PROVE  UNCHANGED <<engine, notices>>
  BY <1>2 DEF InsertPayment, PaymentStep, ReadTotals, SettlePayment, tableVars
<1>3. ASSUME NEW n \in Planners,
             \/ \E c \in DOMAIN cases, t \in PlanTotals, k \in PlanCounts : CheckPlan(n, c, t, k)
             \/ InsertPlan(n)
      PROVE  UNCHANGED <<engine, notices>>
  BY <1>3 DEF CheckPlan, InsertPlan, tableVars
<1>4. ASSUME \/ \E i \in Invoices, send \in BOOLEAN : CreateInvoice(i, send)
             \/ \E i \in Invoices : SendInvoice(i) \/ DayPasses(i)
             \/ \E p \in DOMAIN plans : \/ InstallmentFallsDue(p)
                                       \/ \E new \in {"completed", "breached"} : PatchPlan(p, new)
             \/ \E c \in DOMAIN cases, a \in SettleAmounts : ProposeSettlement(c, a)
             \/ \E w \in DOMAIN approvals, d \in {"approved", "rejected"} : DecideApproval(w, d)
             \/ UNCHANGED vars
      PROVE  UNCHANGED <<engine, notices>>
  BY <1>4 DEF CreateInvoice, SendInvoice, DayPasses, InstallmentFallsDue, PatchPlan,
             ProposeSettlement, DecideApproval, vars, tableVars, processVars
<1> QED BY <1>1, <1>2, <1>3, <1>4 DEF Next

(* However many runs of the dunning job overlap or are cut short. *)
THEOREM DunningCorrect == Spec => []DunningIsOrderly
<1>1. Init => NoticeInv /\ NoticesInOrder
  BY DEF Init, NoticeInv, NoticesInOrder
<1>2. DeskInv /\ NoticeInv /\ NoticesInOrder /\ [Next]_vars => NoticeInv' /\ NoticesInOrder'
  <2> SUFFICES ASSUME DeskInv, NoticeInv, NoticesInOrder, [Next]_vars
               PROVE  NoticeInv' /\ NoticesInOrder'
    OBVIOUS
  <2>1. TypeOK /\ EngineInv /\ TypeOK'
    BY ProcessStep DEF DeskInv, ProcessInv
  <2> QED BY <2>1, NoticesMove, NoticeInvStep, OrderStep
<1>3. DeskInv /\ NoticeInv /\ NoticesInOrder => DunningIsOrderly
  <2> SUFFICES ASSUME DeskInv, NoticeInv, NoticesInOrder PROVE OneNoticePerRun
    BY DEF DeskInv, LedgerInv, DunningIsOrderly
  <2> SUFFICES ASSUME NEW i \in Invoices, NEW m \in Milestones
               PROVE  notices[i][m] <= Cardinality(Engines)
    BY DEF OneNoticePerRun
  <2>1. notices[i][m] \in Nat /\ Cardinality(Engines) \in Nat
    BY ReceivablesAssumption, FS_CardinalityType DEF DeskInv, TypeOK
  <2>2. Cardinality(About(i, m)) \in Nat
    <3>1. About(i, m) \subseteq Engines
      BY DEF About
    <3> QED BY <3>1, ReceivablesAssumption, FS_Subset, FS_CardinalityType
  <2> QED BY <2>1, <2>2 DEF NoticeInv
<1> QED BY <1>1, <1>2, <1>3, DeskCorrect, PTL DEF Spec
=============================================================================
