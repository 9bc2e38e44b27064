----------------------------- MODULE MCReceivables -----------------------------
(* Instances of Receivables for TLC: every invoice is of the same amount.  *)
(* Either the whole desk works beside one run of the dunning job, or two   *)
(* runs of the job overlap while only partial payments and full settlements *)
(* go on and nothing crashes, or two payments are in flight at a time while *)
(* the jobs, plans and settlements go on, until more than the amount is     *)
(* paid.                                                                    *)
EXTENDS Receivables

CONSTANTS InvoiceAmount, Crews, e1, q1

VARIABLE crew

AmountDef == [i \in Invoices |-> InvoiceAmount]

AtWork == IF crew = "overlap" THEN Engines ELSE {e1}
Paying == IF crew = "tills" THEN Payers ELSE {q1}

MCInit == Init /\ crew \in Crews

MCNext ==
    /\ Next
    /\ crew = "overlap" => /\ UNCHANGED <<plans, planner, monitor, approvals, crashes>>
                           /\ \A q \in Payers : payer'[q].amount < InvoiceAmount
    /\ crew = "tills" => /\ UNCHANGED <<approvals, crashes>>
                         /\ \A n \in Planners : planner'[n].pc = "checked" => planner'[n].total = InvoiceAmount
                         /\ \A p \in DOMAIN plans' : plans'[p].late = 0
                         /\ \A q \in Payers : payer'[q].amount < InvoiceAmount
    /\ crew # "tills" => \A q \in Payers : payer'[q].pc = "inserted" =>
                            paid[payer'[q].inv] + payer'[q].amount <= InvoiceAmount
    /\ \A e \in Engines \ AtWork : engine'[e] = NoDunning
    /\ \A q \in Payers \ Paying : payer'[q] = NoPayment
    /\ UNCHANGED crew

(* Fairness of Receivables, for those that are at work.                    *)
MCFairness ==
    /\ \A q \in Payers : WF_vars(q \in Paying /\ PaymentStep(q))
    /\ \A e \in Engines : WF_vars(e \in AtWork /\ DunningStep(e))
    /\ \A m \in Monitors : WF_vars(crew # "overlap" /\ MonitorStep(m))

MCSpec == MCInit /\ [][MCNext]_<<vars, crew>> /\ MCFairness

=============================================================================
