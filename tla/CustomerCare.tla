----------------------------- MODULE CustomerCare ------------------------------
(* A customer after the sale: the daily health score, and the interventions, *)
(* alerts and escalations that follow from it.                               *)
EXTENDS Naturals, FiniteSets

--------------------------------------------------------------------------------
(* The daily job that scores every customer with an invoice, run by every   *)
(* server, possibly across midnight, with single customers failing.         *)

CONSTANTS
    Customers,      \* customers with an invoice
    Servers,        \* processes that run the cron job
    MaxDate         \* bound on days

ASSUME HealthAssumption == MaxDate \in Nat

VARIABLES
    date,           \* the date in UTC
    ahead,          \* is the database's time zone a day ahead when the job runs
    daily,          \* rl_customer_health_scores: <<customer, score_date>> -> [bad, stamp]
    shown,          \* customers whose rl_customers.health_score was written today
    health          \* Servers -> the job

healthVars == <<date, ahead, daily, shown, health>>

Off == [pc |-> "idle", date |-> 0, todo |-> {}, failed |-> {},
        cust |-> CHOOSE c \in Customers : TRUE, bad |-> FALSE]

HealthTypeOK ==
    /\ date \in 0 .. MaxDate /\ ahead \in {0, 1}
    /\ shown \subseteq Customers
    /\ DOMAIN daily \subseteq Customers \X (0 .. MaxDate)
    /\ \A k \in DOMAIN daily : daily[k].stamp \in k[2] .. MaxDate + 1
    /\ \A s \in Servers : health[s].date <= date /\ health[s].todo \subseteq Customers

HealthInit ==
    /\ date = 0 /\ ahead \in {0, 1}
    /\ daily = <<>> /\ shown = {}
    /\ health = [s \in Servers |-> Off]

Midnight ==
    /\ date < MaxDate /\ date' = date + 1
    /\ UNCHANGED <<ahead, daily, shown, health>>

(* The job fixes its date and lists the customers; each server runs it once *)
(* in a behaviour, on the first day or after midnight.                      *)
StartHealthRun(s) ==
    /\ health[s].pc = "idle"
    /\ health' = [health EXCEPT ![s] = [Off EXCEPT !.pc = "next", !.date = date, !.todo = Customers]]
    /\ UNCHANGED <<date, ahead, daily, shown>>

(* Three SELECTs for the signals; invoices, plans and cases change at any   *)
(* time (module Receivables), so they may say anything.                     *)
ReadSignals(s, c, bad) ==
    /\ health[s].pc = "next" /\ c \in health[s].todo
    /\ health' = [health EXCEPT ![s].pc = "store", ![s].cust = c, ![s].bad = bad, ![s].todo = @ \ {c}]
    /\ UNCHANGED <<date, ahead, daily, shown>>

(* INSERT ... ON CONFLICT (customer_id, score_date) DO NOTHING; the row is  *)
(* read back when it was there.                                             *)
Row(s) == <<health[s].cust, health[s].date>>
NewScore(s) == [bad |-> health[s].bad, stamp |-> date + ahead]

StoreScore(s) ==
    /\ health[s].pc = "store"
    /\ daily' = [r \in DOMAIN daily \cup {Row(s)} |-> IF r \in DOMAIN daily THEN daily[r] ELSE NewScore(s)]
    /\ health' = [health EXCEPT ![s].pc = "show"]
    /\ UNCHANGED <<date, ahead, shown>>

(* The text of computed_at, "<day> <time>", is compared with "<today>T": on *)
(* equal days the blank sorts before the T, so today's row counts as old.   *)
ComputedEarlier(stamp) == stamp <= date

ShowScore(s) ==
    /\ health[s].pc = "show"
    /\ shown' = IF ComputedEarlier(daily[Row(s)].stamp) THEN shown ELSE shown \cup {health[s].cust}
    /\ health' = [health EXCEPT ![s].pc = "next"]
    /\ UNCHANGED <<date, ahead, daily>>

(* A statement throws: the customer is an error, the loop goes on.          *)
ScoreFails(s) ==
    /\ health[s].pc \in {"store", "show"}
    /\ health' = [health EXCEPT ![s].pc = "next", ![s].failed = @ \cup {health[s].cust}]
    /\ UNCHANGED <<date, ahead, daily, shown>>

(* The run's summary is enqueued.                                           *)
EndHealthRun(s) ==
    /\ health[s].pc = "next" /\ health[s].todo = {}
    /\ health' = [health EXCEPT ![s].pc = "ended"]
    /\ UNCHANGED <<date, ahead, daily, shown>>

HealthNext ==
    \/ Midnight
    \/ \E s \in Servers :
          \/ StartHealthRun(s) \/ StoreScore(s) \/ ShowScore(s) \/ ScoreFails(s) \/ EndHealthRun(s)
          \/ \E c \in Customers, bad \in BOOLEAN : ReadSignals(s, c, bad)

(* A run of the health job that ended has stored a score for every customer *)
(* it listed, those that failed excepted: one failure costs no other.       *)
EveryCustomerScored ==
    \A s \in Servers : health[s].pc = "ended" =>
        \A c \in Customers \ health[s].failed : <<c, health[s].date>> \in DOMAIN daily

(* The score of a day, once stored, is never replaced: a second server or a *)
(* run that goes on past midnight finds the row and keeps it.               *)
DailyScoreIsFinal ==
    [][\A k \in DOMAIN daily : k \in DOMAIN daily' /\ daily'[k] = daily[k]]_healthVars

--------------------------------------------------------------------------------
(* Interventions of account managers, their escalation to a team lead by a  *)
(* daily job on every server, and the alerts a dashboard derives from score *)
(* snapshots and resolved interventions.                                    *)

CONSTANTS
    Clients,        \* customers
    Cases,          \* rl_interventions.id
    Crons,          \* processes that run the cron job
    EscalationDays, \* INTERVENTION_ESCALATION_DAYS
    MaxDay,         \* bound on days
    NoDay           \* NULL, and a job that is not running

ASSUME CareAssumption == EscalationDays \in Nat \ {0} /\ MaxDay \in Nat /\ NoDay \notin Nat \cup Cases

VARIABLES
    day,
    iv,             \* Cases -> row
    notified,       \* rl_am_escalations.intervention_id
    alarm,          \* Crons -> the candidates left, {NoDay} between runs
    snapshots,      \* rl_health_score_history below the threshold: <<customer, day>>
    reopened        \* history: interventions updated after they were resolved

careVars == <<day, iv, notified, alarm, snapshots, reopened>>

NoRow == [status |-> "none", cust |-> CHOOSE c \in Clients : TRUE, created |-> 0,
          resolved |-> NoDay, last |-> NoDay]
Active == {"open", "in_progress"}
Patched == Active \cup {"resolved", "escalated"}      \* what a PATCH may set

CareTypeOK ==
    /\ day \in 0 .. MaxDay
    /\ \A i \in Cases :
          /\ iv[i].status \in Patched \cup {"none"}
          /\ iv[i].status = "resolved" => iv[i].resolved \in iv[i].created .. day
    /\ notified \subseteq Cases /\ alarm \in [Crons -> (SUBSET Cases) \cup {{NoDay}}]
    /\ snapshots \subseteq Clients \X (0 .. MaxDay) /\ reopened \subseteq Cases

CareInit ==
    /\ day = 0 /\ iv = [i \in Cases |-> NoRow] /\ notified = {}
    /\ alarm = [s \in Crons |-> {NoDay}]
    /\ snapshots = {} /\ reopened = {}

NextDay ==
    /\ day < MaxDay /\ day' = day + 1
    /\ UNCHANGED <<iv, notified, alarm, snapshots, reopened>>

(* POST /interventions.                                                     *)
CreateIntervention(i, c) ==
    /\ iv[i].status = "none"
    /\ iv' = [iv EXCEPT ![i] = [NoRow EXCEPT !.status = "open", !.cust = c, !.created = day]]
    /\ UNCHANGED <<day, notified, alarm, snapshots, reopened>>

(* PATCH /interventions/:id: any status may follow any; resolved_at is set  *)
(* once.                                                                    *)
UpdateIntervention(i, status) ==
    LET ends == status = "resolved" IN
    /\ iv[i].status # "none"
    /\ iv' = [iv EXCEPT ![i].status = status,
                        ![i].resolved = IF ends /\ @ = NoDay THEN day ELSE @,
                        ![i].last = IF ends THEN day ELSE @]
    /\ reopened' = IF iv[i].resolved # NoDay THEN reopened \cup {i} ELSE reopened
    /\ UNCHANGED <<day, notified, alarm, snapshots>>

(* listAlertsNeedingEscalation: open long enough, and nobody is working on  *)
(* another intervention of the customer.                                    *)
Waiting_SelfBlocked(i) ==
    /\ iv[i].status = "open" /\ iv[i].created + EscalationDays <= day
    /\ ~\E o \in Cases : iv[o].cust = iv[i].cust /\ iv[o].status \in {"open", "in_progress"}

Waiting(i) ==
    /\ iv[i].status = "open" /\ iv[i].created + EscalationDays <= day
    /\ ~\E o \in Cases \ {i} :
            iv[o].cust = iv[i].cust /\ iv[o].status \in {"open", "in_progress"}

StartEscalation(s) ==
    /\ alarm[s] = {NoDay}
    /\ alarm' = [alarm EXCEPT ![s] = {i \in Cases : Waiting(i)}]
    /\ UNCHANGED <<day, iv, notified, snapshots, reopened>>

(* Per candidate: the upsert for the team lead; the row's status stays.     *)
Escalate(s, i) ==
    /\ i \in alarm[s] \ {NoDay}
    /\ notified' = notified \cup {i} /\ alarm' = [alarm EXCEPT ![s] = @ \ {i}]
    /\ UNCHANGED <<day, iv, snapshots, reopened>>

EndEscalation(s) ==
    /\ alarm[s] = {} /\ alarm' = [alarm EXCEPT ![s] = {NoDay}]
    /\ UNCHANGED <<day, iv, notified, snapshots, reopened>>

(* A score below the threshold goes into the history.                       *)
TakeSnapshot(c) ==
    /\ snapshots' = snapshots \cup {<<c, day>>}
    /\ UNCHANGED <<day, iv, notified, alarm, reopened>>

(* The snapshots of c that still raise an alert: none of its interventions  *)
(* was resolved after them.                                                 *)
OpenAlerts(c) ==
    {h \in snapshots : h[1] = c /\ ~\E i \in Cases :
        iv[i].cust = c /\ iv[i].status = "resolved" /\ iv[i].resolved > h[2]}

CareNext ==
    \/ NextDay
    \/ \E c \in Clients : TakeSnapshot(c)
    \/ \E s \in Crons :
          \/ StartEscalation(s) \/ EndEscalation(s)
          \/ \E i \in Cases : Escalate(s, i)
    \/ \E i \in Cases :
          \/ \E c \in Clients : CreateIntervention(i, c)
          \/ \E st \in Patched : UpdateIntervention(i, st)

(* Every day one of the servers runs the job.                               *)
AlarmStep(s) == StartEscalation(s) \/ EndEscalation(s) \/ \E i \in Cases : Escalate(s, i)

(* Resolving an intervention ends the alerts that were open before that     *)
(* day, unless it had been resolved before: resolved_at keeps the old day.  *)
ResolutionEndsAlerts ==
    \A i \in Cases \ reopened : iv[i].status = "resolved" =>
        \A h \in OpenAlerts(iv[i].cust) : h[2] >= iv[i].last

(* Open beyond the limit, and the only one its customer has.                *)
Neglected(i) ==
    /\ iv[i].status = "open" /\ day - iv[i].created >= EscalationDays
    /\ \A o \in Cases \ {i} : iv[o].status \in Active => iv[o].cust # iv[i].cust

(* An intervention left open, alone for its customer, reaches a team lead.  *)
NeglectReachesLead == \A i \in Cases : Neglected(i) ~> (i \in notified \/ ~Neglected(i))

================================================================================
