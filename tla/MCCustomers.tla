------------------------------ MODULE MCCustomers ------------------------------
(* From prospect to customer and after: leads, deals, health scores and     *)
(* interventions.  They meet in rows one writes before the other starts, so *)
(* each behaviour moves one of them and the instance is their sum.          *)
EXTENDS Leads, CustomerCare, TLC

CONSTANTS r1, r2

VARIABLE part       \* the component that moves

MCReps == <<r1, r2>>

customerVars == <<leadVars, dealVars, healthVars, careVars, part>>

Init ==
    /\ part \in {"leads", "deals", "health", "care"}
    /\ LeadInit /\ DealInit /\ HealthInit /\ CareInit
    /\ part # "health" => ahead = 0

Next ==
    /\ \/ part = "leads" /\ LeadNext /\ UNCHANGED <<dealVars, healthVars, careVars>>
       \/ part = "deals" /\ DealNext /\ UNCHANGED <<leadVars, healthVars, careVars>>
       \/ part = "health" /\ HealthNext /\ UNCHANGED <<leadVars, dealVars, careVars>>
       \/ part = "care" /\ CareNext /\ UNCHANGED <<leadVars, dealVars, healthVars>>
    /\ UNCHANGED part

(* The escalation job runs every day on every server.                       *)
Fairness ==
    \A s \in Crons :
        WF_customerVars(part = "care" /\ AlarmStep(s) /\ UNCHANGED <<leadVars, dealVars, healthVars, part>>)

Spec == Init /\ [][Next]_customerVars /\ Fairness

(* The columns and local states of the four components keep their types.    *)
CustomersTypeOK == LeadTypeOK /\ DealTypeOK /\ HealthTypeOK /\ CareTypeOK

(* However KYC decisions, scorings, routings, rescorings and crashes        *)
(* interleave, a prospect is routed on what was verified, is left nowhere,  *)
(* its rep knows, turns are even and scores are current (kyc.ts, lead-      *)
(* routing.ts, cltv-rescore-worker.ts).                                     *)
LeadsArriveRight ==
    /\ CustomersTypeOK /\ QualifiedIsVerified /\ NoProspectStranded
    /\ AssignedRepIsTold /\ TurnsAreEven /\ ScoresFollowIndicators /\ DropsAreTold

(* A won deal makes one customer, every customer gets a daily score         *)
(* although others fail, and a resolved intervention ends its alerts        *)
(* (leads.ts, health-score-worker.ts, interventions.ts).                    *)
CustomersAreServed ==
    /\ WonHasCustomer /\ OneCustomerPerProspect /\ EveryCustomerScored
    /\ ResolutionEndsAlerts

(* Time does its work: an intervention nobody takes up reaches a team lead, *)
(* and a day's score is never replaced.                                     *)
CareGoesOn ==
    /\ NeglectReachesLead /\ DailyScoreIsFinal

=============================================================================
