------------------------------ MODULE MCGovernance -----------------------------
(* Instances of Approvals and of Retention for TLC.  A behaviour is about  *)
(* one matter: the votes on a privileged operation; the requests on a hold *)
(* of one tenant while its record is scanned; the floors of two classes,   *)
(* an unlisted one and WORM mode; or scans over the records of two tenants. *)
EXTENDS Approvals, Retention, TLC

CONSTANTS Matters, t1, t2, e1, e2, short, long, s1, r1, h1

VARIABLE matter

allVars == <<approvalVars, vars, matter>>

TwoTenants == [e \in Records |-> IF e = e1 THEN t1 ELSE t2]

(* A class of one day, one of two.                                         *)
TwoFloors == (short :> 1) @@ (long :> 2)

(* The instance of Retention in each matter: the tenants and classes with  *)
(* a policy, the oldest a record grows.                                    *)
TenantsIn == IF matter = "scan" THEN {t1, t2} ELSE {t1}
ClassesIn == IF matter = "floors" THEN Classes ELSE {short}
AgeIn == IF matter = "floors" THEN MaxAge ELSE Floors[short]

MCInit ==
    /\ matter \in Matters
    /\ ApprovalsInit /\ Init
    /\ \A t \in Tenants :
          /\ policy[t].class \in ClassesIn \cup {None}
          /\ t \notin TenantsIn \/ matter = "approval" => policy[t].class = None
          /\ matter = "holds" => ~ policy[t].legal_hold_default

Within ==
    /\ \A t \in Tenants :
          /\ policy'[t].class \in ClassesIn \cup {None}
          /\ t \notin TenantsIn => policy'[t].class = None /\ ~ worm'[t]
          /\ matter = "holds" => ~ worm'[t]
    /\ \A e \in Records : record'[e].age <= AgeIn
    /\ matter = "holds" => holds'[h1].tenant \in TenantsIn \cup {None}
    /\ matter = "floors" => UNCHANGED <<holds, session>>
    /\ matter = "scan" =>
          /\ \A s \in Sessions \ {s1} : session'[s] = NoSession
          /\ \A r \in RemovalIds \ {r1} : removals'[r] = removals[r]

MCNext ==
    /\ \/ matter = "approval" /\ ApprovalsNext /\ UNCHANGED vars
       \/ matter # "approval" /\ Next /\ Within /\ UNCHANGED approvalVars
    /\ UNCHANGED matter

(* Fairness of Retention in the behaviours that scan two tenants.          *)
MCFairness ==
    /\ WF_vars(matter = "scan" /\ DayPasses /\ Within)
    /\ \A n \in Scanners :
          /\ WF_vars(matter = "scan" /\ (StartScan(n) \/ FinishScan(n) \/ \E e \in Records : CheckDeletable(n, e)))
          /\ \A e \in Records : SF_vars(matter = "scan" /\ scan[n].at = e /\ DeleteRecord(n))

MCSpec == MCInit /\ [][MCNext]_allVars /\ MCFairness

(* ExpiredIsDeleted, where the scans are fair.                             *)
ExpiredIsScannedAway == matter = "scan" => ExpiredIsDeleted

=============================================================================
