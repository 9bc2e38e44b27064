--------------------------------- MODULE Leads ---------------------------------
(* A prospect until the sale: KYC, scoring, routing and rescoring, and the deal*)
(* that makes it a customer.                                                 *)
EXTENDS Naturals, Sequences, FiniteSets

--------------------------------------------------------------------------------
(* Prospects on their way to a sales rep: the KYC check and its manual      *)
(* review, the CLTV score, the routing that follows it, the rescoring when  *)
(* a macro indicator changes, and the notifications reps get.  Requests and *)
(* rescore tasks run side by side; each statement is a step.                *)

CONSTANTS
    Prospects,      \* rl_prospects.id
    Reps,           \* users with role sales_rep, in the order of their ids
    Scores,         \* composite scores, in tenths of a point: 0 .. 1000
    Qualifies,      \* QUALIFICATION_THRESHOLD in the same unit
    LeadReqs,       \* requests and tasks in flight
    MaxLeadStarts,  \* bound on requests and tasks started
    MaxMacro,       \* bound on changes of the macro indicators
    MaxLeadCuts,    \* bound on requests that stop half-way
    NoRep           \* NULL

ASSUME LeadAssumption ==
    /\ Scores \subseteq Nat /\ Qualifies \in Nat
    /\ {MaxLeadStarts, MaxMacro, MaxLeadCuts} \subseteq Nat
    /\ NoRep \notin {Reps[i] : i \in DOMAIN Reps}
    /\ Reps \in Seq({Reps[i] : i \in DOMAIN Reps})
    /\ \A i, j \in DOMAIN Reps : Reps[i] = Reps[j] => i = j

VARIABLES
    stage,          \* rl_prospects.stage
    rep,            \* rl_prospects.assigned_rep_id
    kyc,            \* the status of the record that is not archived, or "none"
    score,          \* the newest rl_cltv_scores row: [value, macro], or {}
    macro,          \* rl_macro_indicators: version of the values
    indicator,      \* id of the newest indicator row
    rescores,       \* RESCORE tasks: <<prospect, indicator id>> -> state
    schedules,      \* prospects with a RESCORE_SCHEDULE task
    notes,          \* rl_notifications: <<rep, prospect, event>>
    rrCounter,      \* the counter of this process
    lq,             \* LeadReqs -> local state
    leadStarts, leadCuts,
    turns,          \* history: reps picked since the process started
    leadRaces,      \* history: prospects two requests were about at once
    leadCut,        \* history: prospects a request was cut off for
    unseen,         \* history: prospects a change of indicators passed by
    untold          \* history: prospects whose rep has not heard of a drop

leadRow == <<stage, rep, kyc>>
scoring == <<score, macro, indicator, rescores>>
leadHist == <<turns, leadRaces, leadCut, unseen, untold>>
leadCounts == <<leadStarts, leadCuts>>
leadVars == <<leadRow, scoring, schedules, notes, rrCounter, lq, leadCounts, leadHist>>

RepSet == {Reps[i] : i \in DOMAIN Reps}
Quiet == [pc |-> "idle", p |-> CHOOSE p \in Prospects : TRUE, stage |-> "new", kyc |-> "none",
          value |-> 0, seen |-> 0, task |-> 0, rep |-> NoRep]

LeadTypeOK ==
    /\ stage \in [Prospects -> {"new", "kyc_manual_review", "scored", "qualified", "disqualified"}]
    /\ rep \in [Prospects -> RepSet \cup {NoRep}]
    /\ kyc \in [Prospects -> {"none", "verified", "failed"}]
    /\ \A p \in Prospects : score[p] \subseteq [value : Scores, macro : 0 .. MaxMacro] /\ Cardinality(score[p]) <= 1
    /\ macro \in 0 .. MaxMacro /\ indicator \in 0 .. macro
    /\ DOMAIN rescores \subseteq Prospects \X (0 .. indicator)
    /\ schedules \subseteq Prospects
    /\ notes \subseteq RepSet \X Prospects \X {"new_lead", "score_drop"}
    /\ leadStarts \in 0 .. MaxLeadStarts /\ leadCuts \in 0 .. MaxLeadCuts
    /\ rrCounter \in Nat

LeadInit ==
    /\ stage = [p \in Prospects |-> "new"] /\ rep = [p \in Prospects |-> NoRep]
    /\ kyc = [p \in Prospects |-> "none"] /\ score = [p \in Prospects |-> {}]
    /\ macro = 0 /\ indicator = 0 /\ rescores = <<>> /\ schedules = {} /\ notes = {}
    /\ rrCounter = 0 /\ lq = [q \in LeadReqs |-> Quiet]
    /\ leadStarts = 0 /\ leadCuts = 0
    /\ turns = <<>> /\ leadRaces = {} /\ leadCut = {} /\ unseen = {} /\ untold = {}

At(q, pc) == lq[q].pc = pc
Step(q, pc) == lq' = [lq EXCEPT ![q].pc = pc]
Finish(q) == lq' = [lq EXCEPT ![q] = Quiet]
About(p) == {q \in LeadReqs : lq[q].pc # "idle" /\ lq[q].p = p}

(* Bookkeeping of a request or task that starts on prospect p.              *)
Enter(q, p, local) ==
    /\ At(q, "idle") /\ leadStarts < MaxLeadStarts
    /\ leadStarts' = leadStarts + 1
    /\ leadRaces' = IF About(p) # {} THEN leadRaces \cup {p} ELSE leadRaces
    /\ lq' = [lq EXCEPT ![q] = local]

(* POST /kyc/:id/trigger: the active record is archived ...                 *)
TriggerKyc(q, p) ==
    /\ Enter(q, p, [Quiet EXCEPT !.pc = "archived", !.p = p])
    /\ kyc' = [kyc EXCEPT ![p] = "none"]
    /\ UNCHANGED <<stage, rep, scoring, schedules, notes, rrCounter, leadCuts, turns, leadCut, unseen, untold>>

(* ... and a new one inserted; the partial unique index refuses a second.   *)
InsertKyc(q) ==
    LET p == lq[q].p IN
    /\ At(q, "archived")
    /\ \/ kyc[p] = "none" /\ \E status \in {"verified", "failed"} :
              kyc' = [kyc EXCEPT ![p] = status] /\ Step(q, status)
       \/ kyc[p] # "none" /\ Finish(q) /\ UNCHANGED kyc
    /\ UNCHANGED <<stage, rep, scoring, schedules, notes, rrCounter, leadCounts, leadHist>>

FlagForReview_NewOnly(q) ==
    /\ At(q, "failed")
    /\ stage' = [stage EXCEPT ![lq[q].p] = IF @ = "qualified" THEN @ ELSE "kyc_manual_review"] /\ Finish(q)
    /\ UNCHANGED <<rep, kyc, scoring, schedules, notes, rrCounter, leadCounts, leadHist>>

FlagForReview(q) ==
    /\ At(q, "failed")
    /\ stage' = [stage EXCEPT ![lq[q].p] = "kyc_manual_review"] /\ Finish(q)
    /\ UNCHANGED <<rep, kyc, scoring, schedules, notes, rrCounter, leadCounts, leadHist>>

(* PATCH /kyc/:id/review: refused unless the prospect waits for it.         *)
ReviewKyc(q, p, action) ==
    /\ stage[p] = "kyc_manual_review"
    /\ Enter(q, p, [Quiet EXCEPT !.pc = action, !.p = p])
    /\ UNCHANGED <<leadRow, scoring, schedules, notes, rrCounter, leadCuts, turns, leadCut, unseen, untold>>

RejectKyc(q) ==
    /\ At(q, "reject")
    /\ stage' = [stage EXCEPT ![lq[q].p] = "disqualified"] /\ Finish(q)
    /\ UNCHANGED <<rep, kyc, scoring, schedules, notes, rrCounter, leadCounts, leadHist>>

VerifyKyc(q) ==
    LET p == lq[q].p IN
    /\ At(q, "verify")
    /\ kyc' = [kyc EXCEPT ![p] = IF @ = "none" THEN @ ELSE "verified"]
    /\ Step(q, "verified")
    /\ UNCHANGED <<stage, rep, scoring, schedules, notes, rrCounter, leadCounts, leadHist>>

MarkScored(q) ==
    /\ At(q, "verified")
    /\ stage' = [stage EXCEPT ![lq[q].p] = "scored"] /\ Step(q, "score")
    /\ UNCHANGED <<rep, kyc, scoring, schedules, notes, rrCounter, leadCounts, leadHist>>

(* score(): reads indicators, benchmark and KYC data, then inserts a row.   *)
ReadIndicators(q) ==
    /\ At(q, "score")
    /\ lq' = [lq EXCEPT ![q].pc = "compute", ![q].seen = macro]
    /\ UNCHANGED <<leadRow, scoring, schedules, notes, rrCounter, leadCounts, leadHist>>

(* A rescore remembers the score before; a request goes on to route.        *)
InsertScore(q) ==
    LET p == lq[q].p IN
    /\ At(q, "compute")
    /\ \E v \in Scores :
          /\ score' = [score EXCEPT ![p] = {[value |-> v, macro |-> lq[q].seen]}]
          /\ lq' = [lq EXCEPT ![q].pc = IF lq[q].task = 0 THEN "route"
                                        ELSE IF v < lq[q].value THEN "drop" ELSE "done"]
          /\ untold' = IF lq[q].task # 0 /\ v < lq[q].value /\ rep[p] # NoRep
                       THEN untold \cup {p} ELSE untold
    /\ UNCHANGED <<leadRow, macro, indicator, rescores, schedules, notes, rrCounter, leadCounts, turns, leadRaces, leadCut, unseen>>

(* route(): three SELECTs, ...                                              *)
ReadStage(q) ==
    /\ At(q, "route")
    /\ lq' = [lq EXCEPT ![q].pc = "readKyc", ![q].stage = stage[lq[q].p]]
    /\ UNCHANGED <<leadRow, scoring, schedules, notes, rrCounter, leadCounts, leadHist>>

ReadKyc(q) ==
    /\ At(q, "readKyc")
    /\ lq' = [lq EXCEPT ![q].pc = "decide", ![q].kyc = kyc[lq[q].p]]
    /\ UNCHANGED <<leadRow, scoring, schedules, notes, rrCounter, leadCounts, leadHist>>

(* ... the rule, ...                                                        *)
Disqualified(local, latest) ==
    \/ local.stage = "kyc_manual_review"
    \/ local.kyc # "verified"
    \/ \A s \in latest : s.value < Qualifies

DecideRoute(q) ==
    /\ At(q, "decide")
    /\ Step(q, IF Disqualified(lq[q], score[lq[q].p]) THEN "disqualify" ELSE "pick")
    /\ UNCHANGED <<leadRow, scoring, schedules, notes, rrCounter, leadCounts, leadHist>>

(* ... and the outcome.  A disqualified prospect loses its rep and gets one *)
(* RESCORE_SCHEDULE task, ever.                                             *)
Disqualify(q) ==
    LET p == lq[q].p IN
    /\ At(q, "disqualify")
    /\ stage' = [stage EXCEPT ![p] = "disqualified"] /\ rep' = [rep EXCEPT ![p] = NoRep]
    /\ Step(q, "schedule")
    /\ UNCHANGED <<kyc, scoring, schedules, notes, rrCounter, leadCounts, leadHist>>

ScheduleRescore(q) ==
    /\ At(q, "schedule")
    /\ schedules' = schedules \cup {lq[q].p} /\ Finish(q)
    /\ UNCHANGED <<leadRow, scoring, notes, rrCounter, leadCounts, leadHist>>

(* The reps are read first; the counter is read and advanced after that     *)
(* answer, in one go.                                                       *)
PickRep(q) ==
    LET r == IF Reps = <<>> THEN NoRep ELSE Reps[(rrCounter % Len(Reps)) + 1] IN
    /\ At(q, "pick")
    /\ lq' = [lq EXCEPT ![q].pc = "assign", ![q].rep = r]
    /\ rrCounter' = IF r = NoRep THEN rrCounter ELSE rrCounter + 1
    /\ turns' = IF r = NoRep THEN turns ELSE Append(turns, r)
    /\ UNCHANGED <<leadRow, scoring, schedules, notes, leadCounts, leadRaces, leadCut, unseen, untold>>

AssignRep(q) ==
    LET p == lq[q].p IN
    /\ At(q, "assign")
    /\ stage' = [stage EXCEPT ![p] = "qualified"] /\ rep' = [rep EXCEPT ![p] = lq[q].rep]
    /\ IF lq[q].rep = NoRep THEN Finish(q) ELSE Step(q, "notify")
    /\ UNCHANGED <<kyc, scoring, schedules, notes, rrCounter, leadCounts, leadHist>>

NotifyNewLead(q) ==
    /\ At(q, "notify")
    /\ notes' = notes \cup {<<lq[q].rep, lq[q].p, "new_lead">>} /\ Finish(q)
    /\ UNCHANGED <<leadRow, scoring, schedules, rrCounter, leadCounts, leadHist>>

(* The triggers on rl_macro_indicators: one task per scored entity and      *)
(* indicator row, ON CONFLICT DO NOTHING.  A new row has a new id, an       *)
(* UPDATE keeps it.                                                         *)
Scored == {p \in Prospects : score[p] # {}}

ChangeIndicator(new) ==
    LET i == IF new THEN indicator + 1 ELSE indicator
        fresh == {<<p, i>> : p \in Scored} \ DOMAIN rescores
    IN
    /\ macro < MaxMacro /\ i > 0
    /\ macro' = macro + 1 /\ indicator' = i
    /\ rescores' = [k \in DOMAIN rescores \cup fresh |->
                        IF k \in fresh THEN "pending" ELSE rescores[k]]
    /\ unseen' = unseen \cup {p \in Prospects \ Scored : About(p) # {}}
                        \cup {p \in Scored : <<p, i>> \in DOMAIN rescores}
    /\ UNCHANGED <<leadRow, score, schedules, notes, rrCounter, lq, leadCounts, turns, leadRaces, leadCut, untold>>

(* handleRescoreTask: the score before is read first.                       *)
StartRescore(q, p, i) ==
    /\ <<p, i>> \in DOMAIN rescores /\ rescores[<<p, i>>] = "pending"
    /\ Enter(q, p, [Quiet EXCEPT !.pc = "score", !.p = p, !.task = i,
                                 !.value = (CHOOSE s \in score[p] : TRUE).value])
    /\ rescores' = [rescores EXCEPT ![<<p, i>>] = "running"]
    /\ UNCHANGED <<leadRow, score, macro, indicator, schedules, notes, rrCounter, leadCuts, turns, leadCut, unseen, untold>>

NotifyDrop(q) ==
    LET p == lq[q].p IN
    /\ At(q, "drop")
    /\ notes' = IF rep[p] # NoRep THEN notes \cup {<<rep[p], p, "score_drop">>} ELSE notes
    /\ untold' = untold \ {p}
    /\ Step(q, "done")
    /\ UNCHANGED <<leadRow, scoring, schedules, rrCounter, leadCounts, turns, leadRaces, leadCut, unseen>>

FinishRescore(q) ==
    /\ At(q, "done")
    /\ rescores' = [rescores EXCEPT ![<<lq[q].p, lq[q].task>>] = "completed"] /\ Finish(q)
    /\ UNCHANGED <<leadRow, score, macro, indicator, schedules, notes, rrCounter, leadCounts, leadHist>>

(* POST /notifications/:id/read and a rep's list: the row stays.            *)
Unread(r) == {n \in notes : n[1] = r}
QueueOf(r) == {p \in Prospects : stage[p] = "qualified" /\ rep[p] = r}

(* A request or task stops half-way; the queue hands the task out again.    *)
CutLead(q) ==
    LET p == lq[q].p IN
    /\ ~At(q, "idle") /\ leadCuts < MaxLeadCuts
    /\ leadCuts' = leadCuts + 1 /\ leadCut' = leadCut \cup {p} /\ Finish(q)
    /\ rescores' = IF lq[q].task = 0 THEN rescores
                   ELSE [rescores EXCEPT ![<<p, lq[q].task>>] = "pending"]
    /\ UNCHANGED <<leadRow, score, macro, indicator, schedules, notes, rrCounter, leadStarts, turns, leadRaces, unseen, untold>>

LeadStep(q) ==
    \/ InsertKyc(q) \/ FlagForReview(q) \/ RejectKyc(q) \/ VerifyKyc(q) \/ MarkScored(q)
    \/ ReadIndicators(q) \/ InsertScore(q) \/ ReadStage(q) \/ ReadKyc(q) \/ DecideRoute(q)
    \/ Disqualify(q) \/ ScheduleRescore(q) \/ PickRep(q) \/ AssignRep(q) \/ NotifyNewLead(q)
    \/ NotifyDrop(q) \/ FinishRescore(q)

LeadNext ==
    \/ \E q \in LeadReqs :
          \/ LeadStep(q) \/ CutLead(q)
          \/ \E p \in Prospects :
                \/ TriggerKyc(q, p)
                \/ \E action \in {"verify", "reject"} : ReviewKyc(q, p, action)
                \/ \E i \in 1 .. MaxMacro : StartRescore(q, p, i)
    \/ \E new \in BOOLEAN : ChangeIndicator(new)

Settled(p) == About(p) = {} /\ p \notin leadCut

(* A settled prospect that no two requests were about at once is in a rep's *)
(* queue only with a KYC record that is verified (lead-routing.ts: the rule *)
(* is applied to values read by three statements).                          *)
QualifiedIsVerified ==
    \A p \in Prospects \ leadRaces : Settled(p) /\ stage[p] = "qualified" => kyc[p] = "verified"

(* Whatever overlaps, a prospect whose requests all ran to their end is not *)
(* left in "scored", where neither the queue nor the review list shows it.  *)
NoProspectStranded == \A p \in Prospects : Settled(p) => stage[p] # "scored"

(* Whatever overlaps, the rep who ends up with a lead has been notified of  *)
(* it: of two routings of one lead each notifies the rep it has written.    *)
AssignedRepIsTold ==
    \A r \in RepSet : \A p \in QueueOf(r) :
        Settled(p) => \E n \in Unread(r) : n[2] = p /\ n[3] = "new_lead"

(* Requests interleave between the SELECT of the reps and the UPDATE, yet   *)
(* the turns are even: no rep is more than one lead ahead of another.       *)
TurnsAreEven ==
    LET taken(r) == Cardinality({i \in DOMAIN turns : turns[i] = r}) IN
    \A r, s \in RepSet : taken(r) <= taken(s) + 1

(* When its tasks are done, a prospect's newest score was computed from the *)
(* newest indicators, unless two tasks overlapped or the change found the   *)
(* first score still being computed or the row's task already in the queue. *)
ScoresFollowIndicators ==
    \A p \in Scored \ (leadRaces \cup unseen) :
        (/\ Settled(p)
         /\ \A k \in DOMAIN rescores : k[1] = p => rescores[k] = "completed")
        => \A s \in score[p] : s.macro = macro

(* A drop of the score of a lead that has a rep reaches that rep, unless    *)
(* the task was cut off after the new row was inserted or two overlapped.   *)
DropsAreTold == \A p \in Prospects \ leadRaces : Settled(p) => p \notin untold

--------------------------------------------------------------------------------
(* PATCH /leads/:id/stage: a transaction that moves or opens the deal of a  *)
(* prospect, creates the customer when it is won, and logs the activity.    *)
(* READ COMMITTED: a transaction sees what others have committed, and waits *)
(* for a row another has updated.                                           *)

CONSTANTS
    DealOf,         \* prospects with a deal to move
    DealReqs,       \* requests
    MaxDeals        \* bound on stage changes

ASSUME DealAssumption == IsFiniteSet(DealReqs) /\ MaxDeals \in Nat

DealStages == {"contacted", "closed_won"}

VARIABLES
    deals,          \* rl_deals: <<prospect, created_at>> -> stage
    customers,      \* rl_customers: prospect -> number of rows
    activities,     \* rl_activities: prospect -> stages logged, oldest first
    dq,             \* DealReqs -> the open transaction
    dealRaces       \* history: prospects with two transactions open at once

dealVars == <<deals, customers, activities, dq, dealRaces>>

NoTx == [pc |-> "idle", p |-> CHOOSE p \in DealOf : TRUE, stage |-> "contacted", deal |-> 0,
         old |-> FALSE, create |-> FALSE]

DealTypeOK ==
    /\ DOMAIN deals \subseteq DealOf \X (1 .. MaxDeals)
    /\ \A k \in DOMAIN deals : deals[k] \in DealStages
    /\ customers \in [DealOf -> 0 .. MaxDeals]
    /\ activities \in [DealOf -> 0 .. MaxDeals]
    /\ \A q \in DealReqs : dq[q].pc \in {"idle", "read", "written", "checked"}

DealInit ==
    /\ deals = <<>> /\ customers = [p \in DealOf |-> 0] /\ activities = [p \in DealOf |-> 0]
    /\ dq = [q \in DealReqs |-> NoTx] /\ dealRaces = {}

OfProspect(p) == {k[2] : k \in {d \in DOMAIN deals : d[1] = p}}
OpenTx(p) == {q \in DealReqs : dq[q].pc # "idle" /\ dq[q].p = p}

(* Authorisation and validation, then BEGIN and the SELECT of the newest    *)
(* deal; a new row gets the time the transaction began.                     *)
BeginStage(q, p, s) ==
    LET mine == OfProspect(p)
        newest == CHOOSE n \in mine \cup {0} : \A m \in mine : m <= n
    IN
    /\ dq[q].pc = "idle"
    /\ activities[p] + Cardinality(OpenTx(p)) < MaxDeals
    /\ dq' = [dq EXCEPT ![q] = [pc |-> "read", p |-> p, stage |-> s, create |-> FALSE,
                                old |-> mine # {},
                                deal |-> IF mine # {} THEN newest
                                         ELSE activities[p] + Cardinality(OpenTx(p)) + 1]]
    /\ dealRaces' = IF OpenTx(p) # {} THEN dealRaces \cup {p} ELSE dealRaces
    /\ UNCHANGED <<deals, customers, activities>>

(* UPDATE of that row, which waits for its writer, or INSERT of a new one.  *)
WriteDeal(q) ==
    /\ dq[q].pc = "read"
    /\ dq[q].old => \A o \in OpenTx(dq[q].p) \ {q} :
                        dq[o].pc \in {"written", "checked"} => dq[o].deal # dq[q].deal
    /\ dq' = [dq EXCEPT ![q].pc = "written"]
    /\ UNCHANGED <<deals, customers, activities, dealRaces>>

(* When the deal is won: is there a customer yet?                           *)
CheckCustomer_NewDeals(q) ==
    /\ dq[q].pc = "written"
    /\ dq' = [dq EXCEPT ![q].pc = "checked",
                        ![q].create = dq[q].stage = "closed_won" /\ ~dq[q].old]
    /\ UNCHANGED <<deals, customers, activities, dealRaces>>

CheckCustomer(q) ==
    /\ dq[q].pc = "written"
    /\ dq' = [dq EXCEPT ![q].pc = "checked",
                        ![q].create = dq[q].stage = "closed_won" /\ customers[dq[q].p] = 0]
    /\ UNCHANGED <<deals, customers, activities, dealRaces>>

(* The INSERT of the activity and COMMIT.                                   *)
CommitStage(q) ==
    LET p == dq[q].p
        d == <<p, dq[q].deal>>
    IN
    /\ dq[q].pc = "checked"
    /\ deals' = [k \in DOMAIN deals \cup {d} |-> IF k = d THEN dq[q].stage ELSE deals[k]]
    /\ customers' = [customers EXCEPT ![p] = @ + IF dq[q].create THEN 1 ELSE 0]
    /\ activities' = [activities EXCEPT ![p] = @ + 1]
    /\ dq' = [dq EXCEPT ![q] = NoTx]
    /\ UNCHANGED dealRaces

(* The connection is lost: everything is rolled back.                       *)
RollbackStage(q) ==
    /\ dq[q].pc # "idle" /\ dq' = [dq EXCEPT ![q] = NoTx]
    /\ UNCHANGED <<deals, customers, activities, dealRaces>>

DealNext ==
    \E q \in DealReqs :
        \/ \E p \in DealOf, s \in DealStages : BeginStage(q, p, s)
        \/ WriteDeal(q) \/ CheckCustomer(q) \/ CommitStage(q) \/ RollbackStage(q)

(* Whatever overlaps or is rolled back, a prospect with a deal that is won  *)
(* has a customer (leads.ts: "atomically create a Customer record").        *)
WonHasCustomer == \A k \in DOMAIN deals : deals[k] = "closed_won" => customers[k[1]] > 0

(* Unless two stage changes of one prospect overlapped, it has one customer *)
(* at most and one deal at most: no unique index says so.                   *)
OneCustomerPerProspect ==
    \A p \in DealOf \ dealRaces : customers[p] <= 1 /\ Cardinality(OfProspect(p)) <= 1

================================================================================
