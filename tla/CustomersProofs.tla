---------------------------- MODULE CustomersProofs ----------------------------
(* Proofs about the way from prospect to customer and after.  Each component *)
(* has an inductive invariant of its own; a step of the composed             *)
(* specification moves one of them.                                          *)
EXTENDS MCCustomers, WellFoundedInduction, FiniteSetTheorems, SequenceTheorems, TLAPS

--------------------------------------------------------------------------------
(* Interventions and alerts.                                                *)

CareRow == [status : Patched \cup {"none"}, cust : Clients \cup {NoRow.cust},
            created : Nat, resolved : Nat \cup {NoDay}, last : Nat \cup {NoDay}]

(* A row that was never touched after its resolution shows one day twice.   *)
CareInv ==
    /\ CareTypeOK
    /\ iv \in [Cases -> CareRow]
    /\ \A i \in Cases :
          /\ iv[i].created <= day
          /\ iv[i].resolved # NoDay => iv[i].resolved \in iv[i].created .. day
          /\ iv[i].status = "resolved" => iv[i].resolved # NoDay
          /\ i \notin reopened => iv[i].last = iv[i].resolved

(* The invariant of the interventions is inductive.                         *)
LEMMA CareSteps ==
    /\ CareInit => CareInv
    /\ CareInv /\ [CareNext]_careVars => CareInv'
<1>0. /\ MaxDay \in Nat /\ NoDay \notin Nat /\ NoDay \notin Cases
      /\ NoRow \in CareRow /\ NoRow.resolved = NoDay /\ NoRow.last = NoDay /\ NoRow.created = 0
      /\ NoRow.status = "none"
  BY CareAssumption DEF CareRow, NoRow
<1>1. ASSUME CareInit PROVE CareInv
  BY <1>0, <1>1 DEF CareInit, CareInv, CareTypeOK
<1>2. ASSUME CareInv, [CareNext]_careVars PROVE CareInv'
  <2>0. /\ CareInv /\ day \in Nat /\ iv \in [Cases -> CareRow]
        /\ \A i \in Cases : iv[i].created \in Nat
    BY <1>2, <1>0 DEF CareInv, CareTypeOK, CareRow
  <2>1. CASE NextDay
    <3>1. day + 1 \in 0 .. MaxDay
      BY <2>0, <2>1, <1>0 DEF NextDay, CareInv, CareTypeOK
    <3>2. \A i \in Cases : iv[i].resolved # NoDay =>
              iv[i].resolved \in iv[i].created .. day + 1
      BY <2>0 DEF CareInv
    <3> QED
      BY <2>0, <2>1, <3>1, <3>2 DEF NextDay, CareInv, CareTypeOK
  <2>2. ASSUME NEW c \in Clients, TakeSnapshot(c) PROVE CareInv'
    BY <2>0, <2>2 DEF TakeSnapshot, CareInv, CareTypeOK
  <2>3. ASSUME NEW s \in Crons,
               \/ StartEscalation(s) \/ EndEscalation(s)
               \/ \E i \in Cases : Escalate(s, i)
        PROVE  CareInv'
    <3>1. alarm' \in [Crons -> (SUBSET Cases) \cup {{NoDay}}] /\ notified' \subseteq Cases
      <4>1. CASE StartEscalation(s)
        BY <2>0, <4>1 DEF StartEscalation, CareInv, CareTypeOK
      <4>2. CASE EndEscalation(s)
        BY <2>0, <4>2 DEF EndEscalation, CareInv, CareTypeOK
      <4>3. ASSUME NEW i \in Cases, Escalate(s, i)
            PROVE  alarm' \in [Crons -> (SUBSET Cases) \cup {{NoDay}}] /\ notified' \subseteq Cases
        <5>1. alarm[s] \in SUBSET Cases
          BY <2>0, <1>0, <4>3 DEF Escalate, CareInv, CareTypeOK
        <5> QED
          BY <2>0, <4>3, <5>1 DEF Escalate, CareInv, CareTypeOK
      <4> QED
        BY <2>3, <4>1, <4>2, <4>3
    <3>2. UNCHANGED <<day, iv, snapshots, reopened>>
      BY <2>3 DEF StartEscalation, EndEscalation, Escalate
    <3> QED
      BY <2>0, <3>1, <3>2 DEF CareInv, CareTypeOK
  <2>4. ASSUME NEW i \in Cases, NEW c \in Clients, CreateIntervention(i, c) PROVE CareInv'
    <3> DEFINE r == [NoRow EXCEPT !.status = "open", !.cust = c, !.created = day]
    <3>1. /\ r \in CareRow /\ r.resolved = NoDay /\ r.last = NoDay /\ r.created = day
          /\ r.status = "open"
      BY <2>0, <1>0 DEF CareRow, NoRow, Active, Patched
    <3>2. iv' = [iv EXCEPT ![i] = r] /\ UNCHANGED <<day, notified, alarm, snapshots, reopened>>
      BY <2>4 DEF CreateIntervention
    <3> HIDE DEF r
    <3>3. \A j \in Cases : iv'[j] = IF j = i THEN r ELSE iv[j]
      BY <2>0, <3>2
    <3> QED
      BY <2>0, <3>1, <3>2, <3>3 DEF CareInv, CareTypeOK, Active, Patched
  <2>5. ASSUME NEW i \in Cases, NEW st \in Patched, UpdateIntervention(i, st)
        PROVE  CareInv'
    <3> DEFINE o == iv[i]
               r == [o EXCEPT !.status = st,
                              !.resolved = IF st = "resolved" /\ @ = NoDay THEN day ELSE @,
                              !.last = IF st = "resolved" THEN day ELSE @]
    <3>1. o \in CareRow
      BY <2>0
    <3>2. /\ r \in CareRow /\ r.status = st /\ r.created = o.created
          /\ r.resolved = IF st = "resolved" /\ o.resolved = NoDay THEN day ELSE o.resolved
          /\ r.last = IF st = "resolved" THEN day ELSE o.last
      BY <2>0, <3>1 DEF CareRow
    <3>3. iv' = [iv EXCEPT ![i] = r]
      BY <2>0, <2>5 DEF UpdateIntervention
    <3>4. reopened' = (IF o.resolved # NoDay THEN reopened \cup {i} ELSE reopened)
          /\ UNCHANGED <<day, notified, alarm, snapshots>>
      BY <2>5 DEF UpdateIntervention
    <3>5. /\ o.created <= day /\ (o.resolved # NoDay => o.resolved \in o.created .. day)
          /\ (i \notin reopened => o.last = o.resolved)
          /\ o.created \in Nat /\ reopened \subseteq Cases
      BY <2>0 DEF CareInv, CareTypeOK
    <3> HIDE DEF r, o
    <3>6. \A j \in Cases : iv'[j] = IF j = i THEN r ELSE iv[j]
      BY <2>0, <3>3
    <3>7. /\ r.created <= day
          /\ r.resolved # NoDay => r.resolved \in r.created .. day
          /\ r.status = "resolved" => r.resolved # NoDay
          /\ i \notin reopened' => r.last = r.resolved
      BY <2>0, <1>0, <3>2, <3>4, <3>5
    <3>8. iv' \in [Cases -> CareRow] /\ reopened' \subseteq Cases /\ reopened \subseteq reopened'
      BY <2>0, <3>2, <3>3, <3>4, <3>5
    <3>9. ASSUME NEW j \in Cases
          PROVE  /\ iv'[j].status \in Patched \cup {"none"}
                 /\ iv'[j].created <= day
                 /\ iv'[j].resolved # NoDay => iv'[j].resolved \in iv'[j].created .. day
                 /\ iv'[j].status = "resolved" => iv'[j].resolved # NoDay
                 /\ j \notin reopened' => iv'[j].last = iv'[j].resolved
      BY <2>0, <3>2, <3>6, <3>7, <3>8 DEF CareInv, CareTypeOK
    <3> QED
      BY <2>0, <3>4, <3>8, <3>9 DEF CareInv, CareTypeOK
  <2>6. CASE UNCHANGED careVars
    BY <2>0, <2>6 DEF careVars, CareInv, CareTypeOK
  <2> QED
    BY <1>2, <2>1, <2>2, <2>3, <2>4, <2>5, <2>6 DEF CareNext
<1> QED
  BY <1>1, <1>2

(* A resolution that was not touched again outlasts every earlier alert.    *)
LEMMA CarePromise == CareInv => ResolutionEndsAlerts
<1> SUFFICES ASSUME CareInv, NEW i \in Cases \ reopened, iv[i].status = "resolved",
                    NEW h \in OpenAlerts(iv[i].cust)
             PROVE  h[2] >= iv[i].last
  BY DEF ResolutionEndsAlerts
<1>1. /\ h \in snapshots /\ ~(iv[i].resolved > h[2])
  BY DEF OpenAlerts
<1>2. h[2] \in Nat
  BY <1>1, CareAssumption DEF CareInv, CareTypeOK
<1>3. iv[i].resolved \in Nat /\ iv[i].last = iv[i].resolved
  BY DEF CareInv, CareRow
<1> QED
  BY <1>1, <1>2, <1>3

--------------------------------------------------------------------------------
(* Health scores.                                                           *)

HealthJob == [pc : {"idle", "next", "store", "show", "ended"}, date : 0 .. MaxDate,
              todo : SUBSET Customers, failed : SUBSET Customers,
              cust : Customers \cup {Off.cust}, bad : BOOLEAN]

(* A customer a job has listed waits, failed, is being stored or is stored. *)
HealthInv ==
    /\ HealthTypeOK
    /\ health \in [Servers -> HealthJob]
    /\ \A s \in Servers :
          /\ health[s].pc \in {"store", "show"} => health[s].cust \in Customers
          /\ health[s].pc = "show" => Row(s) \in DOMAIN daily
          /\ health[s].pc = "ended" => health[s].todo = {}
          /\ health[s].pc # "idle" => \A c \in Customers :
                \/ c \in health[s].todo \cup health[s].failed
                \/ c = health[s].cust /\ health[s].pc = "store"
                \/ <<c, health[s].date>> \in DOMAIN daily

(* One server's job moves on and the store only grows: what is left to show *)
(* is about that server.                                                    *)
LEMMA HealthMove ==
    ASSUME HealthInv, NEW s \in Servers, NEW j \in HealthJob,
           health' = [health EXCEPT ![s] = j], UNCHANGED <<date, ahead>>,
           j.date <= date, shown' \subseteq Customers,
           DOMAIN daily \subseteq DOMAIN daily',
           DOMAIN daily' \subseteq Customers \X (0 .. MaxDate),
           \A k \in DOMAIN daily' : daily'[k].stamp \in k[2] .. MaxDate + 1,
           j.pc \in {"store", "show"} => j.cust \in Customers,
           j.pc = "show" => <<j.cust, j.date>> \in DOMAIN daily',
           j.pc = "ended" => j.todo = {},
           j.pc # "idle" => \A c \in Customers :
                \/ c \in j.todo \cup j.failed
                \/ c = j.cust /\ j.pc = "store"
                \/ <<c, j.date>> \in DOMAIN daily'
    PROVE  HealthInv'
<1>1. health' \in [Servers -> HealthJob] /\ \A o \in Servers : health'[o] = IF o = s THEN j ELSE health[o]
  BY DEF HealthInv
<1>2. j.todo \subseteq Customers
  BY DEF HealthJob
<1>3. HealthTypeOK'
  BY <1>1, <1>2 DEF HealthInv, HealthTypeOK
<1>4. ASSUME NEW o \in Servers
      PROVE  /\ health'[o].pc \in {"store", "show"} => health'[o].cust \in Customers
             /\ health'[o].pc = "show" => Row(o)' \in DOMAIN daily'
             /\ health'[o].pc = "ended" => health'[o].todo = {}
             /\ health'[o].pc # "idle" => \A c \in Customers :
                   \/ c \in health'[o].todo \cup health'[o].failed
                   \/ c = health'[o].cust /\ health'[o].pc = "store"
                   \/ <<c, health'[o].date>> \in DOMAIN daily'
  <2>1. CASE o = s
    BY <1>1, <2>1 DEF Row
  <2>2. CASE o # s
    <3>1. health'[o] = health[o] /\ Row(o)' = Row(o)
      BY <1>1, <2>2 DEF Row
    <3> QED
      BY <3>1 DEF HealthInv
  <2> QED
    BY <2>1, <2>2
<1> QED
  BY <1>1, <1>3, <1>4 DEF HealthInv

(* The invariant of the health job is inductive.                            *)
LEMMA HealthSteps ==
    /\ HealthInit => HealthInv
    /\ HealthInv /\ [HealthNext]_healthVars => HealthInv'
<1>0. /\ MaxDate \in Nat /\ Off \in HealthJob /\ Off.pc = "idle" /\ Off.date = 0 /\ Off.todo = {}
      /\ Off.failed = {}
  BY HealthAssumption DEF Off, HealthJob
<1>1. ASSUME HealthInit PROVE HealthInv
  BY <1>0, <1>1 DEF HealthInit, HealthInv, HealthTypeOK
<1>2. ASSUME HealthInv, [HealthNext]_healthVars PROVE HealthInv'
  <2>0. /\ HealthInv /\ date \in Nat /\ date <= MaxDate /\ ahead \in {0, 1}
        /\ health \in [Servers -> HealthJob] /\ shown \subseteq Customers
        /\ DOMAIN daily \subseteq Customers \X (0 .. MaxDate)
        /\ \A k \in DOMAIN daily : daily[k].stamp \in k[2] .. MaxDate + 1
    BY <1>2, <1>0 DEF HealthInv, HealthTypeOK
  <2>1. CASE Midnight
    <3>1. date + 1 \in 0 .. MaxDate /\ \A s \in Servers : health[s].date <= date + 1
      <4>1. \A s \in Servers : health[s].date \in Nat
        BY <2>0, <1>0 DEF HealthJob
      <4> QED
        BY <2>0, <2>1, <1>0, <4>1 DEF Midnight, HealthInv, HealthTypeOK
    <3> QED
      BY <2>0, <2>1, <3>1 DEF Midnight, HealthInv, HealthTypeOK, Row
  <2>2. ASSUME NEW s \in Servers PROVE
          /\ health[s] \in HealthJob /\ health[s].date <= date
          /\ health[s].date \in Nat
          /\ health[s].pc \in {"store", "show"} => health[s].cust \in Customers
          /\ health[s].pc = "show" => <<health[s].cust, health[s].date>> \in DOMAIN daily
          /\ health[s].pc # "idle" => \A c \in Customers :
                \/ c \in health[s].todo \cup health[s].failed
                \/ c = health[s].cust /\ health[s].pc = "store"
                \/ <<c, health[s].date>> \in DOMAIN daily
    BY <2>0, <1>0 DEF HealthInv, HealthTypeOK, Row, HealthJob
  <2>3. ASSUME NEW s \in Servers, StartHealthRun(s) PROVE HealthInv'
    <3> DEFINE j == [Off EXCEPT !.pc = "next", !.date = date, !.todo = Customers]
    <3>1. j \in HealthJob /\ j.pc = "next" /\ j.date = date /\ j.todo = Customers
      <4>1. date \in 0 .. MaxDate /\ Off \in HealthJob
        BY <2>0, <1>0
      <4> QED
        BY <4>1 DEF HealthJob
    <3>2. health' = [health EXCEPT ![s] = j] /\ UNCHANGED <<date, ahead, daily, shown>>
      BY <2>3 DEF StartHealthRun
    <3> HIDE DEF j
    <3>3. j.date <= date /\ \A c \in Customers : c \in j.todo \cup j.failed
      BY <2>0, <3>1
    <3> QED
      BY <2>0, <3>1, <3>2, <3>3, HealthMove
  <2>4. ASSUME NEW s \in Servers, NEW c \in Customers, NEW bad \in BOOLEAN, ReadSignals(s, c, bad)
        PROVE  HealthInv'
    <3> DEFINE o == health[s]
               j == [o EXCEPT !.pc = "store", !.cust = c, !.bad = bad, !.todo = @ \ {c}]
    <3>1. /\ j \in HealthJob /\ j.pc = "store" /\ j.date = o.date /\ j.todo = o.todo \ {c}
          /\ j.failed = o.failed /\ j.cust = c
      BY <2>2 DEF HealthJob
    <3>2. health' = [health EXCEPT ![s] = j] /\ UNCHANGED <<date, ahead, daily, shown>> /\ o.pc = "next"
      BY <2>0, <2>4 DEF ReadSignals
    <3>3. o.date <= date /\ \A x \in Customers : x \in j.todo \cup j.failed \/ x = c
                              \/ <<x, o.date>> \in DOMAIN daily
      BY <2>2, <3>1, <3>2
    <3> HIDE DEF j, o
    <3> QED
      BY <2>0, <3>1, <3>2, <3>3, HealthMove
  <2>5. ASSUME NEW s \in Servers, StoreScore(s) PROVE HealthInv'
    <3> DEFINE o == health[s]
               j == [o EXCEPT !.pc = "show"]
    <3>1. /\ j \in HealthJob /\ j.pc = "show" /\ j.date = o.date /\ j.todo = o.todo
          /\ j.failed = o.failed /\ j.cust = o.cust
      BY <2>2 DEF HealthJob
    <3>2. health' = [health EXCEPT ![s] = j] /\ UNCHANGED <<date, ahead, shown>> /\ o.pc = "store"
      BY <2>0, <2>5 DEF StoreScore
    <3>3. /\ DOMAIN daily' = DOMAIN daily \cup {Row(s)}
          /\ \A k \in DOMAIN daily' : daily'[k] = IF k \in DOMAIN daily THEN daily[k] ELSE NewScore(s)
      BY <2>5 DEF StoreScore
    <3>4. /\ Row(s) = <<o.cust, o.date>> /\ o.cust \in Customers /\ o.date \in 0 .. MaxDate
          /\ o.date <= date
      BY <2>2, <3>2 DEF Row, HealthJob
    <3>5. NewScore(s).stamp \in o.date .. MaxDate + 1
      BY <2>0, <1>0, <3>4 DEF NewScore
    <3>6. /\ DOMAIN daily' \subseteq Customers \X (0 .. MaxDate)
          /\ \A k \in DOMAIN daily' : daily'[k].stamp \in k[2] .. MaxDate + 1
      BY <2>0, <3>3, <3>4, <3>5
    <3>7. \A x \in Customers : x \in j.todo \cup j.failed \/ <<x, o.date>> \in DOMAIN daily'
      BY <2>2, <3>1, <3>2, <3>3, <3>4
    <3> HIDE DEF j, o
    <3> QED
      BY <2>0, <3>1, <3>2, <3>3, <3>4, <3>6, <3>7, HealthMove
  <2>6. ASSUME NEW s \in Servers, ShowScore(s) PROVE HealthInv'
    <3> DEFINE o == health[s]
               j == [o EXCEPT !.pc = "next"]
    <3>1. /\ j \in HealthJob /\ j.pc = "next" /\ j.date = o.date /\ j.todo = o.todo
          /\ j.failed = o.failed /\ j.cust = o.cust
      BY <2>2 DEF HealthJob
    <3>2. health' = [health EXCEPT ![s] = j] /\ UNCHANGED <<date, ahead, daily>> /\ o.pc = "show"
      BY <2>0, <2>6 DEF ShowScore
    <3>3. shown' \subseteq Customers
      BY <2>0, <2>2, <2>6 DEF ShowScore
    <3>4. o.date <= date /\ \A x \in Customers : x \in j.todo \cup j.failed \/ <<x, o.date>> \in DOMAIN daily
      BY <2>2, <3>1, <3>2
    <3> HIDE DEF j, o
    <3> QED
      BY <2>0, <3>1, <3>2, <3>3, <3>4, HealthMove
  <2>7. ASSUME NEW s \in Servers, ScoreFails(s) PROVE HealthInv'
    <3> DEFINE o == health[s]
               j == [o EXCEPT !.pc = "next", !.failed = @ \cup {o.cust}]
    <3>1. /\ j \in HealthJob /\ j.pc = "next" /\ j.date = o.date /\ j.todo = o.todo
          /\ j.failed = o.failed \cup {o.cust} /\ j.cust = o.cust
      BY <2>2, <2>7 DEF HealthJob, ScoreFails
    <3>2. health' = [health EXCEPT ![s] = j] /\ UNCHANGED <<date, ahead, daily, shown>>
          /\ o.pc \in {"store", "show"}
      BY <2>0, <2>7 DEF ScoreFails
    <3>4. o.date <= date /\ \A x \in Customers : x \in j.todo \cup j.failed \/ <<x, o.date>> \in DOMAIN daily
      BY <2>2, <3>1, <3>2
    <3> HIDE DEF j, o
    <3> QED
      BY <2>0, <3>1, <3>2, <3>4, HealthMove
  <2>8. ASSUME NEW s \in Servers, EndHealthRun(s) PROVE HealthInv'
    <3> DEFINE o == health[s]
               j == [o EXCEPT !.pc = "ended"]
    <3>1. /\ j \in HealthJob /\ j.pc = "ended" /\ j.date = o.date /\ j.todo = o.todo
          /\ j.failed = o.failed /\ j.cust = o.cust
      BY <2>2 DEF HealthJob
    <3>2. health' = [health EXCEPT ![s] = j] /\ UNCHANGED <<date, ahead, daily, shown>>
          /\ o.pc = "next" /\ o.todo = {}
      BY <2>0, <2>8 DEF EndHealthRun
    <3>4. o.date <= date /\ \A x \in Customers : x \in j.todo \cup j.failed \/ <<x, o.date>> \in DOMAIN daily
      BY <2>2, <3>1, <3>2
    <3> HIDE DEF j, o
    <3> QED
      BY <2>0, <3>1, <3>2, <3>4, HealthMove
  <2>9. CASE UNCHANGED healthVars
    BY <2>0, <2>9 DEF healthVars, HealthInv, HealthTypeOK, Row
  <2> QED
    BY <1>2, <2>1, <2>3, <2>4, <2>5, <2>6, <2>7, <2>8, <2>9 DEF HealthNext
<1> QED
  BY <1>1, <1>2

(* A job that ended has no customer left to wait for.                       *)
LEMMA HealthPromise == HealthInv => EveryCustomerScored
  BY DEF HealthInv, EveryCustomerScored

(* A step of the job keeps every row of the store: the second server and    *)
(* the run past midnight insert only what is absent.                        *)
LEMMA HealthKeeps ==
    ASSUME [HealthNext]_healthVars, NEW k \in DOMAIN daily
    PROVE  k \in DOMAIN daily' /\ daily'[k] = daily[k]
<1>1. ASSUME NEW s \in Servers, StoreScore(s) PROVE k \in DOMAIN daily' /\ daily'[k] = daily[k]
  BY <1>1 DEF StoreScore
<1>2. ASSUME UNCHANGED daily PROVE k \in DOMAIN daily' /\ daily'[k] = daily[k]
  BY <1>2
<1>3. UNCHANGED daily \/ \E s \in Servers : StoreScore(s)
  BY DEF HealthNext, healthVars, Midnight, StartHealthRun, ReadSignals, ShowScore, ScoreFails, EndHealthRun
<1> QED
  BY <1>1, <1>2, <1>3

--------------------------------------------------------------------------------
(* Deals.                                                                   *)

DealTx == [pc : {"idle", "read", "written", "checked"}, p : DealOf \cup {NoTx.p},
           stage : DealStages, deal : 0 .. MaxDeals, old : BOOLEAN, create : BOOLEAN]

(* What an open transaction t has read: an old deal is there, a won one     *)
(* that creates no customer has one.                                        *)
TxIsSound(t) ==
    /\ t.p \in DealOf /\ t.deal \in 1 .. MaxDeals
    /\ t.old => <<t.p, t.deal>> \in DOMAIN deals
    /\ t.pc = "checked" /\ t.stage = "closed_won" /\ ~t.create => customers[t.p] > 0

(* Alone with its prospect, a transaction has read what still holds.        *)
TxIsCurrent(t) ==
    /\ ~t.old => OfProspect(t.p) = {}
    /\ t.pc = "checked" /\ t.create => customers[t.p] = 0

DealInv ==
    /\ DealTypeOK
    /\ dq \in [DealReqs -> DealTx]
    /\ \A p \in DealOf : /\ activities[p] + Cardinality(OpenTx(p)) <= MaxDeals
                         /\ customers[p] <= activities[p]
    /\ \A q \in DealReqs : dq[q].pc # "idle" =>
          /\ TxIsSound(dq[q])
          /\ dq[q].p \notin dealRaces => OpenTx(dq[q].p) = {q} /\ TxIsCurrent(dq[q])
    /\ WonHasCustomer
    /\ \A p \in DealOf \ dealRaces : customers[p] <= 1 /\ \A m, n \in OfProspect(p) : m = n

(* Every nonempty set of numbers has a least one.                           *)
LEMMA Least ==
    ASSUME NEW S \in SUBSET Nat, S # {}
    PROVE  \E x \in S : \A y \in S : x <= y
<1>1. IsWellFoundedOn(OpToRel(<, Nat), Nat)
  BY NatLessThanWellFounded
<1>2. PICK x \in S : \A y \in S : ~(<<y, x>> \in OpToRel(<, Nat))
  BY <1>1, WFMin
<1>3. \A y \in S : ~(y < x)
  BY <1>2 DEF OpToRel
<1> QED
  BY <1>3

(* The SELECT of the newest deal finds one of the prospect's.               *)
LEMMA NewestIsOne ==
    ASSUME DealInv, NEW p \in DealOf, OfProspect(p) # {}
    PROVE  LET newest == CHOOSE n \in OfProspect(p) \cup {0} : \A m \in OfProspect(p) : m <= n
           IN  newest \in OfProspect(p) /\ newest \in 1 .. MaxDeals
<1> DEFINE S == OfProspect(p)
           newest == CHOOSE n \in S \cup {0} : \A m \in S : m <= n
<1>1. S \subseteq 1 .. MaxDeals /\ MaxDeals \in Nat
  BY DealAssumption DEF DealInv, DealTypeOK, OfProspect
<1> HIDE DEF S
<1>2. PICK x \in {MaxDeals - s : s \in S} : \A y \in {MaxDeals - s : s \in S} : x <= y
  <2>1. {MaxDeals - s : s \in S} \in SUBSET Nat
    BY <1>1
  <2>2. {MaxDeals - s : s \in S} # {}
    BY DEF S
  <2> QED
    BY <2>1, <2>2, Least
<1>3. PICK g \in S : x = MaxDeals - g
  BY <1>2
<1>4. \A m \in S : m <= g
  BY <1>1, <1>2, <1>3
<1>5. newest \in S \cup {0} /\ \A m \in S : m <= newest
  BY <1>3, <1>4
<1> HIDE DEF newest
<1>6. newest # 0
  BY <1>1, <1>3, <1>5
<1>7. newest \in S /\ newest \in 1 .. MaxDeals
  BY <1>1, <1>5, <1>6
<1> QED
  BY <1>7 DEF newest, S

(* The transactions of a prospect are counted.                              *)
LEMMA OpenIsFinite ==
    ASSUME NEW p
    PROVE  IsFiniteSet(OpenTx(p)) /\ Cardinality(OpenTx(p)) \in Nat
<1>1. OpenTx(p) \subseteq DealReqs
  BY DEF OpenTx
<1>2. IsFiniteSet(OpenTx(p))
  BY <1>1, DealAssumption, FS_Subset
<1> QED
  BY <1>2, FS_CardinalityType

(* No transaction is open, and there is no deal.                            *)
LEMMA DealStart == DealInit => DealInv
<1> SUFFICES ASSUME DealInit PROVE DealInv
  OBVIOUS
<1>1. MaxDeals \in Nat /\ NoTx \in DealTx /\ NoTx.pc = "idle"
  BY DealAssumption DEF NoTx, DealTx, DealStages
<1>2. DOMAIN deals = {} /\ \A p \in DealOf : OfProspect(p) = {}
  BY DEF DealInit, OfProspect
<1>3. dq \in [DealReqs -> DealTx] /\ \A q \in DealReqs : dq[q].pc = "idle"
  BY <1>1 DEF DealInit
<1>4. \A p \in DealOf : OpenTx(p) = {}
  BY <1>3 DEF OpenTx
<1>5. \A p \in DealOf : Cardinality(OpenTx(p)) = 0
  BY <1>4, FS_EmptySet
<1>6. DealTypeOK
  BY <1>1, <1>2, <1>3 DEF DealInit, DealTypeOK
<1>7. \A p \in DealOf : customers[p] = 0 /\ activities[p] = 0
  BY DEF DealInit
<1> QED
  BY <1>1, <1>2, <1>3, <1>5, <1>6, <1>7 DEF DealInv, WonHasCustomer

(* A transaction t takes the place of what request q had open; the tables   *)
(* and the races stay, but for p's when it begins beside another.           *)
LEMMA TxMove ==
    ASSUME DealInv, NEW q \in DealReqs, NEW t \in DealTx,
           dq' = [dq EXCEPT ![q] = t], UNCHANGED <<deals, customers, activities>>,
           dq[q].pc # "idle" /\ t.pc # "idle" => t.p = dq[q].p,
           dealRaces \subseteq dealRaces',
           t.pc # "idle" => TxIsSound(t),
           t.pc # "idle" /\ t.p \notin dealRaces' => OpenTx(t.p) \subseteq {q} /\ TxIsCurrent(t),
           t.pc # "idle" /\ dq[q].pc = "idle" =>
                activities[t.p] + Cardinality(OpenTx(t.p)) < MaxDeals
    PROVE  DealInv'
<1>1. /\ dq' \in [DealReqs -> DealTx]
      /\ \A o \in DealReqs : dq'[o] = IF o = q THEN t ELSE dq[o]
  BY DEF DealInv
<1>2. DealTypeOK'
  BY <1>1 DEF DealInv, DealTypeOK, DealTx
<1>3. ASSUME NEW p \in DealOf
      PROVE  /\ OpenTx(p)' \subseteq OpenTx(p) \cup {q}
             /\ (t.pc = "idle" \/ t.p # p \/ dq[q].pc # "idle") => OpenTx(p)' \subseteq OpenTx(p)
             /\ t.pc # "idle" /\ t.p = p => q \in OpenTx(p)'
             /\ t.p # p => OpenTx(p) \subseteq OpenTx(p)' \cup {q}
  BY <1>1 DEF OpenTx
<1>4. ASSUME NEW p \in DealOf
      PROVE  activities'[p] + Cardinality(OpenTx(p)') <= MaxDeals /\ customers'[p] <= activities'[p]
  <2>1. /\ activities[p] + Cardinality(OpenTx(p)) <= MaxDeals /\ customers[p] <= activities[p]
        /\ activities[p] \in Nat /\ MaxDeals \in Nat
    BY DealAssumption DEF DealInv, DealTypeOK
  <2>2. IsFiniteSet(OpenTx(p)) /\ Cardinality(OpenTx(p)) \in Nat
    BY OpenIsFinite
  <2>3. CASE t.pc = "idle" \/ t.p # p \/ dq[q].pc # "idle"
    <3>1. OpenTx(p)' \subseteq OpenTx(p)
      BY <1>3, <2>3
    <3>2. IsFiniteSet(OpenTx(p)') /\ Cardinality(OpenTx(p)') <= Cardinality(OpenTx(p))
      BY <3>1, <2>2, FS_Subset
    <3>3. Cardinality(OpenTx(p)') \in Nat
      BY <3>2, FS_CardinalityType
    <3> QED
      BY <2>1, <2>2, <3>2, <3>3
  <2>4. CASE t.pc # "idle" /\ t.p = p /\ dq[q].pc = "idle"
    <3>1. OpenTx(p)' \subseteq OpenTx(p) \cup {q}
      BY <1>3
    <3>2. IsFiniteSet(OpenTx(p) \cup {q}) /\ Cardinality(OpenTx(p) \cup {q}) <= Cardinality(OpenTx(p)) + 1
          /\ Cardinality(OpenTx(p) \cup {q}) \in Nat
      <4>1. /\ IsFiniteSet(OpenTx(p) \cup {q})
            /\ Cardinality(OpenTx(p) \cup {q}) =
                  IF q \in OpenTx(p) THEN Cardinality(OpenTx(p)) ELSE Cardinality(OpenTx(p)) + 1
        BY <2>2, FS_AddElement
      <4> QED
        BY <2>2, <4>1
    <3>3. IsFiniteSet(OpenTx(p)') /\ Cardinality(OpenTx(p)') <= Cardinality(OpenTx(p) \cup {q})
      BY <3>1, <3>2, FS_Subset
    <3>4. Cardinality(OpenTx(p)') \in Nat
      BY <3>3, FS_CardinalityType
    <3> QED
      BY <2>1, <2>2, <2>4, <3>2, <3>3, <3>4
  <2> QED
    BY <2>3, <2>4
<1>5. ASSUME NEW o \in DealReqs, dq'[o].pc # "idle"
      PROVE  TxIsSound(dq[o])'
  <2>1. CASE o = q
    BY <1>1, <1>5, <2>1 DEF TxIsSound
  <2>2. CASE o # q
    BY <1>1, <1>5, <2>2 DEF DealInv, TxIsSound
  <2> QED
    BY <2>1, <2>2
<1>6. ASSUME NEW o \in DealReqs, dq'[o].pc # "idle", dq'[o].p \notin dealRaces'
      PROVE  OpenTx(dq[o].p)' = {o} /\ TxIsCurrent(dq[o])'
  <2>1. CASE o = q
    <3>1. dq'[o] = t /\ t.p \in DealOf /\ TxIsCurrent(t) /\ OpenTx(t.p) \subseteq {q}
      BY <1>1, <1>6, <2>1 DEF TxIsSound
    <3>2. \A x \in DealReqs : dq'[x].pc # "idle" /\ dq'[x].p = t.p => x = q
      BY <1>1, <3>1 DEF OpenTx
    <3>3. OpenTx(dq[o].p)' = {o}
      BY <1>6, <2>1, <3>1, <3>2 DEF OpenTx
    <3>4. TxIsCurrent(dq[o])'
      BY <3>1 DEF TxIsCurrent, OfProspect
    <3> QED
      BY <3>3, <3>4
  <2>2. CASE o # q
    <3>1. dq'[o] = dq[o] /\ dq[o].pc # "idle" /\ dq[o].p \notin dealRaces /\ dq[o].p \in DealOf
      BY <1>1, <1>6, <2>2 DEF DealInv, TxIsSound
    <3>2. OpenTx(dq[o].p) = {o} /\ TxIsCurrent(dq[o])
      BY <3>1 DEF DealInv
    <3>3. t.pc = "idle" \/ t.p # dq[o].p
      <4> SUFFICES ASSUME t.pc # "idle", t.p = dq[o].p PROVE FALSE
        OBVIOUS
      <4>1. OpenTx(t.p) \subseteq {q} /\ o \in OpenTx(t.p)
        BY <1>6, <3>1, <3>2
      <4> QED
        BY <2>2, <4>1
    <3>4. \A x \in DealReqs : dq'[x].pc # "idle" /\ dq'[x].p = dq[o].p => x = o
      BY <1>1, <3>2, <3>3 DEF OpenTx
    <3>5. OpenTx(dq[o].p)' = {o}
      BY <3>1, <3>4 DEF OpenTx
    <3>6. TxIsCurrent(dq[o])'
      BY <3>1, <3>2 DEF TxIsCurrent, OfProspect
    <3> QED
      BY <3>5, <3>6
  <2> QED
    BY <2>1, <2>2
<1>7. WonHasCustomer'
  BY DEF DealInv, WonHasCustomer
<1>8. ASSUME NEW p \in DealOf \ dealRaces'
      PROVE  customers'[p] <= 1 /\ \A m, n \in OfProspect(p)' : m = n
  <2>1. p \in DealOf \ dealRaces /\ OfProspect(p)' = OfProspect(p)
    BY DEF OfProspect
  <2> QED
    BY <2>1 DEF DealInv
<1> QED
  BY <1>1, <1>2, <1>4, <1>5, <1>6, <1>7, <1>8 DEF DealInv

(* COMMIT: the deal, the customer and the activity appear at once.          *)
LEMMA CommitKeeps ==
    ASSUME DealInv, NEW q \in DealReqs, CommitStage(q)
    PROVE  DealInv'
<1> DEFINE t == dq[q]
           p == t.p
           d == <<p, t.deal>>
           more == IF t.create THEN 1 ELSE 0
<1>0. /\ t \in DealTx /\ t.pc = "checked" /\ TxIsSound(t)
      /\ p \notin dealRaces => OpenTx(p) = {q} /\ TxIsCurrent(t)
      /\ dq \in [DealReqs -> DealTx] /\ MaxDeals \in Nat
      /\ customers \in [DealOf -> 0 .. MaxDeals] /\ activities \in [DealOf -> 0 .. MaxDeals]
  BY DealAssumption DEF DealInv, DealTypeOK, CommitStage
<1>1. /\ p \in DealOf /\ t.deal \in 1 .. MaxDeals
      /\ (t.old => d \in DOMAIN deals)
      /\ (t.stage = "closed_won" /\ ~t.create => customers[p] > 0)
  BY <1>0 DEF TxIsSound
<1>2. /\ more \in {0, 1} /\ (t.stage = "closed_won" /\ more = 0 => customers[p] > 0)
      /\ (more = 1 /\ p \notin dealRaces => customers[p] = 0)
      /\ (p \notin dealRaces => d \in DOMAIN deals \/ OfProspect(p) = {})
  BY <1>0, <1>1 DEF TxIsCurrent
<1>3. /\ NoTx \in DealTx /\ NoTx.pc = "idle" /\ t.stage \in DealStages
  BY <1>0, DealAssumption DEF NoTx, DealTx, DealStages
<1>4. /\ DOMAIN deals' = DOMAIN deals \cup {d}
      /\ \A k \in DOMAIN deals' : deals'[k] = IF k = d THEN t.stage ELSE deals[k]
      /\ customers' = [customers EXCEPT ![p] = customers[p] + more]
      /\ activities' = [activities EXCEPT ![p] = activities[p] + 1]
      /\ dq' = [dq EXCEPT ![q] = NoTx] /\ dealRaces' = dealRaces
  BY <1>0, <1>1 DEF CommitStage
<1> HIDE DEF more
<1>5. /\ dq' \in [DealReqs -> DealTx]
      /\ \A o \in DealReqs : dq'[o] = IF o = q THEN NoTx ELSE dq[o]
      /\ \A x \in DealOf : customers'[x] = IF x = p THEN customers[p] + more ELSE customers[x]
      /\ \A x \in DealOf : activities'[x] = IF x = p THEN activities[p] + 1 ELSE activities[x]
  BY <1>0, <1>1, <1>3, <1>4
<1>6. ASSUME NEW x \in DealOf
      PROVE  /\ OpenTx(x)' = OpenTx(x) \ {q} /\ (x = p => q \in OpenTx(x))
             /\ OfProspect(x)' = IF x = p THEN OfProspect(x) \cup {t.deal} ELSE OfProspect(x)
  <2>1. OpenTx(x)' = OpenTx(x) \ {q} /\ (x = p => q \in OpenTx(x))
    BY <1>0, <1>3, <1>5 DEF OpenTx
  <2>2. OfProspect(x)' = IF x = p THEN OfProspect(x) \cup {t.deal} ELSE OfProspect(x)
    <3>1. CASE x = p
      <4>1. {k \in DOMAIN deals' : k[1] = x} = {k \in DOMAIN deals : k[1] = x} \cup {d}
        BY <1>4, <3>1
      <4>2. \A A, e : {k[2] : k \in A \cup {e}} = {k[2] : k \in A} \cup {e[2]}
        OBVIOUS
      <4>3. d[2] = t.deal
        OBVIOUS
      <4> HIDE DEF d
      <4> QED
        BY <3>1, <4>1, <4>2, <4>3 DEF OfProspect
    <3>2. CASE x # p
      <4>1. {k \in DOMAIN deals' : k[1] = x} = {k \in DOMAIN deals : k[1] = x}
        BY <1>4, <3>2
      <4> QED
        BY <3>2, <4>1 DEF OfProspect
    <3> QED
      BY <3>1, <3>2
  <2> QED
    BY <2>1, <2>2
<1>7. ASSUME NEW x \in DealOf
      PROVE  /\ activities'[x] + Cardinality(OpenTx(x)') <= MaxDeals
             /\ customers'[x] <= activities'[x]
             /\ activities'[x] \in 0 .. MaxDeals /\ customers'[x] \in 0 .. MaxDeals
             /\ customers[x] <= customers'[x] /\ customers[x] \in Nat /\ customers'[x] \in Nat
  <2>1. /\ activities[x] + Cardinality(OpenTx(x)) <= MaxDeals /\ customers[x] <= activities[x]
        /\ activities[x] \in Nat /\ customers[x] \in Nat
    BY <1>0 DEF DealInv
  <2>2. IsFiniteSet(OpenTx(x)) /\ Cardinality(OpenTx(x)) \in Nat
    BY OpenIsFinite
  <2>3. Cardinality(OpenTx(x)') = IF q \in OpenTx(x) THEN Cardinality(OpenTx(x)) - 1
                                                      ELSE Cardinality(OpenTx(x))
    <3>1. Cardinality(OpenTx(x) \ {q}) = IF q \in OpenTx(x) THEN Cardinality(OpenTx(x)) - 1
                                                             ELSE Cardinality(OpenTx(x))
      BY <2>2, FS_RemoveElement
    <3> QED
      BY <1>6, <3>1
  <2>4. Cardinality(OpenTx(x)') \in Nat
    <3>1. IsFiniteSet(OpenTx(x) \ {q})
      BY <2>2, FS_RemoveElement
    <3>2. Cardinality(OpenTx(x) \ {q}) \in Nat
      BY <3>1, FS_CardinalityType
    <3> QED
      BY <3>2, <1>6
  <2> QED
    BY <1>0, <1>2, <1>5, <1>6, <2>1, <2>2, <2>3, <2>4
<1>8. customers' \in [DealOf -> 0 .. MaxDeals] /\ activities' \in [DealOf -> 0 .. MaxDeals]
  <2>1. DOMAIN customers' = DealOf /\ DOMAIN activities' = DealOf
    BY <1>0, <1>4
  <2>2. customers' = [x \in DealOf |-> customers'[x]] /\ activities' = [x \in DealOf |-> activities'[x]]
    BY <1>0, <1>4, <2>1
  <2> QED
    BY <1>7, <2>2
<1>9. DealTypeOK'
  <2>1. DOMAIN deals' \subseteq DealOf \X (1 .. MaxDeals) /\ \A k \in DOMAIN deals' : deals'[k] \in DealStages
    BY <1>1, <1>3, <1>4 DEF DealInv, DealTypeOK
  <2>2. \A o \in DealReqs : dq'[o].pc \in {"idle", "read", "written", "checked"}
    BY <1>5 DEF DealTx
  <2> QED
    BY <1>8, <2>1, <2>2 DEF DealTypeOK
<1>10. ASSUME NEW o \in DealReqs, dq'[o].pc # "idle"
       PROVE  /\ TxIsSound(dq[o])'
              /\ dq'[o].p \notin dealRaces' => OpenTx(dq[o].p)' = {o} /\ TxIsCurrent(dq[o])'
  <2>1. o # q /\ dq'[o] = dq[o] /\ dq[o].pc # "idle" /\ TxIsSound(dq[o]) /\ dq[o].p \in DealOf
    BY <1>3, <1>5, <1>10 DEF DealInv, TxIsSound
  <2>2. TxIsSound(dq[o])'
    <3>1. customers[dq[o].p] > 0 => customers'[dq[o].p] > 0
      BY <1>7, <2>1
    <3> QED
      BY <1>4, <2>1, <3>1 DEF TxIsSound
  <2>3. ASSUME dq[o].p \notin dealRaces
        PROVE  OpenTx(dq[o].p)' = {o} /\ TxIsCurrent(dq[o])'
    <3>1. OpenTx(dq[o].p) = {o} /\ TxIsCurrent(dq[o])
      BY <2>1, <2>3 DEF DealInv
    <3>2. dq[o].p # p
      BY <1>6, <2>1, <3>1
    <3>3. OpenTx(dq[o].p)' = {o}
      <4>1. \A x \in DealReqs : dq'[x].pc # "idle" /\ dq'[x].p = dq[o].p => x = o
        BY <1>3, <1>5, <3>1 DEF OpenTx
      <4> QED
        BY <2>1, <4>1 DEF OpenTx
    <3>4. customers'[dq[o].p] = customers[dq[o].p]
      BY <1>5, <2>1, <3>2
    <3>5. OfProspect(dq[o].p) = {} => OfProspect(dq[o].p)' = {}
      <4>1. {k \in DOMAIN deals' : k[1] = dq[o].p} = {k \in DOMAIN deals : k[1] = dq[o].p}
        BY <1>4, <3>2
      <4> QED
        BY <2>1, <4>1 DEF OfProspect
    <3>6. TxIsCurrent(dq[o])'
      BY <2>1, <3>1, <3>4, <3>5 DEF TxIsCurrent
    <3> QED
      BY <3>3, <3>6
  <2> QED
    BY <1>4, <2>1, <2>2, <2>3
<1>11. WonHasCustomer'
  <2> SUFFICES ASSUME NEW k \in DOMAIN deals', deals'[k] = "closed_won" PROVE customers'[k[1]] > 0
    BY DEF WonHasCustomer
  <2>1. CASE k = d
    <3>1. t.stage = "closed_won" /\ k[1] = p /\ customers[p] \in Nat
      BY <1>0, <1>1, <1>4, <2>1
    <3> QED
      BY <1>1, <1>2, <1>5, <3>1
  <2>2. CASE k # d
    <3>1. k \in DOMAIN deals /\ deals[k] = "closed_won" /\ k[1] \in DealOf
      BY <1>4, <2>2 DEF DealInv, DealTypeOK
    <3>2. customers[k[1]] > 0
      BY <3>1 DEF DealInv, WonHasCustomer
    <3> QED
      BY <1>7, <3>1, <3>2
  <2> QED
    BY <2>1, <2>2
<1>12. ASSUME NEW x \in DealOf \ dealRaces'
       PROVE  customers'[x] <= 1 /\ \A m, n \in OfProspect(x)' : m = n
  <2>1. x \notin dealRaces /\ customers[x] <= 1 /\ customers[x] \in Nat
        /\ \A m, n \in OfProspect(x) : m = n
    BY <1>0, <1>4 DEF DealInv
  <2>2. customers'[x] <= 1
    BY <1>1, <1>2, <1>5, <2>1
  <2>3. x = p => t.deal \in OfProspect(x) \/ OfProspect(x) = {}
    BY <1>2, <2>1 DEF OfProspect
  <2> QED
    BY <1>6, <2>1, <2>2, <2>3
<1> QED
  BY <1>5, <1>7, <1>9, <1>10, <1>11, <1>12 DEF DealInv

(* The invariant of the deals is inductive.                                 *)
LEMMA DealSteps ==
    /\ DealInit => DealInv
    /\ DealInv /\ [DealNext]_dealVars => DealInv'
<1>1. ASSUME DealInv, NEW q \in DealReqs, NEW p \in DealOf, NEW s \in DealStages, BeginStage(q, p, s)
      PROVE  DealInv'
  <2> DEFINE mine == OfProspect(p)
             newest == CHOOSE n \in mine \cup {0} : \A m \in mine : m <= n
             number == IF mine # {} THEN newest ELSE activities[p] + Cardinality(OpenTx(p)) + 1
             exists == mine # {}
             t == [pc |-> "read", p |-> p, stage |-> s, create |-> FALSE,
                   old |-> exists, deal |-> number]
  <2>0. /\ activities[p] \in Nat /\ Cardinality(OpenTx(p)) \in Nat /\ MaxDeals \in Nat
        /\ activities[p] + Cardinality(OpenTx(p)) < MaxDeals /\ dq[q].pc = "idle"
    BY <1>1, DealAssumption, OpenIsFinite DEF DealInv, DealTypeOK, BeginStage
  <2>1. number \in 1 .. MaxDeals /\ (mine # {} => number \in mine)
    <3>1. CASE mine # {}
      <4>1. newest \in mine /\ newest \in 1 .. MaxDeals
        BY <1>1, <3>1, NewestIsOne
      <4> HIDE DEF newest
      <4> QED
        BY <3>1, <4>1
    <3>2. CASE mine = {}
      BY <2>0, <3>2
    <3> QED
      BY <3>1, <3>2
  <2>2. dq' = [dq EXCEPT ![q] = t] /\ UNCHANGED <<deals, customers, activities>>
        /\ dealRaces' = IF OpenTx(p) # {} THEN dealRaces \cup {p} ELSE dealRaces
    BY <1>1 DEF BeginStage
  <2>3. mine # {} => <<p, number>> \in DOMAIN deals
    <3> SUFFICES ASSUME mine # {} PROVE <<p, number>> \in DOMAIN deals
      OBVIOUS
    <3>1. PICK k \in DOMAIN deals : k[1] = p /\ k[2] = number
      <4> HIDE DEF number
      <4> QED
        BY <2>1 DEF OfProspect
    <3>2. k = <<p, number>>
      <4> HIDE DEF number
      <4> QED
        BY <1>1, <3>1 DEF DealInv, DealTypeOK
    <3> QED
      BY <3>1, <3>2
  <2> HIDE DEF number
  <2>4. /\ t \in DealTx /\ t.pc = "read" /\ t.p = p /\ t.deal = number
        /\ t.old = exists /\ t.create = FALSE
    <3>1. exists \in BOOLEAN
      OBVIOUS
    <3> HIDE DEF exists
    <3> QED
      BY <2>0, <2>1, <3>1 DEF DealTx
  <2>5. TxIsSound(t) /\ TxIsCurrent(t)
    <3> HIDE DEF t
    <3> QED
      BY <2>1, <2>3, <2>4 DEF TxIsSound, TxIsCurrent, exists
  <2> HIDE DEF t
  <2>6. dealRaces \subseteq dealRaces' /\ (p \notin dealRaces' => OpenTx(p) = {})
    BY <2>2
  <2> QED
    BY <1>1, <2>0, <2>2, <2>4, <2>5, <2>6, TxMove
<1>2. ASSUME DealInv, NEW q \in DealReqs, dq[q].pc # "idle"
      PROVE  /\ dq[q] \in DealTx /\ TxIsSound(dq[q]) /\ dq \in [DealReqs -> DealTx]
             /\ dq[q].p \notin dealRaces => OpenTx(dq[q].p) = {q} /\ TxIsCurrent(dq[q])
  BY <1>2 DEF DealInv
<1>3. ASSUME DealInv, NEW q \in DealReqs, WriteDeal(q) PROVE DealInv'
  <2> DEFINE o == dq[q]
             t == [o EXCEPT !.pc = "written"]
  <2>1. /\ o \in DealTx /\ TxIsSound(o) /\ o.pc = "read"
        /\ o.p \notin dealRaces => OpenTx(o.p) = {q} /\ TxIsCurrent(o)
    BY <1>2, <1>3 DEF WriteDeal
  <2>2. /\ t \in DealTx /\ t.pc = "written" /\ t.p = o.p /\ t.old = o.old /\ t.deal = o.deal
    BY <2>1 DEF DealTx
  <2>3. dq' = [dq EXCEPT ![q] = t] /\ UNCHANGED <<deals, customers, activities, dealRaces>>
    BY <1>2, <1>3 DEF WriteDeal
  <2> HIDE DEF t, o
  <2>4. TxIsSound(t) /\ (o.p \notin dealRaces => TxIsCurrent(t))
    BY <2>1, <2>2 DEF TxIsSound, TxIsCurrent
  <2> QED
    BY <1>3, <2>1, <2>2, <2>3, <2>4, TxMove DEF o
<1>4. ASSUME DealInv, NEW q \in DealReqs, CheckCustomer(q) PROVE DealInv'
  <2> DEFINE o == dq[q]
             new == o.stage = "closed_won" /\ customers[o.p] = 0
             t == [o EXCEPT !.pc = "checked", !.create = new]
  <2>1. /\ o \in DealTx /\ TxIsSound(o) /\ o.pc = "written"
        /\ o.p \notin dealRaces => OpenTx(o.p) = {q} /\ TxIsCurrent(o)
    BY <1>2, <1>4 DEF CheckCustomer
  <2>2. dq' = [dq EXCEPT ![q] = t] /\ UNCHANGED <<deals, customers, activities, dealRaces>>
    BY <1>2, <1>4 DEF CheckCustomer
  <2>3. new \in BOOLEAN /\ customers[o.p] \in Nat
    BY <1>4, <2>1 DEF DealInv, DealTypeOK, TxIsSound
  <2>4. (new => customers[o.p] = 0) /\ (o.stage = "closed_won" /\ ~new => customers[o.p] > 0)
    BY <2>3
  <2> HIDE DEF new
  <2>5. /\ t \in DealTx /\ t.pc = "checked" /\ t.p = o.p /\ t.old = o.old /\ t.deal = o.deal
        /\ t.stage = o.stage /\ t.create = new
    <3> HIDE DEF o
    <3> QED
      BY <2>1, <2>3 DEF DealTx
  <2> HIDE DEF t, o
  <2>6. TxIsSound(t) /\ (o.p \notin dealRaces => TxIsCurrent(t))
    BY <2>1, <2>3, <2>4, <2>5 DEF TxIsSound, TxIsCurrent
  <2> QED
    BY <1>4, <2>1, <2>2, <2>5, <2>6, TxMove DEF o
<1>5. ASSUME DealInv, NEW q \in DealReqs, RollbackStage(q) PROVE DealInv'
  <2>1. NoTx \in DealTx /\ NoTx.pc = "idle"
    BY DealAssumption DEF NoTx, DealTx, DealStages
  <2> QED
    BY <1>5, <2>1, TxMove DEF RollbackStage
<1>6. ASSUME DealInv, UNCHANGED dealVars PROVE DealInv'
  BY <1>6 DEF dealVars, DealInv, DealTypeOK, WonHasCustomer, OfProspect, OpenTx, TxIsSound, TxIsCurrent
<1> QED
  BY DealStart, <1>1, <1>3, <1>4, <1>5, <1>6, CommitKeeps DEF DealNext

(* What the deals promise follows.                                          *)
LEMMA DealPromise == DealInv => WonHasCustomer /\ OneCustomerPerProspect
<1> SUFFICES ASSUME DealInv, NEW p \in DealOf \ dealRaces
             PROVE  customers[p] <= 1 /\ Cardinality(OfProspect(p)) <= 1
  BY DEF DealInv, OneCustomerPerProspect
<1>1. customers[p] <= 1 /\ \A m, n \in OfProspect(p) : m = n
  BY DEF DealInv
<1>2. CASE OfProspect(p) = {}
  BY <1>1, <1>2, FS_EmptySet
<1>3. CASE OfProspect(p) # {}
  <2>1. PICK m \in OfProspect(p) : OfProspect(p) = {m}
    BY <1>1, <1>3
  <2>2. Cardinality({m}) = 1
    BY FS_Singleton
  <2> QED
    BY <1>1, <2>1, <2>2
<1> QED
  BY <1>2, <1>3

--------------------------------------------------------------------------------
(* Leads.                                                                   *)

Stages == {"new", "kyc_manual_review", "scored", "qualified", "disqualified"}
Kycs == {"none", "verified", "failed"}
Rescoring == {"score", "compute", "drop", "done"}
Routing == {"score", "compute", "route", "readKyc", "decide", "disqualify", "pick", "assign"}
LeadPcs == {"idle", "archived", "verified", "failed", "verify", "reject", "schedule", "notify"}
           \cup Rescoring \cup Routing

Local == [pc : LeadPcs, p : Prospects \cup {Quiet.p}, stage : Stages, kyc : Kycs, value : Nat,
          seen : 0 .. MaxMacro, task : Nat, rep : RepSet \cup {NoRep}]

(* Rescore tasks and requests take different ways.                          *)
LocalIsSound(l) ==
    /\ l \in Local
    /\ l.pc # "idle" => l.p \in Prospects
    /\ l.task # 0 => l.pc \in Rescoring
    /\ l.pc \in {"drop", "done"} => l.task # 0
    /\ l.pc = "notify" => l.rep # NoRep

LeadBase ==
    /\ LeadTypeOK
    /\ score \in [Prospects -> SUBSET [value : Scores, macro : 0 .. MaxMacro]]
    /\ \A k \in DOMAIN rescores : score[k[1]] # {}
    /\ lq \in [LeadReqs -> Local] /\ \A q \in LeadReqs : LocalIsSound(lq[q])

Busy(q, p) == lq[q].pc # "idle" /\ lq[q].p = p
Pending(p) == \E k \in DOMAIN rescores : k[1] = p /\ rescores[k] = "pending"

(* What the only request about p has done and read is still so.             *)
IsCurrent(p, l) ==
    /\ l.pc = "archived" => kyc[p] = "none"
    /\ l.pc = "decide" => l.kyc = kyc[p]
    /\ l.pc \in {"pick", "assign"} => kyc[p] = "verified"
    /\ l.task # 0 => <<p, l.task>> \in DOMAIN rescores /\ rescores[<<p, l.task>>] = "running"
    /\ l.pc = "compute" /\ p \notin unseen => l.seen = macro \/ Pending(p)

(* Promises about a prospect, with the request that will keep them.         *)
LeadAt(p) ==
    /\ p \notin leadRaces =>
          /\ \A q, o \in LeadReqs : Busy(q, p) /\ Busy(o, p) => q = o
          /\ \A q \in LeadReqs : Busy(q, p) => IsCurrent(p, lq[q])
    /\ p \notin leadRaces \cup leadCut =>
          /\ stage[p] = "qualified" =>
                kyc[p] = "verified" \/ \E q \in LeadReqs : Busy(q, p) /\ lq[q].pc \in {"archived", "failed"}
          /\ p \in untold => \E q \in LeadReqs : Busy(q, p) /\ lq[q].pc = "drop"
          /\ p \notin unseen =>
                \/ \A s \in score[p] : s.macro = macro
                \/ Pending(p)
                \/ \E q \in LeadReqs : Busy(q, p) /\ lq[q].pc \in {"score", "compute"}
    /\ p \notin leadCut =>
          /\ stage[p] = "scored" =>
                \E q \in LeadReqs : Busy(q, p) /\ lq[q].task = 0 /\ lq[q].pc \in Routing
          /\ rep[p] # NoRep =>
                \/ <<rep[p], p, "new_lead">> \in notes
                \/ \E q \in LeadReqs : Busy(q, p) /\ lq[q].pc = "notify" /\ lq[q].rep = rep[p]

(* Turns: everyone has had n, those before the counter one more.            *)
Taken(r) == Cardinality({i \in DOMAIN turns : turns[i] = r})

TurnInv ==
    /\ turns \in Seq(RepSet)
    /\ Reps # <<>> => \E n \in Nat : \A a \in 1 .. Len(Reps) :
          Taken(Reps[a]) = IF a <= rrCounter % Len(Reps) THEN n + 1 ELSE n

LeadInv == LeadBase /\ (\A p \in Prospects : LeadAt(p)) /\ TurnInv

(* Nothing has begun.                                                       *)
LEMMA LeadStart == LeadInit => LeadInv
<1> SUFFICES ASSUME LeadInit PROVE LeadInv
  OBVIOUS
<1>1. /\ Quiet \in Local /\ Quiet.pc = "idle" /\ Quiet.task = 0
  BY LeadAssumption DEF Quiet, Local, LeadPcs, Stages, Kycs
<1>2. lq \in [LeadReqs -> Local] /\ \A q \in LeadReqs : LocalIsSound(lq[q]) /\ lq[q].pc = "idle"
  BY <1>1 DEF LeadInit, LocalIsSound
<1>3. DOMAIN rescores = {}
  BY DEF LeadInit
<1>4. LeadBase
  <2>1. Cardinality({}) = 0
    BY FS_EmptySet
  <2>2. LeadTypeOK
    BY <1>3, <2>1, LeadAssumption DEF LeadInit, LeadTypeOK
  <2> QED
    BY <1>2, <1>3, <2>2 DEF LeadInit, LeadBase
<1>5. \A p \in Prospects : LeadAt(p)
  BY <1>2, <1>3 DEF LeadInit, LeadAt, Busy
<1>6. TurnInv
  <2>1. turns \in Seq(RepSet) /\ DOMAIN turns = {}
    BY DEF LeadInit
  <2>2. \A r : Taken(r) = 0
    BY <2>1, FS_EmptySet DEF Taken
  <2>3. Reps # <<>> => rrCounter % Len(Reps) = 0
    BY LeadAssumption DEF LeadInit
  <2> QED
    BY <2>1, <2>2, <2>3 DEF TurnInv
<1> QED
  BY <1>4, <1>5, <1>6 DEF LeadInv

(* A prospect the step is not about: nothing of it changes.                 *)
LEMMA LeadElsewhere ==
    ASSUME NEW x \in Prospects, LeadAt(x),
           \A o \in LeadReqs : Busy(o, x)' <=> Busy(o, x),
           \A o \in LeadReqs : Busy(o, x) => lq'[o] = lq[o],
           stage'[x] = stage[x], rep'[x] = rep[x], kyc'[x] = kyc[x], score'[x] = score[x],
           macro' = macro, notes \subseteq notes',
           x \in leadRaces' <=> x \in leadRaces, x \in leadCut' <=> x \in leadCut,
           x \in unseen' <=> x \in unseen, x \in untold' <=> x \in untold,
           \A k \in DOMAIN rescores : k[1] = x => k \in DOMAIN rescores' /\ rescores'[k] = rescores[k]
    PROVE  LeadAt(x)'
<1>1. Pending(x) => Pending(x)'
  BY DEF Pending
<1>3. ASSUME x \notin leadRaces'
      PROVE  /\ \A q, o \in LeadReqs : Busy(q, x)' /\ Busy(o, x)' => q = o
             /\ \A q \in LeadReqs : Busy(q, x)' => IsCurrent(x, lq[q])'
  <2>1. \A q, o \in LeadReqs : Busy(q, x)' /\ Busy(o, x)' => q = o
    BY <1>3 DEF LeadAt
  <2>2. ASSUME NEW q \in LeadReqs, Busy(q, x)' PROVE IsCurrent(x, lq[q])'
    <3>1. IsCurrent(x, lq[q]) /\ lq'[q] = lq[q]
      BY <1>3, <2>2 DEF LeadAt
    <3>2. lq[q].task # 0 => <<x, lq[q].task>> \in DOMAIN rescores'
                            /\ rescores'[<<x, lq[q].task>>] = "running"
      BY <3>1 DEF IsCurrent
    <3> QED
      BY <1>1, <3>1, <3>2 DEF IsCurrent
  <2> QED
    BY <2>1, <2>2
<1>4. ASSUME x \notin leadRaces' \cup leadCut'
      PROVE  /\ stage'[x] = "qualified" =>
                    kyc'[x] = "verified" \/ \E q \in LeadReqs : Busy(q, x)' /\ lq'[q].pc \in {"archived", "failed"}
             /\ x \in untold' => \E q \in LeadReqs : Busy(q, x)' /\ lq'[q].pc = "drop"
             /\ x \notin unseen' =>
                    \/ \A s \in score'[x] : s.macro = macro'
                    \/ Pending(x)'
                    \/ \E q \in LeadReqs : Busy(q, x)' /\ lq'[q].pc \in {"score", "compute"}
  <2>1. stage'[x] = "qualified" =>
            kyc'[x] = "verified" \/ \E q \in LeadReqs : Busy(q, x)' /\ lq'[q].pc \in {"archived", "failed"}
    BY <1>4 DEF LeadAt
  <2>2. x \in untold' => \E q \in LeadReqs : Busy(q, x)' /\ lq'[q].pc = "drop"
    BY <1>4 DEF LeadAt
  <2>3. x \notin unseen' =>
            \/ \A s \in score'[x] : s.macro = macro'
            \/ Pending(x)'
            \/ \E q \in LeadReqs : Busy(q, x)' /\ lq'[q].pc \in {"score", "compute"}
    BY <1>1, <1>4 DEF LeadAt
  <2> QED
    BY <2>1, <2>2, <2>3
<1>5. ASSUME x \notin leadCut'
      PROVE  /\ stage'[x] = "scored" =>
                    \E q \in LeadReqs : Busy(q, x)' /\ lq'[q].task = 0 /\ lq'[q].pc \in Routing
             /\ rep'[x] # NoRep =>
                    \/ <<rep'[x], x, "new_lead">> \in notes'
                    \/ \E q \in LeadReqs : Busy(q, x)' /\ lq'[q].pc = "notify" /\ lq'[q].rep = rep'[x]
  <2>1. stage'[x] = "scored" =>
            \E q \in LeadReqs : Busy(q, x)' /\ lq'[q].task = 0 /\ lq'[q].pc \in Routing
    BY <1>5 DEF LeadAt
  <2>2. rep'[x] # NoRep =>
            \/ <<rep'[x], x, "new_lead">> \in notes'
            \/ \E q \in LeadReqs : Busy(q, x)' /\ lq'[q].pc = "notify" /\ lq'[q].rep = rep'[x]
    BY <1>5 DEF LeadAt
  <2> QED
    BY <2>1, <2>2
<1> QED
  BY <1>3, <1>4, <1>5 DEF LeadAt

(* What holds of a prospect while q is the only request about it.           *)
LEMMA LeadHere ==
    ASSUME NEW p \in Prospects, LeadAt(p), NEW q \in LeadReqs, Busy(q, p), p \notin leadRaces
    PROVE  /\ \A o \in LeadReqs \ {q} : ~Busy(o, p)
           /\ IsCurrent(p, lq[q])
           /\ p \notin leadCut =>
                 /\ stage[p] = "qualified" => kyc[p] = "verified" \/ lq[q].pc \in {"archived", "failed"}
                 /\ p \in untold => lq[q].pc = "drop"
                 /\ p \notin unseen => \/ \A s \in score[p] : s.macro = macro
                                       \/ Pending(p)
                                       \/ lq[q].pc \in {"score", "compute"}
<1>1. (\A o \in LeadReqs \ {q} : ~Busy(o, p)) /\ IsCurrent(p, lq[q])
  BY DEF LeadAt
<1>2. p \notin leadCut /\ stage[p] = "qualified" => kyc[p] = "verified" \/ lq[q].pc \in {"archived", "failed"}
  BY <1>1 DEF LeadAt
<1>3. p \notin leadCut /\ p \in untold => lq[q].pc = "drop"
  BY <1>1 DEF LeadAt
<1>4. p \notin leadCut /\ p \notin unseen => \/ \A s \in score[p] : s.macro = macro
                                             \/ Pending(p)
                                             \/ lq[q].pc \in {"score", "compute"}
  BY <1>1 DEF LeadAt
<1> QED
  BY <1>1, <1>2, <1>3, <1>4

(* Request q moves on to l and is about p: what l still owes p.             *)
LEMMA LeadMove ==
    ASSUME NEW p \in Prospects, \A x \in Prospects : LeadAt(x), NEW q \in LeadReqs, NEW l,
           lq \in [LeadReqs -> Local], lq' = [lq EXCEPT ![q] = l],
           lq[q].pc = "idle" \/ lq[q].p = p, l.pc = "idle" \/ l.p = p,
           \A x \in Prospects \ {p} :
              /\ stage'[x] = stage[x] /\ rep'[x] = rep[x] /\ kyc'[x] = kyc[x] /\ score'[x] = score[x]
              /\ x \in leadRaces' <=> x \in leadRaces
              /\ x \in leadCut' <=> x \in leadCut
              /\ x \in untold' <=> x \in untold,
           macro' = macro, notes \subseteq notes', unseen' = unseen,
           \A k \in DOMAIN rescores : k[1] # p => k \in DOMAIN rescores' /\ rescores'[k] = rescores[k],
           leadRaces \subseteq leadRaces', leadCut \subseteq leadCut',
           lq[q].pc = "idle" /\ p \notin leadRaces' => \A o \in LeadReqs : ~Busy(o, p),
           p \notin leadRaces' /\ l.pc # "idle" => IsCurrent(p, l)',
           p \notin leadRaces' \cup leadCut' =>
              /\ stage'[p] = "qualified" => kyc'[p] = "verified" \/ l.pc \in {"archived", "failed"}
              /\ p \in untold' => l.pc = "drop"
              /\ p \notin unseen => \/ \A s \in score'[p] : s.macro = macro
                                    \/ Pending(p)'
                                    \/ l.pc \in {"score", "compute"},
           p \notin leadCut' =>
              /\ stage'[p] = "scored" =>
                    \/ l.task = 0 /\ l.pc \in Routing
                    \/ stage[p] = "scored" /\ ~(lq[q].task = 0 /\ lq[q].pc \in Routing)
              /\ rep'[p] # NoRep =>
                    \/ <<rep'[p], p, "new_lead">> \in notes'
                    \/ l.pc = "notify" /\ l.rep = rep'[p]
                    \/ rep'[p] = rep[p] /\ ~(lq[q].pc = "notify" /\ lq[q].rep = rep[p])
    PROVE  \A x \in Prospects : LeadAt(x)'
<1>0. lq'[q] = l /\ \A o \in LeadReqs \ {q} : lq'[o] = lq[o]
  OBVIOUS
<1>1. ASSUME NEW x \in Prospects \ {p} PROVE LeadAt(x)'
  <2>1. \A o \in LeadReqs : Busy(o, x)' <=> Busy(o, x)
    BY <1>0 DEF Busy
  <2>2. \A o \in LeadReqs : Busy(o, x) => lq'[o] = lq[o]
    BY <1>0 DEF Busy
  <2>3. \A k \in DOMAIN rescores : k[1] = x => k \in DOMAIN rescores' /\ rescores'[k] = rescores[k]
    OBVIOUS
  <2>4. LeadAt(x) /\ x \in Prospects /\ (x \in unseen' <=> x \in unseen)
    OBVIOUS
  <2> QED
    BY <2>1, <2>2, <2>3, <2>4, LeadElsewhere
<1>2. LeadAt(p)'
  <2>1. \A o \in LeadReqs \ {q} : Busy(o, p)' <=> Busy(o, p)
    BY <1>0 DEF Busy
  <2>2. Busy(q, p)' <=> l.pc # "idle"
    BY <1>0 DEF Busy
  <2>3. ASSUME p \notin leadRaces' PROVE \A o \in LeadReqs \ {q} : ~Busy(o, p)
    <3>1. CASE lq[q].pc = "idle"
      BY <2>3, <3>1
    <3>2. CASE lq[q].pc # "idle"
      <4>1. LeadAt(p) /\ p \notin leadRaces
        BY <2>3
      <4>2. Busy(q, p)
        BY <3>2 DEF Busy
      <4> QED
        BY <4>1, <4>2, LeadHere
    <3> QED
      BY <3>1, <3>2
  <2>4. ASSUME p \notin leadRaces'
        PROVE  /\ \A r, o \in LeadReqs : Busy(r, p)' /\ Busy(o, p)' => r = o
               /\ \A r \in LeadReqs : Busy(r, p)' => IsCurrent(p, lq[r])'
    <3>1. \A o \in LeadReqs : Busy(o, p)' => o = q
      BY <2>1, <2>3, <2>4
    <3>2. l.pc # "idle" => IsCurrent(p, lq[q])'
      BY <1>0, <2>4 DEF IsCurrent
    <3> QED
      BY <2>2, <3>1, <3>2
  <2>5. ASSUME p \notin leadRaces' \cup leadCut'
        PROVE  /\ stage'[p] = "qualified" =>
                      kyc'[p] = "verified" \/ \E r \in LeadReqs : Busy(r, p)' /\ lq'[r].pc \in {"archived", "failed"}
               /\ p \in untold' => \E r \in LeadReqs : Busy(r, p)' /\ lq'[r].pc = "drop"
               /\ p \notin unseen' =>
                      \/ \A s \in score'[p] : s.macro = macro'
                      \/ Pending(p)'
                      \/ \E r \in LeadReqs : Busy(r, p)' /\ lq'[r].pc \in {"score", "compute"}
    BY <1>0, <2>2, <2>5
  <2>6. ASSUME p \notin leadCut', stage'[p] = "scored"
        PROVE  \E r \in LeadReqs : Busy(r, p)' /\ lq'[r].task = 0 /\ lq'[r].pc \in Routing
    <3>1. CASE l.task = 0 /\ l.pc \in Routing
      BY <1>0, <2>2, <3>1 DEF Routing
    <3>2. CASE stage[p] = "scored" /\ ~(lq[q].task = 0 /\ lq[q].pc \in Routing)
      <4>1. PICK o \in LeadReqs : Busy(o, p) /\ lq[o].task = 0 /\ lq[o].pc \in Routing
        BY <2>6, <3>2 DEF LeadAt
      <4> QED
        BY <1>0, <2>1, <3>2, <4>1
    <3> QED
      BY <2>6, <3>1, <3>2
  <2>7. ASSUME p \notin leadCut', rep'[p] # NoRep
        PROVE  \/ <<rep'[p], p, "new_lead">> \in notes'
               \/ \E r \in LeadReqs : Busy(r, p)' /\ lq'[r].pc = "notify" /\ lq'[r].rep = rep'[p]
    <3>1. CASE l.pc = "notify" /\ l.rep = rep'[p]
      BY <1>0, <2>2, <3>1
    <3>2. CASE rep'[p] = rep[p] /\ ~(lq[q].pc = "notify" /\ lq[q].rep = rep[p])
      <4>1. CASE <<rep[p], p, "new_lead">> \in notes
        BY <3>2, <4>1
      <4>2. ASSUME NEW o \in LeadReqs, Busy(o, p) /\ lq[o].pc = "notify" /\ lq[o].rep = rep[p]
            PROVE  \E r \in LeadReqs : Busy(r, p)' /\ lq'[r].pc = "notify" /\ lq'[r].rep = rep'[p]
        BY <1>0, <2>1, <3>2, <4>2
      <4> QED
        BY <2>7, <3>2, <4>1, <4>2 DEF LeadAt
    <3> QED
      BY <2>7, <3>1, <3>2
  <2> QED
    BY <2>4, <2>5, <2>6, <2>7 DEF LeadAt
<1> QED
  BY <1>1, <1>2

(* What a request finds when it starts on a prospect nobody else is about.  *)
LEMMA LeadAlone ==
    ASSUME NEW p \in Prospects, LeadAt(p), \A o \in LeadReqs : ~Busy(o, p), p \notin leadRaces \cup leadCut
    PROVE  /\ stage[p] = "qualified" => kyc[p] = "verified"
           /\ p \notin untold
           /\ p \notin unseen => (\A s \in score[p] : s.macro = macro) \/ Pending(p)
  BY DEF LeadAt

(* The steps of a KYC check and of its review.                              *)
LEMMA KycSteps ==
    ASSUME LeadInv, NEW q \in LeadReqs,
           InsertKyc(q) \/ FlagForReview(q) \/ RejectKyc(q) \/ VerifyKyc(q) \/ MarkScored(q)
    PROVE  \A x \in Prospects : LeadAt(x)'
<1>0. PICK l0, p : l0 = lq[q] /\ p = l0.p
  OBVIOUS
<1>1. /\ LocalIsSound(l0) /\ l0 \in Local /\ lq \in [LeadReqs -> Local]
      /\ \A x \in Prospects : LeadAt(x)
      /\ stage \in [Prospects -> Stages] /\ kyc \in [Prospects -> Kycs]
  BY <1>0 DEF LeadInv, LeadBase, LocalIsSound, LeadTypeOK, Stages, Kycs
<1>2. /\ l0.pc \in {"archived", "failed", "reject", "verify", "verified"}
      /\ UNCHANGED <<rep, score, macro, indicator, rescores, notes, leadRaces, leadCut, unseen, untold>>
  BY <1>0 DEF InsertKyc, FlagForReview, RejectKyc, VerifyKyc, MarkScored, At, scoring, leadHist
<1>3. p \in Prospects /\ Busy(q, p) /\ LeadAt(p) /\ l0.task = 0
  BY <1>0, <1>1, <1>2 DEF LocalIsSound, Busy, Rescoring
<1>4. p \notin leadRaces =>
         /\ IsCurrent(p, l0)
         /\ p \notin leadCut =>
               /\ stage[p] = "qualified" => kyc[p] = "verified" \/ l0.pc \in {"archived", "failed"}
               /\ p \in untold => l0.pc = "drop"
               /\ p \notin unseen => (\A s \in score[p] : s.macro = macro) \/ Pending(p)
  BY <1>0, <1>2, <1>3, LeadHere
<1>5. Pending(p)' <=> Pending(p)
  BY <1>2 DEF Pending
<1>6. Quiet.pc = "idle" /\ ~(l0.pc = "notify") /\ ~(l0.pc \in Routing)
  BY <1>2 DEF Quiet, Routing
<1>7. ASSUME NEW s \in {"verified", "failed"}, InsertKyc(q), kyc[p] = "none",
             kyc' = [kyc EXCEPT ![p] = s], Step(q, s)
      PROVE  \A x \in Prospects : LeadAt(x)'
  <2> DEFINE l == [l0 EXCEPT !.pc = s]
  <2>1. l.pc = s /\ l.p = p /\ l.task = 0 /\ lq' = [lq EXCEPT ![q] = l]
    BY <1>0, <1>1, <1>3, <1>7 DEF Local, Step
  <2>2. stage' = stage /\ kyc'[p] = s /\ l0.pc = "archived" /\ \A x \in Prospects \ {p} : kyc'[x] = kyc[x]
    BY <1>0, <1>1, <1>3, <1>7 DEF InsertKyc, At
  <2> HIDE DEF l
  <2>3. IsCurrent(p, l)'
    BY <2>1 DEF IsCurrent
  <2> QED
    BY <1>0, <1>1, <1>2, <1>3, <1>4, <1>5, <1>6, <2>1, <2>2, <2>3, LeadMove
<1>8. ASSUME InsertKyc(q), kyc[p] # "none", Finish(q), kyc' = kyc
      PROVE  \A x \in Prospects : LeadAt(x)'
  <2>1. stage' = stage /\ lq' = [lq EXCEPT ![q] = Quiet] /\ l0.pc = "archived"
    BY <1>0, <1>8 DEF InsertKyc, Finish, At
  <2>2. p \in leadRaces
    BY <1>4, <1>8, <2>1 DEF IsCurrent
  <2> QED
    BY <1>0, <1>1, <1>2, <1>3, <1>6, <1>8, <2>1, <2>2, LeadMove
<1>9. CASE FlagForReview(q) \/ RejectKyc(q)
  <2>1. /\ lq' = [lq EXCEPT ![q] = Quiet] /\ kyc' = kyc /\ l0.pc \in {"failed", "reject"}
        /\ stage'[p] \in {"kyc_manual_review", "disqualified"}
        /\ \A x \in Prospects \ {p} : stage'[x] = stage[x]
    BY <1>0, <1>1, <1>3, <1>9 DEF FlagForReview, RejectKyc, Finish, At
  <2> QED
    BY <1>0, <1>1, <1>2, <1>3, <1>4, <1>5, <1>6, <2>1, LeadMove
<1>10. CASE VerifyKyc(q)
  <2> DEFINE l == [l0 EXCEPT !.pc = "verified"]
  <2>1. l.pc = "verified" /\ l.p = p /\ l.task = 0 /\ lq' = [lq EXCEPT ![q] = l]
    BY <1>0, <1>1, <1>3, <1>10 DEF Local, VerifyKyc, Step
  <2>2. /\ stage' = stage /\ l0.pc = "verify" /\ (kyc[p] = "verified" => kyc'[p] = "verified")
        /\ \A x \in Prospects \ {p} : kyc'[x] = kyc[x]
    BY <1>0, <1>1, <1>3, <1>10 DEF VerifyKyc, At
  <2> HIDE DEF l
  <2>3. IsCurrent(p, l)'
    BY <2>1 DEF IsCurrent
  <2> QED
    BY <1>0, <1>1, <1>2, <1>3, <1>4, <1>5, <1>6, <2>1, <2>2, <2>3, LeadMove
<1>11. CASE MarkScored(q)
  <2> DEFINE l == [l0 EXCEPT !.pc = "score"]
  <2>1. l.pc = "score" /\ l.p = p /\ l.task = 0 /\ lq' = [lq EXCEPT ![q] = l]
    BY <1>0, <1>1, <1>3, <1>11 DEF Local, MarkScored, Step
  <2>2. kyc' = kyc /\ stage'[p] = "scored" /\ \A x \in Prospects \ {p} : stage'[x] = stage[x]
    BY <1>0, <1>1, <1>3, <1>11 DEF MarkScored
  <2>3. l0.pc = "verified"
    BY <1>0, <1>11 DEF MarkScored, At
  <2> HIDE DEF l
  <2>4. IsCurrent(p, l)' /\ l.pc \in Routing
    BY <2>1 DEF IsCurrent, Routing
  <2> QED
    BY <1>0, <1>1, <1>2, <1>3, <1>4, <1>5, <1>6, <2>1, <2>2, <2>3, <2>4, LeadMove
<1>12. CASE InsertKyc(q)
  <2>1. \/ kyc[p] = "none" /\ \E s \in {"verified", "failed"} : kyc' = [kyc EXCEPT ![p] = s] /\ Step(q, s)
        \/ kyc[p] # "none" /\ Finish(q) /\ kyc' = kyc
    BY <1>0, <1>12 DEF InsertKyc
  <2> QED
    BY <1>7, <1>8, <1>12, <2>1
<1> QED
  BY <1>9, <1>10, <1>11, <1>12

(* The steps of a routing.                                                  *)
LEMMA RouteSteps ==
    ASSUME LeadInv, NEW q \in LeadReqs,
           \/ ReadStage(q) \/ ReadKyc(q) \/ DecideRoute(q) \/ Disqualify(q) \/ ScheduleRescore(q)
           \/ PickRep(q) \/ AssignRep(q) \/ NotifyNewLead(q)
    PROVE  \A x \in Prospects : LeadAt(x)'
<1>0. PICK l0, p : l0 = lq[q] /\ p = l0.p
  OBVIOUS
<1>1. /\ LocalIsSound(l0) /\ l0 \in Local /\ lq \in [LeadReqs -> Local]
      /\ \A x \in Prospects : LeadAt(x)
      /\ stage \in [Prospects -> Stages] /\ rep \in [Prospects -> RepSet \cup {NoRep}]
  BY <1>0 DEF LeadInv, LeadBase, LocalIsSound, LeadTypeOK, Stages
<1>2. /\ l0.pc \in {"route", "readKyc", "decide", "disqualify", "schedule", "pick", "assign", "notify"}
      /\ UNCHANGED <<kyc, score, macro, indicator, rescores, leadRaces, leadCut, unseen, untold>>
  BY <1>0 DEF ReadStage, ReadKyc, DecideRoute, Disqualify, ScheduleRescore, PickRep, AssignRep,
              NotifyNewLead, At, leadRow, scoring, leadHist
<1>3. p \in Prospects /\ Busy(q, p) /\ LeadAt(p) /\ l0.task = 0
  BY <1>0, <1>1, <1>2 DEF LocalIsSound, Busy, Rescoring
<1>4. p \notin leadRaces =>
         /\ IsCurrent(p, l0)
         /\ p \notin leadCut =>
               /\ stage[p] = "qualified" => kyc[p] = "verified"
               /\ p \notin untold
               /\ p \notin unseen => (\A s \in score[p] : s.macro = macro) \/ Pending(p)
  BY <1>0, <1>2, <1>3, LeadHere
<1>5. (Pending(p)' <=> Pending(p)) /\ Quiet.pc = "idle"
  BY <1>2 DEF Pending, Quiet
<1>6. CASE ReadStage(q)
  <2>0. PICK l : l = [l0 EXCEPT !.pc = "readKyc", !.stage = stage[p]]
    OBVIOUS
  <2>1. l.pc = "readKyc" /\ l.p = p /\ l.task = 0 /\ lq' = [lq EXCEPT ![q] = l]
    BY <1>0, <1>1, <1>3, <1>6, <2>0 DEF Local, ReadStage
  <2>2. UNCHANGED <<stage, rep, notes>> /\ l0.pc = "route"
    BY <1>0, <1>6 DEF ReadStage, At, leadRow
  <2>3. IsCurrent(p, l)'
    BY <2>1 DEF IsCurrent
  <2>4. l.pc \in Routing
    BY <2>1 DEF Routing
  <2> QED
    BY <1>0, <1>1, <1>2, <1>3, <1>4, <1>5, <2>1, <2>2, <2>3, <2>4, LeadMove
<1>7. CASE ReadKyc(q)
  <2>0. PICK l : l = [l0 EXCEPT !.pc = "decide", !.kyc = kyc[p]]
    OBVIOUS
  <2>1. l.pc = "decide" /\ l.p = p /\ l.task = 0 /\ l.kyc = kyc[p] /\ lq' = [lq EXCEPT ![q] = l]
    BY <1>0, <1>1, <1>3, <1>7, <2>0 DEF Local, ReadKyc
  <2>2. UNCHANGED <<stage, rep, notes>> /\ l0.pc = "readKyc"
    BY <1>0, <1>7 DEF ReadKyc, At, leadRow
  <2>3. IsCurrent(p, l)'
    BY <1>2, <2>1 DEF IsCurrent
  <2>4. l.pc \in Routing
    BY <2>1 DEF Routing
  <2> QED
    BY <1>0, <1>1, <1>2, <1>3, <1>4, <1>5, <2>1, <2>2, <2>3, <2>4, LeadMove
<1>8. CASE DecideRoute(q)
  <2>0. PICK c, l : /\ c = (IF Disqualified(l0, score[p]) THEN "disqualify" ELSE "pick")
                    /\ l = [l0 EXCEPT !.pc = c]
    OBVIOUS
  <2>1. l.pc = c /\ l.p = p /\ l.task = 0 /\ lq' = [lq EXCEPT ![q] = l]
    BY <1>0, <1>1, <1>3, <1>8, <2>0 DEF Local, DecideRoute, Step
  <2>2. UNCHANGED <<stage, rep, notes>> /\ l0.pc = "decide"
    BY <1>0, <1>8 DEF DecideRoute, At, leadRow
  <2>3. c \in {"disqualify", "pick"} /\ (c = "pick" => l0.kyc = "verified")
    BY <2>0 DEF Disqualified
  <2>4. p \notin leadRaces => IsCurrent(p, l)'
    BY <1>2, <1>4, <2>1, <2>2, <2>3 DEF IsCurrent
  <2>5. l.pc \in Routing
    BY <2>1, <2>3 DEF Routing
  <2> QED
    BY <1>0, <1>1, <1>2, <1>3, <1>4, <1>5, <2>1, <2>2, <2>4, <2>5, LeadMove
<1>9. CASE Disqualify(q)
  <2> DEFINE l == [l0 EXCEPT !.pc = "schedule"]
  <2>1. l.pc = "schedule" /\ l.p = p /\ l.task = 0 /\ lq' = [lq EXCEPT ![q] = l]
    BY <1>0, <1>1, <1>3, <1>9 DEF Local, Disqualify, Step
  <2>2. /\ stage'[p] = "disqualified" /\ rep'[p] = NoRep /\ notes' = notes
        /\ \A x \in Prospects \ {p} : stage'[x] = stage[x] /\ rep'[x] = rep[x]
    BY <1>0, <1>1, <1>3, <1>9 DEF Disqualify
  <2>3. l0.pc = "disqualify"
    BY <1>0, <1>9 DEF Disqualify, At
  <2> HIDE DEF l
  <2>4. IsCurrent(p, l)'
    BY <2>1 DEF IsCurrent
  <2> QED
    BY <1>0, <1>1, <1>2, <1>3, <1>4, <1>5, <2>1, <2>2, <2>3, <2>4, LeadMove
<1>10. CASE ScheduleRescore(q)
  <2>1. /\ lq' = [lq EXCEPT ![q] = Quiet] /\ UNCHANGED <<stage, rep, notes>> /\ l0.pc = "schedule"
    BY <1>0, <1>10 DEF ScheduleRescore, Finish, At, leadRow
  <2>2. ~(l0.pc \in Routing)
    BY <2>1 DEF Routing
  <2> QED
    BY <1>0, <1>1, <1>2, <1>3, <1>4, <1>5, <2>1, <2>2, LeadMove
<1>11. CASE PickRep(q)
  <2>0. PICK r, l : /\ r = (IF Reps = <<>> THEN NoRep ELSE Reps[(rrCounter % Len(Reps)) + 1])
                    /\ l = [l0 EXCEPT !.pc = "assign", !.rep = r]
    OBVIOUS
  <2>1. l.pc = "assign" /\ l.p = p /\ l.task = 0 /\ lq' = [lq EXCEPT ![q] = l]
    <3>1. lq' = [lq EXCEPT ![q] = l]
      BY <1>0, <1>1, <1>11, <2>0 DEF PickRep
    <3>2. l = [l0 EXCEPT !.pc = "assign", !.rep = r]
      BY <2>0
    <3> QED
      BY <1>0, <1>1, <1>3, <3>1, <3>2 DEF Local
  <2>2. UNCHANGED <<stage, rep, notes>> /\ l0.pc = "pick"
    BY <1>0, <1>11 DEF PickRep, At, leadRow
  <2>3. p \notin leadRaces => IsCurrent(p, l)'
    BY <1>2, <1>4, <2>1, <2>2 DEF IsCurrent
  <2>4. l.pc \in Routing
    BY <2>1 DEF Routing
  <2> QED
    BY <1>0, <1>1, <1>2, <1>3, <1>4, <1>5, <2>1, <2>2, <2>3, <2>4, LeadMove
<1>12. CASE AssignRep(q)
  <2>1. /\ stage'[p] = "qualified" /\ rep'[p] = l0.rep /\ notes' = notes
        /\ \A x \in Prospects \ {p} : stage'[x] = stage[x] /\ rep'[x] = rep[x]
        /\ l0.pc = "assign"
    BY <1>0, <1>1, <1>3, <1>12 DEF AssignRep, At
  <2>2. p \notin leadRaces => kyc[p] = "verified"
    BY <1>4, <2>1 DEF IsCurrent
  <2>3. CASE l0.rep = NoRep
    <3>1. lq' = [lq EXCEPT ![q] = Quiet]
      BY <1>0, <1>12, <2>3 DEF AssignRep, Finish
    <3> QED
      BY <1>0, <1>1, <1>2, <1>3, <1>4, <1>5, <2>1, <2>2, <2>3, <3>1, LeadMove
  <2>4. CASE l0.rep # NoRep
    <3> DEFINE l == [l0 EXCEPT !.pc = "notify"]
    <3>1. l.pc = "notify" /\ l.p = p /\ l.task = 0 /\ l.rep = l0.rep /\ lq' = [lq EXCEPT ![q] = l]
      BY <1>0, <1>1, <1>3, <1>12, <2>4 DEF Local, AssignRep, Step
    <3> HIDE DEF l
    <3>2. IsCurrent(p, l)'
      BY <3>1 DEF IsCurrent
    <3> QED
      BY <1>0, <1>1, <1>2, <1>3, <1>4, <1>5, <2>1, <2>2, <2>4, <3>1, <3>2, LeadMove
  <2> QED
    BY <2>3, <2>4
<1>13. CASE NotifyNewLead(q)
  <2>1. /\ lq' = [lq EXCEPT ![q] = Quiet] /\ UNCHANGED <<stage, rep>> /\ l0.pc = "notify"
        /\ notes' = notes \cup {<<l0.rep, p, "new_lead">>}
    BY <1>0, <1>13 DEF NotifyNewLead, Finish, At, leadRow
  <2>2. ~(l0.pc \in Routing)
    BY <2>1 DEF Routing
  <2>3. rep'[p] = l0.rep => <<rep'[p], p, "new_lead">> \in notes'
    BY <2>1
  <2>4. notes \subseteq notes'
    BY <2>1
  <2> QED
    BY <1>0, <1>1, <1>2, <1>3, <1>4, <1>5, <2>1, <2>2, <2>3, <2>4, LeadMove
<1> QED
  BY <1>6, <1>7, <1>8, <1>9, <1>10, <1>11, <1>12, <1>13

(* The steps of a scoring, and those of a rescore task.                     *)
LEMMA ScoreSteps ==
    ASSUME LeadInv, NEW q \in LeadReqs,
           ReadIndicators(q) \/ InsertScore(q) \/ NotifyDrop(q) \/ FinishRescore(q)
    PROVE  \A x \in Prospects : LeadAt(x)'
<1>0. PICK l0, p : l0 = lq[q] /\ p = l0.p
  OBVIOUS
<1>1. /\ LocalIsSound(l0) /\ l0 \in Local /\ lq \in [LeadReqs -> Local]
      /\ \A x \in Prospects : LeadAt(x)
      /\ score \in [Prospects -> SUBSET [value : Scores, macro : 0 .. MaxMacro]]
      /\ rep \in [Prospects -> RepSet \cup {NoRep}]
  BY <1>0 DEF LeadInv, LeadBase, LocalIsSound, LeadTypeOK
<1>2. /\ l0.pc \in {"score", "compute", "drop", "done"}
      /\ UNCHANGED <<stage, rep, kyc, macro, indicator, leadRaces, leadCut, unseen>>
  BY <1>0 DEF ReadIndicators, InsertScore, NotifyDrop, FinishRescore, At, leadRow, scoring, leadHist
<1>3. p \in Prospects /\ Busy(q, p) /\ LeadAt(p) /\ (l0.pc \in {"drop", "done"} => l0.task # 0)
  BY <1>0, <1>1, <1>2 DEF LocalIsSound, Busy
<1>4. p \notin leadRaces =>
         /\ IsCurrent(p, l0)
         /\ p \notin leadCut =>
               /\ stage[p] = "qualified" => kyc[p] = "verified"
               /\ p \in untold => l0.pc = "drop"
               /\ p \notin unseen => \/ \A s \in score[p] : s.macro = macro
                                     \/ Pending(p)
                                     \/ l0.pc \in {"score", "compute"}
  BY <1>0, <1>2, <1>3, LeadHere
<1>5. Quiet.pc = "idle" /\ (l0.pc \in {"score", "compute"} => l0.pc \in Routing)
      /\ (l0.pc \in {"drop", "done"} => l0.pc \notin Routing)
  BY DEF Quiet, Routing
<1>6. CASE ReadIndicators(q)
  <2>0. PICK l : l = [l0 EXCEPT !.pc = "compute", !.seen = macro]
    OBVIOUS
  <2>1. l.pc = "compute" /\ l.p = p /\ l.task = l0.task /\ l.seen = macro /\ lq' = [lq EXCEPT ![q] = l]
    BY <1>0, <1>1, <1>3, <1>6, <2>0 DEF Local, ReadIndicators
  <2>2. UNCHANGED <<score, rescores, notes, untold>> /\ l0.pc = "score"
    BY <1>0, <1>6 DEF ReadIndicators, At, scoring, leadHist
  <2>3. p \notin leadRaces => IsCurrent(p, l)'
    BY <1>2, <1>4, <2>1, <2>2 DEF IsCurrent
  <2>4. l.pc \in Routing
    BY <2>1 DEF Routing
  <2> QED
    BY <1>0, <1>1, <1>2, <1>3, <1>4, <1>5, <2>1, <2>2, <2>3, <2>4, LeadMove
<1>7. CASE InsertScore(q)
  <2>0. PICK v \in Scores :
          /\ score' = [score EXCEPT ![p] = {[value |-> v, macro |-> l0.seen]}]
          /\ lq' = [lq EXCEPT ![q].pc = IF l0.task = 0 THEN "route"
                                        ELSE IF v < l0.value THEN "drop" ELSE "done"]
          /\ untold' = IF l0.task # 0 /\ v < l0.value /\ rep[p] # NoRep
                       THEN untold \cup {p} ELSE untold
    BY <1>0, <1>7 DEF InsertScore
  <2>1. PICK c, l : /\ c = (IF l0.task = 0 THEN "route" ELSE IF v < l0.value THEN "drop" ELSE "done")
                    /\ l = [l0 EXCEPT !.pc = c]
    OBVIOUS
  <2>2. l.pc = c /\ l.p = p /\ l.task = l0.task /\ lq' = [lq EXCEPT ![q] = l]
    BY <1>0, <1>1, <1>3, <2>0, <2>1 DEF Local
  <2>3. UNCHANGED <<rescores, notes>> /\ l0.pc = "compute" /\ (Pending(p)' <=> Pending(p))
    BY <1>0, <1>7 DEF InsertScore, At, Pending
  <2>4. /\ c \in {"route", "drop", "done"} /\ (c = "route" <=> l0.task = 0)
        /\ (p \in untold' => p \in untold \/ c = "drop")
        /\ \A x \in Prospects \ {p} : (x \in untold' <=> x \in untold)
    BY <2>0, <2>1
  <2>5. /\ \A s \in score'[p] : s.macro = l0.seen
        /\ \A x \in Prospects \ {p} : score'[x] = score[x]
    BY <1>1, <1>3, <2>0
  <2>6. p \notin leadRaces => IsCurrent(p, l)'
    BY <1>2, <1>4, <2>2, <2>3, <2>4 DEF IsCurrent
  <2>7. p \notin leadRaces /\ p \notin unseen => l0.seen = macro \/ Pending(p)'
    BY <1>4, <2>3 DEF IsCurrent
  <2>8. l0.task = 0 => l.pc \in Routing
    BY <2>2, <2>4 DEF Routing
  <2> QED
    BY <1>0, <1>1, <1>2, <1>3, <1>4, <1>5, <2>2, <2>3, <2>4, <2>5, <2>6, <2>7, <2>8, LeadMove
<1>8. CASE NotifyDrop(q)
  <2>0. PICK l : l = [l0 EXCEPT !.pc = "done"]
    OBVIOUS
  <2>1. l.pc = "done" /\ l.p = p /\ l.task = l0.task /\ lq' = [lq EXCEPT ![q] = l]
    BY <1>0, <1>1, <1>3, <1>8, <2>0 DEF Local, NotifyDrop, Step
  <2>2. UNCHANGED <<score, rescores>> /\ l0.pc = "drop" /\ untold' = untold \ {p} /\ notes \subseteq notes'
    BY <1>0, <1>8 DEF NotifyDrop, At, scoring
  <2>3. (Pending(p)' <=> Pending(p)) /\ \A x \in Prospects \ {p} : (x \in untold' <=> x \in untold)
    BY <2>2 DEF Pending
  <2>4. p \notin leadRaces => IsCurrent(p, l)'
    BY <1>2, <1>4, <2>1, <2>2 DEF IsCurrent
  <2> QED
    BY <1>0, <1>1, <1>2, <1>3, <1>4, <1>5, <2>1, <2>2, <2>3, <2>4, LeadMove
<1>9. CASE FinishRescore(q)
  <2>1. /\ lq' = [lq EXCEPT ![q] = Quiet] /\ UNCHANGED <<score, notes, untold>> /\ l0.pc = "done"
        /\ rescores' = [rescores EXCEPT ![<<p, l0.task>>] = "completed"]
    BY <1>0, <1>9 DEF FinishRescore, Finish, At, leadHist
  <2>2. \A k \in DOMAIN rescores : k # <<p, l0.task>> => k \in DOMAIN rescores' /\ rescores'[k] = rescores[k]
    BY <2>1
  <2>3. \A k \in DOMAIN rescores : k[1] # p => k # <<p, l0.task>>
    OBVIOUS
  <2>4. p \notin leadRaces /\ Pending(p) => Pending(p)'
    <3> SUFFICES ASSUME p \notin leadRaces, Pending(p) PROVE Pending(p)'
      OBVIOUS
    <3>1. PICK k \in DOMAIN rescores : k[1] = p /\ rescores[k] = "pending"
      BY DEF Pending
    <3>2. k # <<p, l0.task>>
      BY <1>3, <1>4, <2>1, <3>1 DEF IsCurrent
    <3> QED
      BY <2>2, <3>1, <3>2 DEF Pending
  <2> QED
    BY <1>0, <1>1, <1>2, <1>3, <1>4, <1>5, <2>1, <2>2, <2>3, <2>4, LeadMove
<1> QED
  BY <1>6, <1>7, <1>8, <1>9

(* Requests and tasks that start.                                           *)
LEMMA EnterSteps ==
    ASSUME LeadInv, NEW q \in LeadReqs, NEW p \in Prospects,
           \/ TriggerKyc(q, p)
           \/ \E action \in {"verify", "reject"} : ReviewKyc(q, p, action)
           \/ \E i \in 1 .. MaxMacro : StartRescore(q, p, i)
    PROVE  \A x \in Prospects : LeadAt(x)'
<1>0. PICK l : lq' = [lq EXCEPT ![q] = l] /\ Enter(q, p, l)
  BY DEF TriggerKyc, ReviewKyc, StartRescore, Enter
<1>1. /\ lq \in [LeadReqs -> Local] /\ (\A x \in Prospects : LeadAt(x)) /\ LeadAt(p)
      /\ kyc \in [Prospects -> Kycs]
  BY DEF LeadInv, LeadBase, LeadTypeOK, Kycs
<1>2. /\ lq[q].pc = "idle" /\ leadRaces \subseteq leadRaces'
      /\ (p \notin leadRaces' => \A o \in LeadReqs : ~Busy(o, p))
      /\ \A x \in Prospects \ {p} : (x \in leadRaces' <=> x \in leadRaces)
  BY <1>0 DEF Enter, At, About, Busy
<1>3. /\ UNCHANGED <<stage, rep, score, macro, notes, leadCut, unseen, untold>>
  BY DEF TriggerKyc, ReviewKyc, StartRescore, leadRow, scoring
<1>4. p \notin leadRaces' \cup leadCut =>
         /\ stage[p] = "qualified" => kyc[p] = "verified"
         /\ p \notin untold
         /\ p \notin unseen => (\A s \in score[p] : s.macro = macro) \/ Pending(p)
  BY <1>1, <1>2, LeadAlone
<1>5. ~(lq[q].pc \in Routing) /\ lq[q].pc # "notify" /\ lq'[q] = l
  BY <1>0, <1>1, <1>2 DEF Routing
<1>6. CASE TriggerKyc(q, p)
  <2>1. l = [Quiet EXCEPT !.pc = "archived", !.p = p] /\ UNCHANGED rescores
        /\ kyc' = [kyc EXCEPT ![p] = "none"]
    BY <1>0, <1>1, <1>5, <1>6 DEF TriggerKyc, Enter, scoring
  <2>2. l.pc = "archived" /\ l.p = p /\ l.task = 0
    BY <2>1 DEF Quiet
  <2>3. kyc'[p] = "none" /\ (\A x \in Prospects \ {p} : kyc'[x] = kyc[x]) /\ (Pending(p)' <=> Pending(p))
    BY <1>1, <2>1 DEF Pending
  <2>4. IsCurrent(p, l)'
    BY <2>2, <2>3 DEF IsCurrent
  <2> QED
    BY <1>0, <1>1, <1>2, <1>3, <1>4, <1>5, <2>1, <2>2, <2>3, <2>4, LeadMove
<1>7. ASSUME NEW action \in {"verify", "reject"}, ReviewKyc(q, p, action)
      PROVE  \A x \in Prospects : LeadAt(x)'
  <2>1. l = [Quiet EXCEPT !.pc = action, !.p = p] /\ UNCHANGED <<kyc, rescores>>
    BY <1>0, <1>1, <1>5, <1>7 DEF ReviewKyc, Enter, leadRow, scoring
  <2>2. l.pc = action /\ l.p = p /\ l.task = 0 /\ (Pending(p)' <=> Pending(p))
    BY <2>1 DEF Quiet, Pending
  <2>3. IsCurrent(p, l)'
    BY <2>2 DEF IsCurrent
  <2> QED
    BY <1>0, <1>1, <1>2, <1>3, <1>4, <1>5, <2>1, <2>2, <2>3, LeadMove
<1>8. ASSUME NEW i \in 1 .. MaxMacro, StartRescore(q, p, i)
      PROVE  \A x \in Prospects : LeadAt(x)'
  <2>0. PICK v : v = (CHOOSE s \in score[p] : TRUE).value
    OBVIOUS
  <2>1. /\ l = [Quiet EXCEPT !.pc = "score", !.p = p, !.task = i, !.value = v] /\ UNCHANGED kyc
        /\ <<p, i>> \in DOMAIN rescores
        /\ rescores' = [rescores EXCEPT ![<<p, i>>] = "running"]
    BY <1>0, <1>1, <1>5, <1>8, <2>0 DEF StartRescore, Enter, leadRow
  <2>2. l.pc = "score" /\ l.p = p /\ l.task = i
    BY <2>1 DEF Quiet
  <2>3. /\ <<p, i>> \in DOMAIN rescores' /\ rescores'[<<p, i>>] = "running"
        /\ \A k \in DOMAIN rescores : k[1] # p => k \in DOMAIN rescores' /\ rescores'[k] = rescores[k]
    BY <2>1
  <2>4. IsCurrent(p, l)'
    BY <2>2, <2>3 DEF IsCurrent
  <2> QED
    BY <1>0, <1>1, <1>2, <1>3, <1>4, <1>5, <2>1, <2>2, <2>3, <2>4, LeadMove
<1> QED
  BY <1>6, <1>7, <1>8

(* A request or task stops half-way: its prospect is remembered.            *)
LEMMA CutStep ==
    ASSUME LeadInv, NEW q \in LeadReqs, CutLead(q)
    PROVE  \A x \in Prospects : LeadAt(x)'
<1>0. PICK l0, p : l0 = lq[q] /\ p = l0.p
  OBVIOUS
<1>1. /\ LocalIsSound(l0) /\ lq \in [LeadReqs -> Local] /\ (\A x \in Prospects : LeadAt(x))
      /\ l0.pc # "idle" /\ p \in Prospects
  BY <1>0 DEF LeadInv, LeadBase, LocalIsSound, CutLead, At
<1>2. /\ lq' = [lq EXCEPT ![q] = Quiet] /\ Quiet.pc = "idle" /\ leadCut' = leadCut \cup {p}
      /\ UNCHANGED <<stage, rep, kyc, score, macro, notes, leadRaces, unseen, untold>>
      /\ rescores' = IF l0.task = 0 THEN rescores
                     ELSE [rescores EXCEPT ![<<p, l0.task>>] = "pending"]
  BY <1>0 DEF CutLead, Finish, leadRow, Quiet
<1>3. \A k \in DOMAIN rescores : k[1] # p => k \in DOMAIN rescores' /\ rescores'[k] = rescores[k]
  BY <1>2
<1> QED
  BY <1>0, <1>1, <1>2, <1>3, LeadMove

(* New macro indicators: who is scored gets a task, or is passed by.        *)
LEMMA IndicatorStep ==
    ASSUME LeadInv, NEW new \in BOOLEAN, ChangeIndicator(new)
    PROVE  \A x \in Prospects : LeadAt(x)'
<1> SUFFICES ASSUME NEW x \in Prospects PROVE LeadAt(x)'
  OBVIOUS
<1>0. PICK i : i = IF new THEN indicator + 1 ELSE indicator
  OBVIOUS
<1>1. PICK fresh : fresh = {<<p, i>> : p \in Scored} \ DOMAIN rescores
  OBVIOUS
<1>2. /\ UNCHANGED <<stage, rep, kyc, score, notes, lq, leadRaces, leadCut, untold>>
      /\ rescores' = [k \in DOMAIN rescores \cup fresh |->
                          IF k \in fresh THEN "pending" ELSE rescores[k]]
      /\ unseen' = unseen \cup {p \in Prospects \ Scored : About(p) # {}}
                          \cup {p \in Scored : <<p, i>> \in DOMAIN rescores}
  BY <1>0, <1>1 DEF ChangeIndicator, leadRow
<1>3. LeadAt(x)
  BY DEF LeadInv
<1>4. \A k \in DOMAIN rescores : k \in DOMAIN rescores' /\ rescores'[k] = rescores[k]
  BY <1>1, <1>2
<1>5. x \in Scored /\ x \notin unseen' => Pending(x)'
  <2> SUFFICES ASSUME x \in Scored, x \notin unseen' PROVE Pending(x)'
    OBVIOUS
  <2>1. <<x, i>> \in fresh
    BY <1>1, <1>2
  <2>2. <<x, i>> \in DOMAIN rescores' /\ rescores'[<<x, i>>] = "pending"
    BY <1>2, <2>1
  <2>3. <<x, i>>[1] = x
    OBVIOUS
  <2> QED
    BY <2>2, <2>3 DEF Pending
<1>6. x \notin Scored => score[x] = {}
  BY DEF Scored
<1>7. \A q \in LeadReqs : Busy(q, x)' <=> Busy(q, x)
  BY <1>2 DEF Busy
<1>8. ASSUME NEW q \in LeadReqs, Busy(q, x), x \notin unseen' PROVE Pending(x)'
  <2>1. q \in About(x)
    BY <1>8 DEF Busy, About
  <2> QED
    BY <1>2, <1>5, <1>8, <2>1
<1>9. ASSUME NEW q \in LeadReqs, Busy(q, x)', x \notin leadRaces' PROVE IsCurrent(x, lq[q])'
  <2>1. IsCurrent(x, lq[q]) /\ lq' = lq /\ Busy(q, x)
    BY <1>2, <1>3, <1>7, <1>9 DEF LeadAt
  <2>2. lq[q].task # 0 => <<x, lq[q].task>> \in DOMAIN rescores' /\ rescores'[<<x, lq[q].task>>] = "running"
    BY <1>4, <2>1 DEF IsCurrent
  <2> QED
    BY <1>2, <1>8, <2>1, <2>2 DEF IsCurrent
<1>10. x \notin unseen' => Pending(x)' \/ score'[x] = {}
  BY <1>2, <1>5, <1>6
<1> QED
  <2>1. ASSUME x \notin leadRaces'
        PROVE  \A q, o \in LeadReqs : Busy(q, x)' /\ Busy(o, x)' => q = o
    BY <1>2, <1>3, <1>7, <2>1 DEF LeadAt
  <2>2. ASSUME x \notin leadRaces' \cup leadCut'
        PROVE  /\ stage'[x] = "qualified" =>
                      kyc'[x] = "verified" \/ \E q \in LeadReqs : Busy(q, x)' /\ lq'[q].pc \in {"archived", "failed"}
               /\ x \in untold' => \E q \in LeadReqs : Busy(q, x)' /\ lq'[q].pc = "drop"
    BY <1>2, <1>3, <1>7, <2>2 DEF LeadAt
  <2>3. ASSUME x \notin leadCut'
        PROVE  /\ stage'[x] = "scored" =>
                      \E q \in LeadReqs : Busy(q, x)' /\ lq'[q].task = 0 /\ lq'[q].pc \in Routing
               /\ rep'[x] # NoRep =>
                      \/ <<rep'[x], x, "new_lead">> \in notes'
                      \/ \E q \in LeadReqs : Busy(q, x)' /\ lq'[q].pc = "notify" /\ lq'[q].rep = rep'[x]
    BY <1>2, <1>3, <1>7, <2>3 DEF LeadAt
  <2> QED
    BY <1>9, <1>10, <2>1, <2>2, <2>3 DEF LeadAt

(* The round robin takes a rep of the list.                                 *)
LEMMA RepInTurn ==
    ASSUME rrCounter \in Nat, Reps # <<>>
    PROVE  /\ Len(Reps) \in Nat \ {0} /\ DOMAIN Reps = 1 .. Len(Reps)
           /\ (rrCounter % Len(Reps)) + 1 \in 1 .. Len(Reps)
           /\ Reps[(rrCounter % Len(Reps)) + 1] \in RepSet
           /\ NoRep \notin RepSet
<1>1. Reps \in Seq(RepSet) /\ NoRep \notin RepSet
  BY LeadAssumption DEF RepSet
<1>2. Len(Reps) \in Nat \ {0} /\ DOMAIN Reps = 1 .. Len(Reps)
  BY <1>1
<1>3. (rrCounter % Len(Reps)) + 1 \in 1 .. Len(Reps)
  BY <1>2
<1> QED
  BY <1>1, <1>2, <1>3 DEF RepSet

(* A request that moves on is in a state that requests can be in.           *)
LEMMA LocalMove ==
    ASSUME NEW l, LocalIsSound(l), l.pc # "idle", NEW c \in LeadPcs, c # "notify",
           l.task # 0 => c \in Rescoring, c \in {"drop", "done"} => l.task # 0
    PROVE  LocalIsSound([l EXCEPT !.pc = c])
<1>1. l \in Local
  BY DEF LocalIsSound
<1>2. /\ [l EXCEPT !.pc = c] \in Local /\ [l EXCEPT !.pc = c].pc = c /\ [l EXCEPT !.pc = c].p = l.p
      /\ [l EXCEPT !.pc = c].task = l.task
  BY <1>1 DEF Local
<1> QED
  BY <1>2 DEF LocalIsSound

(* The request part of the types.                                           *)
LEMMA LocalsKept ==
    ASSUME LeadBase, NEW q \in LeadReqs, NEW l, LocalIsSound(l), lq' = [lq EXCEPT ![q] = l]
    PROVE  lq' \in [LeadReqs -> Local] /\ \A o \in LeadReqs : LocalIsSound(lq'[o])
<1>1. lq \in [LeadReqs -> Local] /\ l \in Local
  BY DEF LeadBase, LocalIsSound
<1>2. \A o \in LeadReqs : lq'[o] = IF o = q THEN l ELSE lq[o]
  BY <1>1
<1> QED
  BY <1>1, <1>2 DEF LeadBase

(* The types of requests through one step of theirs.                        *)
LEMMA LocalSteps ==
    ASSUME LeadBase, NEW q \in LeadReqs, LeadStep(q) \/ CutLead(q)
    PROVE  lq' \in [LeadReqs -> Local] /\ \A o \in LeadReqs : LocalIsSound(lq'[o])
<1>0. PICK l0 : l0 = lq[q]
  OBVIOUS
<1>1. /\ LocalIsSound(l0) /\ l0 \in Local /\ lq \in [LeadReqs -> Local] /\ macro \in 0 .. MaxMacro
      /\ stage \in [Prospects -> Stages] /\ kyc \in [Prospects -> Kycs] /\ rrCounter \in Nat
      /\ (l0.task # 0 => l0.pc \in Rescoring) /\ (l0.pc # "idle" => l0.p \in Prospects)
  BY <1>0 DEF LeadBase, LeadTypeOK, LocalIsSound, Stages, Kycs
<1>2. LocalIsSound(Quiet)
  BY LeadAssumption DEF Quiet, Local, LocalIsSound, LeadPcs, Stages, Kycs
<1>3. ASSUME Finish(q) PROVE lq' \in [LeadReqs -> Local] /\ \A o \in LeadReqs : LocalIsSound(lq'[o])
  BY <1>2, <1>3, LocalsKept DEF Finish
<1>4. ASSUME NEW c \in LeadPcs, c # "notify", l0.pc # "idle", lq' = [lq EXCEPT ![q].pc = c],
             l0.task # 0 => c \in Rescoring, c \in {"drop", "done"} => l0.task # 0
      PROVE  lq' \in [LeadReqs -> Local] /\ \A o \in LeadReqs : LocalIsSound(lq'[o])
  <2>1. LocalIsSound([l0 EXCEPT !.pc = c])
    BY <1>1, <1>4, LocalMove
  <2>2. lq' = [lq EXCEPT ![q] = [l0 EXCEPT !.pc = c]]
    BY <1>0, <1>1, <1>4
  <2> QED
    BY <2>1, <2>2, LocalsKept
<1>5. CASE InsertKyc(q) \/ FlagForReview(q) \/ RejectKyc(q) \/ VerifyKyc(q) \/ MarkScored(q)
           \/ ScheduleRescore(q) \/ NotifyNewLead(q) \/ FinishRescore(q) \/ CutLead(q)
  <2>1. \/ Finish(q)
        \/ l0.pc \in {"archived", "verify", "verified"} /\ \E c \in {"verified", "failed", "score"} : Step(q, c)
    BY <1>0, <1>5 DEF InsertKyc, FlagForReview, RejectKyc, VerifyKyc, MarkScored, ScheduleRescore,
                      NotifyNewLead, FinishRescore, CutLead, At
  <2>2. ASSUME l0.pc \in {"archived", "verify", "verified"}, NEW c \in {"verified", "failed", "score"}, Step(q, c)
        PROVE  lq' \in [LeadReqs -> Local] /\ \A o \in LeadReqs : LocalIsSound(lq'[o])
    <3>1. l0.task = 0 /\ c \in LeadPcs /\ c \notin {"notify", "drop", "done"} /\ l0.pc # "idle"
      BY <1>1, <2>2 DEF Rescoring, LeadPcs, Routing
    <3> QED
      BY <1>4, <2>2, <3>1 DEF Step
  <2> QED
    BY <1>3, <2>1, <2>2
<1>6. CASE InsertScore(q)
  <2>1. PICK v \in Scores : lq' = [lq EXCEPT ![q].pc = IF l0.task = 0 THEN "route"
                                        ELSE IF v < l0.value THEN "drop" ELSE "done"]
    BY <1>0, <1>6 DEF InsertScore
  <2>2. PICK c : c = IF l0.task = 0 THEN "route" ELSE IF v < l0.value THEN "drop" ELSE "done"
    OBVIOUS
  <2>3. l0.pc = "compute" /\ c \in LeadPcs /\ c # "notify" /\ (l0.task # 0 => c \in Rescoring)
        /\ (c \in {"drop", "done"} => l0.task # 0)
    BY <1>0, <1>6, <2>2 DEF InsertScore, At, LeadPcs, Rescoring, Routing
  <2> QED
    BY <1>4, <2>1, <2>2, <2>3
<1>7. CASE DecideRoute(q) \/ Disqualify(q) \/ NotifyDrop(q)
  <2>1. \/ l0.pc \in {"decide", "disqualify"} /\ \E c \in {"disqualify", "pick", "schedule"} : Step(q, c)
        \/ l0.pc = "drop" /\ Step(q, "done")
    BY <1>0, <1>7 DEF DecideRoute, Disqualify, NotifyDrop, At
  <2>2. ASSUME l0.pc \in {"decide", "disqualify"}, NEW c \in {"disqualify", "pick", "schedule"}, Step(q, c)
        PROVE  lq' \in [LeadReqs -> Local] /\ \A o \in LeadReqs : LocalIsSound(lq'[o])
    <3>1. l0.task = 0 /\ c \in LeadPcs /\ c \notin {"notify", "drop", "done"} /\ l0.pc # "idle"
      BY <1>1, <2>2 DEF Rescoring, LeadPcs, Routing
    <3> QED
      BY <1>4, <2>2, <3>1 DEF Step
  <2>3. ASSUME l0.pc = "drop", Step(q, "done")
        PROVE  lq' \in [LeadReqs -> Local] /\ \A o \in LeadReqs : LocalIsSound(lq'[o])
    <3>1. l0.task # 0 /\ "done" \in LeadPcs /\ "done" \in Rescoring
      BY <1>1, <2>3 DEF LocalIsSound, LeadPcs, Rescoring
    <3> QED
      BY <1>4, <2>3, <3>1 DEF Step
  <2> QED
    BY <2>1, <2>2, <2>3
<1>8. CASE AssignRep(q)
  <2>1. l0.pc = "assign" /\ (l0.rep = NoRep => Finish(q)) /\ (l0.rep # NoRep => Step(q, "notify"))
    BY <1>0, <1>8 DEF AssignRep, At
  <2>2. CASE l0.rep # NoRep
    <3> DEFINE l == [l0 EXCEPT !.pc = "notify"]
    <3>1. l \in Local /\ l.pc = "notify" /\ l.p = l0.p /\ l.task = l0.task /\ l.rep = l0.rep
      BY <1>1 DEF Local, LeadPcs
    <3>2. l0.task = 0 /\ l0.p \in Prospects
      BY <1>1, <2>1 DEF Rescoring
    <3>3. lq' = [lq EXCEPT ![q] = l]
      BY <1>0, <1>1, <2>1, <2>2 DEF Step
    <3> HIDE DEF l
    <3>4. LocalIsSound(l)
      BY <2>2, <3>1, <3>2 DEF LocalIsSound
    <3> QED
      BY <3>3, <3>4, LocalsKept
  <2> QED
    BY <1>3, <2>1, <2>2
<1>9. CASE ReadIndicators(q) \/ ReadStage(q) \/ ReadKyc(q) \/ PickRep(q)
  <2>1. /\ l0.pc \in {"score", "route", "readKyc", "pick"} /\ l0.p \in Prospects
        /\ (l0.pc # "score" => l0.task = 0)
    BY <1>0, <1>1, <1>9 DEF ReadIndicators, ReadStage, ReadKyc, PickRep, At, Rescoring
  <2>2. ASSUME NEW l \in Local, l.p = l0.p, l.task = l0.task, lq' = [lq EXCEPT ![q] = l],
               (l.pc \in {"readKyc", "decide", "assign"} /\ l0.pc # "score") \/ l.pc = "compute"
        PROVE  lq' \in [LeadReqs -> Local] /\ \A o \in LeadReqs : LocalIsSound(lq'[o])
    <3>1. LocalIsSound(l)
      BY <2>1, <2>2 DEF LocalIsSound, Rescoring
    <3> QED
      BY <2>2, <3>1, LocalsKept
  <2>3. CASE ReadIndicators(q)
    <3>1. PICK l : l = [l0 EXCEPT !.pc = "compute", !.seen = macro]
      OBVIOUS
    <3>2. l \in Local /\ l.pc = "compute" /\ l.p = l0.p /\ l.task = l0.task
      BY <1>1, <3>1 DEF Local, LeadPcs, Rescoring
    <3>3. lq' = [lq EXCEPT ![q] = l]
      BY <1>0, <1>1, <2>3, <3>1 DEF ReadIndicators
    <3> QED
      BY <2>2, <3>2, <3>3
  <2>4. CASE ReadStage(q)
    <3>1. PICK l : l = [l0 EXCEPT !.pc = "readKyc", !.stage = stage[l0.p]]
      OBVIOUS
    <3>2. l \in Local /\ l.pc = "readKyc" /\ l.p = l0.p /\ l.task = l0.task
      BY <1>1, <2>1, <3>1 DEF Local, LeadPcs, Routing
    <3>3. lq' = [lq EXCEPT ![q] = l] /\ l0.pc = "route"
      BY <1>0, <1>1, <2>4, <3>1 DEF ReadStage, At
    <3> QED
      BY <2>2, <3>2, <3>3
  <2>5. CASE ReadKyc(q)
    <3>1. PICK l : l = [l0 EXCEPT !.pc = "decide", !.kyc = kyc[l0.p]]
      OBVIOUS
    <3>2. l \in Local /\ l.pc = "decide" /\ l.p = l0.p /\ l.task = l0.task
      BY <1>1, <2>1, <3>1 DEF Local, LeadPcs, Routing
    <3>3. lq' = [lq EXCEPT ![q] = l] /\ l0.pc = "readKyc"
      BY <1>0, <1>1, <2>5, <3>1 DEF ReadKyc, At
    <3> QED
      BY <2>2, <3>2, <3>3
  <2>6. CASE PickRep(q)
    <3>0. PICK r : r = IF Reps = <<>> THEN NoRep ELSE Reps[(rrCounter % Len(Reps)) + 1]
      OBVIOUS
    <3>1. r \in RepSet \cup {NoRep}
      BY <1>1, <3>0, RepInTurn
    <3>2. PICK l : l = [l0 EXCEPT !.pc = "assign", !.rep = r]
      OBVIOUS
    <3>3. l \in Local /\ l.pc = "assign" /\ l.p = l0.p /\ l.task = l0.task
      BY <1>1, <3>1, <3>2 DEF Local, LeadPcs, Routing
    <3>4. lq' = [lq EXCEPT ![q] = l] /\ l0.pc = "pick"
      BY <1>0, <1>1, <2>6, <3>0, <3>2 DEF PickRep, At
    <3> QED
      BY <2>2, <3>3, <3>4
  <2> QED
    BY <1>9, <2>3, <2>4, <2>5, <2>6
<1> QED
  BY <1>5, <1>6, <1>7, <1>8, <1>9 DEF LeadStep

(* The types of the tables through one step of a request.                   *)
LEMMA TableSteps ==
    ASSUME LeadBase, NEW q \in LeadReqs, LeadStep(q) \/ CutLead(q)
    PROVE  /\ LeadTypeOK'
           /\ score' \in [Prospects -> SUBSET [value : Scores, macro : 0 .. MaxMacro]]
           /\ \A k \in DOMAIN rescores' : score'[k[1]] # {}
<1>0. PICK l0, p : l0 = lq[q] /\ p = l0.p
  OBVIOUS
<1>1. /\ LocalIsSound(l0) /\ l0 \in Local /\ LeadTypeOK
      /\ score \in [Prospects -> SUBSET [value : Scores, macro : 0 .. MaxMacro]]
      /\ \A k \in DOMAIN rescores : score[k[1]] # {}
  BY <1>0 DEF LeadBase, LocalIsSound
<1>2. l0.pc # "idle" /\ p \in Prospects
  <2>1. l0.pc # "idle"
    BY <1>0 DEF LeadStep, CutLead, InsertKyc, FlagForReview, RejectKyc, VerifyKyc, MarkScored, ReadIndicators,
                InsertScore, ReadStage, ReadKyc, DecideRoute, Disqualify, ScheduleRescore, PickRep, AssignRep,
                NotifyNewLead, NotifyDrop, FinishRescore, At
  <2> QED
    BY <1>0, <1>1, <2>1 DEF LocalIsSound
<1>3. CASE InsertKyc(q) \/ FlagForReview(q) \/ RejectKyc(q) \/ VerifyKyc(q) \/ MarkScored(q)
  <2>1. /\ UNCHANGED <<rep, score, macro, indicator, rescores, schedules, notes, rrCounter, leadStarts, leadCuts>>
    BY <1>3 DEF InsertKyc, FlagForReview, RejectKyc, VerifyKyc, MarkScored, scoring, leadCounts
  <2>2. stage' \in [Prospects -> {"new", "kyc_manual_review", "scored", "qualified", "disqualified"}]
    BY <1>0, <1>1, <1>2, <1>3 DEF InsertKyc, FlagForReview, RejectKyc, VerifyKyc, MarkScored, LeadTypeOK
  <2>3. kyc' \in [Prospects -> {"none", "verified", "failed"}]
    BY <1>0, <1>1, <1>2, <1>3 DEF InsertKyc, FlagForReview, RejectKyc, VerifyKyc, MarkScored, LeadTypeOK
  <2> QED
    BY <1>1, <2>1, <2>2, <2>3 DEF LeadTypeOK
<1>4. CASE ReadIndicators(q) \/ ReadStage(q) \/ ReadKyc(q) \/ DecideRoute(q)
  <2>1. UNCHANGED <<stage, rep, kyc, score, macro, indicator, rescores, schedules, notes, rrCounter,
                    leadStarts, leadCuts>>
    BY <1>4 DEF ReadIndicators, ReadStage, ReadKyc, DecideRoute, leadRow, scoring, leadCounts
  <2> QED
    BY <1>1, <2>1 DEF LeadTypeOK
<1>5. CASE Disqualify(q) \/ AssignRep(q)
  <2>1. UNCHANGED <<kyc, score, macro, indicator, rescores, schedules, notes, rrCounter, leadStarts, leadCuts>>
    BY <1>5 DEF Disqualify, AssignRep, scoring, leadCounts
  <2>2. l0.rep \in RepSet \cup {NoRep}
    BY <1>1 DEF Local
  <2>3. stage' \in [Prospects -> {"new", "kyc_manual_review", "scored", "qualified", "disqualified"}]
    BY <1>0, <1>1, <1>2, <1>5 DEF Disqualify, AssignRep, LeadTypeOK
  <2>4. rep' \in [Prospects -> RepSet \cup {NoRep}]
    BY <1>0, <1>1, <1>2, <1>5, <2>2 DEF Disqualify, AssignRep, LeadTypeOK
  <2> QED
    BY <1>1, <2>1, <2>3, <2>4 DEF LeadTypeOK
<1>6. CASE ScheduleRescore(q)
  <2>1. /\ UNCHANGED <<stage, rep, kyc, score, macro, indicator, rescores, notes, rrCounter, leadStarts, leadCuts>>
        /\ schedules' = schedules \cup {p}
    BY <1>0, <1>6 DEF ScheduleRescore, leadRow, scoring, leadCounts
  <2> QED
    BY <1>1, <1>2, <2>1 DEF LeadTypeOK
<1>7. CASE PickRep(q)
  <2>1. UNCHANGED <<stage, rep, kyc, score, macro, indicator, rescores, schedules, notes, leadStarts, leadCuts>>
    BY <1>7 DEF PickRep, leadRow, scoring, leadCounts
  <2>2. rrCounter' \in Nat
    BY <1>1, <1>7 DEF PickRep, LeadTypeOK
  <2> QED
    BY <1>1, <2>1, <2>2 DEF LeadTypeOK
<1>8. CASE NotifyNewLead(q) \/ NotifyDrop(q)
  <2>1. UNCHANGED <<stage, rep, kyc, score, macro, indicator, rescores, schedules, rrCounter, leadStarts, leadCuts>>
    BY <1>8 DEF NotifyNewLead, NotifyDrop, leadRow, scoring, leadCounts
  <2>2. notes' \subseteq RepSet \X Prospects \X {"new_lead", "score_drop"}
    <3>1. CASE NotifyNewLead(q)
      <4>1. l0.rep \in RepSet /\ notes' = notes \cup {<<l0.rep, p, "new_lead">>}
        BY <1>0, <1>1, <3>1 DEF NotifyNewLead, At, LocalIsSound, Local
      <4> QED
        BY <1>1, <1>2, <4>1 DEF LeadTypeOK
    <3>2. CASE NotifyDrop(q)
      <4>1. notes' = IF rep[p] # NoRep THEN notes \cup {<<rep[p], p, "score_drop">>} ELSE notes
        BY <1>0, <3>2 DEF NotifyDrop
      <4>2. rep[p] \in RepSet \cup {NoRep}
        BY <1>1, <1>2 DEF LeadTypeOK
      <4> QED
        BY <1>1, <1>2, <4>1, <4>2 DEF LeadTypeOK
    <3> QED
      BY <1>8, <3>1, <3>2
  <2> QED
    BY <1>1, <2>1, <2>2 DEF LeadTypeOK
<1>9. CASE InsertScore(q)
  <2>1. UNCHANGED <<stage, rep, kyc, macro, indicator, rescores, schedules, notes, rrCounter, leadStarts, leadCuts>>
    BY <1>9 DEF InsertScore, leadRow, leadCounts
  <2>2. PICK v \in Scores : score' = [score EXCEPT ![p] = {[value |-> v, macro |-> l0.seen]}]
    BY <1>0, <1>9 DEF InsertScore
  <2>3. PICK r : r = [value |-> v, macro |-> l0.seen]
    OBVIOUS
  <2>4. r \in [value : Scores, macro : 0 .. MaxMacro] /\ Cardinality({r}) = 1 /\ score' = [score EXCEPT ![p] = {r}]
    BY <1>1, <2>2, <2>3, FS_Singleton DEF Local
  <2>5. score' \in [Prospects -> SUBSET [value : Scores, macro : 0 .. MaxMacro]]
    BY <1>1, <2>4
  <2>6. \A x \in Prospects : score'[x] = IF x = p THEN {r} ELSE score[x]
    BY <1>1, <2>4
  <2>7. ASSUME NEW x \in Prospects
        PROVE  score'[x] \subseteq [value : Scores, macro : 0 .. MaxMacro] /\ Cardinality(score'[x]) <= 1
    BY <1>1, <2>4, <2>6 DEF LeadTypeOK
  <2>8. LeadTypeOK'
    BY <1>1, <2>1, <2>7 DEF LeadTypeOK
  <2>9. ASSUME NEW k \in DOMAIN rescores' PROVE score'[k[1]] # {}
    BY <1>1, <2>1, <2>6, <2>9 DEF LeadTypeOK
  <2> QED
    BY <2>5, <2>8, <2>9
<1>10. CASE FinishRescore(q) \/ CutLead(q)
  <2>1. /\ UNCHANGED <<stage, rep, kyc, score, macro, indicator, schedules, notes, rrCounter, leadStarts>>
        /\ leadCuts' \in {leadCuts, leadCuts + 1} /\ (leadCuts' # leadCuts => leadCuts < MaxLeadCuts)
    BY <1>10 DEF FinishRescore, CutLead, leadRow, leadCounts
  <2>2. DOMAIN rescores' = DOMAIN rescores
    BY <1>10 DEF FinishRescore, CutLead
  <2>3. leadCuts' \in 0 .. MaxLeadCuts
    BY <1>1, <2>1, LeadAssumption DEF LeadTypeOK
  <2> QED
    BY <1>1, <2>1, <2>2, <2>3 DEF LeadTypeOK
<1> QED
  BY <1>3, <1>4, <1>5, <1>6, <1>7, <1>8, <1>9, <1>10 DEF LeadStep

(* Requests that start, and new indicators, keep the types.                 *)
LEMMA BaseSteps ==
    ASSUME LeadBase, LeadNext
    PROVE  LeadBase'
<1>0. /\ LeadTypeOK /\ lq \in [LeadReqs -> Local]
      /\ score \in [Prospects -> SUBSET [value : Scores, macro : 0 .. MaxMacro]]
      /\ \A k \in DOMAIN rescores : score[k[1]] # {}
      /\ {MaxLeadStarts, MaxMacro, MaxLeadCuts} \subseteq Nat
  BY LeadAssumption DEF LeadBase
<1>1. Quiet \in Local /\ Quiet.task = 0
  BY LeadAssumption DEF Quiet, Local, LeadPcs, Stages, Kycs
<1>2. ASSUME NEW q \in LeadReqs, LeadStep(q) \/ CutLead(q) PROVE LeadBase'
  BY <1>2, LocalSteps, TableSteps DEF LeadBase
<1>3. ASSUME NEW q \in LeadReqs, NEW p \in Prospects,
             \/ TriggerKyc(q, p)
             \/ \E action \in {"verify", "reject"} : ReviewKyc(q, p, action)
             \/ \E i \in 1 .. MaxMacro : StartRescore(q, p, i)
      PROVE  LeadBase'
  <2>1. /\ UNCHANGED <<stage, rep, score, macro, indicator, schedules, notes, rrCounter, leadCuts>>
        /\ leadStarts' = leadStarts + 1 /\ leadStarts < MaxLeadStarts /\ DOMAIN rescores' = DOMAIN rescores
    BY <1>3 DEF TriggerKyc, ReviewKyc, StartRescore, Enter, leadRow, scoring
  <2>2. kyc' \in [Prospects -> {"none", "verified", "failed"}]
    BY <1>0, <1>3 DEF TriggerKyc, ReviewKyc, StartRescore, leadRow, LeadTypeOK
  <2>3. LeadTypeOK'
    BY <1>0, <2>1, <2>2 DEF LeadTypeOK
  <2>4. ASSUME NEW c \in {"archived", "verify", "reject"}
        PROVE  LocalIsSound([Quiet EXCEPT !.pc = c, !.p = p])
    <3> DEFINE l == [Quiet EXCEPT !.pc = c, !.p = p]
    <3>1. l \in Local /\ l.pc = c /\ l.p = p /\ l.task = 0
      BY <1>1 DEF Local, LeadPcs
    <3> HIDE DEF l
    <3>2. LocalIsSound(l)
      BY <3>1 DEF LocalIsSound
    <3> QED
      BY <3>2 DEF l
  <2>5. PICK l : lq' = [lq EXCEPT ![q] = l] /\ LocalIsSound(l)
    <3>1. CASE TriggerKyc(q, p)
      BY <2>4, <3>1 DEF TriggerKyc, Enter
    <3>2. ASSUME NEW action \in {"verify", "reject"}, ReviewKyc(q, p, action)
          PROVE  \E l : lq' = [lq EXCEPT ![q] = l] /\ LocalIsSound(l)
      BY <2>4, <3>2 DEF ReviewKyc, Enter
    <3>3. ASSUME NEW i \in 1 .. MaxMacro, StartRescore(q, p, i)
          PROVE  \E l : lq' = [lq EXCEPT ![q] = l] /\ LocalIsSound(l)
      <4>0. PICK v : v = (CHOOSE s \in score[p] : TRUE).value
        OBVIOUS
      <4>1. score[p] # {} /\ score[p] \subseteq [value : Scores, macro : 0 .. MaxMacro]
        <5>1. <<p, i>> \in DOMAIN rescores /\ <<p, i>>[1] = p
          BY <3>3 DEF StartRescore
        <5> QED
          BY <1>0, <5>1
      <4>2. v \in Nat /\ i \in Nat
        <5>1. v \in Nat
          BY <4>0, <4>1, LeadAssumption
        <5>2. i \in Nat
          BY <1>0
        <5> QED
          BY <5>1, <5>2
      <4> DEFINE l == [Quiet EXCEPT !.pc = "score", !.p = p, !.task = i, !.value = v]
      <4>3. l \in Local /\ l.pc = "score" /\ l.p = p /\ l.task = i
        BY <1>1, <4>2 DEF Local, LeadPcs, Rescoring
      <4>4. lq' = [lq EXCEPT ![q] = l]
        BY <3>3, <4>0 DEF StartRescore, Enter
      <4> HIDE DEF l
      <4>5. LocalIsSound(l)
        BY <4>2, <4>3 DEF LocalIsSound, Rescoring
      <4> QED
        BY <4>4, <4>5
    <3> QED
      BY <1>3, <3>1, <3>2, <3>3
  <2>6. lq' \in [LeadReqs -> Local] /\ \A o \in LeadReqs : LocalIsSound(lq'[o])
    BY <2>5, LocalsKept
  <2> QED
    BY <1>0, <2>1, <2>3, <2>6 DEF LeadBase
<1>4. ASSUME NEW new \in BOOLEAN, ChangeIndicator(new) PROVE LeadBase'
  <2>0. PICK i : i = IF new THEN indicator + 1 ELSE indicator
    OBVIOUS
  <2>1. PICK fresh : fresh = {<<p, i>> : p \in Scored} \ DOMAIN rescores
    OBVIOUS
  <2>2. /\ UNCHANGED <<stage, rep, kyc, score, schedules, notes, lq, rrCounter, leadStarts, leadCuts>>
        /\ DOMAIN rescores' = DOMAIN rescores \cup fresh
        /\ macro < MaxMacro /\ i > 0 /\ macro' = macro + 1 /\ indicator' = i
    BY <1>4, <2>0, <2>1 DEF ChangeIndicator, leadRow, leadCounts
  <2>3. indicator' \in 0 .. macro' /\ macro' \in 0 .. MaxMacro /\ indicator <= indicator' /\ indicator \in Nat
    BY <1>0, <2>0, <2>2 DEF LeadTypeOK
  <2>4. fresh \subseteq Prospects \X (0 .. indicator') /\ \A k \in fresh : score[k[1]] # {}
    BY <2>1, <2>2, <2>3 DEF Scored
  <2>5. DOMAIN rescores \subseteq Prospects \X (0 .. indicator')
    <3>1. 0 .. indicator \subseteq 0 .. indicator'
      BY <2>3
    <3>2. DOMAIN rescores \subseteq Prospects \X (0 .. indicator)
      BY <1>0 DEF LeadTypeOK
    <3> QED
      BY <3>1, <3>2
  <2>6. LeadTypeOK'
    BY <1>0, <2>2, <2>3, <2>4, <2>5 DEF LeadTypeOK
  <2> QED
    BY <1>0, <2>2, <2>4, <2>6 DEF LeadBase
<1> QED
  BY <1>2, <1>3, <1>4 DEF LeadNext

(* A remainder is unique.                                                   *)
LEMMA OneRemainder ==
    ASSUME NEW m \in Nat \ {0}, NEW d \in Int, NEW e \in Int,
           NEW r \in 0 .. m - 1, NEW s \in 0 .. m - 1, m * d + r = m * e + s
    PROVE  r = s
<1>1. ASSUME NEW a \in Int, NEW b \in Int, a < b PROVE m * a + m <= m * b
  <2>1. b - a - 1 \in Nat
    BY <1>1
  <2>2. m * (b - a - 1) >= 0
    BY <2>1
  <2>3. m * (b - a - 1) = m * b - m * a - m
    OBVIOUS
  <2> QED
    BY <2>2, <2>3
<1>2. m * d \in Int /\ m * e \in Int
  OBVIOUS
<1>3. ~(d < e) /\ ~(e < d)
  <2>1. ASSUME d < e PROVE FALSE
    <3>1. m * d + m <= m * e
      BY <1>1, <2>1
    <3> QED
      BY <1>2, <3>1
  <2>2. ASSUME e < d PROVE FALSE
    <3>1. m * e + m <= m * d
      BY <1>1, <2>2
    <3> QED
      BY <1>2, <3>1
  <2> QED
    BY <2>1, <2>2
<1>4. d = e
  BY <1>3
<1> QED
  BY <1>2, <1>4

(* The counter goes round.                                                  *)
LEMMA RoundRobin ==
    ASSUME NEW n \in Nat, NEW m \in Nat \ {0}
    PROVE  (n + 1) % m = IF n % m = m - 1 THEN 0 ELSE (n % m) + 1
<1>1. ASSUME NEW x \in Nat
      PROVE  x = m * (x \div m) + (x % m) /\ x % m \in 0 .. m - 1 /\ x \div m \in Int
  OBVIOUS
<1>2. PICK d \in Int, r \in 0 .. m - 1 : n = m * d + r /\ r = n % m
  BY <1>1
<1>3. n + 1 \in Nat
  OBVIOUS
<1>4. PICK e \in Int, s \in 0 .. m - 1 : n + 1 = m * e + s /\ s = (n + 1) % m
  BY <1>1, <1>3
<1>5. m * (d + 1) = m * d + m /\ m * d \in Int /\ m * e \in Int
  OBVIOUS
<1>6. CASE r = m - 1
  <2>1. m * (d + 1) + 0 = m * e + s /\ 0 \in 0 .. m - 1 /\ d + 1 \in Int
    BY <1>2, <1>4, <1>5, <1>6
  <2>2. s = 0
    BY <2>1, OneRemainder
  <2> QED
    BY <1>2, <1>4, <1>6, <2>2
<1>7. CASE r # m - 1
  <2>1. m * d + (r + 1) = m * e + s /\ r + 1 \in 0 .. m - 1
    BY <1>2, <1>4, <1>5, <1>7
  <2>2. s = r + 1
    BY <2>1, OneRemainder
  <2> QED
    BY <1>2, <1>4, <1>7, <2>2
<1> QED
  BY <1>6, <1>7

(* A pick counts for the rep it takes, and for nobody else.                 *)
LEMMA OneMoreTurn ==
    ASSUME turns \in Seq(RepSet), NEW r \in RepSet, turns' = Append(turns, r), NEW s
    PROVE  Taken(s)' = IF s = r THEN Taken(s) + 1 ELSE Taken(s)
<1> DEFINE A == {i \in DOMAIN turns : turns[i] = s}
<1>1. /\ Len(turns) \in Nat /\ DOMAIN turns = 1 .. Len(turns) /\ DOMAIN turns' = 1 .. Len(turns) + 1
      /\ turns'[Len(turns) + 1] = r /\ \A i \in 1 .. Len(turns) : turns'[i] = turns[i]
  OBVIOUS
<1>2. IsFiniteSet(A) /\ Len(turns) + 1 \notin A
  <2>1. IsFiniteSet(1 .. Len(turns)) /\ A \subseteq 1 .. Len(turns)
    BY <1>1, FS_Interval
  <2>2. IsFiniteSet(A)
    BY <2>1, FS_Subset
  <2> QED
    BY <1>1, <2>2
<1>3. CASE s = r
  <2>1. {i \in DOMAIN turns' : turns'[i] = s} = A \cup {Len(turns) + 1}
    BY <1>1, <1>3
  <2>2. Cardinality(A \cup {Len(turns) + 1}) = Cardinality(A) + 1
    BY <1>2, FS_AddElement
  <2> QED
    BY <1>3, <2>1, <2>2 DEF Taken
<1>4. CASE s # r
  <2>1. {i \in DOMAIN turns' : turns'[i] = s} = A
    BY <1>1, <1>4
  <2> QED
    BY <1>4, <2>1 DEF Taken
<1> QED
  BY <1>3, <1>4

(* The turns stay even: a pick takes the rep whose turn it is.              *)
LEMMA TurnSteps ==
    ASSUME LeadInv, LeadNext
    PROVE  TurnInv'
<1>0. rrCounter \in Nat /\ TurnInv
  BY DEF LeadInv, LeadBase, LeadTypeOK
<1>1. ASSUME UNCHANGED <<turns, rrCounter>> PROVE TurnInv'
  BY <1>0, <1>1 DEF TurnInv, Taken
<1>2. ASSUME NEW q \in LeadReqs, PickRep(q), Reps # <<>> PROVE TurnInv'
  <2> DEFINE L == Len(Reps)
             j == (rrCounter % L) + 1
  <2>1. /\ L \in Nat \ {0} /\ DOMAIN Reps = 1 .. L /\ j \in 1 .. L /\ Reps[j] \in RepSet /\ NoRep \notin RepSet
    BY <1>0, <1>2, RepInTurn
  <2>2. rrCounter' = rrCounter + 1 /\ turns' = Append(turns, Reps[j]) /\ turns \in Seq(RepSet)
    BY <1>0, <1>2, <2>1 DEF PickRep, TurnInv
  <2>3. turns' \in Seq(RepSet)
    BY <2>1, <2>2
  <2>4. (rrCounter + 1) % L = IF rrCounter % L = L - 1 THEN 0 ELSE (rrCounter % L) + 1
    BY <1>0, <2>1, RoundRobin
  <2>5. PICK n \in Nat : \A a \in 1 .. L : Taken(Reps[a]) = IF a <= rrCounter % L THEN n + 1 ELSE n
    BY <1>0, <1>2 DEF TurnInv
  <2>6. PICK c : c = rrCounter % L
    OBVIOUS
  <2>7. c \in 0 .. L - 1 /\ j = c + 1
    BY <2>1, <2>6, <1>0
  <2>8. \A a \in 1 .. L : Reps[a] = Reps[j] <=> a = j
    BY <2>1, LeadAssumption
  <2>9. \A a \in 1 .. L : Taken(Reps[a])' = IF a <= c + 1 THEN n + 1 ELSE n
    <3> TAKE a \in 1 .. L
    <3>1. Taken(Reps[a])' = IF Reps[a] = Reps[j] THEN Taken(Reps[a]) + 1 ELSE Taken(Reps[a])
      BY <2>1, <2>2, OneMoreTurn
    <3>2. Taken(Reps[a]) = IF a <= c THEN n + 1 ELSE n
      BY <2>5, <2>6
    <3> HIDE DEF j, L
    <3>3. a \in Nat /\ c \in Nat
      BY <2>1, <2>7
    <3> QED
      BY <2>7, <2>8, <3>1, <3>2, <3>3
  <2> HIDE DEF j, L
  <2>10. \E m \in Nat : \A a \in 1 .. L : Taken(Reps[a])' = IF a <= rrCounter' % L THEN m + 1 ELSE m
    <3>1. CASE c = L - 1
      <4>1. rrCounter' % L = 0
        BY <2>2, <2>4, <2>6, <3>1
      <4>2. \A a \in 1 .. L : Taken(Reps[a])' = IF a <= 0 THEN (n + 1) + 1 ELSE n + 1
        BY <2>1, <2>9, <3>1
      <4> QED
        BY <4>1, <4>2
    <3>2. CASE c # L - 1
      <4>1. rrCounter' % L = c + 1
        BY <2>2, <2>4, <2>6, <3>2
      <4> QED
        BY <2>9, <4>1
    <3> QED
      BY <3>1, <3>2
  <2> QED
    BY <2>3, <2>10 DEF TurnInv, L
<1>3. ASSUME NEW q \in LeadReqs, PickRep(q) PROVE TurnInv'
  <2>1. CASE Reps = <<>>
    BY <1>1, <1>3, <2>1 DEF PickRep
  <2> QED
    BY <1>2, <1>3, <2>1
<1>4. ASSUME NEW q \in LeadReqs, LeadStep(q) PROVE UNCHANGED <<turns, rrCounter>> \/ PickRep(q)
  <2>1. CASE InsertKyc(q) \/ FlagForReview(q) \/ RejectKyc(q) \/ VerifyKyc(q) \/ MarkScored(q)
    BY <2>1 DEF InsertKyc, FlagForReview, RejectKyc, VerifyKyc, MarkScored, leadHist
  <2>2. CASE ReadIndicators(q) \/ InsertScore(q) \/ ReadStage(q) \/ ReadKyc(q) \/ DecideRoute(q)
    BY <2>2 DEF ReadIndicators, InsertScore, ReadStage, ReadKyc, DecideRoute, leadHist
  <2>3. CASE Disqualify(q) \/ ScheduleRescore(q) \/ AssignRep(q) \/ NotifyNewLead(q)
             \/ NotifyDrop(q) \/ FinishRescore(q)
    BY <2>3 DEF Disqualify, ScheduleRescore, AssignRep, NotifyNewLead, NotifyDrop, FinishRescore, leadHist
  <2> QED
    BY <1>4, <2>1, <2>2, <2>3 DEF LeadStep
<1>5. ASSUME NEW q \in LeadReqs, NEW p \in Prospects,
             \/ TriggerKyc(q, p)
             \/ \E action \in {"verify", "reject"} : ReviewKyc(q, p, action)
             \/ \E i \in 1 .. MaxMacro : StartRescore(q, p, i)
      PROVE  UNCHANGED <<turns, rrCounter>>
  BY <1>5 DEF TriggerKyc, ReviewKyc, StartRescore
<1>6. ASSUME NEW q \in LeadReqs, CutLead(q) PROVE UNCHANGED <<turns, rrCounter>>
  BY <1>6 DEF CutLead
<1>7. ASSUME NEW new \in BOOLEAN, ChangeIndicator(new) PROVE UNCHANGED <<turns, rrCounter>>
  BY <1>7 DEF ChangeIndicator
<1> QED
  BY <1>1, <1>3, <1>4, <1>5, <1>6, <1>7 DEF LeadNext

(* The invariant of the leads is inductive.                                 *)
LEMMA LeadSteps ==
    /\ LeadInit => LeadInv
    /\ LeadInv /\ [LeadNext]_leadVars => LeadInv'
<1>1. ASSUME LeadInv, LeadNext PROVE \A x \in Prospects : LeadAt(x)'
  <2>1. ASSUME NEW q \in LeadReqs, LeadStep(q) PROVE \A x \in Prospects : LeadAt(x)'
    BY <1>1, <2>1, KycSteps, RouteSteps, ScoreSteps DEF LeadStep
  <2> QED
    BY <1>1, <2>1, EnterSteps, CutStep, IndicatorStep DEF LeadNext
<1>2. ASSUME LeadInv, LeadNext PROVE LeadInv'
  <2>1. LeadBase'
    BY <1>2, BaseSteps DEF LeadInv
  <2> QED
    BY <1>1, <1>2, <2>1, TurnSteps DEF LeadInv
<1>3. ASSUME LeadInv, UNCHANGED leadVars PROVE LeadInv'
  <2>1. UNCHANGED <<stage, rep, kyc, score, macro, indicator, rescores, schedules, notes, rrCounter, lq,
                    leadStarts, leadCuts, turns, leadRaces, leadCut, unseen, untold>>
    BY <1>3 DEF leadVars, leadRow, scoring, leadCounts, leadHist
  <2>2. LeadBase'
    BY <1>3, <2>1 DEF LeadInv, LeadBase, LeadTypeOK
  <2>3. ASSUME NEW x \in Prospects PROVE LeadAt(x)'
    <3>1. LeadAt(x) /\ \A o \in LeadReqs : Busy(o, x)' <=> Busy(o, x)
      BY <1>3, <2>1 DEF LeadInv, Busy
    <3> QED
      BY <2>1, <3>1, LeadElsewhere
  <2>4. TurnInv'
    BY <1>3, <2>1 DEF LeadInv, TurnInv, Taken
  <2> QED
    BY <2>2, <2>3, <2>4 DEF LeadInv
<1> QED
  BY <1>2, <1>3, LeadStart

(* What the leads promise follows: a settled prospect has no request left   *)
(* that could still owe it something.                                       *)
LEMMA LeadPromise ==
    LeadInv => /\ QualifiedIsVerified /\ NoProspectStranded /\ AssignedRepIsTold
               /\ TurnsAreEven /\ ScoresFollowIndicators /\ DropsAreTold
<1> SUFFICES ASSUME LeadInv
             PROVE  /\ QualifiedIsVerified /\ NoProspectStranded /\ AssignedRepIsTold
                    /\ TurnsAreEven /\ ScoresFollowIndicators /\ DropsAreTold
  OBVIOUS
<1>1. ASSUME NEW p \in Prospects, Settled(p)
      PROVE  LeadAt(p) /\ p \notin leadCut /\ \A q \in LeadReqs : ~Busy(q, p)
  BY <1>1 DEF LeadInv, Settled, About, Busy
<1>2. QualifiedIsVerified /\ NoProspectStranded /\ DropsAreTold
  BY <1>1 DEF LeadAt, QualifiedIsVerified, NoProspectStranded, DropsAreTold
<1>3. AssignedRepIsTold
  <2> SUFFICES ASSUME NEW r \in RepSet, NEW p \in QueueOf(r), Settled(p)
               PROVE  \E n \in Unread(r) : n[2] = p /\ n[3] = "new_lead"
    BY DEF AssignedRepIsTold
  <2>1. p \in Prospects /\ rep[p] = r /\ r # NoRep
    BY LeadAssumption DEF QueueOf, RepSet
  <2>2. <<r, p, "new_lead">> \in notes
    BY <1>1, <2>1 DEF LeadAt
  <2>3. <<r, p, "new_lead">> \in Unread(r)
    BY <2>2 DEF Unread
  <2> QED
    BY <2>3
<1>4. TurnsAreEven
  <2> SUFFICES ASSUME NEW r \in RepSet, NEW s \in RepSet PROVE Taken(r) <= Taken(s) + 1
    BY DEF TurnsAreEven, Taken
  <2>1. PICK a \in DOMAIN Reps, b \in DOMAIN Reps : r = Reps[a] /\ s = Reps[b]
    BY DEF RepSet
  <2>2. Reps # <<>> /\ DOMAIN Reps = 1 .. Len(Reps)
    BY <2>1, LeadAssumption
  <2>3. PICK n \in Nat : \A i \in 1 .. Len(Reps) : Taken(Reps[i]) = IF i <= rrCounter % Len(Reps) THEN n + 1 ELSE n
    BY <2>2 DEF LeadInv, TurnInv
  <2>4. Taken(r) \in {n, n + 1} /\ Taken(s) \in {n, n + 1}
    BY <2>1, <2>2, <2>3
  <2> QED
    BY <2>4
<1>5. ScoresFollowIndicators
  <2> SUFFICES ASSUME NEW p \in Scored \ (leadRaces \cup unseen), Settled(p),
                      \A k \in DOMAIN rescores : k[1] = p => rescores[k] = "completed"
               PROVE  \A s \in score[p] : s.macro = macro
    BY DEF ScoresFollowIndicators
  <2>1. p \in Prospects /\ ~Pending(p)
    BY DEF Scored, Pending
  <2> QED
    BY <1>1, <2>1 DEF LeadAt
<1> QED
  BY <1>2, <1>3, <1>4, <1>5

--------------------------------------------------------------------------------
(* The composition: each step moves one of the components.                  *)

CustomersInv == LeadInv /\ DealInv /\ HealthInv /\ CareInv

(* Leads, deals, health scores and interventions keep their invariants in   *)
(* every behaviour (leads.ts, kyc.ts, lead-routing.ts, health-score-        *)
(* worker.ts, interventions.ts).                                            *)
THEOREM CustomersInvariant == Spec => []CustomersInv
<1>1. Init => CustomersInv
  BY LeadSteps, DealSteps, HealthSteps, CareSteps DEF Init, CustomersInv
<1>2. CustomersInv /\ [Next]_customerVars => CustomersInv'
  <2> SUFFICES ASSUME CustomersInv, [Next]_customerVars PROVE CustomersInv'
    OBVIOUS
  <2>1. /\ [LeadNext]_leadVars /\ [DealNext]_dealVars
        /\ [HealthNext]_healthVars /\ [CareNext]_careVars
    BY DEF Next, customerVars
  <2> QED
    BY <2>1, LeadSteps, DealSteps, HealthSteps, CareSteps DEF CustomersInv
<1> QED
  BY <1>1, <1>2, PTL DEF Spec

(* However KYC decisions, scorings, routings, rescorings and crashes        *)
(* interleave, a lead is routed on what was verified, is left nowhere, its  *)
(* rep is told, turns are even and scores are current.                      *)
THEOREM LeadsCorrect == Spec => []LeadsArriveRight
<1>1. CustomersInv => LeadsArriveRight
  BY LeadPromise DEF CustomersInv, LeadsArriveRight, CustomersTypeOK, LeadInv, LeadBase, DealInv, HealthInv, CareInv
<1> QED
  BY <1>1, CustomersInvariant, PTL

(* A won deal makes one customer, a finished health run has scored all but  *)
(* the failed, and a resolution ends the alerts before it.                  *)
THEOREM ServiceCorrect == Spec => []CustomersAreServed
<1>1. CustomersInv => CustomersAreServed
  BY DealPromise, HealthPromise, CarePromise DEF CustomersInv, CustomersAreServed
<1> QED
  BY <1>1, CustomersInvariant, PTL

(* The score of a day is never replaced, by a second server or by a run     *)
(* that goes on past midnight (health-score-worker.ts, ON CONFLICT).        *)
THEOREM DailyCorrect == Spec => DailyScoreIsFinal
<1>1. [Next]_customerVars => [\A k \in DOMAIN daily : k \in DOMAIN daily' /\ daily'[k] = daily[k]]_healthVars
  <2> SUFFICES ASSUME [Next]_customerVars
               PROVE  \A k \in DOMAIN daily : k \in DOMAIN daily' /\ daily'[k] = daily[k]
    OBVIOUS
  <2>1. [HealthNext]_healthVars
    BY DEF Next, customerVars
  <2> QED
    BY <2>1, HealthKeeps
<1> QED
  BY <1>1, PTL DEF Spec, DailyScoreIsFinal

=============================================================================
