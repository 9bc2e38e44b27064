------------------------------- MODULE Retention -------------------------------
(***************************************************************************)
(* The life of a tenant's ground-truth records (emails, corpus chunks):    *)
(* written under the tenant's retention policy, immutable while WORM mode  *)
(* protects them, deleted by the nightly scan once their floor has elapsed *)
(* and no legal hold of LegalHold is in force.  packages/db/               *)
(* retention-store.ts, retention-engine.ts, retention-scheduler.ts and the *)
(* triggers of packages/db/schema.sql on entities.                         *)
(*                                                                         *)
(* A record's created_at is its age in days.  retention_policy_entity_     *)
(* overrides has no influence on any of this code, so it is not here.      *)
(***************************************************************************)
EXTENDS LegalHold

CONSTANTS
    Records,      \* ids of the records that can be written
    TenantOf,     \* the tenant each of them belongs to
    Floors,       \* retention_policies: floor in days of each listed class
    Classes,      \* retention classes in use, listed or not
    Scanners,     \* servers whose cron runs the retention scheduler
    BatchSize,    \* LIMIT of the eligibility query
    MaxAge        \* bound of the model: no record grows older than this

ASSUME RetentionAssumption ==
    /\ TenantOf \in [Records -> Tenants]
    /\ Floors \in [DOMAIN Floors -> Nat] /\ DOMAIN Floors \subseteq Classes
    /\ None \notin Classes \cup Records
    /\ BatchSize \in Nat \ {0} /\ MaxAge \in Nat
    /\ \A c \in DOMAIN Floors : Floors[c] <= MaxAge

VARIABLES
    record,    \* entities
    policy,    \* tenant_retention_policies
    worm,      \* tenant_policies, key 'worm_mode'
    scan       \* runRetentionScheduler, per server

retentionVars == <<record, policy, worm, scan>>
vars == <<holdVars, retentionVars>>

RecordType == [state: {"absent", "stored", "deleted"}, class: Classes \cup {None},
               legal_hold: BOOLEAN, age: 0..MaxAge, rev: 0..1]
PolicyType == [class: Classes \cup {None}, legal_hold_default: BOOLEAN]
ScanType == [pc: {"idle", "scanning", "deleting"}, batch: SUBSET Records,
             at: Records \cup {None}, since: SUBSET HoldIds]

TypeOK ==
    /\ HoldTypeOK
    /\ record \in [Records -> RecordType]
    /\ policy \in [Tenants -> PolicyType]
    /\ worm \in [Tenants -> BOOLEAN]
    /\ scan \in [Scanners -> ScanType]

NoRecord == [state |-> "absent", class |-> None, legal_hold |-> FALSE, age |-> 0, rev |-> 0]
NoScan == [pc |-> "idle", batch |-> {}, at |-> None, since |-> {}]

(* legal_hold_default is set by hand: no code of the server writes TRUE.   *)
Init ==
    /\ HoldInit
    /\ record = [e \in Records |-> NoRecord]
    /\ policy \in [Tenants -> {p \in PolicyType : p.class = None => ~ p.legal_hold_default}]
    /\ worm = [t \in Tenants |-> FALSE]
    /\ scan = [n \in Scanners |-> NoScan]

-----------------------------------------------------------------------------
(* assignRetentionPolicyToTenant: the upsert keeps legal_hold_default.     *)
AssignRetentionPolicy(t, c) ==
    /\ c \in DOMAIN Floors /\ policy[t].class # c
    /\ policy' = [policy EXCEPT ![t].class = c]
    /\ UNCHANGED <<holdVars, record, worm, scan>>

(* writeEmailWithRetention, writeCorpusChunkWithRetention: refused for a   *)
(* tenant without a policy.                                                *)
WriteWithRetention(e) ==
    LET p == policy[TenantOf[e]]
    IN  /\ record[e].state = "absent" /\ p.class # None
        /\ record' = [record EXCEPT ![e] = [state |-> "stored", class |-> p.class,
                        legal_hold |-> p.legal_hold_default, age |-> 0, rev |-> 0]]
        /\ UNCHANGED <<holdVars, policy, worm, scan>>

EnableWorm(t) ==
    /\ ~ worm[t]
    /\ worm' = [worm EXCEPT ![t] = TRUE]
    /\ UNCHANGED <<holdVars, record, policy, scan>>

DayPasses ==
    /\ \E e \in Records : record[e].state = "stored" /\ record[e].age < MaxAge
    /\ record' = [e \in Records |->
                    IF record[e].state = "stored" /\ record[e].age < MaxAge
                    THEN [record[e] EXCEPT !.age = @ + 1] ELSE record[e]]
    /\ UNCHANGED <<holdVars, policy, worm, scan>>

(* guard_retention_floor, and the same test in isWithinRetentionFloor and  *)
(* guard_worm_update: an unlisted class has no floor.                      *)
WithinFloor(e) == record[e].class \in DOMAIN Floors /\ record[e].age < Floors[record[e].class]

(* A slip: the trigger looks the flag up under the wrong value.            *)
UpdateAllowed_Inverted(e) == worm[TenantOf[e]] \/ ~ WithinFloor(e)

(* guard_worm_update: the trigger on every UPDATE of entities.             *)
UpdateAllowed(e) == ~ worm[TenantOf[e]] \/ ~ WithinFloor(e)

UpdateRecord(e) ==
    /\ record[e].state = "stored" /\ record[e].rev = 0
    /\ UpdateAllowed(e)
    /\ record' = [record EXCEPT ![e].rev = 1]
    /\ UNCHANGED <<holdVars, policy, worm, scan>>

-----------------------------------------------------------------------------
(* A slip: a hold keeps the tenant's records even after its removal.       *)
Eligible_NoHoldEver(e) ==
    /\ record[e].state = "stored"
    /\ record[e].class \in DOMAIN Floors /\ ~ WithinFloor(e)
    /\ ~ record[e].legal_hold
    /\ {h \in HoldIds : holds[h].tenant = TenantOf[e]} = {}

(* A slip: the record's own legal_hold flag is not looked at.              *)
Eligible_Flagged(e) ==
    /\ record[e].state = "stored"
    /\ record[e].class \in DOMAIN Floors /\ ~ WithinFloor(e)
    /\ HoldsInForce(TenantOf[e]) = {}

(* The eligibility query, without its LIMIT.                               *)
Eligible(e) ==
    /\ record[e].state = "stored"
    /\ record[e].class \in DOMAIN Floors /\ ~ WithinFloor(e)
    /\ ~ record[e].legal_hold
    /\ HoldsInForce(TenantOf[e]) = {}

(* ORDER BY created_at ASC LIMIT batchSize                                 *)
Batches ==
    LET eligible == {e \in Records : Eligible(e)}
        Oldest(B) == \A e \in B, f \in eligible \ B : record[e].age >= record[f].age
    IN  {B \in SUBSET eligible : /\ Oldest(B)
                                 /\ \/ Cardinality(B) = BatchSize
                                    \/ Cardinality(B) < BatchSize /\ B = eligible}

StartScan(n) ==
    /\ scan[n].pc = "idle"
    /\ \E B \in Batches :
          scan' = [scan EXCEPT ![n] = [pc |-> "scanning", batch |-> B, at |-> None, since |-> {}]]
    /\ UNCHANGED <<holdVars, record, policy, worm>>

FinishScan(n) ==
    /\ scan[n].pc = "scanning" /\ scan[n].batch = {}
    /\ scan' = [scan EXCEPT ![n] = NoScan]
    /\ UNCHANGED <<holdVars, record, policy, worm>>

(* On to the next row of the batch, after an error too.                    *)
NextRow(c) == [c EXCEPT !.pc = "scanning", !.at = None, !.since = {}]

(* deleteEntityPastRetention: the row, the holds and the floor are read.   *)
(* A row that is gone counts as deleted; a hold, or the floor, throws.     *)
Blocked(e) == HoldsInForce(TenantOf[e]) # {} \/ WithinFloor(e)

CheckDeletable(n, e) ==
    LET c == [scan[n] EXCEPT !.batch = @ \ {e}]
    IN  /\ scan[n].pc = "scanning" /\ e \in scan[n].batch
        /\ \A f \in scan[n].batch : record[f].age <= record[e].age
        /\ scan' = [scan EXCEPT ![n] =
                      IF record[e].state = "stored" /\ ~ Blocked(e)
                      THEN [c EXCEPT !.pc = "deleting", !.at = e]
                      ELSE NextRow(c)]
        /\ UNCHANGED <<holdVars, record, policy, worm>>

(* The DELETE, which guard_retention_floor may refuse; nothing at this     *)
(* point looks at the holds again.                                         *)
DeleteRecord(n) ==
    LET e == scan[n].at
    IN  /\ scan[n].pc = "deleting"
        /\ record' = IF record[e].state = "stored" /\ ~ WithinFloor(e)
                     THEN [record EXCEPT ![e] = [NoRecord EXCEPT !.state = "deleted"]]
                     ELSE record
        /\ scan' = [scan EXCEPT ![n] = NextRow(@)]
        /\ UNCHANGED <<holdVars, policy, worm>>

(* A statement of deleteEntityPastRetention fails.                         *)
DeleteFails(n) ==
    /\ scan[n].pc = "deleting"
    /\ scan' = [scan EXCEPT ![n] = NextRow(@)]
    /\ UNCHANGED <<holdVars, record, policy, worm>>

Restart(n) ==
    /\ scan[n].pc # "idle" /\ interrupted < MaxInterrupted
    /\ interrupted' = interrupted + 1
    /\ scan' = [scan EXCEPT ![n] = NoScan]
    /\ UNCHANGED <<holds, removals, session, record, policy, worm>>

-----------------------------------------------------------------------------
Standing(h) == holds[h].status \notin {"absent", "removed"}

(* A step of the holds.  The history variable `since' collects the holds   *)
(* that came into force after a scanner's last look at them.               *)
HoldStep ==
    /\ HoldNext
    /\ scan' = [n \in Scanners |->
                  IF scan[n].pc # "deleting" THEN scan[n]
                  ELSE [scan[n] EXCEPT !.since =
                          @ \cup {h \in HoldIds : ~ Standing(h) /\ Standing(h)'}]]
    /\ UNCHANGED <<record, policy, worm>>

ScanStep(n) ==
    \/ StartScan(n) \/ FinishScan(n)
    \/ \E e \in Records : CheckDeletable(n, e)
    \/ DeleteRecord(n)

Next ==
    \/ HoldStep
    \/ \E t \in Tenants : EnableWorm(t) \/ \E c \in Classes : AssignRetentionPolicy(t, c)
    \/ \E e \in Records : WriteWithRetention(e) \/ UpdateRecord(e)
    \/ DayPasses
    \/ \E n \in Scanners : ScanStep(n) \/ DeleteFails(n) \/ Restart(n)

Spec == Init /\ [][Next]_vars

(* The cron starts a scan every night and the scan's loop goes on; a       *)
(* DELETE that is tried again and again succeeds at last.                  *)
Fairness ==
    /\ WF_vars(DayPasses)
    /\ \A n \in Scanners :
          /\ WF_vars(StartScan(n) \/ FinishScan(n) \/ \E e \in Records : CheckDeletable(n, e))
          /\ \A e \in Records : SF_vars(scan[n].at = e /\ DeleteRecord(n))

FairSpec == Spec /\ Fairness

-----------------------------------------------------------------------------
(* No record leaves entities before the floor of the class it was written  *)
(* under, whatever policy its tenant has been given since, and no record   *)
(* of an unlisted class or under its own legal_hold leaves at all.         *)
DeletedPastFloor ==
    [][\A e \in Records : record[e].state = "stored" /\ record'[e].state # "stored" =>
            /\ record[e].class \in DOMAIN Floors
            /\ record[e].age >= Floors[record[e].class]
            /\ ~ record[e].legal_hold]_vars

(* guard_worm_update with guard_retention_floor: once WORM is on, a record *)
(* within its floor neither changes nor disappears.                        *)
WriteOnce ==
    [][\A e \in Records :
          /\ record[e].state = "stored" /\ worm[TenantOf[e]]
          /\ record[e].class \in DOMAIN Floors /\ record[e].age < Floors[record[e].class]
          => \E a \in 0..MaxAge : record'[e] = [record[e] EXCEPT !.age = a]]_vars

(* The second defence of the scan: when a record is about to be deleted,   *)
(* every hold on its tenant, one with a pending removal included, came     *)
(* into force only after deleteEntityPastRetention had looked.  A hold     *)
(* that was there when it looked is never missed.                          *)
HoldsAreSeen ==
    \A n \in Scanners : scan[n].pc = "deleting" =>
        {h \in HoldIds : holds[h].tenant = TenantOf[scan[n].at] /\ Standing(h)} \subseteq scan[n].since

(* The scheduler's purpose: a record past its floor is deleted in the end, *)
(* unless holds keep coming back, although single rows of a batch fail and *)
(* other tenants are held.                                                 *)
ExpiredIsDeleted ==
    \A e \in Records :
        <>[](\A h \in HoldIds : holds[h].tenant = TenantOf[e] => ~ Standing(h)) =>
            [](/\ record[e].state = "stored" /\ ~ record[e].legal_hold
               /\ record[e].class \in DOMAIN Floors /\ record[e].age >= Floors[record[e].class]
               => <>(record[e].state = "deleted"))

=============================================================================
