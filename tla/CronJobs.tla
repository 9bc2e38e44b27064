-------------------------------- MODULE CronJobs -------------------------------
(* The cron scheduler in each server, and the jobs whose work is their own: *)
(* delivery of scheduled reports, switching off feature flags whose time    *)
(* has come, and the jobs that enqueue one task per tick.                   *)
EXTENDS Naturals, FiniteSets

CONSTANTS
    Servers,
    MaxDay,         \* days
    Reports,        \* ids of scheduled reports
    Weekly,         \* the ones that are weekly; the others are monthly
    Mondays, Firsts,\* days that are a Monday, the first of a month
    Flags,
    MaxFlagEdits,   \* bound on the edits of flags
    MaxJobFails,    \* bound on failing statements and mails
    MaxStops,       \* bound on stops of a server
    Never           \* null

ASSUME CronAssumption == MaxDay \in Nat \ {0} /\ MaxFlagEdits \in Nat /\ MaxJobFails \in Nat /\ MaxStops \in Nat

VARIABLES
    day,
    up,             \* servers whose scheduler is started
    last,           \* the day each server last ran each daily job
    rows,           \* task_queue rows of the jobs, one per idempotency key
    report,         \* rl_cfo_scheduled_reports
    mailed,         \* mails sent, per report and day
    delivery,       \* the delivery job of each server
    flag,           \* feature_flags
    sweep,          \* the flag job of each server
    flagEdits, jobFails, stops

cronVars == <<day, up, last, rows, report, mailed, delivery, flag, sweep, flagEdits, jobFails, stops>>

Daily == {"reports", "cleanup", "scan"}
Off == [pc |-> "off", day |-> 0, due |-> {}, left |-> {}, sent |-> {}, failed |-> {}]
NoSweep == [pc |-> "off", due |-> {}, stale |-> {}]
States == {"enabled", "disabled", "deprecated"}

CronTypeOK ==
    /\ day \in 1 .. MaxDay /\ up \subseteq Servers /\ report \subseteq Reports
    /\ \A r \in Reports, d \in 1 .. MaxDay : mailed[r][d] \in Nat
    /\ \A s \in Servers : delivery[s].pc \in {"off", "send", "row"} /\ delivery[s].left \subseteq delivery[s].due
    /\ \A f \in Flags : flag[f].state \in States /\ flag[f].at \in 1 .. MaxDay \cup {Never}
    /\ \A s \in Servers : sweep[s].pc \in {"off", "disable"} /\ sweep[s].stale \subseteq sweep[s].due

CronInit ==
    /\ day = 1 /\ up = Servers /\ last = [s \in Servers |-> [j \in Daily |-> 0]] /\ rows = {}
    /\ report = {} /\ mailed = [r \in Reports |-> [d \in 1 .. MaxDay |-> 0]] /\ delivery = [s \in Servers |-> Off]
    /\ flag = [f \in Flags |-> [state |-> "enabled", at |-> Never]] /\ sweep = [s \in Servers |-> NoSweep]
    /\ flagEdits = 0 /\ jobFails = 0 /\ stops = 0

NextDay ==
    /\ day < MaxDay /\ day' = day + 1
    /\ UNCHANGED <<up, last, rows, report, mailed, delivery, flag, sweep, flagEdits, jobFails, stops>>

(* startCronScheduler and stopCronScheduler; a handler that runs ends with  *)
(* its process.                                                             *)
StartCronScheduler(s) ==
    /\ s \notin up /\ up' = up \cup {s}
    /\ UNCHANGED <<day, last, rows, report, mailed, delivery, flag, sweep, flagEdits, jobFails, stops>>

StopCronScheduler(s) ==
    /\ s \in up /\ stops < MaxStops /\ stops' = stops + 1 /\ up' = up \ {s}
    /\ delivery' = [delivery EXCEPT ![s] = Off] /\ sweep' = [sweep EXCEPT ![s] = NoSweep]
    /\ UNCHANGED <<day, last, rows, report, mailed, flag, flagEdits, jobFails>>

(* A tick fires a job once a day, not while its last run is on.             *)
Fires(s, j) == s \in up /\ last[s][j] < day /\ last' = [last EXCEPT ![s][j] = day]

(* cron:<job>:<suffix>: the day for some jobs, the instant for others; the  *)
(* row that has the key already stays.                                      *)
KeyOf(s, j, d) == [job |-> j, day |-> d, at |-> IF j = "scan" THEN s ELSE Never]
EnqueueCronTask(key, payload) ==
    rows' = IF \E r \in rows : r.key = key THEN rows ELSE rows \cup {[key |-> key, payload |-> payload]}

CodeCleanup(s) ==
    /\ Fires(s, "cleanup") /\ EnqueueCronTask(KeyOf(s, "cleanup", day), Off)
    /\ UNCHANGED <<day, up, report, mailed, delivery, flag, sweep, flagEdits, jobFails, stops>>

SecurityScanner(s) ==
    /\ Fires(s, "scan") /\ EnqueueCronTask(KeyOf(s, "scan", day), Off)
    /\ UNCHANGED <<day, up, report, mailed, delivery, flag, sweep, flagEdits, jobFails, stops>>

--------------------------------------------------------------------------------
(* Scheduled reports.                                                       *)
CreateReport(r) ==
    /\ r \notin report /\ report' = report \cup {r}
    /\ UNCHANGED <<day, up, last, rows, mailed, delivery, flag, sweep, flagEdits, jobFails, stops>>

DeleteReport(r) ==
    /\ r \in report /\ report' = report \ {r}
    /\ UNCHANGED <<day, up, last, rows, mailed, delivery, flag, sweep, flagEdits, jobFails, stops>>

IsDeliveryDue(r, d) == d \in IF r \in Weekly THEN Mondays ELSE Firsts

StartDelivery(s) ==
    LET due == {r \in report : IsDeliveryDue(r, day)} IN
    /\ delivery[s].pc = "off" /\ Fires(s, "reports")
    /\ delivery' = [delivery EXCEPT ![s] = IF due = {} THEN Off
                                           ELSE [Off EXCEPT !.pc = "send", !.day = day, !.due = due, !.left = due]]
    /\ UNCHANGED <<day, up, rows, report, mailed, flag, sweep, flagEdits, jobFails, stops>>

(* One mail: a failure is counted and the next report is tried.             *)
SendReportEmail(s, r, fails) ==
    /\ delivery[s].pc = "send" /\ r \in delivery[s].left
    /\ fails => jobFails < MaxJobFails
    /\ jobFails' = IF fails THEN jobFails + 1 ELSE jobFails
    /\ mailed' = IF fails THEN mailed ELSE [mailed EXCEPT ![r][delivery[s].day] = @ + 1]
    /\ delivery' = [delivery EXCEPT ![s].left = @ \ {r},
                                    ![s].sent = IF fails THEN @ ELSE @ \cup {r},
                                    ![s].failed = IF fails THEN @ \cup {r} ELSE @,
                                    ![s].pc = IF delivery[s].left = {r} THEN "row" ELSE "send"]
    /\ UNCHANGED <<day, up, last, rows, report, flag, sweep, flagEdits, stops>>

FinishDelivery(s) ==
    /\ delivery[s].pc = "row" /\ EnqueueCronTask(KeyOf(s, "reports", delivery[s].day), delivery[s])
    /\ delivery' = [delivery EXCEPT ![s] = Off]
    /\ UNCHANGED <<day, up, last, report, mailed, flag, sweep, flagEdits, jobFails, stops>>

--------------------------------------------------------------------------------
(* Feature flags: edits by hand, and the sweep of every minute.             *)
Edit(f, new) ==
    /\ flagEdits < MaxFlagEdits /\ flagEdits' = flagEdits + 1 /\ flag' = [flag EXCEPT ![f] = new]
    /\ sweep' = [s \in Servers |-> [sweep[s] EXCEPT !.stale = IF f \in sweep[s].due THEN @ \cup {f} ELSE @]]
    /\ UNCHANGED <<day, up, last, rows, report, mailed, delivery, jobFails, stops>>

UpsertFlag(f, at) == Edit(f, [state |-> "enabled", at |-> at])
SetFlagState(f, state) == state # flag[f].state /\ Edit(f, [flag[f] EXCEPT !.state = state])

DueForDisable(f) == flag[f].state = "enabled" /\ flag[f].at # Never /\ flag[f].at <= day
GetFlagsDueForDisable_Past == {f \in Flags : flag[f].state = "enabled" /\ flag[f].at # Never /\ flag[f].at < day}
GetFlagsDueForDisable == {f \in Flags : DueForDisable(f)}

StartSweep(s) ==
    /\ s \in up /\ sweep[s].pc = "off" /\ GetFlagsDueForDisable # {}
    /\ sweep' = [sweep EXCEPT ![s] = [pc |-> "disable", due |-> GetFlagsDueForDisable, stale |-> {}]]
    /\ UNCHANGED <<day, up, last, rows, report, mailed, delivery, flag, flagEdits, jobFails, stops>>

DisableFlag(s, f) ==
    /\ sweep[s].pc = "disable" /\ f \in sweep[s].due
    /\ flag' = [flag EXCEPT ![f].state = "disabled"]
    /\ sweep' = [sweep EXCEPT ![s] = IF sweep[s].due = {f} THEN NoSweep
                                     ELSE [sweep[s] EXCEPT !.due = @ \ {f}, !.stale = @ \ {f}]]
    /\ UNCHANGED <<day, up, last, rows, report, mailed, delivery, flagEdits, jobFails, stops>>

(* A failing statement ends the run; the next tick starts over.             *)
SweepFails(s) ==
    /\ sweep[s].pc = "disable" /\ jobFails < MaxJobFails /\ jobFails' = jobFails + 1
    /\ sweep' = [sweep EXCEPT ![s] = NoSweep]
    /\ UNCHANGED <<day, up, last, rows, report, mailed, delivery, flag, flagEdits, stops>>

ReportNext ==
    \/ NextDay \/ \E r \in Reports : CreateReport(r) \/ DeleteReport(r)
    \/ \E s \in Servers : StartCronScheduler(s) \/ StopCronScheduler(s) \/ StartDelivery(s) \/ FinishDelivery(s)
    \/ \E s \in Servers, r \in Reports, fails \in BOOLEAN : SendReportEmail(s, r, fails)

TickNext ==
    NextDay \/ \E s \in Servers : StartCronScheduler(s) \/ StopCronScheduler(s) \/ CodeCleanup(s) \/ SecurityScanner(s)

FlagNext ==
    \/ NextDay \/ \E s \in Servers : StartCronScheduler(s) \/ StopCronScheduler(s) \/ StartSweep(s) \/ SweepFails(s)
    \/ \E f \in Flags, at \in 1 .. MaxDay \cup {Never} : UpsertFlag(f, at)
    \/ \E f \in Flags, state \in States : SetFlagState(f, state)
    \/ \E s \in Servers, f \in Flags : DisableFlag(s, f)

--------------------------------------------------------------------------------
(* However many servers tick and restart, a daily job leaves one task row   *)
(* per day.                                                                 *)
OneRowPerDay ==
    \A r, q \in rows : r.key.job = q.key.job /\ r.key.day = q.key.day /\ r.key.job # "scan" => r = q

(* The row of a delivery accounts for every report that was due: it was     *)
(* mailed that day, or is counted as failed; no failure hides the others.   *)
DeliveryAccountsForAll ==
    \A r \in rows : r.key.job = "reports" =>
        /\ r.payload.due = r.payload.sent \cup r.payload.failed
        /\ r.payload.sent \cap r.payload.failed = {}
        /\ \A x \in r.payload.sent : mailed[x][r.key.day] > 0

(* A sweep switches off only flags whose time has come, unless the flag was *)
(* edited after the sweep had read it.                                      *)
OnlyDueFlagsGoOff ==
    [][\A f \in Flags :
        flag[f].state # "disabled" /\ flag'[f].state = "disabled" /\ flagEdits' = flagEdits =>
            DueForDisable(f) \/ \E s \in Servers : f \in sweep[s].stale]_cronVars

(* A flag that is on past its time goes off, or is edited: whatever sweeps  *)
(* fail and servers restart.                                                *)
DueFlagGoesOff == \A f \in Flags : DueForDisable(f) ~> ~DueForDisable(f)

================================================================================
