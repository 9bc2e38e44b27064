-------------------------------- MODULE Intake --------------------------------
(* How text enters the system.  A cron job on every server enqueues one     *)
(* email_ingest task per window; a worker fetches a batch from the mailbox  *)
(* and classifies it.  The ingestion routes audit, store and, for a         *)
(* transcript, enqueue an autolearn task, one statement after the other,    *)
(* any of which may fail.  The autolearn task runs a CLI in a pod.          *)
EXTENDS Naturals, FiniteSets, FiniteSetsExt

--------------------------------------------------------------------------------
(* The mailbox, and the ingestion routes.                                   *)

CONSTANTS
    MaxUid,         \* bound on the messages delivered
    Batch,          \* batch_size
    Broken,         \* messages the parser rejects
    MaxWindow,      \* bound on the windows of the idempotency key
    Attempts,       \* max_attempts
    Uploads,        \* requests of the two ingestion routes
    Emails,         \* those of /internal/ingestion/email
    Direct,         \* those of POST /api/transcriptions
    NoUid           \* no result yet

ASSUME IntakeAssumption ==
    /\ MaxUid \in Nat /\ Batch \in Nat \ {0} /\ Broken \subseteq 1 .. MaxUid
    /\ MaxWindow \in Nat \ {0} /\ Attempts \in Nat \ {0} /\ NoUid \notin Nat

VARIABLES
    nextUid,        \* the UID the mail server assigns next
    box,            \* UIDs in the mailbox
    window,
    fetch,          \* window -> its task
    upload,         \* Uploads -> progress of the request
    audited, stored, learned    \* uploads with an audit event, a row, a task

intakeVars == <<nextUid, box, window, fetch, upload, audited, stored, learned>>

Windows == 1 .. MaxWindow
NoTask == [status |-> "none", tries |-> 0, since |-> 0, box |-> {}, landed |-> {},
           fetched |-> {}, failed |-> {}, highest |-> NoUid]
Kept == {"none", "pending", "landed", "completed", "failed", "dead"}
Uids == 1 .. MaxUid
Fetch == [status : Kept, tries : 0 .. Attempts, since : {0}, box : SUBSET Uids, landed : SUBSET Uids,
          fetched : SUBSET Uids, failed : SUBSET Uids, highest : 0 .. MaxUid \cup {NoUid}]

IntakeTypeOK ==
    /\ nextUid \in 1 .. MaxUid + 1 /\ box \subseteq 1 .. nextUid - 1 /\ window \in Windows
    /\ fetch \in [Windows -> Fetch]
    /\ \A w \in Windows :
          /\ Cardinality(fetch[w].landed) <= Batch
          /\ fetch[w].status = "completed" => fetch[w].highest \in 0 .. MaxUid
    /\ upload \in [Uploads -> {"none", "audit", "store", "enqueue", "created", "error"}]

IntakeInit ==
    /\ nextUid = 1 /\ box = {} /\ window = 1
    /\ fetch = [w \in Windows |-> NoTask]
    /\ upload = [q \in Uploads |-> "none"]
    /\ audited = {} /\ stored = {} /\ learned = {}

mailVars == <<nextUid, box, window, fetch>>
uploadVars == <<upload, audited, stored, learned>>

(* The mail server: a message arrives, a client deletes one, time passes.   *)
Deliver ==
    /\ nextUid <= MaxUid /\ box' = box \cup {nextUid} /\ nextUid' = nextUid + 1
    /\ UNCHANGED <<window, fetch, uploadVars>>

Expunge(u) == u \in box /\ box' = box \ {u} /\ UNCHANGED <<nextUid, window, fetch, uploadVars>>

NextWindow ==
    window < MaxWindow /\ window' = window + 1 /\ UNCHANGED <<nextUid, box, fetch, uploadVars>>

(* imap-etl-dispatch: the key of the window makes a second insert a no-op;  *)
(* since_uid is always 0.                                                   *)
Dispatch ==
    /\ fetch[window].status = "none"
    /\ fetch' = [fetch EXCEPT ![window].status = "pending"]
    /\ UNCHANGED <<nextUid, box, window, uploadVars>>

(* landMessages: the server answers sinceUid+1:* in ascending order; when   *)
(* nothing is newer it may answer with its last message, which is skipped.  *)
Newer(S, since) == {u \in S : u > since}
Oldest(S) == {u \in S : Cardinality({v \in S : v <= u}) <= Batch}
Newest(S) == {u \in S : Cardinality({v \in S : v >= u}) <= Batch}

Land_Newest(w) ==
    /\ fetch[w].status = "pending"
    /\ fetch' = [fetch EXCEPT ![w].status = "landed", ![w].box = box,
                              ![w].landed = Newest(Newer(box, fetch[w].since))]
    /\ UNCHANGED <<nextUid, box, window, uploadVars>>

Land(w) ==
    /\ fetch[w].status = "pending"
    /\ fetch' = [fetch EXCEPT ![w].status = "landed", ![w].box = box,
                              ![w].landed = Oldest(Newer(box, fetch[w].since))]
    /\ UNCHANGED <<nextUid, box, window, uploadVars>>

(* A transient error is thrown, and the runner marks the task failed: no    *)
(* sweep finds it there.  A permanent one becomes a result, and the task is *)
(* completed with it.                                                       *)
LandFails(w) ==
    /\ fetch[w].status = "pending" /\ fetch' = [fetch EXCEPT ![w].status = "failed"]
    /\ UNCHANGED <<nextUid, box, window, uploadVars>>

(* The worker dies, or cannot mark the task: its claim goes stale, and the  *)
(* task is tried again until it is dead.                                    *)
ClaimLapses(w) ==
    /\ fetch[w].status \in {"pending", "landed"}
    /\ LET tries == fetch[w].tries + 1 IN
       fetch' = [fetch EXCEPT ![w].tries = tries,
                              ![w].status = IF tries = Attempts THEN "dead" ELSE "pending"]
    /\ UNCHANGED <<nextUid, box, window, uploadVars>>

LandRefused(w) ==
    /\ fetch[w].status = "pending"
    /\ fetch' = [fetch EXCEPT ![w].status = "completed", ![w].highest = fetch[w].since]
    /\ UNCHANGED <<nextUid, box, window, uploadVars>>

(* fetchNewMessages: a message that does not parse is set aside.            *)
Classify(w) ==
    LET l == fetch[w].landed IN
    /\ fetch[w].status = "landed"
    /\ fetch' = [fetch EXCEPT ![w].status = "completed", ![w].fetched = l \ Broken,
                              ![w].failed = l \cap Broken,
                              ![w].highest = IF l = {} THEN 0 ELSE Max(l)]
    /\ UNCHANGED <<nextUid, box, window, uploadVars>>

-----------------------------------------------------------------------------
Step(q, from, to) ==
    upload[q] = from /\ upload' = [upload EXCEPT ![q] = to] /\ UNCHANGED mailVars

(* POST /internal/ingestion/email and /transcript: authentication and       *)
(* validation, then two writes, and for a transcript a third.               *)
Receive(q) == q \notin Direct /\ Step(q, "none", "audit") /\ UNCHANGED <<audited, stored, learned>>
Audit(q) == Step(q, "audit", "store") /\ audited' = audited \cup {q} /\ UNCHANGED <<stored, learned>>

Store(q) ==
    /\ Step(q, "store", IF q \in Emails THEN "created" ELSE "enqueue")
    /\ stored' = stored \cup {q} /\ UNCHANGED <<audited, learned>>

EnqueueLearning(q) ==
    Step(q, "enqueue", "created") /\ learned' = learned \cup {q} /\ UNCHANGED <<audited, stored>>

(* POST /api/transcriptions, with a delegated token or a session: one       *)
(* INSERT, neither audit event nor task; a repeated request adds a row.     *)
SubmitTranscript(q) ==
    /\ q \in Direct /\ Step(q, "none", "created")
    /\ stored' = stored \cup {q} /\ UNCHANGED <<audited, learned>>

(* A statement throws: the router answers 500.                              *)
UploadFails(q) ==
    /\ \E s \in {"audit", "store", "enqueue"} : Step(q, s, "error")
    /\ UNCHANGED <<audited, stored, learned>>

MailNext ==
    \/ Deliver \/ NextWindow \/ Dispatch
    \/ \E u \in 1 .. MaxUid : Expunge(u)
    \/ \E w \in Windows : Land(w) \/ LandFails(w) \/ ClaimLapses(w) \/ LandRefused(w) \/ Classify(w)

UploadNext ==
    \E q \in Uploads :
        \/ Receive(q) \/ Audit(q) \/ Store(q) \/ EnqueueLearning(q)
        \/ SubmitTranscript(q) \/ UploadFails(q)

-----------------------------------------------------------------------------
(* The result of a fetch skips nothing: every message that was in the       *)
(* mailbox between since_uid and highest_uid was either fetched or reported *)
(* as failed, so that highest_uid can be the next since_uid.                *)
CheckpointSkipsNothing ==
    \A w \in Windows : fetch[w].status = "completed" =>
        {u \in fetch[w].box : u > fetch[w].since /\ u <= fetch[w].highest}
            \subseteq fetch[w].fetched \cup fetch[w].failed

(* What the ingestion routes store was audited first, though the audit may   *)
(* outlive a failed write, and a 201 means every write was done.            *)
StoredIsAudited ==
    \A q \in Uploads \ Direct :
        /\ q \in stored => q \in audited
        /\ upload[q] = "created" => q \in stored /\ (q \in Emails \/ q \in learned)

--------------------------------------------------------------------------------
(* One autolearn run inside its pod: the input is fetched and staged in a   *)
(* fresh directory, the CLI runs as a child process with an input and an    *)
(* output file under a hard timeout, and the files are removed.  Beside it  *)
(* the dismissals of a customer's annotations that decide whether the next  *)
(* draft needs an explicit approval.                                        *)

CONSTANTS
    Dismissals,     \* annotation_dismissal_log.id
    Window,         \* DEFAULT_WINDOW_DAYS
    Threshold,      \* DEFAULT_ESCALATION_THRESHOLD
    MaxToday,       \* bound on days
    Never           \* not recorded, not settled

ASSUME RunAssumption ==
    /\ IsFiniteSet(Dismissals) /\ Window \in Nat /\ Threshold \in Nat \ {0} /\ MaxToday \in Nat
    /\ Never \notin Nat /\ Never \notin BOOLEAN /\ Never \notin {"exit0", "exit1", "timeout"}

VARIABLES
    run,            \* progress of the parent
    groundTruth, wiki,      \* answers of the two fetches: "none", "ok", "failed"
    files,          \* what is on the pod's /tmp
    child,          \* "none", "running", "wrote", "exited", "crashed"
    signal,         \* "none", "term", "kill"
    answer,         \* how the promise of spawnCli settled
    today,
    dismissed,      \* Dismissals -> dismissed_at
    seen,           \* the answer of customerRequiresEscalation
    draft,          \* requires_explicit_approval of the job
    late            \* history: dismissals recorded after the check

runVars == <<run, groundTruth, wiki, files, child, signal, answer>>
dismissVars == <<today, dismissed, seen, draft, late>>
autolearnVars == <<runVars, dismissVars>>

RunTypeOK ==
    /\ run \in {"idle", "fetching", "writing", "staged", "spawned", "returned", "threw"}
    /\ files \subseteq {"dir", "truth", "wiki", "input", "output"}
    /\ files \cap {"truth", "wiki"} # {} => "dir" \in files
    /\ answer \in {Never, "exit0", "exit1", "timeout"}
    /\ today \in 0 .. MaxToday /\ dismissed \in [Dismissals -> 0 .. MaxToday \cup {Never}]
    /\ seen \in {Never, TRUE, FALSE} /\ draft \in {Never, TRUE, FALSE}

RunInit ==
    /\ run = "idle" /\ groundTruth = "none" /\ wiki = "none" /\ files = {}
    /\ child = "none" /\ signal = "none" /\ answer = Never
    /\ today = 0 /\ dismissed = [d \in Dismissals |-> Never] /\ seen = Never /\ draft = Never /\ late = {}

(* stageAutolearnInput: the directory first, then both fetches at once.     *)
CreateStagingDir ==
    /\ run = "idle" /\ run' = "fetching" /\ files' = files \cup {"dir"}
    /\ UNCHANGED <<groundTruth, wiki, child, signal, answer, dismissVars>>

(* fetchGroundTruth: network error, status or JSON fail it.                 *)
FetchGroundTruth(r) ==
    /\ run \in {"fetching", "threw"} /\ child = "none" /\ files # {}
    /\ groundTruth = "none" /\ groundTruth' = r
    /\ run' = IF r = "failed" THEN "threw" ELSE IF run = "fetching" /\ wiki = "ok" THEN "writing" ELSE run
    /\ UNCHANGED <<wiki, files, child, signal, answer, dismissVars>>

FetchWikiMarkdown(r) ==
    /\ run \in {"fetching", "threw"} /\ child = "none" /\ files # {}
    /\ wiki = "none" /\ wiki' = r
    /\ run' = IF r = "failed" THEN "threw" ELSE IF run = "fetching" /\ groundTruth = "ok" THEN "writing" ELSE run
    /\ UNCHANGED <<groundTruth, files, child, signal, answer, dismissVars>>

(* Ground truth with its dialogue lines, then the wiki.                     *)
WriteStagingFile ==
    /\ run = "writing"
    /\ \/ "truth" \notin files /\ files' = files \cup {"truth"} /\ run' = run
       \/ "truth" \in files /\ files' = files \cup {"wiki"} /\ run' = "staged"
    /\ UNCHANGED <<groundTruth, wiki, child, signal, answer, dismissVars>>

WriteFails ==
    /\ run = "writing" /\ run' = "threw"
    /\ UNCHANGED <<groundTruth, wiki, files, child, signal, answer, dismissVars>>

(* The caller's error handler, or the end of the run.                       *)
CleanupStagingDir ==
    /\ run \in {"threw", "returned"} /\ "dir" \in files
    /\ files' = files \ {"dir", "truth", "wiki"}
    /\ UNCHANGED <<run, groundTruth, wiki, child, signal, answer, dismissVars>>

(* invokeAutolearnCli: the input file, the child, the timer.                *)
InvokeCli ==
    /\ run = "staged" /\ run' = "spawned" /\ child' = "running"
    /\ files' = files \cup {"input"}
    /\ UNCHANGED <<groundTruth, wiki, signal, answer, dismissVars>>

(* The child (external): it reads its input, writes its output, ends.       *)
ChildWrites ==
    /\ child = "running" /\ child' = "wrote" /\ files' = files \cup {"output"}
    /\ UNCHANGED <<run, groundTruth, wiki, signal, answer, dismissVars>>

ChildEnds(ok) ==
    /\ child \in {"running", "wrote"} /\ child' = IF ok THEN "exited" ELSE "crashed"
    /\ answer' = IF answer = Never THEN IF ok THEN "exit0" ELSE "exit1" ELSE answer
    /\ UNCHANGED <<run, groundTruth, wiki, files, signal, dismissVars>>

(* The timer rejects at once; the child gets SIGTERM, later SIGKILL.        *)
TimeoutFires ==
    /\ run = "spawned" /\ answer = Never /\ answer' = "timeout" /\ signal' = "term"
    /\ UNCHANGED <<run, groundTruth, wiki, files, child, dismissVars>>

GraceEnds ==
    /\ signal = "term" /\ child \in {"running", "wrote"} /\ signal' = "kill" /\ child' = "crashed"
    /\ UNCHANGED <<run, groundTruth, wiki, files, answer, dismissVars>>

(* The promise settled: the output is read after exit 0, and both files are *)
(* unlinked in any case.                                                    *)
Settle ==
    /\ run = "spawned" /\ answer # Never
    /\ run' = IF answer = "exit0" /\ "output" \in files THEN "returned" ELSE "threw"
    /\ files' = files \ {"input", "output"}
    /\ UNCHANGED <<groundTruth, wiki, child, signal, answer, dismissVars>>

-----------------------------------------------------------------------------
PassDay == today < MaxToday /\ today' = today + 1 /\ UNCHANGED <<dismissed, seen, draft, late, runVars>>

RecordDismissal(d) ==
    /\ dismissed[d] = Never /\ dismissed' = [dismissed EXCEPT ![d] = today]
    /\ late' = IF seen = Never THEN late ELSE late \cup {d}
    /\ UNCHANGED <<today, seen, draft, runVars>>

(* dismissed_at >= NOW() - window.                                          *)
DismissalsInWindow == Cardinality({d \in Dismissals : dismissed[d] # Never /\ dismissed[d] + Window >= today})

RequiresEscalation ==
    /\ seen = Never /\ seen' = (DismissalsInWindow >= Threshold)
    /\ UNCHANGED <<today, dismissed, draft, late, runVars>>

CreateAutolearnJob ==
    /\ seen # Never /\ draft = Never /\ draft' = seen
    /\ UNCHANGED <<today, dismissed, seen, late, runVars>>

RunNext ==
    \/ CreateStagingDir \/ WriteStagingFile \/ WriteFails \/ CleanupStagingDir
    \/ \E r \in {"ok", "failed"} : FetchGroundTruth(r) \/ FetchWikiMarkdown(r)
    \/ InvokeCli \/ ChildWrites \/ \E ok \in BOOLEAN : ChildEnds(ok)
    \/ TimeoutFires \/ GraceEnds \/ Settle

EscalationNext ==
    \/ PassDay \/ \E d \in Dismissals : RecordDismissal(d)
    \/ RequiresEscalation \/ CreateAutolearnJob

-----------------------------------------------------------------------------
(* The files of the CLI outlive the run only when the child was told to     *)
(* stop and wrote its output during the grace period.                       *)
CliFilesAreRemoved ==
    run \in {"returned", "threw"} =>
        /\ "input" \notin files
        /\ "output" \in files => answer = "timeout" /\ child # "running"

(* A result is returned only by a child that ended on its own with an       *)
(* output, from input that was staged completely.                           *)
ReturnedIsComplete ==
    run = "returned" => child = "exited" /\ signal = "none" /\ groundTruth = "ok" /\ wiki = "ok"

(* The staged files are written only when both fetches have succeeded, so a *)
(* directory left by a failed fetch is empty.                               *)
FailedFetchStagesNothing ==
    groundTruth = "failed" \/ wiki = "failed" => files \cap {"truth", "wiki", "input"} = {}

(* A job whose customer has reached the threshold within the window, by     *)
(* dismissals recorded before the check, is created for explicit approval,  *)
(* even when the check is some time ago.                                    *)
EscalatedDraftWaits ==
    [][draft' = FALSE => draft = FALSE \/
          Cardinality({d \in Dismissals \ late : dismissed[d] # Never /\ today - dismissed[d] <= Window})
            < Threshold]_autolearnVars

=============================================================================
