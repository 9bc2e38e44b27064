------------------------------ MODULE TaskQueue ------------------------------
(***************************************************************************)
(* The PostgreSQL task queue (packages/db/task-queue.ts), the worker that  *)
(* drains it (apps/worker/src/runner.ts), the HTTP routes over it          *)
(* (apps/server/src/api/task-queue.ts) and the stale-claim sweep (cron).   *)
(*                                                                         *)
(* One agent_type is modelled: rows of different agent types never meet.   *)
(* A row is named by its idempotency_key, which is UNIQUE.  Every SQL      *)
(* statement is one atomic step; everything between two awaits of the      *)
(* TypeScript code is one step.                                            *)
(*                                                                         *)
(* Time is abstracted to what the code compares with NOW(): a claim's      *)
(* claim_expires_at is NULL, in the future ("live") or past ("expired");   *)
(* next_retry_at is NULL, in the future ("waiting") or past ("due").  The  *)
(* runner's hard timeout (600 s by default) exceeds the claim TTL (300 s), *)
(* so a claim may expire under a worker that is still executing.           *)
(***************************************************************************)
EXTENDS Integers, FiniteSets

CONSTANTS
    Keys,         \* idempotency keys, hence the rows that can exist
    Runners,      \* worker pods: claimNextTask() without a delegated token
    ApiWorkers,   \* workers that claim through POST /api/tasks-queue/claim
    Tokens,       \* delegated tokens (jti), minted outside this code
    TaskOf,       \* TaskOf[t] is the task_id claim of token t
    Priorities,   \* values of the priority column
    MaxAttempts,  \* the max_attempts column (3 by default)
    Patches,      \* statuses API clients write with PATCH /api/tasks-queue/:id
    ClaimBound,   \* bound of the model: claims of a row that keeps being patched
    None          \* SQL NULL

Workers == Runners \cup ApiWorkers

ASSUME QueueAssumption ==
    /\ MaxAttempts \in Nat \ {0}
    /\ ClaimBound \in Nat /\ ClaimBound > MaxAttempts
    /\ Priorities \subseteq Int
    /\ TaskOf \in [Tokens -> Keys]
    /\ Runners \cap ApiWorkers = {}
    /\ None \notin Keys \cup Workers \cup Tokens

Statuses ==
    {"pending", "claimed", "running", "submitting", "completed", "failed", "dead"}

ASSUME PatchAssumption == Patches \subseteq Statuses

VARIABLES
    status,       \* status column; "absent" while no row has the key
    attempt,      \* attempt column
    claimedBy,    \* claimed_by column
    lease,        \* claim_expires_at column against NOW()
    retryAt,      \* next_retry_at column against NOW()
    rowToken,     \* delegated_token column
    result,       \* result column: has one been recorded?
    priority,     \* priority column
    createdAt,    \* created_at column, as an insertion rank
    inserted,     \* number of rows inserted so far
    pc,           \* where each worker is in tryClaimAndExecute
    held,         \* the task row a worker got from its claim (its id) ...
    heldAttempt,  \* ... the attempt number in that row ...
    heldToken,    \* ... and the delegated token in that row
    requests,     \* POST /api/tasks/:id/result requests the server is handling
    revoked,      \* the revoked_tokens table
    accepted      \* per token, how many requests have written a result with it

rowVars == <<status, attempt, claimedBy, lease, retryAt, rowToken, result,
             priority, createdAt, inserted>>
workerVars == <<pc, held, heldAttempt, heldToken>>
httpVars == <<requests, revoked, accepted>>
vars == <<rowVars, workerVars, httpVars>>

Requests ==
    [by: Workers, task: Keys, attempt: Nat, token: Tokens,
     step: {"received", "checked", "consumed", "applied"}]

TypeOK ==
    /\ status \in [Keys -> Statuses \cup {"absent"}]
    /\ attempt \in [Keys -> Nat]
    /\ claimedBy \in [Keys -> Workers \cup {None}]
    /\ lease \in [Keys -> {"null", "live", "expired"}]
    /\ retryAt \in [Keys -> {"null", "waiting", "due"}]
    /\ rowToken \in [Keys -> Tokens \cup {None}]
    /\ result \in [Keys -> BOOLEAN]
    /\ priority \in [Keys -> Int]
    /\ createdAt \in [Keys -> Nat]
    /\ inserted \in Nat
    /\ pc \in [Workers -> {"idle", "executing", "submitting", "awaiting", "failing"}]
    /\ held \in [Workers -> Keys \cup {None}]
    /\ heldAttempt \in [Workers -> Nat]
    /\ heldToken \in [Workers -> Tokens \cup {None}]
    /\ requests \subseteq Requests
    /\ revoked \subseteq Tokens
    /\ accepted \in [Tokens -> Nat]

Init ==
    /\ status = [k \in Keys |-> "absent"]
    /\ attempt = [k \in Keys |-> 0]
    /\ claimedBy = [k \in Keys |-> None]
    /\ lease = [k \in Keys |-> "null"]
    /\ retryAt = [k \in Keys |-> "null"]
    /\ rowToken = [k \in Keys |-> None]
    /\ result = [k \in Keys |-> FALSE]
    /\ priority = [k \in Keys |-> 0]
    /\ createdAt = [k \in Keys |-> 0]
    /\ inserted = 0
    /\ pc = [w \in Workers |-> "idle"]
    /\ held = [w \in Workers |-> None]
    /\ heldAttempt = [w \in Workers |-> 0]
    /\ heldToken = [w \in Workers |-> None]
    /\ requests = {}
    /\ revoked = {}
    /\ accepted = [t \in Tokens |-> 0]

-----------------------------------------------------------------------------
(* The queue table.                                                        *)

(* A slip: the conflicting insert resets the row it finds.                 *)
EnqueueTask_ResetsRow(k, p) ==
    /\ status' = [status EXCEPT ![k] = "pending"]
    /\ priority' = [priority EXCEPT ![k] = p]
    /\ createdAt' = [createdAt EXCEPT ![k] = IF status[k] = "absent" THEN inserted ELSE @]
    /\ inserted' = IF status[k] = "absent" THEN inserted + 1 ELSE inserted
    /\ UNCHANGED <<attempt, claimedBy, lease, retryAt, rowToken, result, workerVars, httpVars>>

(* INSERT ... ON CONFLICT (idempotency_key) DO UPDATE SET updated_at =     *)
(* task_queue.updated_at: a key that has a row leaves it as it is.         *)
EnqueueTask(k, p) ==
    /\ IF status[k] = "absent"
       THEN /\ status' = [status EXCEPT ![k] = "pending"]
            /\ priority' = [priority EXCEPT ![k] = p]
            /\ createdAt' = [createdAt EXCEPT ![k] = inserted]
            /\ inserted' = inserted + 1
       ELSE UNCHANGED <<status, priority, createdAt, inserted>>
    /\ UNCHANGED <<attempt, claimedBy, lease, retryAt, rowToken, result, workerVars, httpVars>>

(* The rows the claim's inner SELECT sees.                                 *)
Claimable == {k \in Keys : status[k] = "pending" /\ retryAt[k] \in {"null", "due"}}

(* ORDER BY priority ASC, created_at ASC.                                  *)
Before(j, k) ==
    \/ priority[j] < priority[k]
    \/ priority[j] = priority[k] /\ createdAt[j] < createdAt[k]

(* A slip: a re-claim after recovery does not count as a new attempt.      *)
AttemptOnClaim_First(k) == IF attempt[k] = 0 THEN 1 ELSE attempt[k]

(* A slip: the claim counts the attempt, and the worker that runs it again. *)
AttemptOnClaim_Twice(k) == attempt[k] + 2

AttemptOnClaim(k) == attempt[k] + 1

(* claimNextTask: UPDATE ... WHERE id = (SELECT ... LIMIT 1 FOR UPDATE     *)
(* SKIP LOCKED).  Concurrent claims skip each other's row, which is the    *)
(* outcome of running them one after the other.                            *)
ClaimNextTask(w, k, t) ==
    /\ pc[w] = "idle"
    /\ k \in Claimable
    /\ attempt[k] < ClaimBound
    /\ \A j \in Claimable \ {k} : Before(k, j)
    /\ status' = [status EXCEPT ![k] = "claimed"]
    /\ claimedBy' = [claimedBy EXCEPT ![k] = w]
    /\ lease' = [lease EXCEPT ![k] = "live"]
    /\ rowToken' = [rowToken EXCEPT ![k] = t]
    /\ attempt' = [attempt EXCEPT ![k] = AttemptOnClaim(k)]
    /\ pc' = [pc EXCEPT ![w] = "executing"]
    /\ held' = [held EXCEPT ![w] = k]
    /\ heldAttempt' = [heldAttempt EXCEPT ![w] = AttemptOnClaim(k)]
    /\ heldToken' = [heldToken EXCEPT ![w] = t]
    /\ UNCHANGED <<retryAt, result, priority, createdAt, inserted, httpVars>>

(* The runner passes agent_type and claimed_by only, so delegated_token    *)
(* defaults to NULL and the UPDATE writes NULL.                            *)
RunnerClaim(w) ==
    /\ w \in Runners
    /\ \E k \in Keys : ClaimNextTask(w, k, None)

(* POST /api/tasks-queue/claim: the caller may send a delegated_token.     *)
ApiClaim(w) ==
    /\ w \in ApiWorkers
    /\ \E k \in Keys, t \in Tokens \cup {None} : ClaimNextTask(w, k, t)

(* NOW() passes claim_expires_at, or next_retry_at.  Expiry of a row that  *)
(* is not claimed is not observable before a client patches it back.       *)
LeaseExpires(k) ==
    /\ status[k] = "claimed"
    /\ lease[k] = "live"
    /\ lease' = [lease EXCEPT ![k] = "expired"]
    /\ UNCHANGED <<status, attempt, claimedBy, retryAt, rowToken, result, priority,
                   createdAt, inserted, workerVars, httpVars>>

RetryBecomesDue(k) ==
    /\ retryAt[k] = "waiting"
    /\ retryAt' = [retryAt EXCEPT ![k] = "due"]
    /\ UNCHANGED <<status, attempt, claimedBy, lease, rowToken, result, priority,
                   createdAt, inserted, workerVars, httpVars>>

(* A slip: the sweep only looks at tasks it can retry.                     *)
Stale_Retryable(k) ==
    status[k] = "claimed" /\ lease[k] = "expired" /\ attempt[k] < MaxAttempts

(* WHERE status = 'claimed' AND claim_expires_at < NOW().                  *)
Stale(k) == status[k] = "claimed" /\ lease[k] = "expired"

(* A slip: > for >=, one retry too many.                                   *)
Exhausted_Strict(k) == attempt[k] > MaxAttempts

Exhausted(k) == attempt[k] >= MaxAttempts

(* A slip: a status name that the table's CHECK constraint does not list.  *)
RecoveredStatus_Retrying(k) == IF Exhausted(k) THEN "dead" ELSE "retrying"

RecoveredStatus(k) == IF Exhausted(k) THEN "dead" ELSE "pending"

(* A slip: the sweep forgets to clear the token column.                    *)
ClearedToken_Kept(k) == rowToken[k]

ClearedToken(k) == None

(* recoverStaleClaims: one UPDATE over every stale row, run by the cron    *)
(* job every minute.  The audit rows and the job's own 'cron' task row are *)
(* not part of this agent type's queue.                                    *)
RecoverStaleClaims ==
    /\ \E k \in Keys : Stale(k)
    /\ status' = [k \in Keys |-> IF Stale(k) THEN RecoveredStatus(k) ELSE status[k]]
    /\ claimedBy' = [k \in Keys |-> IF Stale(k) THEN None ELSE claimedBy[k]]
    /\ lease' = [k \in Keys |-> IF Stale(k) THEN "null" ELSE lease[k]]
    /\ rowToken' = [k \in Keys |-> IF Stale(k) THEN ClearedToken(k) ELSE rowToken[k]]
    /\ retryAt' = [k \in Keys |-> IF ~Stale(k) THEN retryAt[k]
                                  ELSE IF Exhausted(k) THEN "null" ELSE "waiting"]
    /\ UNCHANGED <<attempt, result, priority, createdAt, inserted, workerVars, httpVars>>

(* PATCH /api/tasks-queue/:id: updateTaskStatus with any allowed status,   *)
(* whatever the current one; next_retry_at is overwritten too.             *)
PatchStatus(k, s, r) ==
    /\ status[k] # "absent"
    /\ status' = [status EXCEPT ![k] = s]
    /\ retryAt' = [retryAt EXCEPT ![k] = r]
    /\ UNCHANGED <<attempt, claimedBy, lease, rowToken, result, priority, createdAt,
                   inserted, workerVars, httpVars>>

-----------------------------------------------------------------------------
(* The worker: runner.ts tryClaimAndExecute, after a successful claim.     *)

ReturnToLoop(w) ==
    /\ pc' = [pc EXCEPT ![w] = "idle"]
    /\ held' = [held EXCEPT ![w] = None]
    /\ heldAttempt' = [heldAttempt EXCEPT ![w] = 0]
    /\ heldToken' = [heldToken EXCEPT ![w] = None]

GoTo(w, from, to) ==
    /\ pc[w] = from
    /\ pc' = [pc EXCEPT ![w] = to]
    /\ UNCHANGED <<held, heldAttempt, heldToken>>

(* The CLI subprocess returns a result that passes validation.             *)
ExecutionSucceeds(w) ==
    /\ GoTo(w, "executing", "submitting")
    /\ UNCHANGED <<rowVars, httpVars>>

(* Non-zero exit, invalid output, or the hard timeout rejects the promise. *)
ExecutionFails(w) ==
    /\ GoTo(w, "executing", "failing")
    /\ UNCHANGED <<rowVars, httpVars>>

(* if (!task.delegated_token) throw.                                       *)
NoDelegatedToken(w) ==
    /\ w \in Runners
    /\ heldToken[w] = None
    /\ GoTo(w, "submitting", "failing")
    /\ UNCHANGED <<rowVars, httpVars>>

(* submitResultViaApi: POST /api/tasks/:id/result with the Bearer token.   *)
SubmitResultViaApi(w) ==
    /\ heldToken[w] # None
    /\ GoTo(w, "submitting", "awaiting")
    /\ requests' = requests \cup
         {[by |-> w, task |-> held[w], attempt |-> heldAttempt[w],
           token |-> heldToken[w], step |-> "received"]}
    /\ UNCHANGED <<rowVars, revoked, accepted>>

(* The submission's fetch throws while the server may still be at work.    *)
ConnectionLost(w) ==
    /\ GoTo(w, "awaiting", "failing")
    /\ UNCHANGED <<rowVars, httpVars>>

(* A slip: the result is stored, but only the claim's holder closes the row. *)
Complete_IfClaimed(k) ==
    /\ status' = [status EXCEPT ![k] = IF @ = "claimed" THEN "completed" ELSE @]
    /\ result' = [result EXCEPT ![k] = TRUE]
    /\ UNCHANGED <<attempt, claimedBy, lease, retryAt, rowToken, priority, createdAt,
                   inserted>>

(* The row after either route's UPDATE ... SET status = 'completed',       *)
(* result = ... WHERE id = ...: no condition on status or claimed_by.      *)
Complete(k) ==
    /\ status' = [status EXCEPT ![k] = "completed"]
    /\ result' = [result EXCEPT ![k] = TRUE]
    /\ UNCHANGED <<attempt, claimedBy, lease, retryAt, rowToken, priority, createdAt,
                   inserted>>

(* POST /api/tasks-queue/:id/result: session auth, submitTaskResult.       *)
SubmitTaskResult(w) ==
    /\ w \in ApiWorkers
    /\ pc[w] = "submitting"
    /\ Complete(held[w])
    /\ ReturnToLoop(w)
    /\ UNCHANGED httpVars

(* The catch block: updateTaskStatus({status: 'failed'}) WHERE id = task.id *)
(* whoever holds the row by now.  error_message, next_retry_at overwritten. *)
MarkFailed(w) ==
    /\ w \in Runners
    /\ pc[w] = "failing"
    /\ status' = [status EXCEPT ![held[w]] = "failed"]
    /\ retryAt' = [retryAt EXCEPT ![held[w]] = "null"]
    /\ ReturnToLoop(w)
    /\ UNCHANGED <<attempt, claimedBy, lease, rowToken, result, priority, createdAt,
                   inserted, httpVars>>

(* ... whose own failure is logged and dropped.  An API worker has no such *)
(* block: it leaves the row to the sweep, or to a PATCH.                   *)
AbandonTask(w) ==
    /\ pc[w] = "failing"
    /\ ReturnToLoop(w)
    /\ UNCHANGED <<rowVars, httpVars>>

(* The pod dies and is restarted: everything but the database is lost.     *)
WorkerCrash(w) ==
    /\ pc[w] # "idle"
    /\ ReturnToLoop(w)
    /\ UNCHANGED <<rowVars, httpVars>>

-----------------------------------------------------------------------------
(* The server: handleTaskQueueResultRequest, one step per await.           *)

Advance(r, to) == requests' = (requests \ {r}) \cup {[r EXCEPT !.step = to]}

AwaitsReply(w, r) ==
    /\ r.by = w
    /\ pc[w] = "awaiting"
    /\ held[w] = r.task
    /\ heldAttempt[w] = r.attempt

(* A slip: the signature is trusted and revoked_tokens is not asked.       *)
Unused_Unchecked(t) == t \in Tokens

(* SELECT jti FROM revoked_tokens WHERE jti = ...: no row.                 *)
Unused(t) == t \notin revoked

(* SELECT the row, then verifyDelegatedToken up to check 6: the signature, *)
(* the SELECT on revoked_tokens and the comparison with the row, whose     *)
(* agent_type and created_by never change.                                 *)
HandlerCheck(r) ==
    /\ r.step = "received"
    /\ TaskOf[r.token] = r.task
    /\ Unused(r.token)
    /\ Advance(r, "checked")
    /\ UNCHANGED <<rowVars, workerVars, revoked, accepted>>

(* INSERT INTO revoked_tokens ... ON CONFLICT (jti) DO NOTHING.            *)
HandlerConsume(r) ==
    /\ r.step = "checked"
    /\ revoked' = revoked \cup {r.token}
    /\ Advance(r, "consumed")
    /\ UNCHANGED <<rowVars, workerVars, accepted>>

(* A slip: the result is written before the token is consumed.             *)
ReadyToApply_Checked(r) == r.step \in {"checked", "consumed"}

ReadyToApply(r) == r.step = "consumed"

HandlerApply(r) ==
    /\ ReadyToApply(r)
    /\ Complete(r.task)
    /\ accepted' = [accepted EXCEPT ![r.token] = @ + 1]
    /\ Advance(r, "applied")
    /\ UNCHANGED <<workerVars, revoked>>

HandlerReply(r) ==
    /\ r.step = "applied"
    /\ requests' = requests \ {r}
    /\ IF AwaitsReply(r.by, r) THEN ReturnToLoop(r.by) ELSE UNCHANGED workerVars
    /\ UNCHANGED <<rowVars, revoked, accepted>>

(* The request ends without a 200: an expired, used or mismatched token, a *)
(* body that is not JSON, a failed statement, a server restart.            *)
HandlerFails(r) ==
    /\ requests' = requests \ {r}
    /\ IF AwaitsReply(r.by, r) THEN GoTo(r.by, "awaiting", "failing")
                               ELSE UNCHANGED workerVars
    /\ UNCHANGED <<rowVars, revoked, accepted>>

-----------------------------------------------------------------------------
WorkerStep(w) ==
    \/ RunnerClaim(w) \/ ApiClaim(w)
    \/ ExecutionSucceeds(w) \/ ExecutionFails(w)
    \/ NoDelegatedToken(w) \/ SubmitResultViaApi(w) \/ SubmitTaskResult(w)
    \/ MarkFailed(w) \/ AbandonTask(w)

HandlerStep(r) ==
    HandlerCheck(r) \/ HandlerConsume(r) \/ HandlerApply(r) \/ HandlerReply(r)

Time(k) == LeaseExpires(k) \/ RetryBecomesDue(k)

Next ==
    \/ \E k \in Keys, p \in Priorities : EnqueueTask(k, p)
    \/ \E k \in Keys, s \in Patches, r \in {"null", "waiting", "due"} : PatchStatus(k, s, r)
    \/ \E k \in Keys : Time(k)
    \/ RecoverStaleClaims
    \/ \E w \in Workers : WorkerStep(w) \/ ConnectionLost(w) \/ WorkerCrash(w)
    \/ \E r \in requests : HandlerStep(r) \/ HandlerFails(r)

Spec == Init /\ [][Next]_vars

(* Clocks advance, the cron job keeps sweeping, workers keep polling (every *)
(* 5 s at the latest), the hard timeout ends every execution, and a fetch  *)
(* ends one way or the other.  Nobody is obliged to enqueue, patch or      *)
(* crash.                                                                  *)
Fairness ==
    /\ \A k \in Keys : WF_vars(LeaseExpires(k)) /\ WF_vars(RetryBecomesDue(k))
    /\ WF_vars(RecoverStaleClaims)
    /\ \A w \in Workers : WF_vars(WorkerStep(w)) /\ WF_vars(ConnectionLost(w))

FairSpec == Spec /\ Fairness

-----------------------------------------------------------------------------
(* Properties.                                                             *)

(* The retry budget (TQ-P-004): no task is claimed more than MaxAttempts   *)
(* times, a task waiting for a claim has an attempt left, and a task is    *)
(* dead-lettered only when it has none.  It needs that no client patches a *)
(* row back to 'pending' or to 'dead'.                                     *)
RetryBudget ==
    \A k \in Keys :
        /\ attempt[k] <= MaxAttempts
        /\ status[k] = "pending" => attempt[k] < MaxAttempts
        /\ status[k] = "dead" => attempt[k] = MaxAttempts

(* One winner per attempt (TQ-P-001): the claim's attempt number is a      *)
(* fencing number; no two workers, and no two submissions the server is    *)
(* handling, are ever at work for the same attempt of the same task.       *)
OneWinnerPerAttempt ==
    /\ \A v, w \in Workers :
          (held[v] # None /\ held[v] = held[w] /\ heldAttempt[v] = heldAttempt[w])
             => v = w
    /\ \A q, r \in requests :
          (q.task = r.task /\ q.attempt = r.attempt) => q = r

(* The claim columns and the status agree: a claimed row names its holder  *)
(* and has an expiry, so the sweep can find it, and a row that can be      *)
(* claimed, or was given up, carries no claim and no delegated token.      *)
ClaimColumnsAgree ==
    \A k \in Keys :
        /\ status[k] = "claimed" => claimedBy[k] # None /\ lease[k] # "null"
        /\ status[k] \in {"absent", "pending", "dead"} =>
              claimedBy[k] = None /\ lease[k] = "null" /\ rowToken[k] = None

(* A result is written only with a token that is in revoked_tokens by then *)
(* (delegated-token.ts "Consume"), also when the server dies in between.   *)
ConsumedBeforeWritten ==
    \A t \in Tokens : accepted[t] > 0 => t \in revoked

(* The requests that passed the check with token t and may still write.    *)
Admitted(t) == {r \in requests : r.token = t /\ r.step \in {"checked", "consumed"}}

(* What single use amounts to when the SELECT and the INSERT are two       *)
(* statements: a token in revoked_tokens admits nobody else.  Requests     *)
(* that read the table before the INSERT may each still write, so a token  *)
(* can be worth several results, but once it is consumed the results       *)
(* written with it and those still to come never grow.                     *)
UsedTokenAdmitsNobody ==
    /\ []ConsumedBeforeWritten
    /\ [][\A t \in revoked :
              accepted'[t] + Cardinality(Admitted(t)') <= accepted[t] + Cardinality(Admitted(t))]_vars

(* A task whose result is stored is not handed out again, and keeps the    *)
(* result: not when the result comes from a worker that lost its claim,    *)
(* after the row was requeued or given to another, not when a late catch   *)
(* block then writes 'failed' over 'completed', and not when a client      *)
(* patches the row.  It needs that no client patches to 'pending' or       *)
(* 'claimed'.                                                              *)
AnsweredNeverRerun ==
    [][\A k \in Keys : result[k] => result'[k] /\ attempt'[k] = attempt[k]]_vars

(* Refinement: the rows, seen without claims, leases, tokens and workers,  *)
(* are the tasks of TaskContract, which says what enqueueTask's caller may *)
(* rely on.                                                                *)
Phase(s) ==
    CASE s = "absent" -> "absent"
      [] s = "pending" -> "queued"
      [] s = "claimed" -> "working"
      [] s \in {"running", "submitting"} -> "parked"
      [] s \in {"completed", "failed", "dead"} -> "finished"

Contract == INSTANCE TaskContract WITH
    phase <- [k \in Keys |-> Phase(status[k])], used <- attempt, answered <- result

(* Every queued task is settled: it is completed, failed or dead-lettered  *)
(* even if each worker that claims it crashes (TQ-D-003), unless a client  *)
(* patched it to 'running' or 'submitting', where the sweep, which looks   *)
(* for 'claimed' only, does not find it when that client dies.             *)
EveryTaskSettles == \A k \in Keys : Contract!Settles(k)

(* Every behaviour of the queue, its crashes, expiries, retries and late   *)
(* writes included, is one the contract allows.                            *)
ImplementsContract == Contract!Spec
=============================================================================
