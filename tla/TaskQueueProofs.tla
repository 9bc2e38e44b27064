--------------------------- MODULE TaskQueueProofs ---------------------------
(* Theorems about TaskQueue, for every number of rows, workers, tokens and *)
(* attempts, and about the WorkerLoop that drains it.  The fencing invariant says which attempt numbers may be in   *)
(* flight; the budget and the columns rest on what clients may PATCH.      *)
EXTENDS TaskQueue, WorkerLoop, FiniteSetTheorems, TLAPS

(* What keeps attempt numbers apart: a worker holds a row exactly while it *)
(* is busy, the attempt it holds is not ahead of the row, and a submission *)
(* in flight belongs to a worker that is past submitting, or has moved on. *)
HeldWhileBusy == \A w \in Workers : held[w] = None <=> pc[w] = "idle"

AttemptsBehindRow ==
    /\ \A w \in Workers : held[w] # None => heldAttempt[w] <= attempt[held[w]]
    /\ \A r \in requests : r.attempt <= attempt[r.task]

RequestOfHolder ==
    \A r \in requests, w \in Workers :
        (held[w] = r.task /\ heldAttempt[w] = r.attempt)
            => w = r.by /\ pc[w] \in {"awaiting", "failing"}

FenceInv ==
    TypeOK /\ HeldWhileBusy /\ AttemptsBehindRow /\ RequestOfHolder /\ OneWinnerPerAttempt

(* The variables have their types when the queue is empty. *)
LEMMA TypeInit == Init => TypeOK
  BY QueueAssumption DEF Init, TypeOK, Workers

(* Every action keeps every variable in its type. *)
LEMMA TypeStep == TypeOK /\ HeldWhileBusy /\ [Next]_vars => TypeOK'
<1> SUFFICES ASSUME TypeOK, HeldWhileBusy, [Next]_vars PROVE TypeOK'
  OBVIOUS
<1> USE QueueAssumption, PatchAssumption DEF TypeOK, HeldWhileBusy, Workers
<1>1. ASSUME NEW k \in Keys, NEW p \in Priorities, EnqueueTask(k, p) PROVE TypeOK'
  BY <1>1 DEF EnqueueTask, workerVars, httpVars, Statuses
<1>2. ASSUME NEW k \in Keys, NEW s \in Patches, NEW r \in {"null", "waiting", "due"},
             PatchStatus(k, s, r)
      PROVE TypeOK'
  BY <1>2 DEF PatchStatus, workerVars, httpVars
<1>3. ASSUME NEW k \in Keys, Time(k) PROVE TypeOK'
  BY <1>3 DEF Time, LeaseExpires, RetryBecomesDue, workerVars, httpVars
<1>4. CASE RecoverStaleClaims
  BY <1>4 DEF RecoverStaleClaims, RecoveredStatus, ClearedToken, Statuses, workerVars, httpVars
<1>5. ASSUME NEW w \in Workers, WorkerStep(w) \/ ConnectionLost(w) \/ WorkerCrash(w)
      PROVE TypeOK'
  <2>1. ASSUME NEW k \in Keys, NEW t \in Tokens \cup {None}, ClaimNextTask(w, k, t)
        PROVE TypeOK'
    BY <2>1 DEF ClaimNextTask, AttemptOnClaim, Statuses, httpVars
  <2>2. CASE RunnerClaim(w) \/ ApiClaim(w)
    BY <2>1, <2>2 DEF RunnerClaim, ApiClaim
  <2>3. CASE ExecutionSucceeds(w) \/ ExecutionFails(w) \/ NoDelegatedToken(w)
              \/ ConnectionLost(w)
    BY <2>3 DEF ExecutionSucceeds, ExecutionFails, NoDelegatedToken, ConnectionLost, GoTo,
                rowVars, httpVars
  <2>4. CASE SubmitResultViaApi(w)
    <3>1. [by |-> w, task |-> held[w], attempt |-> heldAttempt[w],
           token |-> heldToken[w], step |-> "received"] \in Requests
      BY <2>4 DEF SubmitResultViaApi, GoTo, Requests
    <3> QED BY <2>4, <3>1 DEF SubmitResultViaApi, GoTo, rowVars
  <2>5. CASE SubmitTaskResult(w)
    BY <2>5 DEF SubmitTaskResult, Complete, ReturnToLoop, Statuses, httpVars
  <2>6. CASE MarkFailed(w)
    BY <2>6 DEF MarkFailed, ReturnToLoop, Statuses, httpVars
  <2>7. CASE AbandonTask(w) \/ WorkerCrash(w)
    BY <2>7 DEF AbandonTask, WorkerCrash, ReturnToLoop, rowVars, httpVars
  <2> QED BY <1>5, <2>2, <2>3, <2>4, <2>5, <2>6, <2>7 DEF WorkerStep
<1>6. ASSUME NEW r \in requests, HandlerStep(r) \/ HandlerFails(r) PROVE TypeOK'
  <2>1. r \in Requests /\ r.by \in Workers /\ r.task \in Keys /\ r.token \in Tokens
    BY <1>6 DEF Requests
  <2>2. \A to \in {"checked", "consumed", "applied"} : [r EXCEPT !.step = to] \in Requests
    BY <2>1 DEF Requests
  <2>3. CASE HandlerCheck(r) \/ HandlerConsume(r)
    BY <2>1, <2>2, <2>3 DEF HandlerCheck, HandlerConsume, Advance, rowVars, workerVars
  <2>4. CASE HandlerApply(r)
    BY <2>1, <2>2, <2>4 DEF HandlerApply, Complete, Advance, Statuses, workerVars
  <2>5. CASE HandlerReply(r) \/ HandlerFails(r)
    BY <2>1, <2>5 DEF HandlerReply, HandlerFails, ReturnToLoop, GoTo, rowVars, workerVars
  <2> QED BY <1>6, <2>3, <2>4, <2>5 DEF HandlerStep
<1>7. CASE UNCHANGED vars
  BY <1>7 DEF vars, rowVars, workerVars, httpVars
<1> QED BY <1>1, <1>2, <1>3, <1>4, <1>5, <1>6, <1>7 DEF Next

-----------------------------------------------------------------------------
(* No worker holds anything when the queue is empty. *)
LEMMA FenceInit == Init => FenceInv
<1> SUFFICES ASSUME Init PROVE FenceInv
  OBVIOUS
<1>1. TypeOK
  BY TypeInit
<1>2. HeldWhileBusy /\ AttemptsBehindRow /\ RequestOfHolder /\ OneWinnerPerAttempt
  BY QueueAssumption
     DEF Init, HeldWhileBusy, AttemptsBehindRow, RequestOfHolder, OneWinnerPerAttempt
<1> QED BY <1>1, <1>2 DEF FenceInv

(* A step that leaves the workers, the requests and the attempts alone     *)
(* keeps the fence; so does one that only sends workers back to the loop.  *)
LEMMA FenceFrame ==
    ASSUME FenceInv, TypeOK', UNCHANGED <<attempt, workerVars, requests>>
    PROVE  FenceInv'
  BY DEF FenceInv, HeldWhileBusy, AttemptsBehindRow, RequestOfHolder, OneWinnerPerAttempt,
         workerVars

(* A worker that returns to its loop lets go of its row. *)
LEMMA FenceReturn ==
    ASSUME FenceInv, TypeOK', NEW w \in Workers, ReturnToLoop(w), UNCHANGED attempt,
           requests' \subseteq requests
    PROVE  FenceInv'
<1> USE QueueAssumption DEF FenceInv, TypeOK, ReturnToLoop, Workers
<1>1. HeldWhileBusy'
  BY DEF HeldWhileBusy
<1>2. AttemptsBehindRow'
  BY DEF AttemptsBehindRow
<1>3. RequestOfHolder'
  BY DEF RequestOfHolder, Requests
<1>4. OneWinnerPerAttempt'
  BY DEF OneWinnerPerAttempt
<1> QED BY <1>1, <1>2, <1>3, <1>4

(* A busy worker may move to a later step of the same attempt.             *)
LEMMA FenceGoTo ==
    ASSUME FenceInv, TypeOK', NEW w \in Workers, NEW from, NEW to,
           GoTo(w, from, to), from # "idle", to # "idle",
           from \in {"awaiting", "failing"} => to \in {"awaiting", "failing"},
           UNCHANGED attempt, requests' \subseteq requests
    PROVE  FenceInv'
<1> USE DEF FenceInv, TypeOK, GoTo
<1>1. HeldWhileBusy'
  BY DEF HeldWhileBusy
<1>2. AttemptsBehindRow'
  BY DEF AttemptsBehindRow
<1>3. RequestOfHolder'
  BY DEF RequestOfHolder
<1>4. OneWinnerPerAttempt'
  BY DEF OneWinnerPerAttempt
<1> QED BY <1>1, <1>2, <1>3, <1>4

(* A handler that advances one request changes only its step.              *)
LEMMA FenceAdvance ==
    ASSUME FenceInv, TypeOK', NEW r \in requests, NEW to, Advance(r, to),
           UNCHANGED <<attempt, workerVars>>
    PROVE  FenceInv'
<1> DEFINE r2 == [r EXCEPT !.step = to]
<1> USE DEF FenceInv, workerVars
<1>1. r \in Requests
  BY DEF TypeOK
<1>2. r2.task = r.task /\ r2.attempt = r.attempt /\ r2.by = r.by
  BY <1>1 DEF Requests
<1>3. requests' = (requests \ {r}) \cup {r2}
  BY DEF Advance
<1> HIDE DEF r2
<1>4. HeldWhileBusy'
  BY DEF HeldWhileBusy
<1>5. AttemptsBehindRow'
  BY <1>2, <1>3 DEF AttemptsBehindRow
<1>6. RequestOfHolder'
  BY <1>2, <1>3 DEF RequestOfHolder
<1>7. OneWinnerPerAttempt'
  BY <1>2, <1>3 DEF OneWinnerPerAttempt
<1> QED BY <1>4, <1>5, <1>6, <1>7

(* A claim takes an attempt number that nobody holds yet.                  *)
LEMMA FenceClaim ==
    ASSUME FenceInv, TypeOK', NEW w \in Workers, NEW k \in Keys,
           NEW t \in Tokens \cup {None}, ClaimNextTask(w, k, t)
    PROVE  FenceInv'
<1> USE QueueAssumption DEF FenceInv, TypeOK, ClaimNextTask, AttemptOnClaim, httpVars
<1>1. HeldWhileBusy'
  BY DEF HeldWhileBusy
<1>2. AttemptsBehindRow'
  BY DEF AttemptsBehindRow, Requests
<1>3. RequestOfHolder'
  <2> SUFFICES ASSUME NEW r \in requests', NEW v \in Workers,
                      held'[v] = r.task, heldAttempt'[v] = r.attempt
               PROVE  v = r.by /\ pc'[v] \in {"awaiting", "failing"}
    BY DEF RequestOfHolder
  <2>1. r \in requests /\ r \in Requests /\ r.attempt <= attempt[r.task]
    BY DEF AttemptsBehindRow
  <2>2. v # w
    BY <2>1 DEF Requests
  <2> QED BY <2>1, <2>2 DEF RequestOfHolder
<1>4. OneWinnerPerAttempt'
  <2>1. \A v \in Workers : v # w =>
            held'[v] = held[v] /\ heldAttempt'[v] = heldAttempt[v]
    OBVIOUS
  <2>2. held'[w] = k /\ heldAttempt'[w] = attempt[k] + 1
    OBVIOUS
  <2>3. \A v \in Workers : held[v] = k => heldAttempt[v] <= attempt[k]
    BY DEF AttemptsBehindRow
  <2> QED BY <2>1, <2>2, <2>3 DEF OneWinnerPerAttempt
<1> QED BY <1>1, <1>2, <1>3, <1>4

(* A worker submits once per attempt: no request for it is in flight yet.  *)
LEMMA FenceSubmit ==
    ASSUME FenceInv, TypeOK', NEW w \in Workers, SubmitResultViaApi(w)
    PROVE  FenceInv'
<1> DEFINE q == [by |-> w, task |-> held[w], attempt |-> heldAttempt[w],
                 token |-> heldToken[w], step |-> "received"]
<1>1. requests' = requests \cup {q}
  BY DEF SubmitResultViaApi
<1>2. q.by = w /\ q.task = held[w] /\ q.attempt = heldAttempt[w]
  OBVIOUS
<1> HIDE DEF q
<1> USE DEF FenceInv, TypeOK, SubmitResultViaApi, GoTo, rowVars
<1>3. held[w] # None
  BY DEF HeldWhileBusy
<1>4. HeldWhileBusy'
  BY DEF HeldWhileBusy
<1>5. AttemptsBehindRow'
  BY <1>1, <1>2, <1>3 DEF AttemptsBehindRow
<1>6. RequestOfHolder'
  BY <1>1, <1>2, <1>3 DEF RequestOfHolder, OneWinnerPerAttempt
<1>7. \A r \in requests : ~(r.task = q.task /\ r.attempt = q.attempt)
  BY <1>2 DEF RequestOfHolder
<1>8. OneWinnerPerAttempt'
  BY <1>1, <1>7 DEF OneWinnerPerAttempt
<1> QED BY <1>4, <1>5, <1>6, <1>8

(* Every action preserves the fencing invariant: a claim hands out an     *)
(* attempt number that nobody in flight has.                              *)
LEMMA FenceStep == FenceInv /\ [Next]_vars => FenceInv'
<1> SUFFICES ASSUME FenceInv, [Next]_vars PROVE FenceInv'
  OBVIOUS
<1>0. TypeOK'
  BY TypeStep DEF FenceInv
<1>1. ASSUME NEW k \in Keys, NEW p \in Priorities, EnqueueTask(k, p) PROVE FenceInv'
  BY <1>0, <1>1, FenceFrame DEF EnqueueTask, workerVars, httpVars
<1>2. ASSUME NEW k \in Keys, NEW s \in Patches, NEW r \in {"null", "waiting", "due"},
             PatchStatus(k, s, r)
      PROVE FenceInv'
  BY <1>0, <1>2, FenceFrame DEF PatchStatus, workerVars, httpVars
<1>3. ASSUME NEW k \in Keys, Time(k) PROVE FenceInv'
  BY <1>0, <1>3, FenceFrame DEF Time, LeaseExpires, RetryBecomesDue, workerVars, httpVars
<1>4. CASE RecoverStaleClaims
  BY <1>0, <1>4, FenceFrame DEF RecoverStaleClaims, workerVars, httpVars
<1>5. ASSUME NEW w \in Workers, WorkerStep(w) \/ ConnectionLost(w) \/ WorkerCrash(w)
      PROVE FenceInv'
  <2>1. CASE RunnerClaim(w) \/ ApiClaim(w)
    BY <1>0, <2>1, FenceClaim DEF RunnerClaim, ApiClaim
  <2>2. CASE ExecutionSucceeds(w)
    BY <1>0, <2>2, FenceGoTo DEF ExecutionSucceeds, rowVars, httpVars
  <2>3. CASE ExecutionFails(w)
    BY <1>0, <2>3, FenceGoTo DEF ExecutionFails, rowVars, httpVars
  <2>4. CASE NoDelegatedToken(w)
    BY <1>0, <2>4, FenceGoTo DEF NoDelegatedToken, rowVars, httpVars
  <2>5. CASE ConnectionLost(w)
    BY <1>0, <2>5, FenceGoTo DEF ConnectionLost, rowVars, httpVars
  <2>6. CASE SubmitResultViaApi(w)
    BY <1>0, <2>6, FenceSubmit
  <2>7. CASE SubmitTaskResult(w)
    BY <1>0, <2>7, FenceReturn DEF SubmitTaskResult, Complete, httpVars
  <2>8. CASE MarkFailed(w)
    BY <1>0, <2>8, FenceReturn DEF MarkFailed, httpVars
  <2>9. CASE AbandonTask(w) \/ WorkerCrash(w)
    BY <1>0, <2>9, FenceReturn DEF AbandonTask, WorkerCrash, rowVars, httpVars
  <2> QED BY <1>5, <2>1, <2>2, <2>3, <2>4, <2>5, <2>6, <2>7, <2>8, <2>9 DEF WorkerStep
<1>6. ASSUME NEW r \in requests, HandlerStep(r) \/ HandlerFails(r) PROVE FenceInv'
  <2>1. r.by \in Workers
    BY <1>6 DEF FenceInv, TypeOK, Requests
  <2>2. CASE HandlerCheck(r)
    BY <1>0, <1>6, <2>2, FenceAdvance DEF HandlerCheck, rowVars
  <2>3. CASE HandlerConsume(r)
    BY <1>0, <1>6, <2>3, FenceAdvance DEF HandlerConsume, rowVars
  <2>4. CASE HandlerApply(r)
    BY <1>0, <1>6, <2>4, FenceAdvance DEF HandlerApply, Complete
  <2>5. ASSUME requests' = requests \ {r}, UNCHANGED <<attempt, workerVars>> PROVE FenceInv'
    BY <1>0, <2>5 DEF FenceInv, HeldWhileBusy, AttemptsBehindRow, RequestOfHolder,
                      OneWinnerPerAttempt, workerVars
  <2>6. CASE HandlerReply(r)
    BY <1>0, <2>1, <2>5, <2>6, FenceReturn DEF HandlerReply, rowVars
  <2>7. CASE HandlerFails(r)
    BY <1>0, <2>1, <2>5, <2>7, FenceGoTo DEF HandlerFails, rowVars
  <2> QED BY <1>6, <2>2, <2>3, <2>4, <2>6, <2>7 DEF HandlerStep
<1>7. CASE UNCHANGED vars
  BY <1>0, <1>7, FenceFrame DEF vars, rowVars, httpVars
<1> QED BY <1>1, <1>2, <1>3, <1>4, <1>5, <1>6, <1>7 DEF Next

(* Every variable keeps its type in every reachable state, whatever status *)
(* clients PATCH: the columns stay within the schema's CHECK constraints.  *)
THEOREM TypeCorrect == Spec => []TypeOK
<1>1. FenceInv => TypeOK
  BY DEF FenceInv
<1> QED BY FenceInit, FenceStep, <1>1, PTL DEF Spec

(* claimNextTask hands out each attempt of each task once: no two workers  *)
(* and no two submissions are at work for the same attempt, whatever       *)
(* crashes, expires, is lost or is patched.                                *)
THEOREM FencingCorrect == Spec => []OneWinnerPerAttempt
<1>1. FenceInv => OneWinnerPerAttempt
  BY DEF FenceInv
<1> QED BY FenceInit, FenceStep, <1>1, PTL DEF Spec

-----------------------------------------------------------------------------
(* A row that is not there yet has never been claimed.                     *)
BudgetInv == RetryBudget /\ \A k \in Keys : status[k] = "absent" => attempt[k] = 0

(* What a client may PATCH without undoing the budget, the claim columns   *)
(* or the end of a task.                                                   *)
NoRequeue == Patches \cap {"pending", "dead"} = {}
NoClaimByPatch == Patches \cap {"pending", "claimed", "dead"} = {}
NoReviving == Patches \cap {"pending", "claimed"} = {}

(* A step of one worker or handler settles at most the row it works on.    *)
InHand(k) == (\E w \in Workers : held[w] = k) \/ (\E r \in requests : r.task = k)

Settles(k) ==
    /\ InHand(k)
    /\ \/ status' = [status EXCEPT ![k] = "completed"]
       \/ status' = [status EXCEPT ![k] = "failed"]
    /\ result' = result \/ result' = [result EXCEPT ![k] = TRUE]
    /\ UNCHANGED <<attempt, claimedBy, lease, rowToken>>

QuietRows == UNCHANGED <<status, attempt, claimedBy, lease, rowToken, result>>

(* Every step that is neither an enqueue, a claim, a sweep, a clock tick   *)
(* nor a PATCH leaves the rows alone or settles one of them.               *)
LEMMA OtherSteps ==
    ASSUME FenceInv, Next
    PROVE  \/ \E k \in Keys, p \in Priorities : EnqueueTask(k, p)
           \/ \E k \in Keys, s \in Patches, r \in {"null", "waiting", "due"} : PatchStatus(k, s, r)
           \/ \E k \in Keys : LeaseExpires(k)
           \/ RecoverStaleClaims
           \/ \E w \in Workers, k \in Keys, t \in Tokens \cup {None} : ClaimNextTask(w, k, t)
           \/ \E k \in Keys : Settles(k)
           \/ QuietRows
<1>1. ASSUME NEW k \in Keys, Time(k) PROVE LeaseExpires(k) \/ QuietRows
  BY <1>1 DEF Time, RetryBecomesDue, QuietRows
<1>2. ASSUME NEW w \in Workers, WorkerStep(w) \/ ConnectionLost(w) \/ WorkerCrash(w)
      PROVE \/ \E k \in Keys, t \in Tokens \cup {None} : ClaimNextTask(w, k, t)
            \/ \E k \in Keys : Settles(k)
            \/ QuietRows
  <2>1. pc[w] # "idle" => held[w] \in Keys
    BY DEF FenceInv, TypeOK, HeldWhileBusy
  <2>2. CASE RunnerClaim(w) \/ ApiClaim(w)
    BY <2>2 DEF RunnerClaim, ApiClaim
  <2>3. CASE SubmitTaskResult(w)
    BY <2>1, <2>3 DEF SubmitTaskResult, Complete, Settles, InHand
  <2>4. CASE MarkFailed(w)
    BY <2>1, <2>4 DEF MarkFailed, Settles, InHand
  <2>5. CASE ExecutionSucceeds(w) \/ ExecutionFails(w) \/ NoDelegatedToken(w)
             \/ SubmitResultViaApi(w) \/ ConnectionLost(w)
             \/ AbandonTask(w) \/ WorkerCrash(w)
    BY <2>5 DEF ExecutionSucceeds, ExecutionFails, NoDelegatedToken, SubmitResultViaApi,
                ConnectionLost, AbandonTask, WorkerCrash, rowVars, QuietRows
  <2> QED BY <1>2, <2>2, <2>3, <2>4, <2>5 DEF WorkerStep
<1>3. ASSUME NEW r \in requests, HandlerStep(r) \/ HandlerFails(r)
      PROVE (\E k \in Keys : Settles(k)) \/ QuietRows
  <2>1. r.task \in Keys
    BY <1>3 DEF FenceInv, TypeOK, Requests
  <2>2. CASE HandlerApply(r)
    BY <1>3, <2>1, <2>2 DEF HandlerApply, Complete, Settles, InHand
  <2>3. CASE HandlerCheck(r) \/ HandlerConsume(r) \/ HandlerReply(r) \/ HandlerFails(r)
    BY <2>3 DEF HandlerCheck, HandlerConsume, HandlerReply, HandlerFails, rowVars, QuietRows
  <2> QED BY <1>3, <2>2, <2>3 DEF HandlerStep
<1> QED BY <1>1, <1>2, <1>3 DEF Next

(* Arithmetic the budget needs once. *)
LEMMA Between == \A a, b \in Nat : a <= b /\ a >= b => a = b
  OBVIOUS

(* The budget is spent by claims and read by the sweep; no allowed PATCH   *)
(* touches it.                                                             *)
LEMMA BudgetStep ==
    ASSUME NoRequeue, FenceInv, FenceInv', BudgetInv, [Next]_vars
    PROVE  BudgetInv'
<1> USE QueueAssumption DEF BudgetInv, RetryBudget, FenceInv, TypeOK
<1>1. ASSUME NEW k \in Keys, NEW p \in Priorities, EnqueueTask(k, p) PROVE BudgetInv'
  BY <1>1 DEF EnqueueTask
<1>2. ASSUME NEW k \in Keys, NEW s \in Patches, NEW r \in {"null", "waiting", "due"},
             PatchStatus(k, s, r)
      PROVE BudgetInv'
  BY <1>2, PatchAssumption DEF PatchStatus, NoRequeue, Statuses
<1>3. ASSUME NEW k \in Keys, LeaseExpires(k) PROVE BudgetInv'
  BY <1>3 DEF LeaseExpires
<1>4. CASE RecoverStaleClaims
  <2> SUFFICES ASSUME NEW k \in Keys
               PROVE  /\ attempt'[k] <= MaxAttempts
                      /\ status'[k] = "pending" => attempt'[k] < MaxAttempts
                      /\ status'[k] = "dead" => attempt'[k] = MaxAttempts
                      /\ status'[k] = "absent" => attempt'[k] = 0
    OBVIOUS
  <2>1. attempt'[k] = attempt[k] /\ attempt[k] \in Nat
    BY <1>4 DEF RecoverStaleClaims
  <2>2. status'[k] = IF Stale(k) THEN RecoveredStatus(k) ELSE status[k]
    BY <1>4 DEF RecoverStaleClaims
  <2>3. status'[k] # status[k] =>
            \/ status'[k] = "dead" /\ attempt[k] >= MaxAttempts
            \/ status'[k] = "pending" /\ ~(attempt[k] >= MaxAttempts)
    BY <2>2 DEF RecoveredStatus, Exhausted
  <2>4. attempt[k] <= MaxAttempts
    OBVIOUS
  <2>5. CASE status'[k] = status[k]
    BY <2>1, <2>5
  <2>6. CASE status'[k] = "dead" /\ attempt[k] >= MaxAttempts
    <3>1. attempt[k] = MaxAttempts
      BY <2>1, <2>4, <2>6, Between, QueueAssumption, Zenon
    <3>2. attempt'[k] = MaxAttempts /\ status'[k] = "dead"
      BY <2>1, <2>6, <3>1, Zenon
    <3> HIDE DEF BudgetInv, RetryBudget, FenceInv, TypeOK
    <3> QED BY <3>2
  <2>7. CASE status'[k] = "pending" /\ ~(attempt[k] >= MaxAttempts)
    BY <2>1, <2>7
  <2> QED BY <2>3, <2>5, <2>6, <2>7
<1>5. ASSUME NEW w \in Workers, NEW k \in Keys, NEW t \in Tokens \cup {None},
             ClaimNextTask(w, k, t)
      PROVE BudgetInv'
  BY <1>5 DEF ClaimNextTask, AttemptOnClaim, Claimable
<1>6. ASSUME NEW k \in Keys, Settles(k) PROVE BudgetInv'
  BY <1>6 DEF Settles
<1>7. CASE QuietRows \/ UNCHANGED vars
  BY <1>7 DEF QuietRows, vars, rowVars
<1> QED BY <1>1, <1>2, <1>3, <1>4, <1>5, <1>6, <1>7, OtherSteps

(* TQ-P-004 for every max_attempts: a task is claimed at most MaxAttempts  *)
(* times and is dead-lettered exactly when its attempts are used up,       *)
(* provided no client patches a row to 'pending' or to 'dead'.             *)
THEOREM BudgetCorrect == ASSUME NoRequeue PROVE Spec => []RetryBudget
<1>1. Init => BudgetInv
  BY QueueAssumption DEF Init, BudgetInv, RetryBudget
<1>2. FenceInv /\ FenceInv' /\ BudgetInv /\ [Next]_vars => BudgetInv'
  BY BudgetStep
<1>3. BudgetInv => RetryBudget
  BY DEF BudgetInv
<1> QED BY FenceInit, FenceStep, <1>1, <1>2, <1>3, PTL DEF Spec

(* Claim, sweep and result write the claim columns with the status. *)
LEMMA ColumnsStep ==
    ASSUME NoClaimByPatch, FenceInv, FenceInv', ClaimColumnsAgree, [Next]_vars
    PROVE  ClaimColumnsAgree'
<1> USE QueueAssumption DEF ClaimColumnsAgree, FenceInv, TypeOK
<1>1. ASSUME NEW k \in Keys, NEW p \in Priorities, EnqueueTask(k, p)
      PROVE ClaimColumnsAgree'
  BY <1>1 DEF EnqueueTask
<1>2. ASSUME NEW k \in Keys, NEW s \in Patches, NEW r \in {"null", "waiting", "due"},
             PatchStatus(k, s, r)
      PROVE ClaimColumnsAgree'
  BY <1>2, PatchAssumption DEF PatchStatus, NoClaimByPatch, Statuses
<1>3. ASSUME NEW k \in Keys, LeaseExpires(k) PROVE ClaimColumnsAgree'
  BY <1>3 DEF LeaseExpires
<1>4. CASE RecoverStaleClaims
  BY <1>4 DEF RecoverStaleClaims, RecoveredStatus, ClearedToken, Stale
<1>5. ASSUME NEW w \in Workers, NEW k \in Keys, NEW t \in Tokens \cup {None},
             ClaimNextTask(w, k, t)
      PROVE ClaimColumnsAgree'
  BY <1>5 DEF ClaimNextTask
<1>6. ASSUME NEW k \in Keys, Settles(k) PROVE ClaimColumnsAgree'
  BY <1>6 DEF Settles
<1>7. CASE QuietRows \/ UNCHANGED vars
  BY <1>7 DEF QuietRows, vars, rowVars
<1> QED BY <1>1, <1>2, <1>3, <1>4, <1>5, <1>6, <1>7, OtherSteps

(* The sweep can find every claimed row, and no row that waits or was      *)
(* dead-lettered keeps a claim or a token, provided PATCH is not used to   *)
(* claim or to requeue.                                                    *)
THEOREM ColumnsCorrect == ASSUME NoClaimByPatch PROVE Spec => []ClaimColumnsAgree
<1>1. Init => ClaimColumnsAgree
  BY DEF Init, ClaimColumnsAgree
<1>2. FenceInv /\ FenceInv' /\ ClaimColumnsAgree /\ [Next]_vars
        => ClaimColumnsAgree'
  BY ColumnsStep
<1> QED BY FenceInit, FenceStep, <1>1, <1>2, PTL DEF Spec

(* A worker or a request that has a task in hand found it in the table,    *)
(* and rows are never deleted.                                             *)
RowsExist ==
    /\ \A w \in Workers : held[w] # None => status[held[w]] # "absent"
    /\ \A r \in requests : status[r.task] # "absent"

(* No step removes a row. *)
LEMMA RowsStay ==
    ASSUME FenceInv, [Next]_vars, NEW k \in Keys, status[k] # "absent"
    PROVE  status'[k] # "absent"
<1> USE DEF FenceInv, TypeOK
<1>1. ASSUME NEW j \in Keys, NEW p \in Priorities, EnqueueTask(j, p)
      PROVE  status'[k] # "absent"
  BY <1>1 DEF EnqueueTask
<1>2. ASSUME NEW j \in Keys, NEW s \in Patches, NEW r \in {"null", "waiting", "due"},
             PatchStatus(j, s, r)
      PROVE  status'[k] # "absent"
  BY <1>2, PatchAssumption DEF PatchStatus, Statuses
<1>3. CASE RecoverStaleClaims
  BY <1>3 DEF RecoverStaleClaims, RecoveredStatus
<1>4. ASSUME NEW w \in Workers, NEW j \in Keys, NEW t \in Tokens \cup {None},
             ClaimNextTask(w, j, t)
      PROVE  status'[k] # "absent"
  BY <1>4 DEF ClaimNextTask
<1>5. ASSUME NEW j \in Keys, Settles(j) PROVE status'[k] # "absent"
  BY <1>5 DEF Settles
<1>6. CASE QuietRows \/ UNCHANGED vars \/ \E j \in Keys : LeaseExpires(j)
  BY <1>6 DEF QuietRows, vars, rowVars, LeaseExpires
<1> QED BY <1>1, <1>2, <1>3, <1>4, <1>5, <1>6, OtherSteps

(* Every task in a worker's hands or in a request came from a claim.       *)
LEMMA RowsExistStep == FenceInv /\ FenceInv' /\ RowsExist /\ [Next]_vars => RowsExist'
<1> SUFFICES ASSUME FenceInv, FenceInv', RowsExist, [Next]_vars PROVE RowsExist'
  OBVIOUS
<1> USE DEF FenceInv, TypeOK
<1>1. ASSUME \A w \in Workers : held'[w] = held[w] \/ held'[w] = None,
             \A r \in requests' : \/ \E q \in requests : r.task = q.task
                                  \/ \E w \in Workers : held[w] # None /\ r.task = held[w]
      PROVE  RowsExist'
  BY <1>1, RowsStay, QueueAssumption DEF RowsExist, Requests
<1>2. ASSUME NEW w \in Workers, NEW k \in Keys, NEW t \in Tokens \cup {None},
             ClaimNextTask(w, k, t)
      PROVE  RowsExist'
  <2>1. status'[k] # "absent"
    BY <1>2 DEF ClaimNextTask
  <2> QED
    BY <1>2, <2>1, RowsStay, QueueAssumption DEF ClaimNextTask, RowsExist, Requests, httpVars
<1>3. ASSUME NEW w \in Workers, WorkerStep(w) \/ ConnectionLost(w) \/ WorkerCrash(w)
      PROVE  RowsExist'
  <2>1. CASE RunnerClaim(w) \/ ApiClaim(w)
    BY <1>2, <2>1 DEF RunnerClaim, ApiClaim
  <2>2. CASE SubmitResultViaApi(w)
    <3>1. held[w] # None
      BY <2>2 DEF SubmitResultViaApi, GoTo, HeldWhileBusy
    <3> QED BY <1>1, <2>2, <3>1 DEF SubmitResultViaApi, GoTo
  <2>3. CASE UNCHANGED requests /\ (ReturnToLoop(w) \/ UNCHANGED held)
    BY <1>1, <2>3 DEF ReturnToLoop
  <2> QED
    BY <1>3, <2>1, <2>2, <2>3
    DEF WorkerStep, ExecutionSucceeds, ExecutionFails, NoDelegatedToken, SubmitTaskResult,
        MarkFailed, AbandonTask, ConnectionLost, WorkerCrash, GoTo, httpVars
<1>4. ASSUME NEW r \in requests, HandlerStep(r) \/ HandlerFails(r) PROVE RowsExist'
  <2>1. r \in Requests
    BY <1>4
  <2>2. ASSUME NEW to, Advance(r, to)
        PROVE  \A q \in requests' : \E p \in requests : q.task = p.task
    <3> DEFINE r2 == [r EXCEPT !.step = to]
    <3>1. r2.task = r.task
      BY <2>1 DEF Requests
    <3>2. requests' = (requests \ {r}) \cup {r2}
      BY <2>2 DEF Advance
    <3> HIDE DEF r2
    <3> QED BY <1>4, <3>1, <3>2
  <2>3. requests' = requests \ {r}
        \/ Advance(r, "checked") \/ Advance(r, "consumed") \/ Advance(r, "applied")
    BY <1>4 DEF HandlerStep, HandlerCheck, HandlerConsume, HandlerApply, HandlerReply,
                HandlerFails
  <2>5. \A q \in requests' : \E p \in requests : q.task = p.task
    BY <2>2, <2>3
  <2>4. \A w \in Workers : held'[w] = held[w] \/ held'[w] = None
    BY <1>4 DEF HandlerStep, HandlerCheck, HandlerConsume, HandlerApply, HandlerReply,
                HandlerFails, ReturnToLoop, GoTo, workerVars
  <2> QED BY <1>1, <2>4, <2>5
<1>5. CASE UNCHANGED <<workerVars, requests>>
  BY <1>1, <1>5 DEF workerVars, RowsExist
<1> QED
  BY <1>3, <1>4, <1>5
  DEF Next, EnqueueTask, PatchStatus, Time, LeaseExpires, RetryBecomesDue, RecoverStaleClaims,
      httpVars, vars

(* A row with a result is neither waiting for a claim nor under one.       *)
AnsweredInv ==
    \A k \in Keys : result[k] => status[k] \notin {"absent", "pending", "claimed"}

(* Only a claim counts an attempt and it takes a row without a result; a   *)
(* result is stored together with 'completed', and a late 'failed' or a    *)
(* PATCH leaves the row out of the claim's reach.                          *)
LEMMA AnsweredStep ==
    ASSUME NoReviving, FenceInv, FenceInv', AnsweredInv, [Next]_vars
    PROVE  /\ AnsweredInv'
           /\ \A k \in Keys : result[k] => result'[k] /\ attempt'[k] = attempt[k]
<1> DEFINE Keeps == /\ AnsweredInv'
                    /\ \A k \in Keys : result[k] => result'[k] /\ attempt'[k] = attempt[k]
<1> USE DEF FenceInv, TypeOK, AnsweredInv
<1>1. ASSUME NEW k \in Keys, NEW p \in Priorities, EnqueueTask(k, p) PROVE Keeps
  BY <1>1 DEF EnqueueTask
<1>2. ASSUME NEW k \in Keys, NEW s \in Patches, NEW r \in {"null", "waiting", "due"},
             PatchStatus(k, s, r)
      PROVE Keeps
  BY <1>2, PatchAssumption DEF PatchStatus, NoReviving, Statuses
<1>3. CASE RecoverStaleClaims
  BY <1>3 DEF RecoverStaleClaims, Stale
<1>4. ASSUME NEW w \in Workers, NEW k \in Keys, NEW t \in Tokens \cup {None},
             ClaimNextTask(w, k, t)
      PROVE Keeps
  BY <1>4 DEF ClaimNextTask, Claimable
<1>5. ASSUME NEW k \in Keys, Settles(k) PROVE Keeps
  BY <1>5 DEF Settles
<1>6. CASE QuietRows \/ UNCHANGED vars
  BY <1>6 DEF QuietRows, vars, rowVars
<1>7. ASSUME NEW k \in Keys, LeaseExpires(k) PROVE Keeps
  BY <1>7 DEF LeaseExpires
<1> QED BY <1>1, <1>2, <1>3, <1>4, <1>5, <1>6, <1>7, OtherSteps

(* A task with a stored result is never claimed again, by any worker and   *)
(* in any interleaving of late results, late failures, sweeps and PATCHes, *)
(* provided no client patches a row to 'pending' or to 'claimed'.          *)
THEOREM AnsweredCorrect == ASSUME NoReviving PROVE Spec => AnsweredNeverRerun
<1>1. Init => AnsweredInv
  BY DEF Init, AnsweredInv
<1>2. FenceInv /\ FenceInv' /\ AnsweredInv /\ [Next]_vars
        => /\ AnsweredInv'
           /\ [\A k \in Keys : result[k] => result'[k] /\ attempt'[k] = attempt[k]]_vars
  BY AnsweredStep
<1> QED
  BY FenceInit, FenceStep, <1>1, <1>2, PTL DEF Spec, AnsweredNeverRerun

-----------------------------------------------------------------------------
(* A handler that is past the INSERT into revoked_tokens, or past the      *)
(* UPDATE of the row, works with a token that is revoked.                  *)
PastConsume ==
    \A r \in requests : r.step \in {"consumed", "applied"} => r.token \in revoked

TokenInv == ConsumedBeforeWritten /\ PastConsume

(* Steps that start or end requests, or leave them alone, consume nothing. *)
LEMMA TokenFrame ==
    ASSUME TokenInv, UNCHANGED <<revoked, accepted>>,
           \A r \in requests' : r \in requests \/ r.step \in {"received", "checked"}
    PROVE  TokenInv'
  BY DEF TokenInv, ConsumedBeforeWritten, PastConsume

(* The handler consumes the token in one statement and writes in a later   *)
(* one; no statement takes a token out of revoked_tokens.                  *)
LEMMA TokenStep == FenceInv /\ TokenInv /\ [Next]_vars => TokenInv'
<1> SUFFICES ASSUME FenceInv, TokenInv, [Next]_vars PROVE TokenInv'
  OBVIOUS
<1>1. CASE UNCHANGED httpVars
  BY <1>1, TokenFrame DEF httpVars
<1>2. ASSUME NEW w \in Workers, SubmitResultViaApi(w) PROVE TokenInv'
  BY <1>2, TokenFrame DEF SubmitResultViaApi
<1>3. ASSUME NEW r \in requests, HandlerStep(r) \/ HandlerFails(r) PROVE TokenInv'
  <2>1. r \in Requests /\ r.token \in Tokens
    BY <1>3 DEF FenceInv, TypeOK, Requests
  <2>2. \A to : [r EXCEPT !.step = to].step = to /\ [r EXCEPT !.step = to].token = r.token
    BY <2>1 DEF Requests
  <2>3. CASE HandlerCheck(r)
    BY <2>2, <2>3, TokenFrame DEF HandlerCheck, Advance
  <2>4. CASE HandlerConsume(r)
    BY <2>2, <2>4 DEF HandlerConsume, Advance, TokenInv, ConsumedBeforeWritten, PastConsume
  <2>5. CASE HandlerApply(r)
    <3>1. r.token \in revoked
      BY <1>3, <2>5 DEF HandlerApply, ReadyToApply, TokenInv, PastConsume
    <3>2. PastConsume'
      BY <2>2, <2>5, <3>1 DEF HandlerApply, Advance, TokenInv, PastConsume
    <3>3. ConsumedBeforeWritten'
      BY <2>1, <2>5, <3>1 DEF HandlerApply, TokenInv, ConsumedBeforeWritten, FenceInv, TypeOK
    <3> QED BY <3>2, <3>3 DEF TokenInv
  <2>6. CASE HandlerReply(r) \/ HandlerFails(r)
    BY <2>6, TokenFrame DEF HandlerReply, HandlerFails
  <2> QED BY <1>3, <2>3, <2>4, <2>5, <2>6 DEF HandlerStep
<1> QED
  BY <1>1, <1>2, <1>3
  DEF Next, EnqueueTask, PatchStatus, Time, LeaseExpires, RetryBecomesDue, RecoverStaleClaims,
      WorkerStep, RunnerClaim, ApiClaim, ClaimNextTask, ExecutionSucceeds, ExecutionFails,
      NoDelegatedToken, SubmitTaskResult, MarkFailed, AbandonTask, ConnectionLost, WorkerCrash,
      vars

(* Finitely many requests are in flight, so that they can be counted.      *)
RequestsFinite == IsFiniteSet(requests)

(* Each step adds at most one request.                                     *)
LEMMA FiniteStep == RequestsFinite /\ [Next]_vars => RequestsFinite'
<1> SUFFICES ASSUME RequestsFinite, [Next]_vars PROVE RequestsFinite'
  OBVIOUS
<1>1. \/ requests' \subseteq requests
      \/ \E q, r : requests' \subseteq (requests \cup {q}) \cup {r}
  BY DEF Next, EnqueueTask, PatchStatus, Time, LeaseExpires, RetryBecomesDue,
         RecoverStaleClaims, WorkerStep, RunnerClaim, ApiClaim, ClaimNextTask,
         ExecutionSucceeds, ExecutionFails, NoDelegatedToken, SubmitResultViaApi,
         SubmitTaskResult, MarkFailed, AbandonTask, ConnectionLost, WorkerCrash, HandlerStep,
         HandlerCheck, HandlerConsume, HandlerApply, HandlerReply, HandlerFails, Advance,
         vars, httpVars
<1>2. \A q, r : IsFiniteSet((requests \cup {q}) \cup {r})
  BY FS_AddElement DEF RequestsFinite
<1> QED BY <1>1, <1>2, FS_Subset DEF RequestsFinite

(* Exchanging one element of a finite set for another does not enlarge it, *)
(* and taking one out makes it smaller by one.                             *)
LEMMA Exchange ==
    ASSUME NEW S, IsFiniteSet(S), NEW x \in S, NEW y
    PROVE  /\ Cardinality(S \ {x}) = Cardinality(S) - 1
           /\ Cardinality((S \ {x}) \cup {y}) <= Cardinality(S)
           /\ Cardinality(S) \in Nat
<1>1. IsFiniteSet(S \ {x}) /\ Cardinality(S \ {x}) = Cardinality(S) - 1
  BY FS_RemoveElement
<1>2. Cardinality((S \ {x}) \cup {y}) \in {Cardinality(S \ {x}), Cardinality(S \ {x}) + 1}
  BY <1>1, FS_AddElement
<1>3. Cardinality(S) \in Nat
  BY FS_CardinalityType
<1> QED BY <1>1, <1>2, <1>3

(* Once a token is in revoked_tokens, each step that writes a result with  *)
(* it is one of a request that had been admitted, and admits no other.     *)
LEMMA AdmittedStep ==
    ASSUME FenceInv, TokenInv, RequestsFinite, [Next]_vars, NEW t \in revoked
    PROVE  accepted'[t] + Cardinality(Admitted(t)') <= accepted[t] + Cardinality(Admitted(t))
<1> DEFINE A == Admitted(t)
           B == Admitted(t)'
<1>0. t \in Tokens /\ accepted[t] \in Nat /\ accepted \in [Tokens -> Nat]
  BY DEF FenceInv, TypeOK
<1>1. IsFiniteSet(A) /\ Cardinality(A) \in Nat
  BY FS_Subset, FS_CardinalityType DEF Admitted, RequestsFinite
<1>2. ASSUME accepted' = accepted, B \subseteq A
      PROVE  accepted'[t] + Cardinality(B) <= accepted[t] + Cardinality(A)
  <2>1. Cardinality(B) <= Cardinality(A) /\ Cardinality(B) \in Nat
    BY <1>1, <1>2, FS_Subset, FS_CardinalityType
  <2> HIDE DEF A, B
  <2> QED BY <1>0, <1>1, <1>2, <2>1
<1>3. CASE UNCHANGED httpVars
  <2>1. accepted' = accepted /\ B \subseteq A
    BY <1>3 DEF httpVars, Admitted
  <2> QED BY <1>2, <2>1
<1>4. ASSUME NEW w \in Workers, SubmitResultViaApi(w)
      PROVE  accepted'[t] + Cardinality(B) <= accepted[t] + Cardinality(A)
  <2>1. accepted' = accepted /\ B \subseteq A
    BY <1>4 DEF SubmitResultViaApi, Admitted
  <2> QED BY <1>2, <2>1
<1>5. ASSUME NEW r \in requests, HandlerStep(r) \/ HandlerFails(r)
      PROVE  accepted'[t] + Cardinality(B) <= accepted[t] + Cardinality(A)
  <2>1. PICK r2, to : /\ r2 = [r EXCEPT !.step = to]
                      /\ to = IF r.step = "received" THEN "checked"
                              ELSE IF r.step = "checked" THEN "consumed" ELSE "applied"
    OBVIOUS
  <2>2. r \in Requests /\ r2.token = r.token /\ r2.step = to
    BY <1>5, <2>1 DEF FenceInv, TypeOK, Requests
  <2>3. CASE HandlerCheck(r)
    <3>1. r.token # t
      BY <2>3 DEF HandlerCheck, Unused
    <3>2. requests' = (requests \ {r}) \cup {r2} /\ accepted' = accepted
      BY <2>1, <2>3 DEF HandlerCheck, Advance
    <3> QED BY <1>2, <2>2, <3>1, <3>2 DEF Admitted
  <2>4. CASE HandlerConsume(r)
    <3>1. requests' = (requests \ {r}) \cup {r2} /\ accepted' = accepted /\ r.step = "checked"
      BY <2>1, <2>4 DEF HandlerConsume, Advance
    <3>2. CASE r.token # t
      BY <1>2, <2>2, <3>1, <3>2 DEF Admitted
    <3>3. CASE r.token = t
      <4>1. r \in A /\ B = (A \ {r}) \cup {r2}
        BY <1>5, <2>1, <2>2, <3>1, <3>3 DEF Admitted
      <4> HIDE DEF A, B
      <4>2. Cardinality(B) <= Cardinality(A)
        BY <1>1, <4>1, Exchange
      <4>3. IsFiniteSet(B)
        BY <1>1, <4>1, FS_AddElement, FS_RemoveElement
      <4>4. Cardinality(B) \in Nat
        BY <4>3, FS_CardinalityType
      <4> QED BY <1>0, <1>1, <3>1, <4>2, <4>4
    <3> QED BY <3>2, <3>3
  <2>5. CASE HandlerApply(r)
    <3>1. /\ requests' = (requests \ {r}) \cup {r2} /\ r.step = "consumed"
          /\ accepted' = [accepted EXCEPT ![r.token] = @ + 1]
      BY <2>1, <2>5 DEF HandlerApply, ReadyToApply, Advance
    <3>2. r2.step = "applied"
      BY <2>1, <2>2, <3>1
    <3>3. CASE r.token # t
      <4>1. accepted'[t] = accepted[t] /\ B \subseteq A
        BY <1>0, <2>2, <3>1, <3>2, <3>3 DEF Admitted
      <4>2. Cardinality(B) <= Cardinality(A) /\ Cardinality(B) \in Nat
        BY <1>1, <4>1, FS_Subset, FS_CardinalityType
      <4> HIDE DEF A, B
      <4> QED BY <1>0, <1>1, <4>1, <4>2
    <3>4. CASE r.token = t
      <4>1. r \in A /\ B = A \ {r}
        BY <1>5, <2>2, <3>1, <3>2, <3>4 DEF Admitted
      <4>2. accepted'[t] = accepted[t] + 1
        BY <1>0, <3>1, <3>4
      <4> HIDE DEF A, B
      <4>3. Cardinality(B) = Cardinality(A) - 1
        BY <1>1, <4>1, Exchange
      <4> QED BY <1>0, <1>1, <4>2, <4>3
    <3> QED BY <3>3, <3>4
  <2>6. CASE HandlerReply(r) \/ HandlerFails(r)
    <3>1. requests' = requests \ {r} /\ accepted' = accepted
      BY <2>6 DEF HandlerReply, HandlerFails
    <3> QED BY <1>2, <3>1 DEF Admitted
  <2> QED BY <1>5, <2>3, <2>4, <2>5, <2>6 DEF HandlerStep
<1> QED
  BY <1>3, <1>4, <1>5
  DEF Next, EnqueueTask, PatchStatus, Time, LeaseExpires, RetryBecomesDue, RecoverStaleClaims,
      WorkerStep, RunnerClaim, ApiClaim, ClaimNextTask, ExecutionSucceeds, ExecutionFails,
      NoDelegatedToken, SubmitTaskResult, MarkFailed, AbandonTask, ConnectionLost, WorkerCrash,
      vars

(* handleTaskQueueResultRequest, for any number of tokens and of requests  *)
(* in flight with the same token, whichever of them fail: no result is     *)
(* written with a token that is not in revoked_tokens, and a token that is *)
(* there admits no further request: the results written with it and those  *)
(* still to come from requests admitted before never grow.                 *)
THEOREM ConsumeCorrect == Spec => UsedTokenAdmitsNobody
<1>1. Init => TokenInv /\ RequestsFinite
  BY FS_EmptySet DEF Init, TokenInv, ConsumedBeforeWritten, PastConsume, RequestsFinite
<1>2. TokenInv => ConsumedBeforeWritten
  BY DEF TokenInv
<1>3. FenceInv /\ TokenInv /\ RequestsFinite /\ [Next]_vars
        => [\A t \in revoked :
              accepted'[t] + Cardinality(Admitted(t)') <= accepted[t] + Cardinality(Admitted(t))]_vars
  BY AdmittedStep
<1> QED
  BY FenceInit, FenceStep, TokenStep, FiniteStep, <1>1, <1>2, <1>3, PTL
  DEF Spec, UsedTokenAdmitsNobody

-----------------------------------------------------------------------------
(* Clients that close or park tasks by PATCH leave the contract intact.    *)
OnlyClosingPatches == Patches \subseteq {"completed", "failed", "running", "submitting"}

(* What an UPDATE may do to one row, with the row's phase spelled out.     *)
LEMMA PhaseOf ==
    /\ Phase("absent") = "absent" /\ Phase("pending") = "queued"
    /\ Phase("claimed") = "working" /\ Phase("running") = "parked" /\ Phase("submitting") = "parked"
    /\ Phase("completed") = "finished" /\ Phase("failed") = "finished" /\ Phase("dead") = "finished"
  BY DEF Phase

(* For a row: a step that changes its columns is a step of the contract.   *)
LEMMA KeyStepOf ==
    ASSUME NEW k \in Keys, status \in [Keys -> Statuses \cup {"absent"}],
           status' \in [Keys -> Statuses \cup {"absent"}],
           \/ status'[k] = status[k] /\ attempt'[k] = attempt[k] /\ result'[k] = result[k]
           \/ /\ status[k] = "absent" /\ status'[k] = "pending"
              /\ attempt'[k] = attempt[k] /\ result'[k] = result[k]
           \/ /\ status[k] = "pending" /\ attempt[k] < MaxAttempts
              /\ status'[k] = "claimed" /\ attempt'[k] = attempt[k] + 1 /\ result'[k] = result[k]
           \/ /\ status[k] = "claimed" /\ attempt[k] < MaxAttempts
              /\ status'[k] = "pending" /\ attempt'[k] = attempt[k] /\ result'[k] = result[k]
           \/ /\ status[k] # "absent" /\ status'[k] \in {"completed", "failed", "dead"}
              /\ attempt'[k] = attempt[k] /\ (result[k] => result'[k])
           \/ /\ status[k] # "absent" /\ status'[k] \in {"running", "submitting"}
              /\ attempt'[k] = attempt[k] /\ result'[k] = result[k]
    PROVE  Contract!KeyStep(k) \/ Contract!Same(k)
<1>1. Phase(status[k]) = "absent" <=> status[k] = "absent"
  BY PhaseOf DEF Statuses
<1> QED
  BY <1>1, PhaseOf
  DEF Contract!KeyStep, Contract!Same, Contract!Queue, Contract!Take, Contract!GiveBack,
      Contract!Finish, Contract!Park

(* Each step of the queue moves each row as the contract allows. *)
LEMMA ContractStep ==
    ASSUME OnlyClosingPatches, FenceInv, FenceInv', BudgetInv, RowsExist, [Next]_vars,
           NEW k \in Keys
    PROVE  Contract!KeyStep(k) \/ Contract!Same(k)
<1> USE DEF FenceInv, TypeOK
<1>1. ASSUME NEW j \in Keys, NEW p \in Priorities, EnqueueTask(j, p)
      PROVE  Contract!KeyStep(k) \/ Contract!Same(k)
  BY <1>1, KeyStepOf DEF EnqueueTask
<1>2. ASSUME NEW j \in Keys, NEW s \in Patches, NEW r \in {"null", "waiting", "due"},
             PatchStatus(j, s, r)
      PROVE  Contract!KeyStep(k) \/ Contract!Same(k)
  BY <1>2, KeyStepOf DEF PatchStatus, OnlyClosingPatches
<1>3. CASE RecoverStaleClaims
  <2>1. /\ status'[k] = IF Stale(k) THEN RecoveredStatus(k) ELSE status[k]
        /\ attempt'[k] = attempt[k] /\ result'[k] = result[k]
    BY <1>3 DEF RecoverStaleClaims
  <2>2. Stale(k) => /\ status[k] = "claimed"
                    /\ \/ status'[k] = "dead"
                       \/ status'[k] = "pending" /\ attempt[k] < MaxAttempts
    BY <2>1, QueueAssumption DEF Stale, RecoveredStatus, Exhausted
  <2> QED BY <2>1, <2>2, KeyStepOf
<1>4. ASSUME NEW w \in Workers, NEW j \in Keys, NEW t \in Tokens \cup {None},
             ClaimNextTask(w, j, t)
      PROVE  Contract!KeyStep(k) \/ Contract!Same(k)
  <2>1. status[j] = "pending" /\ attempt[j] < MaxAttempts
    BY <1>4 DEF ClaimNextTask, Claimable, BudgetInv, RetryBudget
  <2> QED BY <1>4, <2>1, KeyStepOf DEF ClaimNextTask, AttemptOnClaim
<1>5. ASSUME NEW j \in Keys, Settles(j) PROVE Contract!KeyStep(k) \/ Contract!Same(k)
  <2>1. status[j] # "absent"
    BY <1>5, QueueAssumption DEF Settles, InHand, RowsExist
  <2> QED BY <1>5, <2>1, KeyStepOf DEF Settles
<1>6. CASE QuietRows \/ UNCHANGED vars \/ \E j \in Keys : LeaseExpires(j)
  BY <1>6, KeyStepOf DEF QuietRows, vars, rowVars, LeaseExpires
<1> QED BY <1>1, <1>2, <1>3, <1>4, <1>5, <1>6, OtherSteps

(* The queue implements TaskContract: seen without leases, tokens and      *)
(* workers, each step of it queues, takes, gives back or finishes rows as  *)
(* the contract says, or changes nothing; provided clients use PATCH only  *)
(* to close or to park tasks.  (That tasks are finished at all is EveryTaskSettles.)  *)
THEOREM ContractCorrect == ASSUME OnlyClosingPatches PROVE Spec => ImplementsContract
<1>1. Init => Contract!Init
  BY PhaseOf DEF Init, Contract!Init
<1>2. Init => BudgetInv /\ RowsExist
  BY QueueAssumption DEF Init, BudgetInv, RetryBudget, RowsExist
<1>3. FenceInv /\ FenceInv' /\ BudgetInv /\ [Next]_vars => BudgetInv'
  BY BudgetStep, QueueAssumption DEF NoRequeue, OnlyClosingPatches
<1>4. FenceInv /\ FenceInv' /\ BudgetInv /\ RowsExist /\ [Next]_vars
        => [Contract!Next]_Contract!contractVars
  BY ContractStep DEF Contract!Next
<1> QED
  BY FenceInit, FenceStep, RowsExistStep, <1>1, <1>2, <1>3, <1>4, PTL
  DEF Spec, ImplementsContract, Contract!Spec

-----------------------------------------------------------------------------
(* The loop has a task in hand only inside an iteration, and stop() awaits *)
(* the loop before anything is closed.                                     *)
LoopInv == LoopTypeOK /\ \A w \in Pods : got[w] # NoRow => loop[w] = "iterating"

(* Every step of a pod, of the queue or of the connection keeps LoopInv.   *)
LEMMA LoopInvStep == LoopInv /\ [LoopNext]_loopVars => LoopInv'
<1> SUFFICES ASSUME LoopInv, [LoopNext]_loopVars PROVE LoopInv'
  OBVIOUS
<1> USE LoopAssumption DEF LoopInv, LoopTypeOK
<1>1. ASSUME NEW t \in Rows, Enqueue(t) \/ SweepRequeues(t) \/ BackoffElapses(t)
      PROVE  LoopInv'
  BY <1>1 DEF Enqueue, SweepRequeues, BackoffElapses
<1>2. ASSUME NEW w \in Pods, TryClaim(w) PROVE LoopInv'
  BY <1>2 DEF TryClaim
<1>3. ASSUME NEW w \in Pods, EndIteration(w) PROVE LoopInv'
  BY <1>3 DEF EndIteration, AfterTask
<1>4. ASSUME NEW w \in Pods, PollTimeout(w) \/ Resume(w) \/ Notified(w) PROVE LoopInv'
  BY <1>4 DEF PollTimeout, Resume, AfterWake, Notified
<1>5. ASSUME NEW w \in Pods, Exit(w) PROVE LoopInv'
  BY <1>5 DEF Exit, LoopAwaited
<1>6. ASSUME NEW w \in Pods, StopRequested(w) \/ ConnectionDrops(w) \/ Reconnects(w)
      PROVE  LoopInv'
  BY <1>6 DEF StopRequested, ConnectionDrops, Reconnects
<1>7. CASE UNCHANGED loopVars
  BY <1>7 DEF loopVars
<1> QED BY <1>1, <1>2, <1>3, <1>4, <1>5, <1>6, <1>7 DEF LoopNext, LoopStep

(* SIGTERM at any moment, of any number of pods: none exits with a claimed *)
(* task in its hands, whatever of the claim's answer, a notification and   *)
(* a reconnection crosses stop() (task-queue-worker.ts).                   *)
THEOREM StopCorrect == LoopSpec => []StopIsSafe
<1>1. LoopInit => LoopInv
  BY LoopAssumption DEF LoopInit, LoopInv, LoopTypeOK
<1>2. LoopInv => StopIsSafe
  BY DEF LoopInv, StopIsSafe, NoTaskAbandonedByStop
<1> QED BY LoopInvStep, <1>1, <1>2, PTL DEF LoopSpec
=============================================================================
