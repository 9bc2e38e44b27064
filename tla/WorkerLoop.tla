----------------------------- MODULE WorkerLoop -----------------------------
(***************************************************************************)
(* The worker loop and its waker (packages/db/task-queue-worker.ts): LISTEN *)
(* on task_queue_<agent_type>, a NOTIFY per INSERT (schema.sql trigger), a *)
(* poll timer as the fallback, and the graceful stop on SIGTERM.           *)
(*                                                                         *)
(* Only an INSERT notifies the worker channel.  A task that the stale-claim *)
(* sweep puts back, or whose back-off elapses, wakes nobody.  A claim is   *)
(* two steps: the statement runs in the database, its answer reaches the   *)
(* loop later, and a notification may be delivered in between.             *)
(***************************************************************************)
EXTENDS FiniteSets

CONSTANTS
    Pods,    \* worker processes of one agent type
    Rows,      \* task rows of that type
    NoRow      \* no task

ASSUME LoopAssumption == NoRow \notin Rows

VARIABLES
    task,      \* "none", "pending", "backoff" (next_retry_at ahead) or "taken"
    loop,      \* where the while loop of runWorkerLoop stands
    got,       \* what the claim of this iteration returned
    running,   \* the loop's running flag
    listening, \* does the LISTEN connection receive notifications?
    inflight   \* a notification sent to the connection, not yet handled

loopVars == <<task, loop, got, running, listening, inflight>>

LoopTypeOK ==
    /\ task \in [Rows -> {"none", "pending", "backoff", "taken"}]
    /\ loop \in [Pods -> {"claim", "iterating", "waiting", "woken", "ended", "exited"}]
    /\ got \in [Pods -> Rows \cup {NoRow}]
    /\ running \in [Pods -> BOOLEAN]
    /\ listening \in [Pods -> BOOLEAN]
    /\ inflight \in [Pods -> BOOLEAN]

(* createWorkerWaker awaits LISTEN before the loop starts.                 *)
LoopInit ==
    /\ task = [t \in Rows |-> "none"]
    /\ loop = [w \in Pods |-> "claim"]
    /\ got = [w \in Pods |-> NoRow]
    /\ running = [w \in Pods |-> TRUE]
    /\ listening = [w \in Pods |-> TRUE]
    /\ inflight = [w \in Pods |-> FALSE]

-----------------------------------------------------------------------------
(* The queue and its trigger.                                              *)

Enqueue(t) ==
    /\ task[t] = "none"
    /\ task' = [task EXCEPT ![t] = "pending"]
    /\ inflight' = [w \in Pods |-> inflight[w] \/ listening[w]]
    /\ UNCHANGED <<loop, got, running, listening>>

SweepRequeues(t) ==
    /\ task[t] = "taken"
    /\ task' = [task EXCEPT ![t] = "backoff"]
    /\ UNCHANGED <<loop, got, running, listening, inflight>>

BackoffElapses(t) ==
    /\ task[t] = "backoff"
    /\ task' = [task EXCEPT ![t] = "pending"]
    /\ UNCHANGED <<loop, got, running, listening, inflight>>

-----------------------------------------------------------------------------
(* The loop: while (running) { tryClaimAndExecute; waitForWork }.          *)

(* claimNextTask inside tryClaimAndExecute; no pending row returns null.   *)
TryClaim(w) ==
    /\ loop[w] = "claim"
    /\ loop' = [loop EXCEPT ![w] = "iterating"]
    /\ \/ \E t \in Rows :
             /\ task[t] = "pending"
             /\ task' = [task EXCEPT ![t] = "taken"]
             /\ got' = [got EXCEPT ![w] = t]
       \/ /\ \A t \in Rows : task[t] # "pending"
          /\ UNCHANGED <<task, got>>
    /\ UNCHANGED <<running, listening, inflight>>

(* if (!running) break;                                                    *)
AfterTask(w) == IF running[w] THEN "waiting" ELSE "ended"

(* The task, or the empty answer, is dealt with; waitForWork registers.    *)
EndIteration(w) ==
    /\ loop[w] = "iterating"
    /\ got' = [got EXCEPT ![w] = NoRow]
    /\ loop' = [loop EXCEPT ![w] = AfterTask(w)]
    /\ UNCHANGED <<task, running, listening, inflight>>

(* The LISTEN callback wakes every registered waiter; with none registered *)
(* the notification has no effect.                                         *)
Notified(w) ==
    /\ inflight[w]
    /\ inflight' = [inflight EXCEPT ![w] = FALSE]
    /\ loop' = [loop EXCEPT ![w] = IF @ = "waiting" THEN "woken" ELSE @]
    /\ UNCHANGED <<task, got, running, listening>>

(* A slip: the fallback timer is armed only while the connection is down. *)
PollArmed_Connected(w) == ~listening[w]

(* setTimeout is armed by every waitForWork, whatever the connection does. *)
PollArmed(w) == TRUE

PollTimeout(w) ==
    /\ loop[w] = "waiting"
    /\ PollArmed(w)
    /\ loop' = [loop EXCEPT ![w] = "woken"]
    /\ UNCHANGED <<task, got, running, listening, inflight>>

AfterWake(w) == IF running[w] THEN "claim" ELSE "ended"

Resume(w) ==
    /\ loop[w] = "woken"
    /\ loop' = [loop EXCEPT ![w] = AfterWake(w)]
    /\ UNCHANGED <<task, got, running, listening, inflight>>

-----------------------------------------------------------------------------
(* SIGTERM calls stop(): running = false, await the loop, stop the waker.  *)
StopRequested(w) ==
    /\ running[w]
    /\ running' = [running EXCEPT ![w] = FALSE]
    /\ UNCHANGED <<task, loop, got, listening, inflight>>

(* A slip: the waker and the pool are closed without awaiting the loop.    *)
LoopAwaited_Dropped(w) == loop[w] # "exited"

LoopAwaited(w) == loop[w] = "ended"

(* waker.stop() unlistens, then db.end() and process.exit(0).              *)
Exit(w) ==
    /\ ~running[w]
    /\ LoopAwaited(w)
    /\ loop' = [loop EXCEPT ![w] = "exited"]
    /\ listening' = [listening EXCEPT ![w] = FALSE]
    /\ inflight' = [inflight EXCEPT ![w] = FALSE]
    /\ UNCHANGED <<task, got, running>>

(* The LISTEN connection drops with what it had buffered; the client       *)
(* library reconnects and listens again.                                   *)
ConnectionDrops(w) ==
    /\ listening[w]
    /\ listening' = [listening EXCEPT ![w] = FALSE]
    /\ inflight' = [inflight EXCEPT ![w] = FALSE]
    /\ UNCHANGED <<task, loop, got, running>>

Reconnects(w) ==
    /\ ~listening[w]
    /\ loop[w] # "exited"
    /\ listening' = [listening EXCEPT ![w] = TRUE]
    /\ UNCHANGED <<task, loop, got, running, inflight>>

LoopStep(w) == TryClaim(w) \/ EndIteration(w) \/ PollTimeout(w) \/ Resume(w) \/ Exit(w)

LoopNext ==
    \/ \E t \in Rows : Enqueue(t) \/ SweepRequeues(t) \/ BackoffElapses(t)
    \/ \E w \in Pods :
          \/ LoopStep(w) \/ Notified(w) \/ StopRequested(w)
          \/ ConnectionDrops(w) \/ Reconnects(w)

LoopSpec == LoopInit /\ [][LoopNext]_loopVars

-----------------------------------------------------------------------------
(* No lost wake-up (TQ-D-005 is best effort, the poll is not): while some  *)
(* worker runs, pending work is picked up even if its notification came    *)
(* between the empty claim and waitForWork, was lost with the connection,  *)
(* or was never sent because the task came back from the sweep.            *)
WorkIsPickedUp ==
    (\E t \in Rows : task[t] = "pending")
        ~> \/ \A t \in Rows : task[t] # "pending"
           \/ \E w \in Pods : got[w] # NoRow
           \/ \A w \in Pods : ~running[w]

(* stop() resolves: a worker told to stop exits, also when it is waiting   *)
(* for work that never comes.                                              *)
StopEnds == \A w \in Pods : ~running[w] ~> loop[w] = "exited"

(* Graceful shutdown: the process never exits with a task in its hands.    *)
NoTaskAbandonedByStop == \A w \in Pods : loop[w] = "exited" => got[w] = NoRow

(* Once stop() has been called the worker starts no further iteration: at  *)
(* most the claim it had already begun goes through.                       *)
NoNewIterationAfterStop ==
    [][\A w \in Pods : ~running[w] /\ loop'[w] = "claim" => loop[w] = "claim"]_loopVars

(* A worker that exits leaves no task behind, whatever of a claim's answer, *)
(* a notification and stop() crosses (task-queue-worker.ts, stop).          *)
StopIsSafe ==
    /\ LoopTypeOK /\ NoTaskAbandonedByStop

(* The loop lives and dies as it should: pending work is picked up without  *)
(* any notification, and stop() ends the loop without another iteration.    *)
LoopKeepsUp ==
    /\ WorkIsPickedUp /\ StopEnds /\ NoNewIterationAfterStop

=============================================================================
