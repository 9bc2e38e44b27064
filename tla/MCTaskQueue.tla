---------------------------- MODULE MCTaskQueue ----------------------------
(* Either the queue: one row that is claimed again and again by late,      *)
(* crashing and competing workers, and one delegated token for it.  Or the *)
(* loop: two pods and two rows, so that one pod can be busy, stopping or   *)
(* cut off while the other is idle.                                        *)
EXTENDS TaskQueue, WorkerLoop, TLC

CONSTANTS k1, t1

VARIABLE part       \* which of the two this behaviour moves

MCKeys == {k1}
MCTokens == {t1}
MCTaskOf == t1 :> k1

allVars == <<vars, loopVars, part>>

MCInit == Init /\ LoopInit /\ part \in {"queue", "loop"}

MCNext ==
    /\ \/ part = "queue" /\ Next /\ UNCHANGED loopVars
       \/ part = "loop" /\ LoopNext /\ UNCHANGED vars
    /\ UNCHANGED part

(* Fairness of TaskQueue in the behaviours that move the queue.            *)
MCQueueFairness ==
    /\ \A k \in Keys : WF_vars(part = "queue" /\ LeaseExpires(k)) /\ WF_vars(part = "queue" /\ RetryBecomesDue(k))
    /\ WF_vars(part = "queue" /\ RecoverStaleClaims)
    /\ \A w \in Workers : WF_vars(part = "queue" /\ WorkerStep(w)) /\ WF_vars(part = "queue" /\ ConnectionLost(w))

(* The process is scheduled, the hard timeout ends every execution and the *)
(* poll timer fires.  Nothing is assumed of notifications.                 *)
MCLoopFairness == \A w \in Pods : WF_loopVars(part = "loop" /\ LoopStep(w))

MCSpec == MCInit /\ [][MCNext]_allVars /\ MCQueueFairness /\ MCLoopFairness
=============================================================================
