---------------------------- MODULE TaskContract ----------------------------
(***************************************************************************)
(* What the task queue promises to whoever enqueues a task, without leases, *)
(* tokens, workers or retries: a task under a key is queued once, is worked *)
(* on at most MaxAttempts times, one at a time and each time counted, goes  *)
(* back to the queue only with an attempt left, and is finished in the end, *)
(* unless a client parks it by patching it to 'running' or 'submitting':    *)
(* nothing but a client or the worker at hand brings it back from there.  A *)
(* finished task is not queued again, and a result, once stored, stays.     *)
(* TaskQueue is shown to implement this.                                    *)
(***************************************************************************)
EXTENDS Naturals

CONSTANTS Keys, MaxAttempts

VARIABLES
    phase,      \* "absent", "queued", "working", "parked" or "finished"
    used,       \* attempts used
    answered    \* is there a result?

contractVars == <<phase, used, answered>>

Init ==
    /\ phase = [k \in Keys |-> "absent"]
    /\ used = [k \in Keys |-> 0]
    /\ answered = [k \in Keys |-> FALSE]

Same(k) == phase'[k] = phase[k] /\ used'[k] = used[k] /\ answered'[k] = answered[k]

Queue(k) == phase[k] = "absent" /\ phase'[k] = "queued" /\ used'[k] = used[k] /\ answered'[k] = answered[k]

Take(k) ==
    /\ phase[k] = "queued" /\ used[k] < MaxAttempts
    /\ phase'[k] = "working" /\ used'[k] = used[k] + 1
    /\ answered'[k] = answered[k]

GiveBack(k) ==
    /\ phase[k] = "working" /\ used[k] < MaxAttempts
    /\ phase'[k] = "queued" /\ used'[k] = used[k]
    /\ answered'[k] = answered[k]

(* A task that was given back may still be finished by the worker that had  *)
(* it, and a finished one answered; no answer is withdrawn.                 *)
Finish(k) ==
    /\ phase[k] # "absent"
    /\ phase'[k] = "finished" /\ used'[k] = used[k]
    /\ answered[k] => answered'[k]

(* PATCH takes any row to 'running' or 'submitting', a finished one too.    *)
Park(k) ==
    /\ phase[k] # "absent"
    /\ phase'[k] = "parked" /\ used'[k] = used[k]
    /\ answered'[k] = answered[k]

KeyStep(k) == Queue(k) \/ Take(k) \/ GiveBack(k) \/ Finish(k) \/ Park(k)

(* One sweep may move several tasks.                                        *)
Next == \A k \in Keys : KeyStep(k) \/ Same(k)

(* What was queued or taken is finished, whoever dies on the way, or parked. *)
Settles(k) == phase[k] \in {"queued", "working"} ~> phase[k] \in {"finished", "parked"}

Spec == Init /\ [][Next]_contractVars
=============================================================================
