------------------------------- MODULE Approvals -------------------------------
(***************************************************************************)
(* M-of-N approval of privileged operations of one type:                   *)
(* packages/db/approvals.ts, the routes of apps/server/src/api/approvals.ts*)
(* the gate (assertApproved, called by requireApproval) and the operation  *)
(* that stands behind it, enableWorm (packages/db/worm-mode.ts).  The      *)
(* route that marks a request executed is independent of the operation:    *)
(* nothing in the code makes a caller use it, or use it afterwards.        *)
(*                                                                         *)
(* The routes hand castVote and markExecuted the connection pool, not a    *)
(* transaction, so each statement commits by itself and the lock of their  *)
(* SELECT ... FOR UPDATE ends with the SELECT.  Every statement is a step  *)
(* of its own.  The check that a voter is a designated approver has no     *)
(* state: Approvers are the users that pass it.                            *)
(***************************************************************************)
EXTENDS Integers, FiniteSets

CONSTANTS
    Requests,    \* ids of the approval requests that can be created
    Approvers,   \* users who may vote
    Ballots,     \* POST /api/approvals/:id/vote requests that can be in flight
    Executors,   \* callers of a gated operation or of POST /api/approvals/:id/execute
    Quorums,     \* values of required_approvals
    MaxOps,      \* bound of the model: privileged operations per request
    MaxCrashes,  \* bound of the model: ballots cut short
    Nobody

Decisions == {"approved", "rejected"}

ASSUME ApprovalsAssumption ==
    /\ IsFiniteSet(Approvers)
    /\ Quorums \subseteq Nat \ {0}
    /\ MaxOps \in Nat /\ MaxCrashes \in Nat
    /\ Nobody \notin Requests \cup Approvers \cup Decisions

VARIABLES
    status,     \* approval_requests.status, "absent" before the row exists
    required,   \* required_approvals
    votes,      \* approval_votes: per request and approver the decision, or Nobody
    ballot,     \* castVote, per HTTP request
    executor,   \* between gate and operation, or within markExecuted, per caller
    ops,        \* privileged operations carried out under the request
    crashes

approvalVars == <<status, required, votes, ballot, executor, ops, crashes>>

NoBallot == [pc |-> "idle", req |-> Nobody, by |-> Nobody, decision |-> Nobody]
NoExecution == [pc |-> "idle", req |-> Nobody]

BallotType == [pc: {"idle", "checked", "voted", "quorum", "reject"},
               req: Requests \cup {Nobody}, by: Approvers \cup {Nobody},
               decision: Decisions \cup {Nobody}]
ExecutionType == [pc: {"idle", "cleared", "marking"}, req: Requests \cup {Nobody}]

ApprovalsTypeOK ==
    /\ status \in [Requests -> {"absent", "pending", "approved", "rejected", "executed"}]
    /\ required \in [Requests -> Nat]
    /\ votes \in [Requests -> [Approvers -> Decisions \cup {Nobody}]]
    /\ ballot \in [Ballots -> BallotType]
    /\ executor \in [Executors -> ExecutionType]
    /\ ops \in [Requests -> Nat]
    /\ crashes \in Nat

ApprovalsInit ==
    /\ status = [r \in Requests |-> "absent"]
    /\ required = [r \in Requests |-> 0]
    /\ votes = [r \in Requests |-> [a \in Approvers |-> Nobody]]
    /\ ballot = [b \in Ballots |-> NoBallot]
    /\ executor = [x \in Executors |-> NoExecution]
    /\ ops = [r \in Requests |-> 0]
    /\ crashes = 0

-----------------------------------------------------------------------------
CreateApprovalRequest(r, m) ==
    /\ status[r] = "absent"
    /\ status' = [status EXCEPT ![r] = "pending"]
    /\ required' = [required EXCEPT ![r] = m]
    /\ UNCHANGED <<votes, ballot, executor, ops, crashes>>

(* castVote: SELECT ... FOR UPDATE, and the test that it is pending.       *)
CheckPending(b, r, a, d) ==
    /\ ballot[b].pc = "idle"
    /\ status[r] = "pending"
    /\ ballot' = [ballot EXCEPT ![b] = [pc |-> "checked", req |-> r, by |-> a, decision |-> d]]
    /\ UNCHANGED <<status, required, votes, executor, ops, crashes>>

(* A slip: a second vote replaces the first.                               *)
MayVote_Again(r, a) == TRUE

(* UNIQUE (request_id, approver_id)                                        *)
MayVote(r, a) == votes[r][a] = Nobody

(* castVote: the INSERT; a duplicate ends the request with an error.       *)
InsertVote(b) ==
    LET v == ballot[b]
    IN  /\ v.pc = "checked"
        /\ IF MayVote(v.req, v.by)
           THEN /\ votes' = [votes EXCEPT ![v.req][v.by] = v.decision]
                /\ ballot' = IF v.decision = "rejected"
                             THEN [ballot EXCEPT ![b].pc = "reject"]
                             ELSE [ballot EXCEPT ![b].pc = "voted"]
           ELSE /\ ballot' = [ballot EXCEPT ![b] = NoBallot]
                /\ UNCHANGED votes
        /\ UNCHANGED <<status, required, executor, ops, crashes>>

Approving(r) == {a \in Approvers : votes[r][a] = "approved"}

(* A slip: one more approval is asked for.                                 *)
QuorumReached_Strict(r) == Cardinality(Approving(r)) > required[r]

QuorumReached(r) == Cardinality(Approving(r)) >= required[r]

(* castVote: SELECT COUNT of the approvals, its own vote included.         *)
CountApprovals(b) ==
    /\ ballot[b].pc = "voted"
    /\ ballot' = IF QuorumReached(ballot[b].req)
                 THEN [ballot EXCEPT ![b].pc = "quorum"]
                 ELSE [ballot EXCEPT ![b] = NoBallot]
    /\ UNCHANGED <<status, required, votes, executor, ops, crashes>>

(* castVote: UPDATE ... SET status WHERE id, whatever the status is now.   *)
UpdateStatus(b) ==
    /\ ballot[b].pc \in {"quorum", "reject"}
    /\ status' = [status EXCEPT ![ballot[b].req] =
                    IF ballot[b].pc = "reject" THEN "rejected" ELSE "approved"]
    /\ ballot' = [ballot EXCEPT ![b] = NoBallot]
    /\ UNCHANGED <<required, votes, executor, ops, crashes>>

(* The server stops between two statements of castVote.                    *)
Crash(b) ==
    /\ ballot[b].pc # "idle" /\ crashes < MaxCrashes
    /\ crashes' = crashes + 1
    /\ ballot' = [ballot EXCEPT ![b] = NoBallot]
    /\ UNCHANGED <<status, required, votes, executor, ops>>

-----------------------------------------------------------------------------
(* A slip: any request that is not rejected opens the gate.                *)
Cleared_NotRejected(r) == status[r] \notin {"absent", "rejected"}

(* assertApproved                                                          *)
Cleared(r) == status[r] = "approved"

(* requireApproval / enableWorm: the gate is a read ...                    *)
PassGate(x, r) ==
    /\ executor[x].pc = "idle"
    /\ Cleared(r) /\ ops[r] < MaxOps
    /\ executor' = [executor EXCEPT ![x] = [pc |-> "cleared", req |-> r]]
    /\ UNCHANGED <<status, required, votes, ballot, ops, crashes>>

(* ... then the operation is carried out.                                  *)
Operate(x) ==
    /\ executor[x].pc = "cleared"
    /\ ops' = [ops EXCEPT ![executor[x].req] = @ + 1]
    /\ executor' = [executor EXCEPT ![x] = NoExecution]
    /\ UNCHANGED <<status, required, votes, ballot, crashes>>

(* markExecuted: SELECT ... FOR UPDATE, and the test that it is approved ..*)
CheckApproved(x, r) ==
    /\ executor[x].pc = "idle"
    /\ status[r] = "approved"
    /\ executor' = [executor EXCEPT ![x] = [pc |-> "marking", req |-> r]]
    /\ UNCHANGED <<status, required, votes, ballot, ops, crashes>>

(* ... and writes it.                                                      *)
WriteExecuted(x) ==
    /\ executor[x].pc = "marking"
    /\ status' = [status EXCEPT ![executor[x].req] = "executed"]
    /\ executor' = [executor EXCEPT ![x] = NoExecution]
    /\ UNCHANGED <<required, votes, ballot, ops, crashes>>

-----------------------------------------------------------------------------
BallotStep(b) == InsertVote(b) \/ CountApprovals(b) \/ UpdateStatus(b)

ExecutorStep(x) == Operate(x) \/ WriteExecuted(x)

ApprovalsNext ==
    \/ \E r \in Requests, m \in Quorums : CreateApprovalRequest(r, m)
    \/ \E b \in Ballots :
          \/ \E r \in Requests, a \in Approvers, d \in Decisions : CheckPending(b, r, a, d)
          \/ BallotStep(b)
          \/ Crash(b)
    \/ \E x \in Executors :
          \/ \E r \in Requests : PassGate(x, r) \/ CheckApproved(x, r)
          \/ ExecutorStep(x)

ApprovalsSpec == ApprovalsInit /\ [][ApprovalsNext]_approvalVars

-----------------------------------------------------------------------------
(* Behind every approval and every execution there are as many approving   *)
(* votes, of different approvers, as the request asked for, although the   *)
(* votes are counted without a lock and the status is written later.       *)
QuorumBehindApproval ==
    \A r \in Requests : status[r] \in {"approved", "executed"} =>
        Cardinality(Approving(r)) >= required[r]

(* No privileged operation is carried out without its quorum.              *)
OperationsHaveQuorum == \A r \in Requests : ops[r] > 0 => Cardinality(Approving(r)) >= required[r]

(* castVote, rule 4: however the votes interleave, once the last one has   *)
(* been handled a request with enough approvals is no longer pending.  A   *)
(* vote that is cut short between its INSERT and its UPDATE is lost.       *)
QuorumIsNoticed ==
    \A r \in Requests :
        /\ status[r] # "absent" /\ Cardinality(Approving(r)) >= required[r]
        /\ crashes = 0 /\ \A b \in Ballots : ballot[b].req # r
        => status[r] # "pending"

(* "A single 'rejected' vote from any approver transitions the request to  *)
(* 'rejected', permanently blocking execution."                            *)
RejectionIsPermanent ==
    [][\A r \in Requests : status[r] = "rejected" => status'[r] = "rejected"]_approvalVars

=============================================================================
