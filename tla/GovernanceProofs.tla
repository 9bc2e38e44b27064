--------------------------- MODULE GovernanceProofs ---------------------------
(***************************************************************************)
(* Proofs about Approvals, for any numbers of requests, approvers, votes   *)
(* in flight, callers and crashes, and about Retention and the legal holds *)
(* it runs with, for any tenants, officers, holds, requests in flight,     *)
(* records and scanners; then about what operators run, Provision and      *)
(* Rollout, for any number of dead runs, scripts, images and workers.      *)
(*                                                                         *)
(* Approvals first.  The statements of castVote interleave freely, so the  *)
(* invariant has to say what a vote that has counted and has not yet       *)
(* written knows: the quorum it counted still stands, because votes are    *)
(* only ever added.                                                        *)
(***************************************************************************)
EXTENDS Approvals, Retention, Provision, Rollout, FiniteSetTheorems, SequenceTheorems, TLAPS

HasQuorum(r) == Cardinality(Approving(r)) >= required[r]

(* A vote being handled is a vote of an approver on an existing request;   *)
(* when it is about to write 'approved' the quorum is there.               *)
BallotsInv ==
    \A b \in Ballots : ballot[b].pc # "idle" =>
        /\ ballot[b].req \in Requests /\ ballot[b].by \in Approvers
        /\ ballot[b].decision \in Decisions
        /\ status[ballot[b].req] # "absent"
        /\ ballot[b].pc = "quorum" => HasQuorum(ballot[b].req)

(* Whoever has passed the gate, or markExecuted's check, has a request     *)
(* with a quorum.                                                          *)
ExecutorsInv ==
    \A x \in Executors : executor[x].pc # "idle" =>
        /\ executor[x].req \in Requests
        /\ status[executor[x].req] # "absent"
        /\ HasQuorum(executor[x].req)

OpsInv == \A r \in Requests : ops[r] > 0 => status[r] # "absent" /\ HasQuorum(r)

StatusInv == \A r \in Requests : status[r] \in {"approved", "executed"} => HasQuorum(r)

QuorumInv == ApprovalsTypeOK /\ BallotsInv /\ ExecutorsInv /\ OpsInv /\ StatusInv

-----------------------------------------------------------------------------
(* A vote or an execution that moves to its next step keeps its type.      *)
LEMMA BallotTypes ==
    /\ NoBallot \in BallotType /\ NoExecution \in ExecutionType
    /\ \A v \in BallotType :
          /\ [v EXCEPT !.pc = "voted"] \in BallotType
          /\ [v EXCEPT !.pc = "quorum"] \in BallotType
          /\ [v EXCEPT !.pc = "reject"] \in BallotType
  BY DEF NoBallot, NoExecution, BallotType, ExecutionType

(* The type of every variable is kept by every step of the vote and        *)
(* execution routes.                                                       *)
LEMMA TypeStep == QuorumInv /\ [ApprovalsNext]_approvalVars => ApprovalsTypeOK'
<1> SUFFICES ASSUME QuorumInv, [ApprovalsNext]_approvalVars PROVE ApprovalsTypeOK'
  OBVIOUS
<1>a. ApprovalsTypeOK /\ BallotsInv /\ ExecutorsInv
  BY DEF QuorumInv
<1>1. ASSUME NEW r \in Requests, NEW m \in Quorums, CreateApprovalRequest(r, m) PROVE ApprovalsTypeOK'
  BY <1>a, <1>1, ApprovalsAssumption DEF ApprovalsTypeOK, CreateApprovalRequest
<1>2. ASSUME NEW b \in Ballots, NEW r \in Requests, NEW a \in Approvers, NEW d \in Decisions,
             CheckPending(b, r, a, d)
      PROVE  ApprovalsTypeOK'
  <2>1. [pc |-> "checked", req |-> r, by |-> a, decision |-> d] \in BallotType
    BY DEF BallotType
  <2> QED
    BY <1>a, <1>2, <2>1 DEF ApprovalsTypeOK, CheckPending
<1>3. ASSUME NEW b \in Ballots, InsertVote(b) PROVE ApprovalsTypeOK'
  <2>1. /\ ballot[b].req \in Requests /\ ballot[b].by \in Approvers
        /\ ballot[b].decision \in Decisions
    BY <1>a, <1>3 DEF BallotsInv, InsertVote
  <2>2. votes' \in [Requests -> [Approvers -> Decisions \cup {Nobody}]]
    <3>1. CASE votes' = votes
      BY <1>a, <3>1 DEF ApprovalsTypeOK
    <3>2. CASE votes' = [votes EXCEPT ![ballot[b].req][ballot[b].by] = ballot[b].decision]
      <4>1. votes[ballot[b].req] \in [Approvers -> Decisions \cup {Nobody}]
        BY <1>a, <2>1 DEF ApprovalsTypeOK
      <4> QED
        BY <1>a, <2>1, <3>2, <4>1 DEF ApprovalsTypeOK
    <3> QED
      BY <1>3, <3>1, <3>2 DEF InsertVote
  <2>3. \E v \in BallotType : ballot' = [ballot EXCEPT ![b] = v]
    <3>1. ballot[b] \in BallotType
      BY <1>a DEF ApprovalsTypeOK
    <3> QED
      BY <1>3, <3>1, BallotTypes DEF InsertVote
  <2> QED
    BY <1>a, <1>3, <2>2, <2>3 DEF ApprovalsTypeOK, InsertVote
<1>4. ASSUME NEW b \in Ballots, CountApprovals(b) PROVE ApprovalsTypeOK'
  <2>1. \E v \in BallotType : ballot' = [ballot EXCEPT ![b] = v]
    <3>1. ballot[b] \in BallotType
      BY <1>a DEF ApprovalsTypeOK
    <3> QED
      BY <1>4, <3>1, BallotTypes DEF CountApprovals
  <2> QED
    BY <1>a, <1>4, <2>1 DEF ApprovalsTypeOK, CountApprovals
<1>5. ASSUME NEW b \in Ballots, UpdateStatus(b) PROVE ApprovalsTypeOK'
  BY <1>a, <1>5, BallotTypes DEF ApprovalsTypeOK, UpdateStatus
<1>6. ASSUME NEW b \in Ballots, Crash(b) PROVE ApprovalsTypeOK'
  BY <1>a, <1>6, BallotTypes DEF ApprovalsTypeOK, Crash
<1>7. ASSUME NEW x \in Executors, NEW r \in Requests, PassGate(x, r) PROVE ApprovalsTypeOK'
  <2>1. [pc |-> "cleared", req |-> r] \in ExecutionType
    BY DEF ExecutionType
  <2> QED
    BY <1>a, <1>7, <2>1 DEF ApprovalsTypeOK, PassGate
<1>8. ASSUME NEW x \in Executors, Operate(x) PROVE ApprovalsTypeOK'
  <2>1. executor[x].req \in Requests
    BY <1>a, <1>8 DEF ExecutorsInv, Operate
  <2> QED
    BY <1>a, <1>8, <2>1, BallotTypes DEF ApprovalsTypeOK, Operate
<1>9. ASSUME NEW x \in Executors, NEW r \in Requests, CheckApproved(x, r) PROVE ApprovalsTypeOK'
  <2>1. [pc |-> "marking", req |-> r] \in ExecutionType
    BY DEF ExecutionType
  <2> QED
    BY <1>a, <1>9, <2>1 DEF ApprovalsTypeOK, CheckApproved
<1>10. ASSUME NEW x \in Executors, WriteExecuted(x) PROVE ApprovalsTypeOK'
  BY <1>a, <1>10, BallotTypes DEF ApprovalsTypeOK, WriteExecuted
<1>11. CASE UNCHANGED approvalVars
  BY <1>a, <1>11 DEF ApprovalsTypeOK, approvalVars
<1> QED
  BY <1>1, <1>2, <1>3, <1>4, <1>5, <1>6, <1>7, <1>8, <1>9, <1>10, <1>11
  DEF ApprovalsNext, BallotStep, ExecutorStep

(* No step takes an approval away: the INSERT adds a vote where there is   *)
(* none, and required_approvals changes only when the row is created.      *)
LEMMA QuorumStable ==
    ASSUME QuorumInv, [ApprovalsNext]_approvalVars, NEW r \in Requests, status[r] # "absent"
    PROVE  /\ status'[r] # "absent"
           /\ HasQuorum(r) => HasQuorum(r)'
<1>1. IsFiniteSet(Approving(r)) /\ IsFiniteSet(Approving(r)')
  <2>1. Approving(r) \subseteq Approvers /\ Approving(r)' \subseteq Approvers
    BY DEF Approving
  <2> QED
    BY <2>1, FS_Subset, ApprovalsAssumption
<1>2. required'[r] = required[r] /\ status'[r] # "absent"
  <2> USE DEF QuorumInv, ApprovalsTypeOK
  <2>1. ASSUME NEW s \in Requests, NEW m \in Quorums, CreateApprovalRequest(s, m)
        PROVE  required'[r] = required[r] /\ status'[r] # "absent"
    BY <2>1 DEF CreateApprovalRequest
  <2>2. ASSUME NEW b \in Ballots, UpdateStatus(b)
        PROVE  required'[r] = required[r] /\ status'[r] # "absent"
    BY <2>2 DEF UpdateStatus
  <2>3. ASSUME NEW x \in Executors, WriteExecuted(x)
        PROVE  required'[r] = required[r] /\ status'[r] # "absent"
    BY <2>3 DEF WriteExecuted
  <2> QED
    BY <2>1, <2>2, <2>3 DEF ApprovalsNext, BallotStep, ExecutorStep, CheckPending, InsertVote,
       CountApprovals, Crash, PassGate, Operate, CheckApproved, approvalVars
<1>3. Approving(r) \subseteq Approving(r)'
  <2>1. ASSUME NEW b \in Ballots, InsertVote(b) PROVE Approving(r) \subseteq Approving(r)'
    <3>1. ballot[b].req \in Requests /\ ballot[b].by \in Approvers
      BY <2>1 DEF QuorumInv, BallotsInv, InsertVote
    <3>2. votes \in [Requests -> [Approvers -> Decisions \cup {Nobody}]] /\ Nobody # "approved"
      BY ApprovalsAssumption, <3>1 DEF QuorumInv, ApprovalsTypeOK, Decisions
    <3>3. CASE votes' = votes
      BY <3>3 DEF Approving
    <3>4. CASE /\ votes[ballot[b].req][ballot[b].by] = Nobody
               /\ votes' = [votes EXCEPT ![ballot[b].req][ballot[b].by] = ballot[b].decision]
      <4> SUFFICES ASSUME NEW a \in Approvers, votes[r][a] = "approved"
                   PROVE  votes'[r][a] = "approved"
        BY DEF Approving
      <4> QED
        BY <3>1, <3>2, <3>4
    <3> QED
      BY <2>1, <3>3, <3>4 DEF InsertVote, MayVote
  <2>2. CASE UNCHANGED votes
    BY <2>2 DEF Approving
  <2> QED
    BY <2>1, <2>2 DEF ApprovalsNext, BallotStep, ExecutorStep, CreateApprovalRequest, CheckPending,
       CountApprovals, UpdateStatus, Crash, PassGate, Operate, CheckApproved, WriteExecuted, approvalVars
<1>4. Cardinality(Approving(r)) <= Cardinality(Approving(r)')
  BY <1>1, <1>3, FS_Subset
<1>5. /\ Cardinality(Approving(r)) \in Nat /\ Cardinality(Approving(r)') \in Nat
      /\ required[r] \in Nat
  BY <1>1, FS_CardinalityType DEF QuorumInv, ApprovalsTypeOK
<1> QED
  BY <1>2, <1>4, <1>5 DEF HasQuorum

(* There is no request, no vote and no caller to begin with. *)
LEMMA QuorumInit == ApprovalsInit => QuorumInv
  BY ApprovalsAssumption, BallotTypes
  DEF ApprovalsInit, QuorumInv, ApprovalsTypeOK, BallotsInv, ExecutorsInv, OpsInv, StatusInv, HasQuorum,
      NoBallot, NoExecution

(* A vote being handled moves by its own steps only; the quorum it has     *)
(* counted outlives the steps of the others.                               *)
LEMMA BallotsStep == QuorumInv /\ [ApprovalsNext]_approvalVars => BallotsInv'
<1> SUFFICES ASSUME QuorumInv, [ApprovalsNext]_approvalVars, NEW b \in Ballots, ballot'[b].pc # "idle"
             PROVE  /\ ballot'[b].req \in Requests /\ ballot'[b].by \in Approvers
                    /\ ballot'[b].decision \in Decisions
                    /\ status'[ballot'[b].req] # "absent"
                    /\ ballot'[b].pc = "quorum" => HasQuorum(ballot[b].req)'
  BY DEF BallotsInv
<1>a. ApprovalsTypeOK /\ BallotsInv
  BY DEF QuorumInv
<1>1. ASSUME ballot'[b] = ballot[b]
      PROVE  /\ ballot'[b].req \in Requests /\ ballot'[b].by \in Approvers
             /\ ballot'[b].decision \in Decisions
             /\ status'[ballot'[b].req] # "absent"
             /\ ballot'[b].pc = "quorum" => HasQuorum(ballot[b].req)'
  BY <1>a, <1>1, QuorumStable DEF BallotsInv
<1>2. ASSUME NEW r \in Requests, NEW a \in Approvers, NEW d \in Decisions,
             CheckPending(b, r, a, d)
      PROVE  /\ ballot'[b].req \in Requests /\ ballot'[b].by \in Approvers
             /\ ballot'[b].decision \in Decisions
             /\ status'[ballot'[b].req] # "absent"
             /\ ballot'[b].pc # "quorum"
  BY <1>a, <1>2 DEF ApprovalsTypeOK, CheckPending
<1>3. ASSUME \/ InsertVote(b) \/ CountApprovals(b)
      PROVE  /\ ballot[b].pc # "idle"
             /\ ballot'[b].req = ballot[b].req /\ ballot'[b].by = ballot[b].by
             /\ ballot'[b].decision = ballot[b].decision
             /\ ballot'[b].pc = "quorum" => HasQuorum(ballot[b].req)
  BY <1>a, <1>3 DEF ApprovalsTypeOK, BallotType, InsertVote, CountApprovals, NoBallot, HasQuorum, QuorumReached
<1>4. ASSUME \/ InsertVote(b) \/ CountApprovals(b)
      PROVE  /\ ballot'[b].req \in Requests /\ ballot'[b].by \in Approvers
             /\ ballot'[b].decision \in Decisions
             /\ status'[ballot'[b].req] # "absent"
             /\ ballot'[b].pc = "quorum" => HasQuorum(ballot[b].req)'
  <2>1. ballot[b].req \in Requests /\ status[ballot[b].req] # "absent"
    BY <1>a, <1>3, <1>4 DEF BallotsInv
  <2>2. ballot'[b].pc = "quorum" => HasQuorum(ballot[b].req)'
    BY <1>3, <1>4, <2>1, QuorumStable DEF HasQuorum, Approving
  <2>3. status'[ballot'[b].req] # "absent"
    BY <1>3, <1>4, <2>1, QuorumStable
  <2> QED
    BY <1>a, <1>3, <1>4, <2>1, <2>2, <2>3 DEF BallotsInv
<1>5. \/ ballot'[b] = ballot[b]
      \/ \E r \in Requests, a \in Approvers, d \in Decisions : CheckPending(b, r, a, d)
      \/ InsertVote(b) \/ CountApprovals(b)
  <2>1. ASSUME NEW c \in Ballots, UpdateStatus(c) \/ Crash(c)
        PROVE  ballot'[b] = ballot[b]
    BY <1>a, <2>1 DEF ApprovalsTypeOK, UpdateStatus, Crash, NoBallot
  <2>2. ASSUME NEW c \in Ballots, c # b,
               \/ \E r \in Requests, a \in Approvers, d \in Decisions : CheckPending(c, r, a, d)
               \/ InsertVote(c) \/ CountApprovals(c)
        PROVE  ballot'[b] = ballot[b]
    BY <1>a, <2>2 DEF ApprovalsTypeOK, CheckPending, InsertVote, CountApprovals
  <2>3. CASE UNCHANGED ballot
    BY <2>3
  <2> QED
    BY <2>1, <2>2, <2>3 DEF ApprovalsNext, BallotStep, ExecutorStep, CreateApprovalRequest, PassGate,
       Operate, CheckApproved, WriteExecuted, approvalVars
<1> QED
  BY <1>1, <1>2, <1>4, <1>5

(* A caller past a check read 'approved', and the quorum behind it stays.   *)
LEMMA ExecutorsStep == QuorumInv /\ [ApprovalsNext]_approvalVars => ExecutorsInv'
<1> SUFFICES ASSUME QuorumInv, [ApprovalsNext]_approvalVars, NEW x \in Executors, executor'[x].pc # "idle"
             PROVE  /\ executor'[x].req \in Requests
                    /\ status'[executor'[x].req] # "absent"
                    /\ HasQuorum(executor[x].req)'
  BY DEF ExecutorsInv
<1>a. ApprovalsTypeOK /\ ExecutorsInv /\ StatusInv
  BY DEF QuorumInv
<1>1. \/ \E r \in Requests : PassGate(x, r) \/ CheckApproved(x, r)
      \/ executor[x].pc # "idle" /\ executor'[x].req = executor[x].req
  <2>1. ASSUME NEW y \in Executors, NEW r \in Requests, y # x,
               PassGate(y, r) \/ CheckApproved(y, r)
        PROVE  executor'[x] = executor[x]
    BY <1>a, <2>1 DEF ApprovalsTypeOK, PassGate, CheckApproved
  <2>2. ASSUME NEW y \in Executors, ExecutorStep(y)
        PROVE  executor[x].pc # "idle" /\ executor'[x].req = executor[x].req
    BY <1>a, <2>2
    DEF ApprovalsTypeOK, ExecutionType, ExecutorStep, Operate, WriteExecuted, NoExecution
  <2>3. CASE UNCHANGED executor
    BY <2>3
  <2> QED
    BY <2>1, <2>2, <2>3 DEF ApprovalsNext, BallotStep, CreateApprovalRequest, CheckPending, InsertVote,
       CountApprovals, UpdateStatus, Crash, approvalVars
<1>2. \E r \in Requests : executor'[x].req = r /\ status[r] # "absent" /\ HasQuorum(r)
  <2>1. ASSUME NEW r \in Requests, PassGate(x, r) \/ CheckApproved(x, r)
        PROVE  executor'[x].req = r /\ status[r] # "absent" /\ HasQuorum(r)
    BY <1>a, <2>1 DEF ApprovalsTypeOK, PassGate, CheckApproved, Cleared, StatusInv
  <2> QED
    BY <1>a, <1>1, <2>1 DEF ExecutorsInv
<1>3. PICK r \in Requests : executor'[x].req = r /\ status[r] # "absent" /\ HasQuorum(r)
  BY <1>2
<1>4. status'[r] # "absent" /\ HasQuorum(r)'
  BY <1>3, QuorumStable
<1> QED
  BY <1>3, <1>4 DEF HasQuorum, Approving

(* An operation is counted for the request its caller passed the gate with.*)
LEMMA OpsStep == QuorumInv /\ [ApprovalsNext]_approvalVars => OpsInv'
<1> SUFFICES ASSUME QuorumInv, [ApprovalsNext]_approvalVars, NEW r \in Requests, ops'[r] > 0
             PROVE  (status[r] # "absent" /\ HasQuorum(r))'
  BY DEF OpsInv
<1>a. ApprovalsTypeOK /\ ExecutorsInv /\ OpsInv
  BY DEF QuorumInv
<1>1. ops'[r] = ops[r] \/ \E x \in Executors : executor[x].pc = "cleared" /\ executor[x].req = r
  BY <1>a DEF ApprovalsTypeOK, ApprovalsNext, BallotStep, ExecutorStep, CreateApprovalRequest, CheckPending,
     InsertVote, CountApprovals, UpdateStatus, Crash, PassGate, Operate, CheckApproved,
     WriteExecuted, approvalVars
<1>2. status[r] # "absent" /\ HasQuorum(r)
  BY <1>a, <1>1 DEF OpsInv, ExecutorsInv
<1> QED
  BY <1>2, QuorumStable

(* 'approved' is written by a vote that counted a quorum, 'executed' by a  *)
(* caller that read 'approved'.                                            *)
LEMMA StatusStep == QuorumInv /\ [ApprovalsNext]_approvalVars => StatusInv'
<1> SUFFICES ASSUME QuorumInv, [ApprovalsNext]_approvalVars, NEW r \in Requests,
                    status'[r] \in {"approved", "executed"}
             PROVE  HasQuorum(r)'
  BY DEF StatusInv
<1>a. ApprovalsTypeOK /\ BallotsInv /\ ExecutorsInv /\ StatusInv
  BY DEF QuorumInv
<1>1. \/ status'[r] = status[r]
      \/ \E b \in Ballots : ballot[b].pc = "quorum" /\ ballot[b].req = r
      \/ \E x \in Executors : executor[x].pc = "marking" /\ executor[x].req = r
  <2>1. ASSUME NEW s \in Requests, NEW m \in Quorums, CreateApprovalRequest(s, m)
        PROVE  status'[r] = status[r]
    BY <1>a, <2>1 DEF ApprovalsTypeOK, CreateApprovalRequest
  <2>2. ASSUME NEW b \in Ballots, UpdateStatus(b)
        PROVE  status'[r] = status[r] \/ (ballot[b].pc = "quorum" /\ ballot[b].req = r)
    BY <1>a, <2>2 DEF ApprovalsTypeOK, UpdateStatus
  <2>3. ASSUME NEW x \in Executors, WriteExecuted(x)
        PROVE  status'[r] = status[r] \/ (executor[x].pc = "marking" /\ executor[x].req = r)
    BY <1>a, <2>3 DEF ApprovalsTypeOK, WriteExecuted
  <2>4. CASE UNCHANGED status
    BY <2>4
  <2> QED
    BY <2>1, <2>2, <2>3, <2>4 DEF ApprovalsNext, BallotStep, ExecutorStep, CheckPending, InsertVote,
       CountApprovals, Crash, PassGate, Operate, CheckApproved, approvalVars
<1>2. status[r] # "absent" /\ HasQuorum(r)
  BY <1>a, <1>1 DEF BallotsInv, ExecutorsInv, StatusInv
<1> QED
  BY <1>2, QuorumStable

(* Every statement of a vote, a gate or an execution preserves QuorumInv. *)
LEMMA QuorumStep == QuorumInv /\ [ApprovalsNext]_approvalVars => QuorumInv'
  BY TypeStep, BallotsStep, ExecutorsStep, OpsStep, StatusStep DEF QuorumInv

-----------------------------------------------------------------------------
(* The routes keep every column and every in-flight record in its type.    *)
THEOREM VotesTypeCorrect == ApprovalsSpec => []ApprovalsTypeOK
<1>1. QuorumInv => ApprovalsTypeOK
  BY DEF QuorumInv
<1> QED
  BY <1>1, QuorumInit, QuorumStep, PTL DEF ApprovalsSpec

(* 'approved' and 'executed' always have their quorum of distinct          *)
(* approvers behind them, without any lock across castVote's statements.   *)
THEOREM QuorumCorrect == ApprovalsSpec => []QuorumBehindApproval
<1>1. QuorumInv => QuorumBehindApproval
  BY DEF QuorumInv, StatusInv, QuorumBehindApproval, HasQuorum
<1> QED
  BY <1>1, QuorumInit, QuorumStep, PTL DEF ApprovalsSpec

(* requireApproval lets no operation through that lacks its quorum.        *)
THEOREM OperationsCorrect == ApprovalsSpec => []OperationsHaveQuorum
<1>1. QuorumInv => OperationsHaveQuorum
  BY DEF QuorumInv, OpsInv, OperationsHaveQuorum, HasQuorum
<1> QED
  BY <1>1, QuorumInit, QuorumStep, PTL DEF ApprovalsSpec

-----------------------------------------------------------------------------
(* A pending request with enough approvals, of which no vote was cut       *)
(* short, has a vote that is still to count them or to write the outcome.  *)
Noticing(b, r) == ballot[b].req = r /\ ballot[b].pc \in {"voted", "quorum", "reject"}

NoticeInv ==
    /\ \A r \in Requests : status[r] = "absent" => Approving(r) = {}
    /\ \A r \in Requests : (status[r] = "pending" /\ crashes = 0 /\ HasQuorum(r))
                              => \E b \in Ballots : Noticing(b, r)

(* Approvals are counted over the votes and required_approvals only.       *)
LEMMA ApprovalsFrame ==
    ASSUME UNCHANGED <<votes, required>>, NEW r \in Requests
    PROVE  Approving(r)' = Approving(r) /\ (HasQuorum(r)' <=> HasQuorum(r))
  BY DEF Approving, HasQuorum

(* The vote that completes a quorum sees it when it counts, and the one    *)
(* that sees it writes: every statement of castVote keeps NoticeInv.       *)
LEMMA NoticeStep ==
    QuorumInv /\ QuorumInv' /\ NoticeInv /\ [ApprovalsNext]_approvalVars => NoticeInv'
<1> SUFFICES ASSUME QuorumInv, QuorumInv', NoticeInv, [ApprovalsNext]_approvalVars
             PROVE  NoticeInv'
  OBVIOUS
<1>a. ApprovalsTypeOK /\ BallotsInv
  BY DEF QuorumInv
<1>1. ASSUME NEW s \in Requests, NEW m \in Quorums, CreateApprovalRequest(s, m) PROVE NoticeInv'
  <2>1. \A r \in Requests : Approving(r)' = Approving(r)
    BY <1>1 DEF CreateApprovalRequest, Approving
  <2>2. /\ status[s] = "absent" /\ status'[s] = "pending" /\ required'[s] = m
        /\ \A r \in Requests \ {s} : status'[r] = status[r] /\ required'[r] = required[r]
    BY <1>a, <1>1 DEF CreateApprovalRequest, ApprovalsTypeOK
  <2>3. ~ HasQuorum(s)'
    <3>1. Cardinality(Approving(s)') = 0 /\ m >= 1
      BY <2>1, <2>2, FS_EmptySet, ApprovalsAssumption DEF NoticeInv
    <3> QED BY <2>2, <3>1, ApprovalsAssumption DEF HasQuorum
  <2>4. \A r \in Requests \ {s} : HasQuorum(r)' <=> HasQuorum(r)
    BY <2>1, <2>2 DEF HasQuorum
  <2> QED
    BY <1>1, <2>1, <2>2, <2>3, <2>4 DEF CreateApprovalRequest, NoticeInv, Noticing
<1>2. ASSUME NEW b \in Ballots, InsertVote(b) PROVE NoticeInv'
  <2> DEFINE v == ballot[b]
  <2>1. v.req \in Requests /\ v.by \in Approvers /\ status[v.req] # "absent" /\ v \in BallotType
    BY <1>a, <1>2 DEF BallotsInv, InsertVote, ApprovalsTypeOK
  <2>2. \A r \in Requests : v.req # r => Approving(r)' = Approving(r) /\ (HasQuorum(r)' <=> HasQuorum(r))
    <3>1. \A r \in Requests : v.req # r => votes'[r] = votes[r]
      BY <1>a, <1>2 DEF InsertVote, ApprovalsTypeOK
    <3> QED BY <1>2, <3>1 DEF InsertVote, Approving, HasQuorum
  <2>3. \A c \in Ballots \ {b} : ballot'[c] = ballot[c]
    BY <1>a, <1>2 DEF InsertVote, ApprovalsTypeOK
  <2>4. \A r \in Requests, c \in Ballots : Noticing(c, r) => c # b
    BY <1>2 DEF InsertVote, Noticing
  <2>5. \/ ballot'[b].req = v.req /\ ballot'[b].pc \in {"voted", "reject"}
        \/ UNCHANGED votes
    BY <1>a, <1>2, <2>1 DEF InsertVote, ApprovalsTypeOK, BallotType
  <2>6. CASE UNCHANGED votes
    BY <1>2, <2>3, <2>4, <2>6, ApprovalsFrame DEF InsertVote, NoticeInv, Noticing
  <2>7. CASE ballot'[b].req = v.req /\ ballot'[b].pc \in {"voted", "reject"}
    BY <1>2, <2>1, <2>2, <2>3, <2>4, <2>7 DEF InsertVote, NoticeInv, Noticing
  <2> QED BY <2>5, <2>6, <2>7
<1>3. ASSUME NEW b \in Ballots, CountApprovals(b) PROVE NoticeInv'
  <2>1. ballot[b].req \in Requests /\ ballot[b] \in BallotType
    BY <1>a, <1>3 DEF BallotsInv, CountApprovals, ApprovalsTypeOK
  <2>2. \A c \in Ballots \ {b} : ballot'[c] = ballot[c]
    BY <1>a, <1>3 DEF CountApprovals, ApprovalsTypeOK
  <2>3. \/ ballot'[b].req = ballot[b].req /\ ballot'[b].pc = "quorum"
        \/ ~ HasQuorum(ballot[b].req)
    BY <1>a, <1>3, <2>1 DEF CountApprovals, ApprovalsTypeOK, QuorumReached, HasQuorum, BallotType
  <2> QED
    BY <1>3, <2>1, <2>2, <2>3, ApprovalsFrame DEF CountApprovals, NoticeInv, Noticing
<1>4. ASSUME NEW b \in Ballots, UpdateStatus(b) PROVE NoticeInv'
  <2>1. /\ ballot[b].req \in Requests
        /\ status' = [status EXCEPT ![ballot[b].req] = status'[ballot[b].req]]
        /\ status'[ballot[b].req] \in {"rejected", "approved"}
    BY <1>a, <1>4 DEF BallotsInv, UpdateStatus, ApprovalsTypeOK
  <2>2. \A c \in Ballots \ {b} : ballot'[c] = ballot[c]
    BY <1>a, <1>4 DEF UpdateStatus, ApprovalsTypeOK
  <2>3. \A r \in Requests : r # ballot[b].req => status'[r] = status[r]
    BY <1>a, <2>1 DEF ApprovalsTypeOK
  <2> QED
    BY <1>4, <2>1, <2>2, <2>3, ApprovalsFrame DEF UpdateStatus, NoticeInv, Noticing
<1>5. ASSUME NEW b \in Ballots, Crash(b) PROVE NoticeInv'
  <2>1. crashes' # 0
    BY <1>a, <1>5 DEF Crash, ApprovalsTypeOK
  <2> QED BY <1>5, <2>1, ApprovalsFrame DEF Crash, NoticeInv
<1>6. ASSUME NEW x \in Executors, NEW r \in Requests, PassGate(x, r) \/ CheckApproved(x, r)
      PROVE  NoticeInv'
  BY <1>6, ApprovalsFrame DEF PassGate, CheckApproved, NoticeInv, Noticing
<1>7. ASSUME NEW x \in Executors, Operate(x) PROVE NoticeInv'
  BY <1>7, ApprovalsFrame DEF Operate, NoticeInv, Noticing
<1>8. ASSUME NEW x \in Executors, WriteExecuted(x) PROVE NoticeInv'
  <2>1. executor[x].req \in Requests
    BY <1>8 DEF QuorumInv, ExecutorsInv, WriteExecuted
  <2> QED
    BY <1>a, <1>8, <2>1, ApprovalsFrame DEF WriteExecuted, NoticeInv, Noticing, ApprovalsTypeOK
<1>9. ASSUME NEW b \in Ballots, NEW r \in Requests, NEW a \in Approvers, NEW d \in Decisions,
             CheckPending(b, r, a, d)
      PROVE  NoticeInv'
  <2>1. \A c \in Ballots \ {b} : ballot'[c] = ballot[c]
    BY <1>a, <1>9 DEF CheckPending, ApprovalsTypeOK
  <2>2. ballot[b].pc = "idle"
    BY <1>9 DEF CheckPending
  <2> QED BY <1>9, <2>1, <2>2, ApprovalsFrame DEF CheckPending, NoticeInv, Noticing
<1>10. CASE UNCHANGED approvalVars
  BY <1>10, ApprovalsFrame DEF approvalVars, NoticeInv, Noticing
<1> QED
  BY <1>1, <1>2, <1>3, <1>4, <1>5, <1>6, <1>7, <1>8, <1>9, <1>10
  DEF ApprovalsNext, BallotStep, ExecutorStep

(* castVote, rule 4, for any number of votes in flight: a request with     *)
(* enough approvals whose votes have all been handled is not left pending, *)
(* unless the server stopped in the middle of a vote.                      *)
THEOREM NoticeCorrect == ApprovalsSpec => []QuorumIsNoticed
<1>1. ApprovalsInit => NoticeInv
  BY ApprovalsAssumption DEF ApprovalsInit, NoticeInv, Approving, Decisions
<1>2. NoticeInv => QuorumIsNoticed
  BY DEF NoticeInv, Noticing, QuorumIsNoticed, HasQuorum
<1> QED
  BY <1>1, <1>2, QuorumInit, QuorumStep, NoticeStep, PTL DEF ApprovalsSpec

-----------------------------------------------------------------------------
(* The inductive invariant of the holds.  A handler between two statements *)
(* acts on an existing removal request of its hold; when it is about to    *)
(* write the co-approval it is not the requester, and when it is about to  *)
(* lift the hold the co-approval is written, which nothing takes back: a   *)
(* rejection that overwrites the status leaves co_approved_by.             *)

RemovalsInv ==
    \A r \in RemovalIds :
        IF removals[r].status = "absent" THEN removals[r].co_approved_by = None
        ELSE removals[r].hold \in HoldIds

Deciding == {"approve", "lift", "reject", "restore"}

SessionOK(s) == session[s].pc # "idle" =>
    /\ session[s].by \in Officers /\ session[s].hold \in HoldIds
    /\ session[s].pc \in Deciding =>
          /\ session[s].removal \in RemovalIds
          /\ removals[session[s].removal].status # "absent"
          /\ removals[session[s].removal].hold = session[s].hold
    /\ session[s].pc = "approve" => removals[session[s].removal].requested_by # session[s].by
    /\ session[s].pc = "lift" => CoApproved(session[s].hold)

SessionsInv == \A s \in Sessions : SessionOK(s)

HoldInv == HoldTypeOK /\ RemovalsInv /\ SessionsInv /\ FourEyes

(* A row or a handler that takes its next step keeps its type.             *)
LEMMA RowTypes ==
    /\ NoSession \in SessionType
    /\ \A v \in HoldType :
          /\ [v EXCEPT !.status = "pending_removal"] \in HoldType
          /\ [v EXCEPT !.status = "active"] \in HoldType
          /\ [v EXCEPT !.status = "removed", !.removed_at = TRUE] \in HoldType
    /\ \A v \in RemovalType : [v EXCEPT !.status = "rejected"] \in RemovalType
    /\ \A v \in RemovalType, o \in Officers :
          [v EXCEPT !.status = "approved", !.co_approved_by = o] \in RemovalType
    /\ \A v \in SessionType :
          /\ [v EXCEPT !.pc = "insert"] \in SessionType
          /\ [v EXCEPT !.pc = "lift"] \in SessionType
          /\ [v EXCEPT !.pc = "restore"] \in SessionType
BY DEF NoSession, HoldType, RemovalType, SessionType

(* A statement of the legal hold routes keeps its tables in their types.   *)
LEMMA HoldTypeStep == HoldInv /\ HoldNext => HoldTypeOK'
<1> SUFFICES ASSUME HoldInv, HoldNext PROVE HoldTypeOK'
  OBVIOUS
<1>a. HoldTypeOK /\ SessionsInv
  BY DEF HoldInv
<1>1. ASSUME NEW h \in HoldIds, NEW t \in Tenants, PlaceLegalHold(h, t) PROVE HoldTypeOK'
  BY <1>a, <1>1 DEF PlaceLegalHold, HoldTypeOK, HoldType
<1>2. ASSUME NEW s \in Sessions, Handle(s) PROVE HoldTypeOK'
  <2>a. session[s] \in SessionType
    BY <1>a DEF HoldTypeOK
  <2>1. ASSUME NEW o \in Officers, NEW h \in HoldIds, CheckActive(s, o, h) PROVE HoldTypeOK'
    BY <1>a, <2>1 DEF CheckActive, HoldTypeOK, SessionType
  <2>2. ASSUME NEW o \in Officers, NEW r \in RemovalIds,
               CheckApprovable(s, o, r) \/ CheckRejectable(s, o, r)
        PROVE  HoldTypeOK'
    <3>1. removals[r].hold \in HoldIds \cup {None}
      BY <1>a DEF HoldTypeOK, RemovalType
    <3> QED BY <1>a, <2>2, <3>1 DEF CheckApprovable, CheckRejectable, HoldTypeOK, SessionType
  <2>3. CASE MarkPendingRemoval(s)
    <3>1. session[s].hold \in HoldIds /\ holds[session[s].hold] \in HoldType
      BY <1>a, <2>3 DEF MarkPendingRemoval, SessionsInv, SessionOK, HoldTypeOK
    <3>2. holds' \in [HoldIds -> HoldType]
      BY <1>a, <2>3, <3>1, RowTypes DEF MarkPendingRemoval, HoldTypeOK
    <3>3. session' \in [Sessions -> SessionType]
      BY <1>a, <2>a, <2>3, RowTypes DEF MarkPendingRemoval, HoldTypeOK
    <3> QED BY <1>a, <2>3, <3>2, <3>3 DEF MarkPendingRemoval, HoldTypeOK
  <2>4. ASSUME NEW r \in RemovalIds, InsertRemoval(s, r) PROVE HoldTypeOK'
    <3>1. [status |-> "pending", hold |-> session[s].hold, requested_by |-> session[s].by,
           co_approved_by |-> None] \in RemovalType
      BY <1>a, <2>4 DEF InsertRemoval, SessionsInv, SessionOK, RemovalType
    <3>2. removals' \in [RemovalIds -> RemovalType]
      BY <1>a, <2>4, <3>1 DEF InsertRemoval, HoldTypeOK
    <3>3. session' \in [Sessions -> SessionType]
      BY <1>a, <2>4, RowTypes DEF InsertRemoval, HoldTypeOK
    <3> QED BY <1>a, <2>4, <3>2, <3>3 DEF InsertRemoval, HoldTypeOK
  <2>5. CASE MarkApproved(s)
    <3>1. /\ session[s].removal \in RemovalIds /\ session[s].by \in Officers
          /\ removals[session[s].removal] \in RemovalType
      BY <1>a, <2>5 DEF MarkApproved, SessionsInv, SessionOK, HoldTypeOK, Deciding
    <3>a. [removals[session[s].removal] EXCEPT !.status = "approved", !.co_approved_by = session[s].by]
            \in RemovalType
      BY <3>1, RowTypes
    <3>2. removals' \in [RemovalIds -> RemovalType]
      BY <1>a, <2>5, <3>1, <3>a DEF MarkApproved, HoldTypeOK
    <3>3. session' \in [Sessions -> SessionType]
      BY <1>a, <2>a, <2>5, RowTypes DEF MarkApproved, HoldTypeOK
    <3> QED BY <1>a, <2>5, <3>2, <3>3 DEF MarkApproved, HoldTypeOK
  <2>6. CASE LiftHold(s)
    <3>1. session[s].hold \in HoldIds /\ holds[session[s].hold] \in HoldType
      BY <1>a, <2>6 DEF LiftHold, SessionsInv, SessionOK, HoldTypeOK
    <3>2. holds' \in [HoldIds -> HoldType]
      BY <1>a, <2>6, <3>1, RowTypes DEF LiftHold, HoldTypeOK
    <3>3. session' \in [Sessions -> SessionType]
      BY <1>a, <2>6, RowTypes DEF LiftHold, HoldTypeOK
    <3> QED BY <1>a, <2>6, <3>2, <3>3 DEF LiftHold, HoldTypeOK
  <2>7. CASE MarkRejected(s)
    <3>1. session[s].removal \in RemovalIds /\ removals[session[s].removal] \in RemovalType
      BY <1>a, <2>7 DEF MarkRejected, SessionsInv, SessionOK, HoldTypeOK, Deciding
    <3>2. removals' \in [RemovalIds -> RemovalType]
      BY <1>a, <2>7, <3>1, RowTypes DEF MarkRejected, HoldTypeOK
    <3>3. session' \in [Sessions -> SessionType]
      BY <1>a, <2>a, <2>7, RowTypes DEF MarkRejected, HoldTypeOK
    <3> QED BY <1>a, <2>7, <3>2, <3>3 DEF MarkRejected, HoldTypeOK
  <2>8. CASE RestoreHold(s)
    <3>1. session[s].hold \in HoldIds /\ holds[session[s].hold] \in HoldType
      BY <1>a, <2>8 DEF RestoreHold, SessionsInv, SessionOK, HoldTypeOK
    <3>2. holds' \in [HoldIds -> HoldType]
      BY <1>a, <2>8, <3>1, RowTypes DEF RestoreHold, HoldTypeOK
    <3>3. session' \in [Sessions -> SessionType]
      BY <1>a, <2>8, RowTypes DEF RestoreHold, HoldTypeOK
    <3> QED BY <1>a, <2>8, <3>2, <3>3 DEF RestoreHold, HoldTypeOK
  <2>9. CASE Interrupted(s)
    <3>1. session' \in [Sessions -> SessionType]
      BY <1>a, <2>9, RowTypes DEF Interrupted, HoldTypeOK
    <3> QED BY <1>a, <2>9, <3>1 DEF Interrupted, HoldTypeOK
  <2> QED BY <1>2, <2>1, <2>2, <2>3, <2>4, <2>5, <2>6, <2>7, <2>8, <2>9 DEF Handle
<1> QED BY <1>1, <1>2 DEF HoldNext

RecordsOK ==
    /\ record \in [Records -> RecordType] /\ policy \in [Tenants -> PolicyType]
    /\ worm \in [Tenants -> BOOLEAN] /\ scan \in [Scanners -> ScanType]

(* A record, a policy or a scan that takes its next step keeps its type.   *)
LEMMA RecordTypes ==
    /\ NoScan \in ScanType
    /\ [NoRecord EXCEPT !.state = "deleted"] \in RecordType
    /\ \A v \in RecordType : [v EXCEPT !.rev = 1] \in RecordType
    /\ \A v \in RecordType : v.age < MaxAge => [v EXCEPT !.age = v.age + 1] \in RecordType
    /\ \A p \in PolicyType, c \in Classes : [p EXCEPT !.class = c] \in PolicyType
    /\ \A c \in ScanType : NextRow(c) \in ScanType
    /\ \A c \in ScanType, e \in Records : [c EXCEPT !.batch = c.batch \ {e}] \in ScanType
    /\ \A c \in ScanType, e \in Records : [c EXCEPT !.pc = "deleting", !.at = e] \in ScanType
    /\ \A c \in ScanType, H \in SUBSET HoldIds : [c EXCEPT !.since = c.since \cup H] \in ScanType
<1>1. [NoRecord EXCEPT !.state = "deleted"] \in RecordType
  <2>1. NoRecord \in RecordType
    BY RetentionAssumption DEF NoRecord, RecordType
  <2>2. \A v \in RecordType : [v EXCEPT !.state = "deleted"] \in RecordType
    BY DEF RecordType
  <2> QED BY <2>1, <2>2
<1>2. \A v \in RecordType : [v EXCEPT !.rev = 1] \in RecordType
  BY DEF RecordType
<1>3. \A v \in RecordType : v.age < MaxAge => [v EXCEPT !.age = v.age + 1] \in RecordType
  BY RetentionAssumption DEF RecordType
<1>4. \A p \in PolicyType, c \in Classes : [p EXCEPT !.class = c] \in PolicyType
  BY DEF PolicyType
<1>5. NoScan \in ScanType /\ \A c \in ScanType : NextRow(c) \in ScanType
  BY DEF NoScan, NextRow, ScanType
<1>6. \A c \in ScanType, e \in Records : [c EXCEPT !.batch = c.batch \ {e}] \in ScanType
  BY DEF ScanType
<1>7. \A c \in ScanType, e \in Records : [c EXCEPT !.pc = "deleting", !.at = e] \in ScanType
  BY DEF ScanType
<1>8. \A c \in ScanType, H \in SUBSET HoldIds : [c EXCEPT !.since = c.since \cup H] \in ScanType
  BY DEF ScanType
<1> QED BY <1>1, <1>2, <1>3, <1>4, <1>5, <1>6, <1>7, <1>8

(* A step of the records' side keeps its tables and scans in their types.  *)
LEMMA RetentionTypeStep == TypeOK /\ [Next]_vars => RecordsOK'
<1> SUFFICES ASSUME TypeOK, [Next]_vars PROVE RecordsOK'
  OBVIOUS
<1>a. RecordsOK
  BY DEF TypeOK, RecordsOK
<1>1. CASE HoldStep
  <2>1. ASSUME NEW n \in Scanners
        PROVE  \A H \in SUBSET HoldIds : [scan[n] EXCEPT !.since = scan[n].since \cup H] \in ScanType
    <3>1. scan[n] \in ScanType
      BY <1>a DEF RecordsOK
    <3> QED BY <3>1, RecordTypes
  <2>2. ASSUME NEW n \in Scanners PROVE scan'[n] \in ScanType
    <3>1. scan[n] \in ScanType
      BY <1>a DEF RecordsOK
    <3> QED BY <1>1, <2>1, <3>1 DEF HoldStep
  <2>3. scan' \in [Scanners -> ScanType]
    BY <1>1, <2>2 DEF HoldStep
  <2> QED BY <1>a, <1>1, <2>3 DEF HoldStep, RecordsOK
<1>2. ASSUME NEW t \in Tenants, EnableWorm(t) PROVE RecordsOK'
  BY <1>a, <1>2 DEF EnableWorm, RecordsOK
<1>3. ASSUME NEW t \in Tenants, NEW c \in Classes, AssignRetentionPolicy(t, c) PROVE RecordsOK'
  <2>1. policy[t] \in PolicyType
    BY <1>a DEF RecordsOK
  <2> QED BY <1>a, <1>3, <2>1, RecordTypes DEF AssignRetentionPolicy, RecordsOK
<1>4. ASSUME NEW e \in Records, WriteWithRetention(e) PROVE RecordsOK'
  <2>1. policy[TenantOf[e]] \in PolicyType
    BY <1>a, RetentionAssumption DEF RecordsOK
  <2>2. [state |-> "stored", class |-> policy[TenantOf[e]].class,
         legal_hold |-> policy[TenantOf[e]].legal_hold_default, age |-> 0, rev |-> 0] \in RecordType
    BY <2>1, RetentionAssumption DEF RecordType, PolicyType
  <2> QED BY <1>a, <1>4, <2>2 DEF WriteWithRetention, RecordsOK
<1>5. ASSUME NEW e \in Records, UpdateRecord(e) PROVE RecordsOK'
  <2>1. record[e] \in RecordType
    BY <1>a DEF RecordsOK
  <2> QED BY <1>a, <1>5, <2>1, RecordTypes DEF UpdateRecord, RecordsOK
<1>6. CASE DayPasses
  <2>1. ASSUME NEW e \in Records PROVE record'[e] \in RecordType
    <3>1. record[e] \in RecordType
      BY <1>a DEF RecordsOK
    <3> QED BY <1>6, <3>1, RecordTypes DEF DayPasses
  <2>2. record' \in [Records -> RecordType]
    BY <1>6, <2>1 DEF DayPasses
  <2> QED BY <1>a, <1>6, <2>2 DEF DayPasses, RecordsOK
<1>7. ASSUME NEW n \in Scanners, ScanStep(n) \/ DeleteFails(n) \/ Restart(n) PROVE RecordsOK'
  <2>a. scan[n] \in ScanType
    BY <1>a DEF RecordsOK
  <2>1. CASE StartScan(n)
    <3>1. ASSUME NEW B \in Batches
          PROVE  [pc |-> "scanning", batch |-> B, at |-> None, since |-> {}] \in ScanType
      BY <3>1 DEF Batches, ScanType
    <3> QED BY <1>a, <2>1, <3>1 DEF StartScan, RecordsOK
  <2>2. CASE FinishScan(n)
    BY <1>a, <2>2, RecordTypes DEF FinishScan, RecordsOK
  <2>3. ASSUME NEW e \in Records, CheckDeletable(n, e) PROVE RecordsOK'
    <3> DEFINE c == [scan[n] EXCEPT !.batch = scan[n].batch \ {e}]
    <3>1. c \in ScanType
      BY <2>a, RecordTypes
    <3>2. NextRow(c) \in ScanType /\ [c EXCEPT !.pc = "deleting", !.at = e] \in ScanType
      BY <3>1, RecordTypes
    <3>3. scan' = [scan EXCEPT ![n] = NextRow(c)]
          \/ scan' = [scan EXCEPT ![n] = [c EXCEPT !.pc = "deleting", !.at = e]]
      BY <2>3 DEF CheckDeletable
    <3> HIDE DEF c
    <3> QED BY <1>a, <2>3, <3>2, <3>3 DEF CheckDeletable, RecordsOK
  <2>4. CASE DeleteRecord(n)
    <3>1. record' \in [Records -> RecordType]
      BY <1>a, <2>4, RecordTypes DEF DeleteRecord, RecordsOK
    <3>2. scan' \in [Scanners -> ScanType]
      BY <1>a, <2>a, <2>4, RecordTypes DEF DeleteRecord, RecordsOK
    <3> QED BY <1>a, <2>4, <3>1, <3>2 DEF DeleteRecord, RecordsOK
  <2>5. CASE DeleteFails(n)
    BY <1>a, <2>a, <2>5, RecordTypes DEF DeleteFails, RecordsOK
  <2>6. CASE Restart(n)
    BY <1>a, <2>6, RecordTypes DEF Restart, RecordsOK
  <2> QED BY <1>7, <2>1, <2>2, <2>3, <2>4, <2>5, <2>6 DEF ScanStep
<1>8. CASE UNCHANGED vars
  BY <1>a, <1>8 DEF vars, retentionVars, RecordsOK
<1> QED BY <1>1, <1>2, <1>3, <1>4, <1>5, <1>6, <1>7, <1>8 DEF Next

(* A step of the records' side leaves the holds alone, but for the count   *)
(* of what was cut short.                                                  *)
LEMMA HoldsApart ==
    ASSUME interrupted \in Nat, [Next]_vars
    PROVE  HoldNext \/ (UNCHANGED <<holds, removals, session>> /\ interrupted' \in Nat)
<1>1. CASE HoldStep
  BY <1>1 DEF HoldStep
<1>2. CASE \E t \in Tenants : EnableWorm(t) \/ \E c \in Classes : AssignRetentionPolicy(t, c)
  BY <1>2 DEF EnableWorm, AssignRetentionPolicy, holdVars
<1>3. CASE \E e \in Records : WriteWithRetention(e) \/ UpdateRecord(e)
  BY <1>3 DEF WriteWithRetention, UpdateRecord, holdVars
<1>4. CASE DayPasses \/ UNCHANGED vars
  BY <1>4 DEF DayPasses, vars, holdVars
<1>5. ASSUME NEW n \in Scanners, ScanStep(n) \/ DeleteFails(n) \/ Restart(n)
      PROVE  UNCHANGED <<holds, removals, session>> /\ interrupted' \in Nat
  <2>1. CASE StartScan(n) \/ FinishScan(n)
    BY <2>1 DEF StartScan, FinishScan, holdVars
  <2>2. CASE \E e \in Records : CheckDeletable(n, e)
    BY <2>2 DEF CheckDeletable, holdVars
  <2>3. CASE DeleteRecord(n) \/ DeleteFails(n)
    BY <2>3 DEF DeleteRecord, DeleteFails, holdVars
  <2>4. CASE Restart(n)
    BY <2>4 DEF Restart
  <2> QED BY <1>5, <2>1, <2>2, <2>3, <2>4 DEF ScanStep
<1> QED BY <1>1, <1>2, <1>3, <1>4, <1>5 DEF Next

-----------------------------------------------------------------------------
(* Four eyes.                                                              *)

(* A co-approval, once written, stays, and so does a removal request.      *)
LEMMA RemovalsGrow ==
    ASSUME HoldInv, HoldNext
    PROVE  /\ \A r \in RemovalIds : removals[r].status # "absent" =>
                  /\ removals'[r].status # "absent"
                  /\ removals'[r].hold = removals[r].hold
                  /\ removals'[r].requested_by = removals[r].requested_by
           /\ \A h \in HoldIds : CoApproved(h) => CoApproved(h)'
           /\ RemovalsInv'
<1>a. HoldTypeOK /\ RemovalsInv /\ SessionsInv
  BY DEF HoldInv
<1>1. CASE removals' = removals
  BY <1>a, <1>1 DEF RemovalsInv, CoApproved
<1>2. ASSUME NEW s \in Sessions, NEW r \in RemovalIds, InsertRemoval(s, r), removals' # removals
      PROVE  /\ removals[r].status = "absent" /\ session[s].hold \in HoldIds
             /\ removals' = [removals EXCEPT ![r] = [status |-> "pending", hold |-> session[s].hold,
                                requested_by |-> session[s].by, co_approved_by |-> None]]
  BY <1>a, <1>2 DEF InsertRemoval, FreeIds, SessionsInv, SessionOK
<1>3. CASE \E s \in Sessions, r \in RemovalIds : InsertRemoval(s, r) /\ removals' # removals
  <2>1. PICK s \in Sessions, r \in RemovalIds :
             /\ removals[r].status = "absent" /\ session[s].hold \in HoldIds
             /\ removals' = [removals EXCEPT ![r] = [status |-> "pending", hold |-> session[s].hold,
                                requested_by |-> session[s].by, co_approved_by |-> None]]
    BY <1>2, <1>3
  <2>2. removals[r].co_approved_by = None
    BY <1>a, <2>1 DEF RemovalsInv
  <2>3. \A q \in RemovalIds : q # r => removals'[q] = removals[q]
    BY <1>a, <2>1 DEF HoldTypeOK
  <2>4. removals'[r] = [status |-> "pending", hold |-> session[s].hold,
                       requested_by |-> session[s].by, co_approved_by |-> None]
    BY <1>a, <2>1 DEF HoldTypeOK
  <2>5. \A h \in HoldIds : CoApproved(h) => CoApproved(h)'
    BY <2>2, <2>3 DEF CoApproved
  <2>6. RemovalsInv'
    BY <1>a, <2>1, <2>3, <2>4 DEF RemovalsInv
  <2> QED BY <2>1, <2>3, <2>5, <2>6
<1>4. ASSUME NEW s \in Sessions, MarkApproved(s) \/ MarkRejected(s), removals' # removals
      PROVE  \E r \in RemovalIds :
                /\ removals[r].status # "absent"
                /\ removals[r].hold \in HoldIds
                /\ \/ removals' = [removals EXCEPT ![r] = [removals[r] EXCEPT !.status = "rejected"]]
                   \/ \E o \in Officers : /\ removals[r].requested_by # o
                                          /\ removals' = [removals EXCEPT ![r] =
                                                [removals[r] EXCEPT !.status = "approved", !.co_approved_by = o]]
  <2>1. /\ session[s].removal \in RemovalIds /\ session[s].by \in Officers
        /\ removals[session[s].removal].status # "absent"
        /\ removals[session[s].removal].hold \in HoldIds
        /\ session[s].pc = "approve" => removals[session[s].removal].requested_by # session[s].by
    BY <1>a, <1>4 DEF MarkApproved, MarkRejected, SessionsInv, SessionOK, Deciding
  <2>2. CASE MarkApproved(s)
    BY <1>4, <2>1, <2>2 DEF MarkApproved
  <2>3. CASE MarkRejected(s)
    BY <1>4, <2>1, <2>3 DEF MarkRejected
  <2> QED BY <1>4, <2>2, <2>3
<1>5. CASE \E s \in Sessions : (MarkApproved(s) \/ MarkRejected(s)) /\ removals' # removals
  <2>1. PICK r \in RemovalIds :
                /\ removals[r].status # "absent"
                /\ removals[r].hold \in HoldIds
                /\ \/ removals' = [removals EXCEPT ![r] = [removals[r] EXCEPT !.status = "rejected"]]
                   \/ \E o \in Officers : /\ removals[r].requested_by # o
                                          /\ removals' = [removals EXCEPT ![r] =
                                                [removals[r] EXCEPT !.status = "approved", !.co_approved_by = o]]
    BY <1>4, <1>5
  <2>2. removals[r] \in RemovalType
    BY <1>a DEF HoldTypeOK
  <2>3. \A q \in RemovalIds : q # r => removals'[q] = removals[q]
    BY <1>a, <2>1 DEF HoldTypeOK
  <2>4. /\ removals'[r].status # "absent"
        /\ removals'[r].hold = removals[r].hold
        /\ removals'[r].requested_by = removals[r].requested_by
        /\ removals'[r].co_approved_by = removals[r].co_approved_by
           \/ removals'[r].co_approved_by \notin {None, removals[r].requested_by}
    <3>1. CASE removals' = [removals EXCEPT ![r] = [removals[r] EXCEPT !.status = "rejected"]]
      BY <1>a, <2>2, <3>1 DEF HoldTypeOK, RemovalType
    <3>2. ASSUME NEW o \in Officers, removals[r].requested_by # o,
                 removals' = [removals EXCEPT ![r] =
                    [removals[r] EXCEPT !.status = "approved", !.co_approved_by = o]]
          PROVE  /\ removals'[r].status # "absent"
                 /\ removals'[r].hold = removals[r].hold
                 /\ removals'[r].requested_by = removals[r].requested_by
                 /\ removals'[r].co_approved_by \notin {None, removals[r].requested_by}
      BY <1>a, <2>2, <3>2, LegalHoldAssumption DEF HoldTypeOK, RemovalType
    <3> QED BY <2>1, <3>1, <3>2
  <2>5. \A h \in HoldIds : CoApproved(h) => CoApproved(h)'
    BY <2>3, <2>4 DEF CoApproved
  <2>6. RemovalsInv'
    BY <1>a, <2>1, <2>3, <2>4 DEF RemovalsInv
  <2> QED BY <2>3, <2>4, <2>5, <2>6
<1>6. \/ removals' = removals
      \/ \E s \in Sessions : (MarkApproved(s) \/ MarkRejected(s)) /\ removals' # removals
      \/ \E s \in Sessions, r \in RemovalIds : InsertRemoval(s, r) /\ removals' # removals
  BY DEF HoldNext, Handle, PlaceLegalHold, CheckActive, CheckApprovable, CheckRejectable, MarkPendingRemoval,
         LiftHold, RestoreHold, Interrupted
<1> QED BY <1>1, <1>3, <1>5, <1>6

(* What a handler between two statements knows stays true: for itself as   *)
(* it moves on, and for the others, whose removal requests only grow.      *)
LEMMA SessionsStep == HoldInv /\ HoldNext => SessionsInv'
<1> SUFFICES ASSUME HoldInv, HoldNext, NEW q \in Sessions PROVE SessionOK(q)'
  BY DEF SessionsInv
<1>a. HoldTypeOK /\ RemovalsInv /\ SessionOK(q) /\ session[q] \in SessionType
  BY DEF HoldInv, SessionsInv, HoldTypeOK
<1>b. /\ \A r \in RemovalIds : removals[r].status # "absent" =>
                  /\ removals'[r].status # "absent"
                  /\ removals'[r].hold = removals[r].hold
                  /\ removals'[r].requested_by = removals[r].requested_by
      /\ \A h \in HoldIds : CoApproved(h) => CoApproved(h)'
  BY RemovalsGrow
<1>1. CASE session'[q] = session[q]
  <2>1. CASE session[q].pc = "lift"
    <3>1. session[q].hold \in HoldIds /\ CoApproved(session[q].hold)
      BY <1>a, <2>1 DEF SessionOK
    <3>2. \E r \in RemovalIds : /\ removals'[r].hold = session[q].hold
                               /\ removals'[r].co_approved_by \notin {None, removals'[r].requested_by}
      BY <1>b, <3>1 DEF CoApproved
    <3> QED BY <1>a, <1>b, <1>1, <2>1, <3>2 DEF SessionOK, CoApproved, Deciding
  <2>2. CASE session[q].pc # "lift"
    BY <1>a, <1>b, <1>1, <2>2 DEF SessionOK, Deciding
  <2> QED BY <2>1, <2>2
<1>2. CASE session'[q].pc = "idle"
  BY <1>2 DEF SessionOK
<1>3. ASSUME NEW o \in Officers, NEW h \in HoldIds, CheckActive(q, o, h) PROVE SessionOK(q)'
  <2>1. session'[q] = [pc |-> "mark", by |-> o, hold |-> h, removal |-> None]
    BY <1>a, <1>3 DEF CheckActive, HoldTypeOK
  <2> QED BY <2>1 DEF SessionOK, Deciding
<1>4. ASSUME NEW o \in Officers, NEW r \in RemovalIds, CheckApprovable(q, o, r) PROVE SessionOK(q)'
  <2>1. session'[q] = [pc |-> "approve", by |-> o, hold |-> removals[r].hold, removal |-> r]
    BY <1>a, <1>4 DEF CheckApprovable, HoldTypeOK
  <2>2. removals[r].status # "absent" /\ removals[r].hold \in HoldIds
        /\ removals[r].requested_by # o /\ removals' = removals
    BY <1>a, <1>4 DEF CheckApprovable, MayCoApprove, RemovalsInv
  <2> QED BY <2>1, <2>2 DEF SessionOK, Deciding
<1>5. ASSUME NEW o \in Officers, NEW r \in RemovalIds, CheckRejectable(q, o, r) PROVE SessionOK(q)'
  <2>1. session'[q] = [pc |-> "reject", by |-> o, hold |-> removals[r].hold, removal |-> r]
    BY <1>a, <1>5 DEF CheckRejectable, HoldTypeOK
  <2>2. removals[r].status # "absent" /\ removals[r].hold \in HoldIds /\ removals' = removals
    BY <1>a, <1>5 DEF CheckRejectable, RemovalsInv
  <2> QED BY <2>1, <2>2 DEF SessionOK, Deciding
<1>6. CASE MarkPendingRemoval(q)
  <2>1. session'[q] = [session[q] EXCEPT !.pc = "insert"]
    BY <1>a, <1>6 DEF MarkPendingRemoval, HoldTypeOK
  <2>2. session[q].by \in Officers /\ session[q].hold \in HoldIds
    BY <1>a, <1>6 DEF MarkPendingRemoval, SessionOK
  <2>3. session'[q].pc = "insert" /\ session'[q].by = session[q].by /\ session'[q].hold = session[q].hold
    BY <1>a, <2>1 DEF SessionType
  <2> QED BY <2>2, <2>3 DEF SessionOK, Deciding
<1>7. ASSUME MarkApproved(q), session'[q].pc # "idle" PROVE SessionOK(q)'
  <2>1. /\ session'[q] = [session[q] EXCEPT !.pc = "lift"]
        /\ removals' = [removals EXCEPT ![session[q].removal] =
                           [@ EXCEPT !.status = "approved", !.co_approved_by = session[q].by]]
    BY <1>a, <1>7 DEF MarkApproved, HoldTypeOK, NoSession
  <2>2. /\ session[q].removal \in RemovalIds /\ session[q].by \in Officers
        /\ session[q].hold \in HoldIds
        /\ removals[session[q].removal].status # "absent"
        /\ removals[session[q].removal].hold = session[q].hold
        /\ removals[session[q].removal].requested_by # session[q].by
    BY <1>a, <1>7 DEF MarkApproved, SessionOK, Deciding
  <2>3. removals[session[q].removal] \in RemovalType
    BY <1>a, <2>2 DEF HoldTypeOK
  <2>4. /\ removals'[session[q].removal].hold = session[q].hold
        /\ removals'[session[q].removal].status # "absent"
        /\ removals'[session[q].removal].co_approved_by
              \notin {None, removals'[session[q].removal].requested_by}
    BY <1>a, <2>1, <2>2, <2>3, LegalHoldAssumption DEF HoldTypeOK, RemovalType
  <2>5. /\ session'[q].pc = "lift" /\ session'[q].by = session[q].by
        /\ session'[q].hold = session[q].hold /\ session'[q].removal = session[q].removal
    BY <1>a, <2>1 DEF SessionType
  <2> QED BY <2>2, <2>4, <2>5 DEF SessionOK, Deciding, CoApproved
<1>8. ASSUME MarkRejected(q), session'[q].pc # "idle" PROVE SessionOK(q)'
  <2>1. session'[q] = [session[q] EXCEPT !.pc = "restore"]
    BY <1>a, <1>8 DEF MarkRejected, HoldTypeOK, NoSession
  <2>2. /\ session[q].removal \in RemovalIds /\ session[q].by \in Officers
        /\ session[q].hold \in HoldIds
        /\ removals[session[q].removal].status # "absent"
        /\ removals[session[q].removal].hold = session[q].hold
    BY <1>a, <1>8 DEF MarkRejected, SessionOK, Deciding
  <2>3. /\ session'[q].pc = "restore" /\ session'[q].by = session[q].by
        /\ session'[q].hold = session[q].hold /\ session'[q].removal = session[q].removal
    BY <1>a, <2>1 DEF SessionType
  <2> QED BY <1>b, <2>2, <2>3 DEF SessionOK, Deciding
<1>9. ASSUME NEW s \in Sessions, Handle(s), s # q PROVE session'[q] = session[q]
  BY <1>a, <1>9 DEF Handle, CheckActive, CheckApprovable, CheckRejectable, MarkPendingRemoval, InsertRemoval,
     MarkApproved, LiftHold, MarkRejected, RestoreHold, Interrupted, HoldTypeOK
<1>10. ASSUME (\E r \in RemovalIds : InsertRemoval(q, r)) \/ LiftHold(q) \/ RestoreHold(q) \/ Interrupted(q)
       PROVE  session'[q].pc = "idle"
  BY <1>a, <1>10 DEF InsertRemoval, LiftHold, RestoreHold, Interrupted, NoSession, HoldTypeOK
<1>11. ASSUME NEW h \in HoldIds, NEW t \in Tenants, PlaceLegalHold(h, t) PROVE session'[q] = session[q]
  BY <1>11 DEF PlaceLegalHold
<1>12. CASE Handle(q)
  BY <1>2, <1>3, <1>4, <1>5, <1>6, <1>7, <1>8, <1>10, <1>12 DEF Handle
<1> QED BY <1>1, <1>9, <1>11, <1>12 DEF HoldNext

(* Only LiftHold writes 'removed' or removed_at, and it knows of the       *)
(* co-approval.                                                            *)
LEMMA FourEyesStep == HoldInv /\ HoldNext => FourEyes'
<1> SUFFICES ASSUME HoldInv, HoldNext, NEW h \in HoldIds,
                    holds'[h].status = "removed" \/ holds'[h].removed_at
             PROVE  CoApproved(h)'
  BY DEF FourEyes
<1>a. HoldTypeOK /\ SessionsInv /\ FourEyes /\ holds[h] \in HoldType
  BY DEF HoldInv, HoldTypeOK
<1>b. CoApproved(h) => CoApproved(h)'
  BY RemovalsGrow
<1>1. CASE holds[h].status = "removed" \/ holds[h].removed_at
  BY <1>a, <1>b, <1>1 DEF FourEyes
<1>2. CASE ~ (holds[h].status = "removed" \/ holds[h].removed_at)
  <2>1. ASSUME NEW g \in HoldIds, NEW t \in Tenants, PlaceLegalHold(g, t) PROVE FALSE
    BY <1>a, <1>2, <2>1 DEF PlaceLegalHold, HoldTypeOK
  <2>2. ASSUME NEW s \in Sessions, MarkPendingRemoval(s) \/ RestoreHold(s) PROVE FALSE
    <3>1. PICK st \in {"pending_removal", "active"} : holds' = [holds EXCEPT ![session[s].hold].status = st]
      BY <2>2 DEF MarkPendingRemoval, RestoreHold
    <3>2. holds'[h] = holds[h] \/ holds'[h] = [holds[h] EXCEPT !.status = st]
      BY <1>a, <3>1 DEF HoldTypeOK
    <3> QED BY <1>a, <1>2, <3>2 DEF HoldType
  <2>3. ASSUME NEW s \in Sessions, LiftHold(s) PROVE CoApproved(h)'
    <3>1. CASE session[s].hold = h
      BY <1>a, <1>b, <2>3, <3>1 DEF LiftHold, SessionsInv, SessionOK
    <3>2. CASE session[s].hold # h
      BY <1>a, <1>2, <2>3, <3>2 DEF LiftHold, HoldTypeOK
    <3> QED BY <3>1, <3>2
  <2>4. ASSUME holds' = holds PROVE FALSE
    BY <1>2, <2>4
  <2>5. holds' = holds
        \/ (\E g \in HoldIds, t \in Tenants : PlaceLegalHold(g, t))
        \/ (\E s \in Sessions : MarkPendingRemoval(s) \/ RestoreHold(s) \/ LiftHold(s))
    BY DEF HoldNext, Handle, CheckActive, CheckApprovable, CheckRejectable, InsertRemoval, MarkApproved,
           MarkRejected, Interrupted
  <2> QED BY <2>1, <2>2, <2>3, <2>4, <2>5
<1> QED BY <1>1, <1>2

-----------------------------------------------------------------------------
(* The scan.                                                               *)

(* What a row of a batch is known to be: it was eligible when the batch    *)
(* was read, and class and legal_hold do not change.                       *)
RowInv(e) ==
    /\ record[e].state # "absent"
    /\ record[e].state = "stored" => record[e].class \in DOMAIN Floors /\ ~ record[e].legal_hold

ScanInv ==
    \A n \in Scanners :
        /\ scan[n].pc = "deleting" => scan[n].at \in Records
        /\ \A e \in Records : e \in scan[n].batch \/ scan[n].at = e => RowInv(e)

(* All that can happen to a record in one step.                            *)
LEMMA RecordSteps ==
    ASSUME TypeOK, [Next]_vars, NEW e \in Records
    PROVE  \/ record'[e] = record[e]
           \/ /\ record[e].state = "stored" /\ record[e].age < MaxAge
              /\ record'[e] = [record[e] EXCEPT !.age = record[e].age + 1]
           \/ UpdateAllowed(e) /\ record'[e] = [record[e] EXCEPT !.rev = 1]
           \/ record[e].state = "absent" /\ record'[e].state = "stored"
           \/ \E n \in Scanners : /\ scan[n].pc = "deleting" /\ scan[n].at = e
                                 /\ record[e].state = "stored" /\ ~ WithinFloor(e)
                                 /\ record'[e].state = "deleted"
<1>a. record \in [Records -> RecordType]
  BY DEF TypeOK
<1>1. CASE HoldStep
  BY <1>1 DEF HoldStep
<1>2. CASE \E t \in Tenants : EnableWorm(t) \/ \E c \in Classes : AssignRetentionPolicy(t, c)
  BY <1>2 DEF EnableWorm, AssignRetentionPolicy
<1>3. CASE \E f \in Records : WriteWithRetention(f)
  <2>1. PICK f \in Records : WriteWithRetention(f)
    BY <1>3
  <2>2. CASE e = f
    BY <1>a, <2>1, <2>2 DEF WriteWithRetention
  <2>3. CASE e # f
    BY <1>a, <2>1, <2>3 DEF WriteWithRetention
  <2> QED BY <2>2, <2>3
<1>4. CASE \E f \in Records : UpdateRecord(f)
  <2>1. PICK f \in Records : UpdateRecord(f)
    BY <1>4
  <2>2. CASE e = f
    BY <1>a, <2>1, <2>2 DEF UpdateRecord
  <2>3. CASE e # f
    BY <1>a, <2>1, <2>3 DEF UpdateRecord
  <2> QED BY <2>2, <2>3
<1>5. CASE DayPasses
  BY <1>a, <1>5 DEF DayPasses
<1>6. ASSUME NEW n \in Scanners, DeleteRecord(n)
      PROVE  \/ record'[e] = record[e]
             \/ /\ scan[n].pc = "deleting" /\ scan[n].at = e
                /\ record[e].state = "stored" /\ ~ WithinFloor(e)
                /\ record'[e].state = "deleted"
  BY <1>a, <1>6 DEF DeleteRecord, NoRecord
<1>7. CASE \E n \in Scanners : StartScan(n) \/ FinishScan(n) \/ DeleteFails(n) \/ Restart(n)
  BY <1>7 DEF StartScan, FinishScan, DeleteFails, Restart
<1>8. CASE \E n \in Scanners, f \in Records : CheckDeletable(n, f)
  BY <1>8 DEF CheckDeletable
<1>9. CASE UNCHANGED vars
  BY <1>9 DEF vars, retentionVars
<1> QED BY <1>1, <1>2, <1>3, <1>4, <1>5, <1>6, <1>7, <1>8, <1>9 DEF Next, ScanStep

(* All that can happen to a scan in one step: the holds change under it,   *)
(* nothing, it turns to another row or starts or ends, or it finds a row   *)
(* that nothing blocks.                                                    *)
Found(n, e) ==
    /\ e \in scan[n].batch /\ record[e].state = "stored" /\ ~ Blocked(e)
    /\ scan'[n].pc = "deleting" /\ scan'[n].at = e /\ scan'[n].batch \subseteq scan[n].batch
    /\ UNCHANGED <<holds, record>>

TurnsAway(n) ==
    /\ scan'[n].pc # "deleting" /\ scan'[n].at = None
    /\ \/ scan'[n].batch \subseteq scan[n].batch
       \/ scan'[n].batch \subseteq {e \in Records : Eligible(e)} /\ record' = record

(* All that can happen to a scan in one step.                              *)
LEMMA ScanSteps ==
    ASSUME TypeOK, [Next]_vars, NEW n \in Scanners
    PROVE  \/ HoldStep
           \/ scan'[n] = scan[n] /\ holds' = holds
           \/ TurnsAway(n)
           \/ \E e \in Records : Found(n, e)
<1>a. scan \in [Scanners -> ScanType]
  BY DEF TypeOK
<1>1. CASE \E t \in Tenants : EnableWorm(t) \/ \E c \in Classes : AssignRetentionPolicy(t, c)
  BY <1>1 DEF EnableWorm, AssignRetentionPolicy, holdVars
<1>2. CASE \E e \in Records : WriteWithRetention(e) \/ UpdateRecord(e)
  BY <1>2 DEF WriteWithRetention, UpdateRecord, holdVars
<1>3. CASE DayPasses \/ UNCHANGED vars
  BY <1>3 DEF DayPasses, vars, retentionVars, holdVars
<1>4. ASSUME NEW m \in Scanners, ScanStep(m) \/ DeleteFails(m) \/ Restart(m)
      PROVE  \/ scan'[n] = scan[n] /\ holds' = holds
             \/ TurnsAway(n)
             \/ \E e \in Records : Found(n, e)
  <2>b. holds' = holds /\ (m # n => scan'[n] = scan[n])
    <3>1. CASE StartScan(m) \/ FinishScan(m)
      BY <1>a, <3>1 DEF StartScan, FinishScan, holdVars
    <3>2. CASE \E e \in Records : CheckDeletable(m, e)
      BY <1>a, <3>2 DEF CheckDeletable, holdVars
    <3>3. CASE DeleteRecord(m) \/ DeleteFails(m)
      BY <1>a, <3>3 DEF DeleteRecord, DeleteFails, holdVars
    <3>4. CASE Restart(m)
      BY <1>a, <3>4 DEF Restart
    <3> QED BY <1>4, <3>1, <3>2, <3>3, <3>4 DEF ScanStep
  <2>c. scan[n] \in ScanType
    BY <1>a
  <2>d. \A c \in ScanType : /\ NextRow(c).pc = "scanning" /\ NextRow(c).at = None
                            /\ NextRow(c).batch = c.batch
    BY DEF NextRow, ScanType
  <2>1. CASE m # n
    BY <2>b, <2>1
  <2>2. CASE StartScan(n)
    BY <1>a, <2>2 DEF StartScan, Batches, TurnsAway
  <2>3. CASE FinishScan(n) \/ Restart(n)
    BY <1>a, <2>3 DEF FinishScan, Restart, NoScan, TurnsAway
  <2>4. CASE DeleteRecord(n) \/ DeleteFails(n)
    <3>1. scan'[n] = NextRow(scan[n])
      BY <1>a, <2>4 DEF DeleteRecord, DeleteFails
    <3> QED BY <2>c, <2>d, <3>1 DEF TurnsAway
  <2>5. ASSUME NEW e \in Records, CheckDeletable(n, e) PROVE TurnsAway(n) \/ Found(n, e)
    <3> DEFINE c == [scan[n] EXCEPT !.batch = scan[n].batch \ {e}]
    <3>1. c \in ScanType /\ c.batch = scan[n].batch \ {e}
      BY <2>c DEF ScanType
    <3>2. CASE record[e].state = "stored" /\ ~ Blocked(e)
      <4>1. scan'[n] = [c EXCEPT !.pc = "deleting", !.at = e]
        BY <1>a, <2>5, <3>2 DEF CheckDeletable
      <4>2. scan'[n].pc = "deleting" /\ scan'[n].at = e /\ scan'[n].batch = c.batch
        BY <3>1, <4>1 DEF ScanType
      <4> QED BY <2>5, <3>1, <3>2, <4>2 DEF CheckDeletable, Found, holdVars
    <3>3. CASE ~ (record[e].state = "stored" /\ ~ Blocked(e))
      <4>1. scan'[n] = NextRow(c)
        BY <1>a, <2>5, <3>3 DEF CheckDeletable
      <4> HIDE DEF c
      <4> QED BY <2>d, <3>1, <4>1 DEF TurnsAway
    <3> QED BY <3>2, <3>3
  <2> QED BY <1>4, <2>1, <2>2, <2>3, <2>4, <2>5 DEF ScanStep
<1> QED BY <1>1, <1>2, <1>3, <1>4 DEF Next

(* While the holds change, a scan keeps its place and notes the holds that *)
(* came into force.                                                        *)
LEMMA HoldStepScan ==
    ASSUME TypeOK, HoldStep, NEW n \in Scanners
    PROVE  /\ scan'[n].pc = scan[n].pc /\ scan'[n].at = scan[n].at /\ scan'[n].batch = scan[n].batch
           /\ scan[n].pc = "deleting" =>
                 scan'[n].since = scan[n].since \cup {h \in HoldIds : ~ Standing(h) /\ Standing(h)'}
<1>1. scan[n] \in ScanType
  BY DEF TypeOK
<1>2. scan'[n] = IF scan[n].pc # "deleting" THEN scan[n]
                 ELSE [scan[n] EXCEPT !.since =
                         scan[n].since \cup {h \in HoldIds : ~ Standing(h) /\ Standing(h)'}]
  BY DEF HoldStep
<1> QED BY <1>1, <1>2 DEF ScanType

(* A scan goes on over rows that were eligible when it read them, and what *)
(* made them so does not change while they are stored.                     *)
LEMMA ScanInvStep == TypeOK /\ ScanInv /\ [Next]_vars => ScanInv'
<1> SUFFICES ASSUME TypeOK, ScanInv, [Next]_vars, NEW n \in Scanners
             PROVE  /\ scan'[n].pc = "deleting" => scan'[n].at \in Records
                    /\ \A e \in Records : e \in scan'[n].batch \/ scan'[n].at = e => RowInv(e)'
  BY DEF ScanInv
<1>1. ASSUME NEW e \in Records, RowInv(e) PROVE RowInv(e)'
  <2>1. record[e] \in RecordType
    BY DEF TypeOK
  <2>2. record[e].state # "absent" /\ (record[e].state = "stored" =>
            record[e].class \in DOMAIN Floors /\ ~ record[e].legal_hold)
    BY <1>1 DEF RowInv
  <2>3. CASE /\ record'[e].state = record[e].state /\ record'[e].class = record[e].class
             /\ record'[e].legal_hold = record[e].legal_hold
    BY <2>2, <2>3 DEF RowInv
  <2>4. CASE record'[e].state = "deleted"
    BY <2>4 DEF RowInv
  <2>5. \A a : /\ [record[e] EXCEPT !.age = a].state = record[e].state
              /\ [record[e] EXCEPT !.age = a].class = record[e].class
              /\ [record[e] EXCEPT !.age = a].legal_hold = record[e].legal_hold
              /\ [record[e] EXCEPT !.rev = a].state = record[e].state
              /\ [record[e] EXCEPT !.rev = a].class = record[e].class
              /\ [record[e] EXCEPT !.rev = a].legal_hold = record[e].legal_hold
    BY <2>1 DEF RecordType
  <2>6. \/ record'[e] = record[e]
        \/ record'[e] = [record[e] EXCEPT !.age = record[e].age + 1]
        \/ record'[e] = [record[e] EXCEPT !.rev = 1]
        \/ record'[e].state = "deleted"
    BY <2>2, RecordSteps
  <2> QED BY ZenonT(60), <2>3, <2>4, <2>5, <2>6
<1>2. CASE HoldStep
  BY <1>1, <1>2, HoldStepScan DEF ScanInv
<1>3. CASE scan'[n] = scan[n]
  BY <1>1, <1>3 DEF ScanInv
<1>4. CASE TurnsAway(n)
  <2>1. CASE scan'[n].batch \subseteq scan[n].batch
    BY <1>1, <1>4, <2>1, RetentionAssumption DEF ScanInv, TurnsAway
  <2>2. CASE scan'[n].batch \subseteq {e \in Records : Eligible(e)} /\ record' = record
    BY <1>4, <2>2, RetentionAssumption DEF TurnsAway, Eligible, RowInv
  <2> QED BY <1>4, <2>1, <2>2 DEF TurnsAway
<1>5. ASSUME NEW e \in Records, Found(n, e)
      PROVE  /\ scan'[n].pc = "deleting" => scan'[n].at \in Records
             /\ \A f \in Records : f \in scan'[n].batch \/ scan'[n].at = f => RowInv(f)'
  BY <1>1, <1>5 DEF ScanInv, Found
<1> QED BY <1>2, <1>3, <1>4, <1>5, ScanSteps

(* A hold that stands before and after a step is on the same tenant.       *)
LEMMA HoldsKeepTenant ==
    ASSUME HoldTypeOK, HoldNext, NEW h \in HoldIds, Standing(h)
    PROVE  holds'[h].tenant = holds[h].tenant
<1>a. holds \in [HoldIds -> HoldType] /\ holds[h] \in HoldType
  BY DEF HoldTypeOK
<1>1. CASE holds' = holds
  BY <1>1
<1>2. ASSUME NEW g \in HoldIds, NEW t \in Tenants, PlaceLegalHold(g, t) PROVE holds'[h] = holds[h]
  BY <1>a, <1>2 DEF PlaceLegalHold, Standing
<1>3. ASSUME NEW s \in Sessions, MarkPendingRemoval(s) \/ RestoreHold(s)
      PROVE  holds'[h].tenant = holds[h].tenant
  <2>1. PICK st \in {"pending_removal", "active"} : holds' = [holds EXCEPT ![session[s].hold].status = st]
    BY <1>3 DEF MarkPendingRemoval, RestoreHold
  <2>2. holds'[h] = holds[h] \/ holds'[h] = [holds[h] EXCEPT !.status = st]
    BY <1>a, <2>1
  <2> QED BY <1>a, <2>2 DEF HoldType
<1>4. ASSUME NEW s \in Sessions, LiftHold(s) PROVE holds'[h].tenant = holds[h].tenant
  <2>1. holds'[h] = holds[h] \/ holds'[h] = [holds[h] EXCEPT !.status = "removed", !.removed_at = TRUE]
    BY <1>a, <1>4 DEF LiftHold
  <2> QED BY <1>a, <2>1 DEF HoldType
<1>5. holds' = holds
      \/ (\E g \in HoldIds, t \in Tenants : PlaceLegalHold(g, t))
      \/ (\E s \in Sessions : MarkPendingRemoval(s) \/ RestoreHold(s) \/ LiftHold(s))
  BY DEF HoldNext, Handle, CheckActive, CheckApprovable, CheckRejectable, InsertRemoval, MarkApproved,
         MarkRejected, Interrupted
<1> QED BY <1>1, <1>2, <1>3, <1>4, <1>5

(* The holds a scan did not see are those that came into force while it    *)
(* was about to delete.                                                    *)
LEMMA SeenStep == TypeOK /\ ScanInv /\ HoldsAreSeen /\ [Next]_vars => HoldsAreSeen'
<1> SUFFICES ASSUME TypeOK, ScanInv, HoldsAreSeen, [Next]_vars,
                    NEW n \in Scanners, scan'[n].pc = "deleting",
                    NEW h \in HoldIds, holds'[h].tenant = TenantOf[scan'[n].at], Standing(h)'
             PROVE  h \in scan'[n].since
  BY DEF HoldsAreSeen, Standing
<1>1. CASE HoldStep
  <2>1. CASE Standing(h)
    <3>1. holds'[h].tenant = holds[h].tenant
      BY <1>1, <2>1, HoldsKeepTenant DEF TypeOK, HoldStep
    <3> QED BY <1>1, <2>1, <3>1, HoldStepScan DEF HoldsAreSeen
  <2>2. CASE ~ Standing(h)
    BY <1>1, <2>2, HoldStepScan
  <2> QED BY <2>1, <2>2
<1>2. CASE scan'[n] = scan[n] /\ holds' = holds
  BY <1>2 DEF HoldsAreSeen, Standing
<1>3. CASE TurnsAway(n)
  BY <1>3 DEF TurnsAway
<1>4. ASSUME NEW e \in Records, Found(n, e) PROVE FALSE
  <2>1. HoldsInForce(TenantOf[e]) = {}
    BY <1>4 DEF Found, Blocked
  <2>2. holds[h].tenant = TenantOf[e] /\ Standing(h)
    BY <1>4 DEF Found, Standing
  <2>3. holds[h] \in HoldType
    BY DEF TypeOK, HoldTypeOK
  <2> QED BY <2>1, <2>2, <2>3 DEF HoldsInForce, InForce, Standing, HoldType
<1> QED BY <1>1, <1>2, <1>3, <1>4, ScanSteps

-----------------------------------------------------------------------------
(* The inductive invariant of the whole.                                   *)
Inv == TypeOK /\ HoldInv /\ ScanInv /\ HoldsAreSeen

(* Inv holds when the tables are empty.                                    *)
LEMMA InvInit == Init => Inv
<1> SUFFICES ASSUME Init PROVE Inv
  OBVIOUS
<1>1. HoldTypeOK
  BY DEF Init, HoldInit, HoldTypeOK, HoldType, RemovalType, SessionType, NoSession
<1>2. TypeOK
  <2>1. NoRecord \in RecordType /\ NoScan \in ScanType
    BY RetentionAssumption DEF NoRecord, RecordType, NoScan, ScanType
  <2> QED BY <1>1, <2>1 DEF Init, TypeOK
<1>3. HoldInv
  BY <1>1 DEF Init, HoldInit, HoldInv, RemovalsInv, SessionsInv, SessionOK, FourEyes, NoSession
<1>4. ScanInv /\ HoldsAreSeen
  BY RetentionAssumption DEF Init, ScanInv, HoldsAreSeen, NoScan
<1> QED BY <1>2, <1>3, <1>4 DEF Inv

(* Every statement, of the routes, the scans or the clock, preserves Inv.  *)
LEMMA InvStep == Inv /\ [Next]_vars => Inv'
<1> SUFFICES ASSUME Inv, [Next]_vars PROVE Inv'
  OBVIOUS
<1>a. TypeOK /\ HoldInv /\ ScanInv /\ HoldsAreSeen
  BY DEF Inv
<1>1. HoldInv'
  <2>1. CASE HoldNext
    BY <1>a, <2>1, HoldTypeStep, RemovalsGrow, SessionsStep, FourEyesStep DEF HoldInv
  <2>2. CASE UNCHANGED <<holds, removals, session>> /\ interrupted' \in Nat
    BY <1>a, <2>2 DEF HoldInv, HoldTypeOK, RemovalsInv, SessionsInv, SessionOK, FourEyes, CoApproved, Deciding
  <2> QED BY <1>a, <2>1, <2>2, HoldsApart DEF TypeOK, HoldTypeOK
<1>2. TypeOK'
  BY <1>a, <1>1, RetentionTypeStep DEF TypeOK, RecordsOK, HoldInv
<1> QED BY <1>a, <1>1, <1>2, ScanInvStep, SeenStep DEF Inv

(* Inv holds in every reachable state of the routes, the tables and the    *)
(* scans.                                                                  *)
LEMMA Invariance == Spec => []Inv
BY InvInit, InvStep, PTL DEF Spec

(* Every table, every handler between two statements of the legal hold     *)
(* routes and every scan keeps its type.                                   *)
THEOREM TypeCorrect == Spec => []TypeOK
BY Invariance, PTL DEF Inv

(* For any number of officers and requests in flight, approveHoldRemoval   *)
(* lifts a hold only after a second officer's co-approval is on record,    *)
(* although no lock outlives its statement.                                *)
THEOREM FourEyesCorrect == Spec => []FourEyes
BY Invariance, PTL DEF Inv, HoldInv

(* deleteEntityPastRetention never misses a hold that was in force when it *)
(* looked; only one placed since can be missed.                            *)
THEOREM HoldsAreSeenCorrect == Spec => []HoldsAreSeen
BY Invariance, PTL DEF Inv

(* No scan, on any number of servers, deletes a record before its floor, a *)
(* record of an unlisted class, or one under its own legal_hold.           *)
THEOREM FloorCorrect == Spec => DeletedPastFloor
<1> DEFINE Late(e) == record[e].state = "stored" /\ record'[e].state # "stored" =>
                        /\ record[e].class \in DOMAIN Floors
                        /\ record[e].age >= Floors[record[e].class]
                        /\ ~ record[e].legal_hold
<1>1. Inv /\ [Next]_vars => [\A e \in Records : Late(e)]_vars
  <2> SUFFICES ASSUME Inv, [Next]_vars, NEW e \in Records,
                      record[e].state = "stored", record'[e].state # "stored"
               PROVE  /\ record[e].class \in DOMAIN Floors
                      /\ record[e].age >= Floors[record[e].class]
                      /\ ~ record[e].legal_hold
    OBVIOUS
  <2>a. TypeOK /\ ScanInv /\ record[e] \in RecordType
    BY DEF Inv, TypeOK
  <2>1. PICK n \in Scanners : scan[n].at = e /\ ~ WithinFloor(e)
    BY <2>a, RecordSteps DEF RecordType
  <2>2. record[e].class \in DOMAIN Floors /\ ~ record[e].legal_hold
    BY <2>a, <2>1 DEF ScanInv, RowInv
  <2>3. record[e].age \in Nat /\ Floors[record[e].class] \in Nat
    BY <2>a, <2>2, RetentionAssumption DEF RecordType
  <2> QED BY <2>1, <2>2, <2>3 DEF WithinFloor
<1> QED BY <1>1, Invariance, PTL DEF Spec, DeletedPastFloor

(* Under WORM a record within its floor is immutable: guard_worm_update    *)
(* refuses every UPDATE and guard_retention_floor every DELETE.            *)
THEOREM WriteOnceCorrect == Spec => WriteOnce
<1> DEFINE Once(e) == /\ record[e].state = "stored" /\ worm[TenantOf[e]]
                      /\ record[e].class \in DOMAIN Floors /\ record[e].age < Floors[record[e].class]
                      => \E a \in 0..MaxAge : record'[e] = [record[e] EXCEPT !.age = a]
<1>1. Inv /\ [Next]_vars => [\A e \in Records : Once(e)]_vars
  <2> SUFFICES ASSUME Inv, [Next]_vars, NEW e \in Records,
                      record[e].state = "stored", worm[TenantOf[e]], WithinFloor(e)
               PROVE  \E a \in 0..MaxAge : record'[e] = [record[e] EXCEPT !.age = a]
    BY DEF WithinFloor
  <2>a. TypeOK /\ record[e] \in RecordType
    BY DEF Inv, TypeOK
  <2>1. CASE record'[e] = record[e]
    <3>1. record[e] = [record[e] EXCEPT !.age = record[e].age] /\ record[e].age \in 0..MaxAge
      BY <2>a DEF RecordType
    <3> QED BY <2>1, <3>1
  <2>2. CASE record[e].age < MaxAge /\ record'[e] = [record[e] EXCEPT !.age = record[e].age + 1]
    <3>1. record[e].age + 1 \in 0..MaxAge
      BY <2>a, <2>2, RetentionAssumption DEF RecordType
    <3> QED BY <2>2, <3>1
  <2> QED BY <2>a, <2>1, <2>2, RecordSteps DEF UpdateAllowed
<1> QED BY <1>1, Invariance, PTL DEF Spec, WriteOnce

-----------------------------------------------------------------------------
(***************************************************************************)
(* Proofs about Provision.  The script trusts what it finds, so the        *)
(* invariant is about the cloud: a resource is there only when what it     *)
(* needs is ready, and readiness is never lost.                            *)
(***************************************************************************)
(* What a script at p may assume of a cloud c: a database instance that is  *)
(* behind it is READY.                                                      *)
Steps == {"idle", "doctor", "ask", "create", "wait", "untilReady", "start", "ssh"}
ScriptInv(c, p) ==
    /\ p \in (0 .. 10) \X Steps
    /\ p[1] = 0 <=> p[2] = "idle"
    /\ p[2] \in {"start", "ssh"} => p[1] = 10
    /\ p[1] = 10 => c["instance"] = "ready"

(* A resource is there only when what it needs is ready.                    *)
CloudInv(c) ==
    /\ c \in [Resources -> Visible \cup {"absent", "accepted"}]
    /\ \A r \in Resources : c[r] # "absent" => \A n \in Needs[r] : c[n] = "ready"

(* While the doctor (unless skipped, k) guards a credential d that lacks a permission, no run   *)
(* gets past it.                                                            *)
GuardInv(k, d, p, m) == ~k /\ d # {} => m = {} /\ p[2] \in {"idle", "doctor"}

DoneInv(c, f) == f => c["vm"] = "ready" /\ c["sshRule"] = "ready" /\ c["instance"] = "ready"

ProvisionInv ==
    /\ CloudInv(cloud) /\ ScriptInv(cloud, at) /\ GuardInv(skipDoctor, denied, at, made) /\ DoneInv(cloud, done)
    /\ denied \subseteq Resources /\ made \subseteq Resources
    /\ deaths \in 0 .. MaxDeaths /\ cloudFails \in 0 .. MaxCloudFails
    /\ skipDoctor \in BOOLEAN /\ done \in BOOLEAN

(* The ten resources, by name and by place.                                 *)
LEMMA TheResources ==
    /\ Resources = {"services", "network", "subnetwork", "sshRule", "appRule", "psaRange", "psaConnection", "cluster", "instance", "vm"}
    /\ \A i \in 1 .. 10 : Order[i] \in Resources
    /\ Len(Order) = 10 /\ Order[9] = "instance" /\ Order[10] = "vm"
    /\ \A i \in 1 .. 10 : Order[i] = "instance" => i = 9
    /\ \A i \in 1 .. 10 : Order[i] = "vm" => i = 10
    /\ \A i \in 1 .. 10 : Order[i] \in {"services", "psaConnection"} => i # 9 /\ i # 10
<1>1. DOMAIN Order = 1 .. 10 /\ Len(Order) = 10
  BY DEF Order
<1>2. \A i \in 1 .. 10 : i \in {1, 2, 3, 4, 5, 6, 7, 8, 9, 10}
  OBVIOUS
<1>3. /\ Order[1] = "services" /\ Order[2] = "network" /\ Order[3] = "subnetwork" /\ Order[4] = "sshRule"
      /\ Order[5] = "appRule" /\ Order[6] = "psaRange" /\ Order[7] = "psaConnection" /\ Order[8] = "cluster"
      /\ Order[9] = "instance" /\ Order[10] = "vm"
  BY DEF Order
<1>4. Resources = {"services", "network", "subnetwork", "sshRule", "appRule", "psaRange", "psaConnection", "cluster", "instance", "vm"}
  BY <1>1, <1>2, <1>3 DEF Resources
<1> QED
  BY <1>1, <1>2, <1>3, <1>4

(* What each resource needs.                                                *)
LEMMA TheNeeds ==
    /\ Needs \in [Resources -> SUBSET Resources]
    /\ \A r \in Resources : r \notin Needs[r] /\ "vm" \notin Needs[r]
    /\ Needs["network"] = {"services"} /\ Needs["sshRule"] = {"network"}
    /\ Needs["psaRange"] = {"network"} /\ Needs["psaConnection"] = {"psaRange"} /\ Needs["cluster"] = {"psaConnection"}
    /\ Needs["instance"] = {"cluster"} /\ Needs["vm"] = {"subnetwork"}
  BY TheResources DEF Needs

(* A cloud in which one resource moves on, and none loses its readiness.    *)
LEMMA CloudMoves ==
    ASSUME NEW c, CloudInv(c), NEW r \in Resources, NEW s \in Visible \cup {"absent", "accepted"}, c[r] # "ready",
           s # "absent" => \A n \in Needs[r] : c[n] = "ready"
    PROVE  /\ CloudInv([c EXCEPT ![r] = s])
           /\ \A q \in Resources : c[q] = "ready" => [c EXCEPT ![r] = s][q] = "ready"
  BY TheNeeds DEF CloudInv

(* The script goes to the next resource.                                    *)
LEMMA Advances ==
    ASSUME ScriptInv(cloud, at), at[1] \in 1 .. 10, Advance, NEW c, \A q \in Resources : cloud[q] = "ready" => c[q] = "ready",
           at[1] = 9 => cloud["instance"] = "ready"
    PROVE  ScriptInv(c, at') /\ at'[2] \in {"ask", "ssh"}
<1>1. CASE at[1] = 10
  BY <1>1, TheResources DEF Advance, ScriptInv, Steps
<1>2. CASE at[1] # 10
  <2>1. at' = <<at[1] + 1, "ask">> /\ at[1] + 1 \in 2 .. 10
    BY <1>2, TheResources DEF Advance
  <2> QED
    BY <2>1, TheResources DEF ScriptInv, Steps
<1> QED
  BY <1>1, <1>2

(* A script that dies, or is thrown out, leaves what it made.               *)
LEMMA Thrown ==
    ASSUME ProvisionInv, Throw, UNCHANGED <<cloud, made, fixedVars>>
    PROVE  ProvisionInv'
  BY DEF ProvisionInv, ScriptInv, GuardInv, Throw, Idle, fixedVars, Steps

(* A step of the script that leaves the cloud alone and gets to a place it  *)
(* may be at.                                                               *)
LEMMA Moves ==
    ASSUME ProvisionInv, ScriptInv(cloud, at'), UNCHANGED <<cloud, made, fixedVars>>,
           ~skipDoctor /\ denied # {} => at'[2] \in {"idle", "doctor"}
    PROVE  ProvisionInv'
  BY DEF ProvisionInv, GuardInv, fixedVars

(* Where a script is that works on a resource.                              *)
LEMMA Working ==
    ASSUME ProvisionInv, at[2] \in {"ask", "create", "wait", "untilReady", "start", "ssh"}
    PROVE  /\ at[1] \in 1 .. 10 /\ Here \in Resources /\ (skipDoctor \/ denied = {})
           /\ \A s \in Steps \ {"idle", "start", "ssh"} : ScriptInv(cloud, <<at[1], s>>)
           /\ (at[1] = 9 <=> Here = "instance") /\ (at[1] = 10 <=> Here = "vm")
<1>1. at[1] \in 0 .. 10 /\ at[1] # 0
  BY DEF ProvisionInv, ScriptInv
<1>2. at[1] \in 1 .. 10
  BY <1>1
<1>3. skipDoctor \/ denied = {}
  BY DEF ProvisionInv, GuardInv
<1>4. \A s \in Steps \ {"idle", "start", "ssh"} : ScriptInv(cloud, <<at[1], s>>)
  BY <1>1 DEF ProvisionInv, ScriptInv
<1> QED
  BY <1>2, <1>3, <1>4, TheResources DEF Here

(* The steps of provision.ts keep the invariant.                            *)
LEMMA ScriptKeeps ==
    ASSUME ProvisionInv, main \/ ScriptStep \/ ProvisionFails
    PROVE  ProvisionInv'
<1>0. CloudInv(cloud) /\ ScriptInv(cloud, at) /\ GuardInv(skipDoctor, denied, at, made) /\ DoneInv(cloud, done)
  BY DEF ProvisionInv
<1>1. ASSUME Advance, at[2] \in {"ask", "create", "wait", "untilReady", "start"}, at[1] = 9 => cloud["instance"] = "ready"
      PROVE  ScriptInv(cloud, at') /\ (skipDoctor \/ denied = {})
  BY <1>0, <1>1, Working, Advances
<1>2. CASE main
  <2>1. at' = (IF skipDoctor THEN <<1, "ask">> ELSE <<1, "doctor">>) /\ UNCHANGED <<cloud, made, fixedVars>>
    BY <1>2 DEF main
  <2> QED
    BY <2>1, Moves DEF ScriptInv, Steps
<1>3. CASE runDoctor
  <2>1. CASE denied = {}
    BY <1>3, <2>1, Moves DEF runDoctor, ScriptInv, Steps
  <2>2. CASE denied # {}
    BY <1>3, <2>2, Thrown DEF runDoctor
  <2> QED
    BY <2>1, <2>2
<1>4. CASE AskResource
  <2>0. at[2] = "ask" /\ UNCHANGED <<cloud, made, fixedVars>>
    BY <1>4 DEF AskResource
  <2>1. CASE Goto("create") \/ Goto("untilReady")
    BY <2>0, <2>1, Working, Moves DEF Goto, Steps
  <2>2. CASE Goto("start") /\ Here = "vm"
    <3>1. at' = <<10, "start">> /\ (skipDoctor \/ denied = {}) /\ at[1] = 10
      BY <2>0, <2>2, Working DEF Goto
    <3>2. ScriptInv(cloud, at')
      BY <1>0, <3>1 DEF ScriptInv, Steps
    <3> QED
      BY <2>0, <3>1, <3>2, Moves
  <2>3. CASE Advance /\ ~(Here \in {"cluster", "instance"} /\ cloud[Here] # "ready")
    <3>1. at[1] = 9 => cloud["instance"] = "ready"
      BY <2>0, <2>3, Working
    <3> QED
      BY <1>1, <2>0, <2>3, <3>1, Moves
  <2> QED
    BY <1>4, <2>1, <2>2, <2>3 DEF AskResource
<1>5. CASE CreateResource
  <2>0. at[2] = "create" /\ UNCHANGED fixedVars
    BY <1>5 DEF CreateResource
  <2>1. CASE Throw /\ UNCHANGED <<cloud, made>>
    BY <2>0, <2>1, Thrown
  <2>2. CASE Goto("wait") /\ UNCHANGED <<cloud, made>>
    BY <2>0, <2>2, Working, Moves DEF Goto, Steps
  <2>3. CASE Here = "psaConnection" /\ Advance /\ UNCHANGED <<cloud, made>>
    <3>1. at[1] # 9
      BY <2>0, <2>3, Working
    <3> QED
      BY <1>1, <2>0, <2>3, <3>1, Moves
  <2>4. CASE /\ cloud[Here] = "absent" /\ \A n \in Needs[Here] : cloud[n] = "ready"
             /\ cloud' = [cloud EXCEPT ![Here] = "accepted"] /\ made' = made \cup {Here} /\ Goto("wait")
    <3>1. PICK r \in Resources : r = Here
      BY <2>0, Working
    <3>2. CloudInv(cloud') /\ \A q \in Resources : cloud[q] = "ready" => cloud'[q] = "ready"
      <4>1. /\ cloud[r] # "ready" /\ "accepted" \in Visible \cup {"absent", "accepted"}
            /\ \A n \in Needs[r] : cloud[n] = "ready"
        BY <2>4, <3>1
      <4>2. /\ CloudInv([cloud EXCEPT ![r] = "accepted"])
            /\ \A q \in Resources : cloud[q] = "ready" => [cloud EXCEPT ![r] = "accepted"][q] = "ready"
        BY <1>0, <4>1, CloudMoves
      <4> QED
        BY <2>4, <3>1, <4>2
    <3>3. ScriptInv(cloud, at') /\ (skipDoctor \/ denied = {})
      BY <2>0, <2>4, Working DEF Goto, Steps
    <3>4. ScriptInv(cloud', at') /\ DoneInv(cloud', done)
      BY <1>0, <3>2, <3>3, TheResources DEF ScriptInv, DoneInv
    <3>5. made' \subseteq Resources
      BY <2>4, <3>1 DEF ProvisionInv
    <3>6. GuardInv(skipDoctor, denied, at', made') /\ UNCHANGED <<denied, skipDoctor, deaths, done, cloudFails>>
      BY <2>0, <3>3 DEF GuardInv, fixedVars
    <3> QED
      BY <3>2, <3>4, <3>5, <3>6 DEF ProvisionInv, GuardInv
  <2> QED
    BY <1>5, <2>1, <2>2, <2>3, <2>4 DEF CreateResource, FailHere
<1>6. CASE waitForGoogleOperation
  <2>0. at[2] = "wait" /\ UNCHANGED <<cloud, made, fixedVars>>
    BY <1>6 DEF waitForGoogleOperation
  <2>1. CASE cloud[Here] = "ready" /\ Advance
    BY <1>1, <2>0, <2>1, Working, Moves
  <2>2. CASE Here = "psaConnection" /\ Advance
    <3>1. at[1] # 9
      BY <2>0, <2>2, Working
    <3> QED
      BY <1>1, <2>0, <2>2, <3>1, Moves
  <2> QED
    BY <1>6, <2>0, <2>1, <2>2, Thrown DEF waitForGoogleOperation, FailHere
<1>7. CASE waitUntilReady
  <2>0. at[2] = "untilReady" /\ UNCHANGED <<cloud, made, fixedVars>>
    BY <1>7 DEF waitUntilReady
  <2>1. CASE cloud[Here] = "ready" /\ Advance
    BY <1>1, <2>0, <2>1, Working, Moves
  <2> QED
    BY <1>7, <2>0, <2>1, Thrown DEF waitUntilReady
<1>8. CASE startVm
  <2>0. at[2] = "start" /\ at[1] = 10 /\ UNCHANGED <<made, fixedVars>>
    BY <1>0, <1>8 DEF startVm, ScriptInv
  <2>1. CASE cloud["vm"] = "stopped" /\ cloud' = [cloud EXCEPT !["vm"] = "ready"] /\ Advance
    <3>1. "vm" \in Resources
      BY TheResources
    <3>2. CloudInv(cloud') /\ \A q \in Resources : cloud[q] = "ready" => cloud'[q] = "ready"
      <4>1. \A n \in Needs["vm"] : cloud[n] = "ready"
        BY <1>0, <2>1, <3>1 DEF CloudInv
      <4>2. "ready" \in Visible \cup {"absent", "accepted"} /\ cloud["vm"] # "ready"
        BY <2>1 DEF Visible
      <4>3. /\ CloudInv([cloud EXCEPT !["vm"] = "ready"])
            /\ \A q \in Resources : cloud[q] = "ready" => [cloud EXCEPT !["vm"] = "ready"][q] = "ready"
        BY <1>0, <3>1, <4>1, <4>2, CloudMoves
      <4> QED
        BY <2>1, <4>3
    <3>3. ScriptInv(cloud', at') /\ (skipDoctor \/ denied = {}) /\ DoneInv(cloud', done)
      BY <1>0, <2>0, <2>1, <3>2, Working, Advances, TheResources DEF DoneInv
    <3> QED
      BY <2>0, <3>2, <3>3 DEF ProvisionInv, GuardInv, fixedVars
  <2>2. CASE Advance /\ UNCHANGED cloud
    BY <1>1, <2>0, <2>2, Moves
  <2> QED
    BY <1>8, <2>0, <2>1, <2>2, Thrown DEF startVm
<1>9. CASE waitForSsh
  <2>0. at[1] = 10 /\ Throw /\ UNCHANGED <<cloud, denied, skipDoctor, deaths, made, cloudFails>>
    BY <1>0, <1>9 DEF waitForSsh, ScriptInv
  <2>1. CASE cloud["vm"] = "ready" /\ cloud["sshRule"] = "ready" /\ done' = TRUE
    <3>1. ScriptInv(cloud, at') /\ DoneInv(cloud, done') /\ at'[2] = "idle"
      BY <1>0, <2>0, <2>1 DEF ScriptInv, DoneInv, Throw, Idle, Steps
    <3> QED
      BY <2>0, <2>1, <3>1 DEF ProvisionInv, GuardInv
  <2> QED
    BY <1>9, <2>0, <2>1, Thrown DEF waitForSsh, fixedVars
<1>10. CASE ProvisionFails
  <2>1. deaths' \in 0 .. MaxDeaths
    BY <1>10, BoundsAssumption DEF ProvisionFails, ProvisionInv
  <2>2. Throw /\ UNCHANGED <<cloud, denied, skipDoctor, done, made, cloudFails>>
    BY <1>10 DEF ProvisionFails
  <2> QED
    BY <2>1, <2>2 DEF ProvisionInv, ScriptInv, GuardInv, Throw, Idle, Steps
<1> QED
  BY <1>2, <1>3, <1>4, <1>5, <1>6, <1>7, <1>8, <1>9, <1>10 DEF ScriptStep

(* So do the cloud's.                                                       *)
LEMMA CloudKeeps ==
    ASSUME ProvisionInv, NEW r \in Resources, OperationAdvances(r) \/ OperationFails(r)
    PROVE  ProvisionInv'
<1>1. PICK s \in Visible \cup {"absent", "accepted"} : cloud' = [cloud EXCEPT ![r] = s]
  BY DEF OperationAdvances, OperationFails, Visible
<1>2. cloud[r] \in {"accepted", "creating"} /\ UNCHANGED <<denied, skipDoctor, deaths, at, done, made>>
  BY DEF OperationAdvances, OperationFails
<1>3. cloudFails' \in 0 .. MaxCloudFails
  BY BoundsAssumption DEF OperationAdvances, OperationFails, ProvisionInv
<1>4. \A n \in Needs[r] : cloud[n] = "ready"
  BY <1>2 DEF ProvisionInv, CloudInv
<1>5. CloudInv(cloud') /\ \A q \in Resources : cloud[q] = "ready" => cloud'[q] = "ready"
  <2>1. CloudInv(cloud) /\ cloud[r] # "ready"
    BY <1>2 DEF ProvisionInv
  <2>2. /\ CloudInv([cloud EXCEPT ![r] = s])
        /\ \A q \in Resources : cloud[q] = "ready" => [cloud EXCEPT ![r] = s][q] = "ready"
    BY <1>4, <2>1, CloudMoves
  <2> QED
    BY <1>1, <2>2
<1>6. ScriptInv(cloud', at) /\ DoneInv(cloud', done)
  BY <1>5, TheResources DEF ProvisionInv, ScriptInv, DoneInv
<1> QED
  BY <1>2, <1>3, <1>5, <1>6 DEF ProvisionInv, GuardInv

(* However many runs were killed or timed out before it and however often   *)
(* the cloud failed, a run of provision.ts that reports success leaves an   *)
(* environment that can be used, and the doctor keeps a credential that     *)
(* lacks a permission from creating anything.                               *)
THEOREM ProvisionCorrect == ProvisionSpec => [](ProvisionTypeOK /\ CompleteIsUsable /\ DoctorSparesProject)
<1>1. ProvisionInit => ProvisionInv
  <2> SUFFICES ASSUME ProvisionInit PROVE ProvisionInv
    OBVIOUS
  <2>1. CloudInv(cloud)
    BY TheNeeds, TheResources DEF ProvisionInit, CloudInv, Visible
  <2>2. ScriptInv(cloud, at) /\ GuardInv(skipDoctor, denied, at, made) /\ DoneInv(cloud, done)
    BY DEF ProvisionInit, ScriptInv, GuardInv, DoneInv, Idle, Steps
  <2>3. deaths \in 0 .. MaxDeaths /\ cloudFails \in 0 .. MaxCloudFails
    BY BoundsAssumption DEF ProvisionInit
  <2>4. denied \subseteq Resources /\ made \subseteq Resources
    BY TheResources DEF ProvisionInit
  <2>5. skipDoctor \in BOOLEAN /\ done \in BOOLEAN
    BY Zenon DEF ProvisionInit
  <2> QED
    BY <2>1, <2>2, <2>3, <2>4, <2>5 DEF ProvisionInv
<1>2. ProvisionInv /\ [ProvisionNext]_provisionVars => ProvisionInv'
  <2>1. ASSUME ProvisionInv, UNCHANGED provisionVars PROVE ProvisionInv'
    BY <2>1 DEF ProvisionInv, provisionVars, GuardInv
  <2> QED
    BY <2>1, ScriptKeeps, CloudKeeps DEF ProvisionNext
<1>3. ASSUME ProvisionInv PROVE ProvisionTypeOK /\ CompleteIsUsable /\ DoctorSparesProject
  <2>1. ProvisionTypeOK
    BY <1>3, TheResources DEF ProvisionInv, CloudInv, ScriptInv, ProvisionTypeOK, Steps
  <2>2. DoctorSparesProject
    BY <1>3 DEF ProvisionInv, GuardInv, DoctorSparesProject
  <2>3. ASSUME done PROVE \A r \in Resources \ {"appRule"} : cloud[r] = "ready"
    <3>1. cloud["vm"] = "ready" /\ cloud["sshRule"] = "ready" /\ cloud["instance"] = "ready"
      BY <1>3, <2>3 DEF ProvisionInv, DoneInv
    <3>2. \A r \in Resources : cloud[r] = "ready" => \A n \in Needs[r] : cloud[n] = "ready"
      BY <1>3 DEF ProvisionInv, CloudInv
    <3>3. cloud["subnetwork"] = "ready" /\ cloud["network"] = "ready" /\ cloud["cluster"] = "ready"
      BY <3>1, <3>2, TheNeeds, TheResources
    <3>4. cloud["services"] = "ready" /\ cloud["psaConnection"] = "ready"
      BY <3>2, <3>3, TheNeeds, TheResources
    <3>5. cloud["psaRange"] = "ready"
      BY <3>2, <3>4, TheNeeds, TheResources
    <3> QED
      BY <3>1, <3>3, <3>4, <3>5, TheResources
  <2> QED
    BY <2>1, <2>2, <2>3 DEF CompleteIsUsable
<1> QED
  BY <1>1, <1>2, <1>3, PTL DEF ProvisionSpec

-----------------------------------------------------------------------------
(***************************************************************************)
(* The login and the tokens the scripts share.  An estimate of a token's   *)
(* end is at most the margin late, and a login that waits is woken.        *)
(***************************************************************************)
(* An estimate is at most the margin late.                                  *)
Honest(t) == t.until <= t.dies + Margin

(* What the n-th slow-down leaves of the polling of a login.                *)
Paced(g, n) == \E k \in 0 .. MaxNow : g = Interval + k * Slower /\ k < n

(* At time n, with the file f, the caches c and the writes w and requests a *)
(* under way: a request in flight is young, a token being written lives.    *)
ScriptsInv(n, f, c, w, a) ==
    /\ f \in Token \cup {Empty, Torn} /\ (f \in Token => Honest(f))
    /\ c \in [Scripts -> Token \cup {Empty}] /\ \A p \in Scripts : c[p] \in Token => Honest(c[p])
    /\ w \in [Scripts -> Token \cup {Empty}]
    /\ \A p \in Scripts : w[p] \in Token => Honest(w[p]) /\ n < w[p].dies
    /\ a \in [Scripts -> -1 .. MaxNow]
    /\ \A p \in Scripts : a[p] # -1 => a[p] <= n /\ n <= a[p] + Latency

Logins == [flow : {"none", "device", "callback"}, step : {"none", "wait", "write"}, begun : Nat, next : Nat, gap : Nat]

(* A login l that waits wakes before its deadline, give or take one sleep.  *)
WaitInv(n, l) ==
    /\ l \in Logins
    /\ l.flow = "none" <=> l.step = "none"
    /\ l.begun <= n /\ (l.step = "none" => l.gap = 0)
    /\ l.step # "none" => Paced(l.gap, l.next)
    /\ l.step = "wait" /\ l.flow = "device" => n <= l.next /\ l.next <= l.begun + Timeout + l.gap
    /\ l.step = "wait" /\ l.flow = "callback" => n <= l.begun + Timeout

LoginInv ==
    /\ now \in 0 .. MaxNow /\ source \in [Scripts -> Sources] /\ handed # "dead" /\ consent \in {"none", "approved", "denied"}
    /\ ScriptsInv(now, file, cached, writing, asking) /\ WaitInv(now, login)

(* A token that is fresh by the scripts' estimate is alive.                 *)
LEMMA FreshIsAlive ==
    ASSUME LoginInv, NEW t \in Token \cup {Empty}, t \in Token => Honest(t), Fresh(t)
    PROVE  t \in Token /\ now < t.dies
  BY LatencyAssumption DEF LoginInv, Fresh, Honest, Token

(* One more slow-down.                                                      *)
LEMMA SlowDown ==
    ASSUME NEW g \in Nat, NEW n \in Nat, Paced(g, n), NEW m \in Nat, n <= m, m <= MaxNow,
           NEW h \in {g, g + Slower}
    PROVE  Paced(h, m + h) /\ h \in Nat /\ h >= Interval
<1>0. Interval \in Nat \ {0} /\ Slower \in Nat /\ MaxNow \in Nat
  BY LatencyAssumption
<1>1. PICK k \in 0 .. MaxNow : g = Interval + k * Slower /\ k < n
  BY DEF Paced
<1>2. k * Slower \in Nat /\ (k + 1) * Slower = k * Slower + Slower
  BY <1>0
<1>3. h \in Nat /\ h >= Interval
  BY <1>0, <1>1, <1>2
<1>4. CASE h = g
  <2>1. k < m + h
    BY <1>0, <1>1, <1>3
  <2> QED
    BY <1>1, <1>3, <1>4, <2>1 DEF Paced
<1>5. CASE h = g + Slower
  <2>1. k + 1 \in 0 .. MaxNow /\ k + 1 < m + h
    BY <1>0, <1>1, <1>3
  <2>2. h = Interval + (k + 1) * Slower
    BY <1>0, <1>1, <1>2, <1>5
  <2> QED
    BY <1>3, <2>1, <2>2 DEF Paced
<1> QED
  BY <1>4, <1>5

(* Scripts that ask for, share and write tokens.                            *)
LEMMA ScriptSteps ==
    ASSUME LoginInv, NEW p \in Scripts,
           \/ UseEnvironment(p) \/ UseCached(p) \/ UseFile(p) \/ Refreshed(p) \/ UseKey(p) \/ Minted(p)
           \/ persistLocalOAuthCredential(p) \/ ScriptEnds(p)
    PROVE  LoginInv'
<1>0. /\ now \in 0 .. MaxNow /\ handed # "dead" /\ source \in [Scripts -> Sources] /\ ScriptsInv(now, file, cached, writing, asking)
      /\ WaitInv(now, login) /\ consent \in {"none", "approved", "denied"}
  BY DEF LoginInv
<1>1. now' = now /\ login' = login /\ consent' = consent /\ source' = source
  BY DEF UseEnvironment, UseCached, UseFile, Refreshed, UseKey, Minted, persistLocalOAuthCredential, ScriptEnds
<1>2. SUFFICES handed' # "dead" /\ ScriptsInv(now, file', cached', writing', asking')
  BY <1>0, <1>1 DEF LoginInv
<1>3. /\ cached[p] \in Token \cup {Empty} /\ writing[p] \in Token \cup {Empty} /\ asking[p] \in -1 .. MaxNow
      /\ (cached[p] \in Token => Honest(cached[p])) /\ (writing[p] \in Token => Honest(writing[p]) /\ now < writing[p].dies)
      /\ file \in Token \cup {Empty, Torn} /\ (file \in Token => Honest(file))
      /\ (asking[p] # -1 => asking[p] <= now /\ now <= asking[p] + Latency)
  BY <1>0 DEF ScriptsInv
<1>4. CASE UseCached(p)
  <2>1. Fresh(cached[p]) /\ handed' = (IF now < cached[p].dies THEN "alive" ELSE "dead") /\ UNCHANGED <<file, cached, asking, writing>>
    BY <1>4 DEF UseCached, HandOut
  <2>2. now < cached[p].dies
    BY <1>3, <2>1, FreshIsAlive
  <2> QED
    BY <1>0, <2>1, <2>2
<1>5. CASE UseFile(p)
  <2>1. file \in Token /\ Honest(file) /\ UNCHANGED <<file, writing>>
    BY <1>3, <1>5 DEF UseFile
  <2>2. CASE Fresh(file)
    <3>1. handed' = (IF now < file.dies THEN "alive" ELSE "dead") /\ cached' = [cached EXCEPT ![p] = file] /\ asking' = asking
      BY <1>5, <2>2 DEF UseFile, HandOut
    <3>2. now < file.dies
      BY <2>1, <2>2, FreshIsAlive
    <3> QED
      BY <1>0, <2>1, <3>1, <3>2 DEF ScriptsInv
  <2>3. CASE ~Fresh(file)
    <3>1. handed' = handed /\ cached' = cached /\ asking' = [asking EXCEPT ![p] = now]
      BY <1>5, <2>3 DEF UseFile
    <3> QED
      BY <1>0, <2>1, <3>1, LatencyAssumption DEF ScriptsInv
  <2> QED
    BY <2>2, <2>3
<1>6. CASE Refreshed(p)
  <2>1. PICK issued \in asking[p] .. now :
            writing' = [writing EXCEPT ![p] = [dies |-> issued + Life, until |-> asking[p] + Life]]
    BY <1>6 DEF Refreshed, Issued
  <2>2. asking[p] # -1 /\ file' = Torn /\ asking' = [asking EXCEPT ![p] = -1] /\ UNCHANGED <<cached, handed>>
    BY <1>6 DEF Refreshed
  <2>3. PICK t : t = [dies |-> issued + Life, until |-> asking[p] + Life]
    OBVIOUS
  <2>4. asking[p] \in Nat /\ asking[p] <= now /\ now <= asking[p] + Latency /\ issued \in Nat /\ asking[p] <= issued /\ issued <= now
    BY <1>0, <1>3, <2>1, <2>2, LatencyAssumption
  <2>5. t \in Token /\ t.dies = issued + Life /\ t.until = asking[p] + Life
    BY <1>0, <2>3, <2>4, LatencyAssumption DEF Token
  <2>6. Honest(t) /\ now < t.dies
    BY <1>0, <2>4, <2>5, LatencyAssumption DEF Honest
  <2>7. writing' = [writing EXCEPT ![p] = t]
    BY <2>1, <2>3
  <2> QED
    BY <1>0, <2>2, <2>5, <2>6, <2>7, TokenAssumption, LatencyAssumption DEF ScriptsInv
<1>7. CASE persistLocalOAuthCredential(p)
  <2>1. writing[p] \in Token /\ file' = writing[p] /\ cached' = [cached EXCEPT ![p] = writing[p]]
        /\ handed' = (IF now < writing[p].dies THEN "alive" ELSE "dead")
        /\ writing' = [writing EXCEPT ![p] = Empty] /\ asking' = asking
    BY <1>3, <1>7 DEF persistLocalOAuthCredential, HandOut
  <2> QED
    BY <1>0, <1>3, <2>1, TokenAssumption DEF ScriptsInv
<1>8. CASE ScriptEnds(p)
  <2>1. cached' = [cached EXCEPT ![p] = Empty] /\ asking' = [asking EXCEPT ![p] = -1]
        /\ writing' = [writing EXCEPT ![p] = Empty] /\ UNCHANGED <<file, handed>>
    BY <1>8 DEF ScriptEnds
  <2> QED
    BY <1>0, <2>1, TokenAssumption, LatencyAssumption DEF ScriptsInv
<1>9. CASE UseEnvironment(p)
  <2>1. handed' = "given" /\ UNCHANGED <<file, cached, writing, asking>>
    BY <1>9 DEF UseEnvironment
  <2> QED
    BY <1>0, <2>1
<1>10. CASE UseKey(p)
  <2>1. asking' = [asking EXCEPT ![p] = now] /\ UNCHANGED <<file, cached, writing, handed>>
    BY <1>10 DEF UseKey
  <2> QED
    BY <1>0, <2>1, LatencyAssumption DEF ScriptsInv
<1>11. CASE Minted(p)
  <2>1. PICK issued \in asking[p] .. now :
            /\ cached' = [cached EXCEPT ![p] = [dies |-> issued + Life, until |-> asking[p] + Life]]
            /\ handed' = IF now < issued + Life THEN "alive" ELSE "dead"
    BY <1>11 DEF Minted, Issued, HandOut
  <2>2. asking[p] # -1 /\ asking' = [asking EXCEPT ![p] = -1] /\ UNCHANGED <<file, writing>>
    BY <1>11 DEF Minted
  <2>3. PICK t : t = [dies |-> issued + Life, until |-> asking[p] + Life]
    OBVIOUS
  <2>4. asking[p] \in Nat /\ asking[p] <= now /\ now <= asking[p] + Latency /\ issued \in Nat /\ asking[p] <= issued /\ issued <= now
    BY <1>0, <1>3, <2>1, <2>2, LatencyAssumption
  <2>5. t \in Token /\ t.dies = issued + Life /\ t.until = asking[p] + Life
    BY <1>0, <2>3, <2>4, LatencyAssumption DEF Token
  <2>6. Honest(t) /\ now < issued + Life
    BY <1>0, <2>4, <2>5, LatencyAssumption DEF Honest
  <2>7. cached' = [cached EXCEPT ![p] = t] /\ handed' # "dead"
    BY <2>1, <2>3, <2>6
  <2> QED
    BY <1>0, <2>2, <2>5, <2>6, <2>7, TokenAssumption, LatencyAssumption DEF ScriptsInv
<1> QED
  BY <1>4, <1>5, <1>6, <1>7, <1>8, <1>9, <1>10, <1>11

(* A login, by device code or callback.                                     *)
LEMMA LoginSteps ==
    ASSUME LoginInv,
           \/ \E flow \in {"device", "callback"} : StartLogin(flow)
           \/ UserDecides \/ LoginStep \/ \E ours \in BOOLEAN : handleOAuthCallbackRequest(ours)
    PROVE  LoginInv'
<1>0. /\ now \in Nat /\ now <= MaxNow /\ handed # "dead" /\ source \in [Scripts -> Sources] /\ ScriptsInv(now, file, cached, writing, asking)
      /\ WaitInv(now, login) /\ consent \in {"none", "approved", "denied"} /\ now \in 0 .. MaxNow
  BY LatencyAssumption DEF LoginInv
<1>1. now' = now /\ cached' = cached /\ writing' = writing /\ asking' = asking /\ handed' = handed /\ source' = source
  BY DEF StartLogin, UserDecides, LoginStep, pollDeviceCodeToken, CallbackTimeout, writeLocalOAuthCredentialFile, handleOAuthCallbackRequest
<1>2. ASSUME file' = file, consent' \in {"none", "approved", "denied"}, WaitInv(now, login') PROVE LoginInv'
  BY <1>0, <1>1, <1>2 DEF LoginInv
<1>3. WaitInv(now, NoLogin)
  BY <1>0 DEF WaitInv, NoLogin, Logins
<1>4. CASE FailLogin
  BY <1>2, <1>3, <1>4 DEF FailLogin, EndLogin
<1>5. ASSUME NEW flow \in {"device", "callback"}, StartLogin(flow) PROVE LoginInv'
  <2>1. login' = [flow |-> flow, step |-> "wait", begun |-> now, next |-> now + Interval, gap |-> Interval]
        /\ file' = file /\ consent' = consent
    BY <1>5 DEF StartLogin
  <2>2. Paced(Interval, now + Interval)
    <3>1. 0 \in 0 .. MaxNow /\ Interval = Interval + 0 * Slower /\ 0 < now + Interval
      BY <1>0, LatencyAssumption
    <3> QED
      BY <3>1 DEF Paced
  <2>3. WaitInv(now, login')
    BY <1>0, <2>1, <2>2, LatencyAssumption DEF WaitInv, Logins
  <2> QED
    BY <1>0, <1>2, <2>1, <2>3
<1>6. CASE UserDecides
  BY <1>0, <1>2, <1>6 DEF UserDecides
<1>7. ASSUME login.step = "wait", login' = [login EXCEPT !.step = "write"] PROVE WaitInv(now, login')
  BY <1>0, <1>7 DEF WaitInv, Logins
<1>8. CASE pollDeviceCodeToken
  <2>1. CASE consent = "approved" /\ login' = [login EXCEPT !.step = "write"] /\ UNCHANGED <<file, consent>>
    BY <1>0, <1>2, <1>7, <1>8, <2>1 DEF pollDeviceCodeToken
  <2>2. ASSUME NEW gap \in {login.gap, login.gap + Slower}, now < login.begun + Timeout,
               login' = [login EXCEPT !.gap = gap, !.next = now + gap], UNCHANGED <<file, consent>>
        PROVE  LoginInv'
    <3>1. login.flow = "device" /\ login.step = "wait" /\ login.next <= now
      BY <1>0, <1>8 DEF pollDeviceCodeToken, WaitInv
    <3>2. login.gap \in Nat /\ login.next \in Nat /\ login.begun \in Nat /\ Paced(login.gap, login.next)
      BY <1>0, <3>1 DEF WaitInv, Logins
    <3>3. Paced(gap, now + gap) /\ gap \in Nat
      BY <1>0, <2>2, <3>1, <3>2, SlowDown
    <3>4. WaitInv(now, login')
      <4>0. now + gap \in Nat /\ gap \in Nat
        BY <1>0, <3>3, LatencyAssumption
      <4>1. /\ login' \in Logins /\ login'.flow = "device" /\ login'.step = "wait"
            /\ login'.begun = login.begun /\ login'.gap = gap /\ login'.next = now + gap
        <5>1. PICK x : x = now + gap
          OBVIOUS
        <5>2. login \in Logins /\ x \in Nat /\ login' = [login EXCEPT !.gap = gap, !.next = x]
          BY <1>0, <2>2, <4>0, <5>1 DEF WaitInv
        <5> QED
          BY <3>1, <4>0, <5>1, <5>2 DEF Logins
      <4>2. login.begun <= now
        BY <1>0 DEF WaitInv
      <4>3. Timeout \in Nat /\ now \in Nat
        BY <1>0, LatencyAssumption
      <4>4. now <= now + gap /\ now + gap <= login.begun + Timeout + gap
        BY <2>2, <3>2, <3>3, <4>3
      <4> QED
        BY <3>3, <4>1, <4>2, <4>4 DEF WaitInv
    <3> QED
      BY <1>0, <1>2, <2>2, <3>4
  <2> QED
    BY <1>4, <1>8, <2>1, <2>2 DEF pollDeviceCodeToken
<1>9. ASSUME NEW ours \in BOOLEAN, handleOAuthCallbackRequest(ours) PROVE LoginInv'
  <2>1. CASE login' = [login EXCEPT !.step = "write"] /\ UNCHANGED <<file, consent>>
    BY <1>0, <1>2, <1>7, <1>9, <2>1 DEF handleOAuthCallbackRequest
  <2> QED
    BY <1>4, <1>9, <2>1 DEF handleOAuthCallbackRequest
<1>10. CASE CallbackTimeout
  BY <1>4, <1>10 DEF CallbackTimeout
<1>11. CASE writeLocalOAuthCredentialFile
  <2>1. PICK delay \in 0 .. Latency : now - delay >= login.begun /\ file' = [dies |-> now - delay + Life, until |-> now + Life]
    BY <1>11 DEF writeLocalOAuthCredentialFile
  <2>2. login' = NoLogin /\ consent' = "none" /\ login.begun \in Nat
    BY <1>0, <1>11 DEF writeLocalOAuthCredentialFile, EndLogin, WaitInv, Logins
  <2>3. file' \in Token /\ file'.dies = now - delay + Life /\ file'.until = now + Life
    BY <1>0, <2>1, <2>2, LatencyAssumption DEF Token
  <2>4. Honest(file')
    BY <1>0, <2>1, <2>3, LatencyAssumption DEF Honest
  <2>5. ScriptsInv(now, file', cached, writing, asking)
    BY <1>0, <2>3, <2>4 DEF ScriptsInv
  <2> QED
    BY <1>0, <1>1, <1>3, <2>2, <2>5 DEF LoginInv
<1> QED
  BY <1>5, <1>6, <1>8, <1>9, <1>10, <1>11 DEF LoginStep

(* Time passes, but not while a request or a sleep is due.                  *)
LEMMA TickStep ==
    ASSUME LoginInv, Tick
    PROVE  LoginInv'
<1>0. /\ now \in Nat /\ now + 1 <= MaxNow /\ handed # "dead" /\ source \in [Scripts -> Sources] /\ ScriptsInv(now, file, cached, writing, asking)
      /\ WaitInv(now, login) /\ consent \in {"none", "approved", "denied"}
  BY LatencyAssumption DEF LoginInv, Tick
<1>1. /\ now' = now + 1 /\ UNCHANGED <<source, file, cached, asking, writing, handed, login, consent>>
      /\ (\A p \in Scripts : asking[p] # -1 => now < asking[p] + Latency) /\ (\A p \in Scripts : writing[p] = Empty)
      /\ login.step # "write" /\ (login.flow = "device" => now < login.next)
      /\ (login.flow = "callback" => now < login.begun + Timeout)
  BY DEF Tick
<1>2. ScriptsInv(now + 1, file, cached, writing, asking)
  BY <1>0, <1>1, TokenAssumption, LatencyAssumption DEF ScriptsInv
<1>3. WaitInv(now + 1, login)
  BY <1>0, <1>1, LatencyAssumption DEF WaitInv, Logins
<1>4. now + 1 \in 0 .. MaxNow
  BY <1>0, LatencyAssumption
<1> QED
  BY <1>0, <1>1, <1>2, <1>3, <1>4 DEF LoginInv

(* No script is handed a dead token and no login outlives its deadline by   *)
(* more than a sleep, for every life of a token, margin and latency within  *)
(* it, and any number of processes (getGoogleAccessToken in common.ts,      *)
(* login.ts).                                                               *)
THEOREM TokensLive == LoginSpec => [](LoginTypeOK /\ HandedTokenLives /\ LoginIsBounded)
<1>1. LoginInit => LoginInv
  <2> SUFFICES ASSUME LoginInit PROVE LoginInv
    OBVIOUS
  <2>1. now = 0 /\ file \in Token \cup {Empty} /\ (file \in Token => Honest(file))
    BY LatencyAssumption, TokenAssumption DEF LoginInit, Token, Honest
  <2>2. ScriptsInv(now, file, cached, writing, asking)
    BY <2>1, TokenAssumption, LatencyAssumption DEF LoginInit, ScriptsInv
  <2>3. WaitInv(now, login)
    BY <2>1 DEF LoginInit, WaitInv, NoLogin, Logins
  <2> QED
    BY <2>1, <2>2, <2>3, LatencyAssumption DEF LoginInit, LoginInv
<1>2. LoginInv /\ [LoginNext]_loginVars => LoginInv'
  <2>1. ASSUME LoginInv, UNCHANGED loginVars PROVE LoginInv'
    BY <2>1 DEF loginVars, LoginInv
  <2> QED
    BY <2>1, ScriptSteps, LoginSteps, TickStep DEF LoginNext
<1>3. ASSUME LoginInv PROVE LoginTypeOK /\ HandedTokenLives /\ LoginIsBounded
  <2>1. now \in 0 .. MaxNow /\ source \in [Scripts -> Sources] /\ file \in Token \cup {Empty, Torn} /\ consent \in {"none", "approved", "denied"} /\ HandedTokenLives
    BY <1>3 DEF LoginInv, ScriptsInv, HandedTokenLives
  <2>2. \A p \in Scripts : /\ cached[p] \in Token \cup {Empty} /\ writing[p] \in Token \cup {Empty}
                           /\ asking[p] \in -1 .. MaxNow
    BY <1>3 DEF LoginInv, ScriptsInv
  <2>3. login.gap \in {0} \cup {Interval + k * Slower : k \in 0 .. MaxNow}
    <3>1. CASE login.step = "none"
      BY <1>3, <3>1 DEF LoginInv, WaitInv
    <3>2. CASE login.step # "none"
      BY <1>3, <3>2 DEF LoginInv, WaitInv, Paced
    <3> QED
      BY <3>1, <3>2
  <2>4. LoginIsBounded
    <3>1. now \in Nat /\ WaitInv(now, login) /\ Timeout \in Nat
      BY <1>3, LatencyAssumption DEF LoginInv
    <3> QED
      BY <3>1 DEF WaitInv, Logins, LoginIsBounded
  <2> QED
    BY <2>1, <2>2, <2>3, <2>4 DEF LoginTypeOK
<1> QED
  BY <1>1, <1>2, <1>3, PTL DEF LoginSpec

-----------------------------------------------------------------------------
(***************************************************************************)
(* Proofs about Rollout.  A rollback returns to whatever ran before, so    *)
(* the invariant has to cover every image a deployment ever ran.           *)
(***************************************************************************)
(* The images a deployment ran, each once.                                  *)
Distinct(s) == \A i, j \in 1 .. Len(s) : s[i] = s[j] => i = j
Ran(s, v) == \E i \in 1 .. Len(s) : s[i] = v

(* Two sequences, one behind the other.                                     *)
LEMMA Joined ==
    ASSUME NEW S, NEW a \in Seq(S), NEW b \in Seq(S), NEW t, t = a \o b
    PROVE  /\ t \in Seq(S) /\ Len(t) = Len(a) + Len(b)
           /\ \A k \in 1 .. Len(a) + Len(b) : k <= Len(a) => t[k] = a[k]
           /\ \A k \in 1 .. Len(a) + Len(b) : k > Len(a) => t[k] = b[k - Len(a)]
  OBVIOUS

(* Without its i-th element a sequence has the others, in their order.      *)
LEMMA Removed ==
    ASSUME NEW S, NEW s \in Seq(S), Distinct(s), NEW i \in 1 .. Len(s)
    PROVE  /\ RemoveAt(s, i) \in Seq(S) /\ Distinct(RemoveAt(s, i)) /\ Len(RemoveAt(s, i)) = Len(s) - 1
           /\ ~Ran(RemoveAt(s, i), s[i])
           /\ \A x : Ran(RemoveAt(s, i), x) => Ran(s, x)
           /\ i < Len(s) => RemoveAt(s, i)[Len(s) - 1] = s[Len(s)]
<1>t. PICK t : t = RemoveAt(s, i)
  OBVIOUS
<1>a. PICK n \in Nat : n = Len(s) /\ i \in 1 .. n /\ \A k \in 1 .. n : s[k] \in S
  BY LenProperties, ElementOfSeq
<1>b. PICK a : a = SubSeq(s, 1, i - 1)
  OBVIOUS
<1>c. PICK b : b = SubSeq(s, i + 1, n)
  OBVIOUS
<1>d. a \in Seq(S) /\ Len(a) = i - 1 /\ \A k \in 1 .. i - 1 : a[k] = s[k]
  <2>1. i - 1 \in Int /\ \A k \in 1 .. i - 1 : s[k] \in S
    BY <1>a
  <2>2. /\ SubSeq(s, 1, i - 1) \in Seq(S) /\ Len(SubSeq(s, 1, i - 1)) = IF 1 <= i - 1 THEN (i - 1) - 1 + 1 ELSE 0
        /\ \A k \in 1 .. (i - 1) - 1 + 1 : SubSeq(s, 1, i - 1)[k] = s[1 + k - 1]
    BY <2>1, SubSeqProperties
  <2> QED
    BY <1>a, <1>b, <2>2
<1>e. b \in Seq(S) /\ Len(b) = n - i /\ \A k \in 1 .. n - i : b[k] = s[i + k]
  <2>1. i + 1 \in Int /\ n \in Int /\ \A k \in i + 1 .. n : s[k] \in S
    BY <1>a
  <2>2. /\ SubSeq(s, i + 1, n) \in Seq(S) /\ Len(SubSeq(s, i + 1, n)) = IF i + 1 <= n THEN n - (i + 1) + 1 ELSE 0
        /\ \A k \in 1 .. n - (i + 1) + 1 : SubSeq(s, i + 1, n)[k] = s[(i + 1) + k - 1]
    BY <2>1, SubSeqProperties
  <2>3. n - (i + 1) + 1 = n - i /\ (i + 1 <= n \/ n - i = 0)
    BY <1>a
  <2>4. SubSeq(s, i + 1, n) \in Seq(S) /\ Len(SubSeq(s, i + 1, n)) = n - i
    BY <2>2, <2>3
  <2>5. ASSUME NEW k \in 1 .. n - i PROVE SubSeq(s, i + 1, n)[k] = s[i + k]
    <3>1. (i + 1) + k - 1 = i + k
      BY <1>a, <2>5
    <3> QED
      BY <2>2, <2>3, <3>1
  <2> QED
    BY <1>c, <2>4, <2>5, Zenon
<1>f. t = a \o b
  BY <1>a, <1>b, <1>c, <1>t DEF RemoveAt
<1>g. /\ t \in Seq(S) /\ Len(t) = Len(a) + Len(b)
      /\ \A k \in 1 .. Len(a) + Len(b) : k <= Len(a) => t[k] = a[k]
      /\ \A k \in 1 .. Len(a) + Len(b) : k > Len(a) => t[k] = b[k - Len(a)]
  <2>1. a \in Seq(S) /\ b \in Seq(S)
    BY <1>d, <1>e
  <2> QED
    BY <1>f, <2>1, Joined
<1>1. t \in Seq(S) /\ Len(t) = Len(s) - 1
  BY <1>a, <1>d, <1>e, <1>g
<1>2. \A k \in 1 .. Len(s) - 1 : t[k] = IF k < i THEN s[k] ELSE s[k + 1]
  <2> TAKE k \in 1 .. Len(s) - 1
  <2>1. CASE k < i
    BY <1>a, <1>d, <1>e, <1>g, <2>1
  <2>2. CASE ~(k < i)
    <3>1. PICK j : j = k - (i - 1)
      OBVIOUS
    <3>2. j \in 1 .. n - i /\ i + j = k + 1 /\ k \in 1 .. (i - 1) + (n - i) /\ k > i - 1
      BY <1>a, <2>2, <3>1
    <3>3. t[k] = b[k - (i - 1)]
      BY <1>d, <1>e, <1>g, <3>2, Zenon
    <3>4. b[j] = s[k + 1]
      BY <1>e, <3>2
    <3> QED
      BY <2>2, <3>1, <3>3, <3>4
  <2> QED
    BY <2>1, <2>2
<1>3. \A k \in 1 .. Len(t) : \E m \in 1 .. Len(s) : m # i /\ t[k] = s[m]
  <2> TAKE k \in 1 .. Len(t)
  <2>1. CASE k < i
    BY <1>1, <1>2, <2>1
  <2>2. CASE ~(k < i)
    BY <1>1, <1>2, <2>2
  <2> QED
    BY <2>1, <2>2
<1>4. Distinct(t)
  <2> SUFFICES ASSUME NEW k \in 1 .. Len(t), NEW m \in 1 .. Len(t), t[k] = t[m] PROVE k = m
    BY DEF Distinct
  <2>1. PICK p : p = IF k < i THEN k ELSE k + 1
    OBVIOUS
  <2>2. PICK q : q = IF m < i THEN m ELSE m + 1
    OBVIOUS
  <2>3. p \in 1 .. Len(s) /\ q \in 1 .. Len(s) /\ t[k] = s[p] /\ t[m] = s[q] /\ (p = q => k = m)
    BY <1>1, <1>2, <2>1, <2>2
  <2> QED
    BY <2>3 DEF Distinct
<1>5. ~Ran(t, s[i]) /\ \A x : Ran(t, x) => Ran(s, x)
  BY <1>3 DEF Distinct, Ran
<1>6. i < Len(s) => t[Len(s) - 1] = s[Len(s)]
  BY <1>2
<1> QED
  BY <1>1, <1>4, <1>5, <1>6, <1>t

(* Setting an image x in s gives t: it is the newest, what ran before it is *)
(* right behind.                                                            *)
IsNewest(S, s, x, t) ==
    /\ t \in Seq(S) /\ Distinct(t) /\ Len(t) \in Nat \ {0} /\ Last(t) = x
    /\ \A y : Ran(t, y) => y = x \/ Ran(s, y)
    /\ Len(s) > 0 /\ Last(s) # x => Len(t) > 1 /\ t[Len(t) - 1] = Last(s)

(* That is what kubectl set image does.                                    *)
LEMMA NewestIs ==
    ASSUME NEW S, NEW s \in Seq(S), Distinct(s), NEW v \in S
    PROVE  IsNewest(S, s, v, Newest(s, v))
<1>1. PICK r \in Seq(S) : /\ Newest(s, v) = r \o <<v>> /\ Distinct(r) /\ ~Ran(r, v)
                          /\ \A x : Ran(r, x) => Ran(s, x)
                          /\ Len(s) > 0 /\ Last(s) # v => Len(r) > 0 /\ r[Len(r)] = Last(s)
  <2>1. CASE Ran(s, v)
    <3>1. PICK i \in 1 .. Len(s) : i = (CHOOSE k \in DOMAIN s : s[k] = v) /\ s[i] = v
      BY <2>1 DEF Ran
    <3>2. Newest(s, v) = RemoveAt(s, i) \o <<v>>
      <4>1. \E k \in DOMAIN s : s[k] = v
        BY <2>1 DEF Ran
      <4> QED
        BY <3>1, <4>1, Zenon DEF Newest
    <3>3. Len(s) > 0 /\ Last(s) # v => i < Len(s)
      BY <3>1 DEF Last
    <3>4. PICK r : r = RemoveAt(s, i)
      OBVIOUS
    <3>5. /\ r \in Seq(S) /\ Distinct(r) /\ Len(r) = Len(s) - 1 /\ ~Ran(r, v)
          /\ (\A x : Ran(r, x) => Ran(s, x)) /\ (i < Len(s) => r[Len(s) - 1] = s[Len(s)])
      BY <3>1, <3>4, Removed
    <3>6. Len(s) > 0 /\ Last(s) # v => Len(r) > 0 /\ r[Len(r)] = Last(s)
      BY <3>3, <3>5 DEF Last
    <3> QED
      BY <3>2, <3>4, <3>5, <3>6, Zenon
  <2>2. CASE ~Ran(s, v)
    <3>1. ~\E k \in DOMAIN s : s[k] = v
      BY <2>2 DEF Ran
    <3>2. Newest(s, v) = s \o <<v>>
      BY <3>1, Zenon DEF Newest
    <3> QED
      BY <2>2, <3>2, Zenon DEF Last
  <2> QED
    BY <2>1, <2>2
<1>2. PICK t : t = r \o <<v>>
  OBVIOUS
<1>3. t \in Seq(S) /\ Len(t) = Len(r) + 1 /\ t[Len(t)] = v /\ \A k \in 1 .. Len(r) : t[k] = r[k]
  BY <1>2
<1>4. Distinct(t)
  <2> SUFFICES ASSUME NEW i \in 1 .. Len(t), NEW j \in 1 .. Len(t), t[i] = t[j] PROVE i = j
    BY DEF Distinct
  <2>1. CASE i \in 1 .. Len(r) /\ j \in 1 .. Len(r)
    BY <1>1, <1>3, <2>1 DEF Distinct
  <2>2. CASE i \in 1 .. Len(r) /\ j = Len(t)
    BY <1>1, <1>3, <2>2 DEF Ran
  <2>3. CASE i = Len(t) /\ j \in 1 .. Len(r)
    BY <1>1, <1>3, <2>3 DEF Ran
  <2> QED
    BY <1>3, <2>1, <2>2, <2>3
<1>5. \A x : Ran(t, x) => x = v \/ Ran(s, x)
  <2> SUFFICES ASSUME NEW k \in 1 .. Len(t) PROVE t[k] = v \/ Ran(s, t[k])
    BY DEF Ran
  <2>1. CASE k = Len(t)
    BY <1>3, <2>1
  <2>2. CASE k \in 1 .. Len(r)
    BY <1>1, <1>3, <2>2 DEF Ran
  <2> QED
    BY <1>3, <2>1, <2>2
<1>6. Len(s) > 0 /\ Last(s) # v => Len(t) > 1 /\ t[Len(t) - 1] = Last(s)
  BY <1>1, <1>3
<1>7. Newest(s, v) = t /\ Len(t) \in Nat \ {0} /\ Last(t) = v
  BY <1>1, <1>2, <1>3 DEF Last
<1> QED
  BY <1>3, <1>4, <1>5, <1>6, <1>7, Zenon DEF IsNewest

(* kubectl rollout undo: the one before the newest is the newest.           *)
LEMMA PreviousIs ==
    ASSUME NEW S, NEW s \in Seq(S), Distinct(s), Len(s) > 0
    PROVE  /\ Previous(s) \in Seq(S) /\ Distinct(Previous(s)) /\ Len(Previous(s)) = Len(s)
           /\ \A x : Ran(Previous(s), x) => Ran(s, x)
           /\ Len(s) > 1 => Last(Previous(s)) = s[Len(s) - 1]
<1>1. CASE Len(s) < 2
  BY <1>1 DEF Previous
<1>2. CASE Len(s) >= 2
  <2>1. PICK n \in Nat : n = Len(s) /\ n >= 2
    BY <1>2
  <2>2. PICK t : t = SubSeq(s, 1, n - 2) \o <<s[n], s[n - 1]>>
    OBVIOUS
  <2>3. Previous(s) = t
    BY <2>1, <2>2 DEF Previous
  <2>4. t \in Seq(S) /\ Len(t) = n
    BY <2>1, <2>2
  <2>5. \A k \in 1 .. n : t[k] = IF k = n THEN s[n - 1] ELSE IF k = n - 1 THEN s[n] ELSE s[k]
    BY <2>1, <2>2
  <2>6. Distinct(t)
    BY <2>1, <2>4, <2>5 DEF Distinct
  <2>7. \A x : Ran(t, x) => Ran(s, x)
    BY <2>1, <2>4, <2>5 DEF Ran
  <2> QED
    BY <2>1, <2>3, <2>4, <2>5, <2>6, <2>7 DEF Last
<1> QED
  BY <1>1, <1>2

(* A deployment never ran more images than there are.                       *)
LEMMA FewEnough ==
    ASSUME NEW s \in Seq(Images), Distinct(s), Len(s) > 0
    PROVE  Len(s) \in 1 .. Cardinality(Images)
<1>1. s \in Injection(1 .. Len(s), Images)
  BY DEF Distinct, Injection, IsInjective
<1>2. IsFiniteSet(Images)
  BY RolloutAssumption
<1>3. Cardinality(1 .. Len(s)) <= Cardinality(Images) /\ Cardinality(Images) \in Nat
  BY <1>1, <1>2, FS_Injection, FS_CardinalityType
<1>4. Cardinality(1 .. Len(s)) = Len(s)
  BY FS_Interval
<1> QED
  BY <1>3, <1>4

(* The images v a deployment ran, with schemas h and API images q.          *)
RanInv(v, h, q) ==
    /\ v \in [Deployments -> Seq(Images)] /\ h \subseteq Images /\ q \subseteq Images
    /\ \A d \in Deployments : /\ Distinct(v[d]) /\ Len(v[d]) > 0
                              /\ \A x : Ran(v[d], x) => x \in h /\ (d # "app" => x \in q)

Before == {"infra", "access", "liveness", "migrate", "setImage"}
Api == {"rollout", "health"}
Worker == {"workers", "workerRollout"}
ReleaseType == [entry : {"none", "ssh", "talos", "direct"}, tag : Images \cup {NoTag}, step : {"none"} \cup Before \cup Api \cup Worker,
                worker : 0 .. Len(WorkerTypes) + 1, checkOnly : BOOLEAN]

(* A release r under way has its schema before it touches the API, has      *)
(* passed the API's gates before it touches a worker, and until then every  *)
(* deployment but the API runs what it ran, b, and the API has it right     *)
(* behind the release's image.                                              *)
ReleaseInv(r, v, h, q, b) ==
    /\ r \in ReleaseType /\ (r.step = "none" => r = NoRelease) /\ (r.step # "none" => r.tag \in Images)
    /\ r.step \in {"setImage"} \cup Api \cup Worker => r.tag \in h
    /\ r.step \in Worker => r.tag \in q
    /\ r.step = "workerRollout" => r.worker \in 1 .. Len(WorkerTypes)
    /\ r.step \in Before => \A d \in Deployments : Last(v[d]) = b[d]
    /\ r.step \in Api => \A d \in Deployments \ {"app"} : Last(v[d]) = b[d]
    /\ r.step \in Api /\ r.tag # b["app"] => Len(v["app"]) > 1 /\ v["app"][Len(v["app"]) - 1] = b["app"]

(* Everything but the access to the cluster.                                *)
ClusterInv(v, h, q, b, r, o, w) ==
    /\ RanInv(v, h, q) /\ ReleaseInv(r, v, h, q, b) /\ (r # NoRelease => o = "none")
    /\ b \in [Deployments -> Images] /\ w \in q \cup {Mixed}

RolloutInv ==
    /\ ClusterInv(revisions, schema, passed, before, release, outcome, site)
    /\ healthy \subseteq Images
    /\ tunnel \in BOOLEAN /\ kubeconfig \in BOOLEAN /\ releases \in 0 .. MaxReleases

(* The API and the workers.                                                 *)
LEMMA TheDeployments ==
    /\ "app" \in Deployments /\ Len(WorkerTypes) \in Nat /\ DOMAIN WorkerTypes = 1 .. Len(WorkerTypes)
    /\ \A i \in DOMAIN WorkerTypes : WorkerTypes[i] \in Deployments \ {"app"}
  BY RolloutAssumption DEF Deployments

(* From v to w only d changes; behind its newest image x is the one it ran, *)
(* and where it is rolled back it runs the one before.                      *)
Behind(v, d, x, w) ==
    /\ \A e \in Deployments \ {d} : w[e] = v[e]
    /\ Last(v[d]) # x => Len(w[d]) > 1 /\ w[d][Len(w[d]) - 1] = Last(v[d])
Back(v, d, w) ==
    /\ \A e \in Deployments \ {d} : w[e] = v[e]
    /\ Len(v[d]) > 1 => Last(w[d]) = v[d][Len(v[d]) - 1]

(* A deployment that gets an image whose schema is there, and which the API *)
(* passed if it is a worker's.                                              *)
LEMMA ImageSet ==
    ASSUME NEW v, NEW h, NEW q, RanInv(v, h, q), NEW d \in Deployments, NEW x \in Images,
           x \in h, d # "app" => x \in q,
           NEW w, w = [v EXCEPT ![d] = Newest(@, x)]
    PROVE  RanInv(w, h, q) /\ Behind(v, d, x, w)
<1>1. v[d] \in Seq(Images) /\ Distinct(v[d]) /\ Len(v[d]) > 0
  BY DEF RanInv
<1>2. PICK t : t = Newest(v[d], x)
  OBVIOUS
<1>3. /\ t \in Seq(Images) /\ Distinct(t) /\ Len(t) \in Nat \ {0}
      /\ (\A y : Ran(t, y) => y = x \/ Ran(v[d], y))
      /\ (Len(v[d]) > 0 /\ Last(v[d]) # x => Len(t) > 1 /\ t[Len(t) - 1] = Last(v[d]))
  <2>1. IsNewest(Images, v[d], x, t)
    BY <1>1, <1>2, NewestIs
  <2> QED
    BY <2>1 DEF IsNewest
<1>4. w \in [Deployments -> Seq(Images)] /\ w[d] = t /\ \A e \in Deployments \ {d} : w[e] = v[e]
  BY <1>2, <1>3 DEF RanInv
<1>5. \A e \in Deployments : /\ Distinct(w[e]) /\ Len(w[e]) > 0
                             /\ \A y : Ran(w[e], y) => y \in h /\ (e # "app" => y \in q)
  <2> TAKE e \in Deployments
  <2>1. CASE e = d
    <3>1. Distinct(w[e]) /\ Len(w[e]) > 0 /\ \A y : Ran(w[e], y) => y = x \/ Ran(v[d], y)
      BY <1>3, <1>4, <2>1
    <3> QED
      BY <2>1, <3>1 DEF RanInv
  <2>2. CASE e # d
    BY <1>4, <2>2 DEF RanInv
  <2> QED
    BY <2>1, <2>2
<1> QED
  BY <1>1, <1>3, <1>4, <1>5 DEF RanInv, Behind

(* A deployment that is rolled back.                                        *)
LEMMA RolledBack ==
    ASSUME NEW v, NEW h, NEW q, RanInv(v, h, q), NEW d \in Deployments,
           NEW w, w = [v EXCEPT ![d] = Previous(@)]
    PROVE  RanInv(w, h, q) /\ Back(v, d, w)
<1>1. v[d] \in Seq(Images) /\ Distinct(v[d]) /\ Len(v[d]) > 0
  BY DEF RanInv
<1>2. PICK t : t = Previous(v[d])
  OBVIOUS
<1>3. /\ t \in Seq(Images) /\ Distinct(t) /\ Len(t) = Len(v[d])
      /\ (\A y : Ran(t, y) => Ran(v[d], y)) /\ (Len(v[d]) > 1 => Last(t) = v[d][Len(v[d]) - 1])
  BY <1>1, <1>2, PreviousIs
<1>4. w \in [Deployments -> Seq(Images)] /\ w[d] = t /\ \A e \in Deployments \ {d} : w[e] = v[e]
  BY <1>2, <1>3 DEF RanInv
<1>5. \A e \in Deployments : /\ Distinct(w[e]) /\ Len(w[e]) > 0
                             /\ \A y : Ran(w[e], y) => y \in h /\ (e # "app" => y \in q)
  <2> TAKE e \in Deployments
  <2>1. CASE e = d
    <3>1. Distinct(w[e]) /\ Len(w[e]) > 0 /\ \A y : Ran(w[e], y) => Ran(v[d], y)
      BY <1>1, <1>3, <1>4, <2>1
    <3> QED
      BY <2>1, <3>1 DEF RanInv
  <2>2. CASE e # d
    BY <1>4, <2>2 DEF RanInv
  <2> QED
    BY <2>1, <2>2
<1> QED
  BY <1>3, <1>4, <1>5 DEF RanInv, Back

(* No release is under way: nothing is asked of it.                         *)
LEMMA NoReleaseInv ==
    ASSUME NEW v, NEW h, NEW q, NEW b PROVE ReleaseInv(NoRelease, v, h, q, b)
<1>1. 0 \in 0 .. Len(WorkerTypes) + 1
  BY TheDeployments
<1> QED
  BY <1>1 DEF ReleaseInv, NoRelease, ReleaseType, Before, Api, Worker

(* More schemas and more images that passed cover no less.                  *)
LEMMA MoreCovers ==
    ASSUME NEW v, NEW h, NEW q, NEW g, NEW p, RanInv(v, h, q), h \subseteq g, q \subseteq p, g \subseteq Images, p \subseteq Images
    PROVE  RanInv(v, g, p)
  BY DEF RanInv

(* A step of the release that leaves the cluster alone.                     *)
LEMMA StepKeeps ==
    ASSUME RolloutInv, NEW s \in (Before \cup Api \cup Worker), release' = [release EXCEPT !.step = s],
           release.step # "none", UNCHANGED <<cluster, books, outcome>>, tunnel' \in BOOLEAN, kubeconfig' \in BOOLEAN,
           \/ release.step \in Before /\ s \in Before \ {"setImage"}
           \/ release.step = "rollout" /\ s = "health"
    PROVE  RolloutInv'
<1>1. RanInv(revisions, schema, passed) /\ ReleaseInv(release, revisions, schema, passed, before)
  BY DEF RolloutInv, ClusterInv
<1>2. ReleaseInv(release', revisions, schema, passed, before) /\ release # NoRelease
  BY <1>1 DEF ReleaseInv, ReleaseType, Before, Api, Worker, NoRelease
<1> QED
  BY <1>1, <1>2 DEF RolloutInv, ClusterInv, cluster, books

(* A release that ends, whatever it did to the deployments before.          *)
LEMMA EndKeeps ==
    ASSUME RolloutInv, NEW o, EndRelease(o), RanInv(revisions', schema', passed'), site' \in passed' \cup {Mixed},
           UNCHANGED <<healthy, before, releases>>
    PROVE  RolloutInv'
<1>1. release' = NoRelease /\ tunnel' \in BOOLEAN /\ kubeconfig' \in BOOLEAN
  BY DEF EndRelease
<1>2. ReleaseInv(release', revisions', schema', passed', before)
  BY <1>1, NoReleaseInv
<1> QED
  BY <1>1, <1>2 DEF RolloutInv, ClusterInv

(* The steps of deploy.ts.                                                  *)
LEMMA DeployTsKeeps ==
    ASSUME RolloutInv, CheckInfrastructure \/ WriteKubeconfig \/ runLivenessChecks \/ ReleaseKilled
           \/ \E e \in Entries, v \in Images, c \in BOOLEAN : StartRelease(e, v, c)
    PROVE  RolloutInv'
<1>0. /\ RanInv(revisions, schema, passed) /\ ReleaseInv(release, revisions, schema, passed, before)
      /\ site \in passed \cup {Mixed} /\ tunnel \in BOOLEAN /\ kubeconfig \in BOOLEAN
  BY DEF RolloutInv, ClusterInv
<1>1. ASSUME NEW o, EndRelease(o), UNCHANGED <<cluster, books>> PROVE RolloutInv'
  BY <1>0, <1>1, EndKeeps DEF cluster, books
<1>2. CASE CheckInfrastructure
  <2>1. CASE Step("access") /\ tunnel' = (release.entry = "ssh") /\ UNCHANGED <<kubeconfig, outcome>>
    <3>1. tunnel' \in BOOLEAN /\ kubeconfig' \in BOOLEAN
      BY <1>0, <2>1, Zenon
    <3> QED
      BY <1>2, <2>1, <3>1, StepKeeps DEF CheckInfrastructure, At, Step, Before
  <2> QED
    BY <1>1, <1>2, <2>1 DEF CheckInfrastructure
<1>3. CASE WriteKubeconfig
  <2>1. CASE kubeconfig' = TRUE /\ Step("liveness") /\ UNCHANGED <<tunnel, outcome>>
    BY <1>0, <1>3, <2>1, StepKeeps DEF WriteKubeconfig, At, Step, Before
  <2> QED
    BY <1>1, <1>3, <2>1 DEF WriteKubeconfig
<1>4. CASE runLivenessChecks
  <2>1. CASE Step("migrate") /\ UNCHANGED <<access, outcome>>
    BY <1>0, <1>4, <2>1, StepKeeps DEF runLivenessChecks, At, Step, Before, access
  <2> QED
    BY <1>1, <1>4, <2>1 DEF runLivenessChecks
<1>5. CASE ReleaseKilled
  <2>1. ReleaseInv(release', revisions, schema, passed, before) /\ release' = NoRelease
    BY <1>5, NoReleaseInv DEF ReleaseKilled
  <2> QED
    BY <1>5, <2>1 DEF ReleaseKilled, RolloutInv, ClusterInv, cluster, books, access
<1>6. ASSUME NEW e \in Entries, NEW v \in Images, NEW c \in BOOLEAN, StartRelease(e, v, c) PROVE RolloutInv'
  <2>1. /\ before' = [d \in Deployments |-> Last(revisions[d])] /\ outcome' = "none"
        /\ UNCHANGED <<cluster, passed, access>> /\ releases' = releases + 1 /\ releases < MaxReleases
        /\ release' = [entry |-> e, tag |-> v, worker |-> 1, checkOnly |-> c,
                       step |-> IF e = "direct" THEN "migrate" ELSE "infra"]
    BY <1>6 DEF StartRelease
  <2>2. before' \in [Deployments -> Images]
    BY <1>0, <2>1 DEF RanInv, Last
  <2>3. release' \in ReleaseType /\ release'.step \in Before \ {"setImage"} /\ release'.tag \in Images /\ release'.step # "none"
    BY <2>1, TheDeployments, RolloutAssumption DEF ReleaseType, Before
  <2>4. ReleaseInv(release', revisions, schema, passed, before')
    BY <2>1, <2>3 DEF ReleaseInv, Before, Api, Worker
  <2>5. releases' \in 0 .. MaxReleases
    BY <2>1, RolloutAssumption DEF RolloutInv
  <2> QED
    BY <1>0, <2>1, <2>2, <2>4, <2>5 DEF RolloutInv, ClusterInv, cluster, access
<1> QED
  BY <1>2, <1>3, <1>4, <1>5, <1>6

(* The migration, and the API's gates.                                      *)
LEMMA ApiKeeps ==
    ASSUME RolloutInv, run_migration_job \/ SetApiImage \/ WaitForRollout \/ wait_for_healthz
    PROVE  RolloutInv'
<1>0. /\ RanInv(revisions, schema, passed) /\ ReleaseInv(release, revisions, schema, passed, before)
      /\ site \in passed \cup {Mixed} /\ tunnel \in BOOLEAN /\ kubeconfig \in BOOLEAN
  BY DEF RolloutInv, ClusterInv
<1>1. ASSUME release.step \in Before \cup Api PROVE release.tag \in Images /\ release # NoRelease /\ outcome = "none"
  BY <1>0, <1>1 DEF ReleaseInv, Before, Api, NoRelease, RolloutInv, ClusterInv
<1>2. CASE run_migration_job
  <2>0. release.step = "migrate" /\ release.tag \in Images /\ release # NoRelease /\ UNCHANGED <<revisions, healthy, site, books>>
    BY <1>1, <1>2 DEF run_migration_job, At, Before
  <2>1. ASSUME schema' \in {schema, schema \cup {release.tag}} PROVE RanInv(revisions, schema', passed)
    BY <1>0, <2>0, <2>1, MoreCovers DEF RanInv
  <2>2. CASE schema' = schema \cup {release.tag} /\ Step("setImage") /\ UNCHANGED <<access, outcome>>
    <3>1. ReleaseInv(release', revisions, schema', passed, before)
      BY <1>0, <2>0, <2>2 DEF ReleaseInv, ReleaseType, Step, Before, Api, Worker
    <3> QED
      BY <2>0, <2>1, <2>2, <3>1 DEF RolloutInv, ClusterInv, access, books
  <2>3. CASE EndRelease("migrationFailed") /\ schema' \in {schema, schema \cup {release.tag}}
    BY <1>0, <2>0, <2>1, <2>3, EndKeeps DEF books
  <2> QED
    BY <1>2, <2>2, <2>3 DEF run_migration_job
<1>3. CASE SetApiImage
  <2>0. /\ release.step = "setImage" /\ release.tag \in Images /\ release # NoRelease /\ release.tag \in schema
        /\ revisions' = [revisions EXCEPT !["app"] = Newest(@, release.tag)]
        /\ release' = [release EXCEPT !.step = "rollout"] /\ UNCHANGED <<healthy, schema, site, books, access, outcome>>
    BY <1>0, <1>1, <1>3 DEF SetApiImage, SetImage, Step, At, Before, ReleaseInv
  <2>1. /\ RanInv(revisions', schema, passed) /\ \A e \in Deployments \ {"app"} : revisions'[e] = revisions[e]
        /\ Last(revisions["app"]) # release.tag =>
               Len(revisions'["app"]) > 1 /\ revisions'["app"][Len(revisions'["app"]) - 1] = Last(revisions["app"])
    <3>1. "app" \in Deployments
      BY TheDeployments
    <3>2. RanInv(revisions', schema, passed) /\ Behind(revisions, "app", release.tag, revisions')
      BY <1>0, <2>0, <3>1, ImageSet
    <3> QED
      BY <3>2 DEF Behind
  <2>2. \A d \in Deployments : Last(revisions[d]) = before[d]
    BY <1>0, <2>0 DEF ReleaseInv, Before
  <2>3. ReleaseInv(release', revisions', schema, passed, before)
    <3>1. /\ release' \in ReleaseType /\ release'.step = "rollout" /\ release'.tag = release.tag
      BY <1>0, <2>0 DEF ReleaseInv, ReleaseType, Api
    <3> QED
      BY <2>0, <2>1, <2>2, <3>1, TheDeployments DEF ReleaseInv, Before, Api, Worker
  <2> QED
    BY <2>0, <2>1, <2>3 DEF RolloutInv, ClusterInv, access, books
<1>4. ASSUME revisions' = Undo("app") PROVE RanInv(revisions', schema, passed)
  BY <1>0, <1>4, RolledBack, TheDeployments DEF Undo
<1>5. CASE WaitForRollout
  <2>0. release.step = "rollout" /\ UNCHANGED <<healthy, schema, site, books>>
    BY <1>5 DEF WaitForRollout, At
  <2>1. CASE Step("health") /\ UNCHANGED <<revisions, access, outcome>>
    BY <1>0, <2>0, <2>1, StepKeeps DEF Step, Api, cluster, books, access
  <2>2. CASE revisions' = Undo("app") /\ EndRelease("rolloutFailed")
    BY <1>0, <1>4, <2>0, <2>2, EndKeeps DEF books
  <2> QED
    BY <1>5, <2>1, <2>2 DEF WaitForRollout
<1>6. CASE wait_for_healthz
  <2>0. /\ release.step = "health" /\ release.tag \in Images /\ release # NoRelease
        /\ UNCHANGED <<healthy, schema, site, before, releases>>
    BY <1>1, <1>6 DEF wait_for_healthz, At, Api
  <2>1. CASE passed' = passed \cup {release.tag} /\ Step("workers") /\ UNCHANGED <<revisions, access, outcome>>
    <3>1. RanInv(revisions, schema, passed')
      BY <1>0, <2>0, <2>1, MoreCovers DEF RanInv
    <3>2. ReleaseInv(release', revisions, schema, passed', before)
      BY <1>0, <2>0, <2>1 DEF ReleaseInv, ReleaseType, Step, Before, Api, Worker
    <3> QED
      BY <1>0, <2>0, <2>1, <3>1, <3>2 DEF RolloutInv, ClusterInv, access
  <2>2. CASE revisions' = Undo("app") /\ EndRelease("unhealthy") /\ UNCHANGED passed
    BY <1>0, <1>4, <2>0, <2>2, EndKeeps
  <2> QED
    BY <1>6, <2>1, <2>2 DEF wait_for_healthz
<1> QED
  BY <1>2, <1>3, <1>5, <1>6

(* The workers and the site.                                                *)
LEMMA WorkersKeep ==
    ASSUME RolloutInv, RolloutWorker \/ wait_for_pod_ready \/ SyncSite
    PROVE  RolloutInv'
<1>0. /\ RanInv(revisions, schema, passed) /\ ReleaseInv(release, revisions, schema, passed, before)
      /\ site \in passed \cup {Mixed} /\ tunnel \in BOOLEAN /\ kubeconfig \in BOOLEAN
  BY DEF RolloutInv, ClusterInv
<1>1. release.step \in Worker
  BY DEF RolloutWorker, wait_for_pod_ready, SyncSite, At, Worker
<1>2. /\ release.tag \in Images /\ release.tag \in schema /\ release.tag \in passed /\ release # NoRelease
      /\ release \in ReleaseType /\ outcome = "none"
  BY <1>0, <1>1 DEF ReleaseInv, Worker, NoRelease, RolloutInv, ClusterInv
<1>3. CASE RolloutWorker
  <2>0. /\ release.worker \in DOMAIN WorkerTypes /\ release' = [release EXCEPT !.step = "workerRollout"]
        /\ revisions' = [revisions EXCEPT ![WorkerTypes[release.worker]] = Newest(@, release.tag)]
        /\ UNCHANGED <<healthy, schema, site, books, access, outcome>>
    BY <1>3 DEF RolloutWorker, SetImage, Step
  <2>1. RanInv(revisions', schema, passed)
    BY <1>0, <1>2, <2>0, ImageSet, TheDeployments
  <2>2. ReleaseInv(release', revisions', schema, passed, before)
    BY <1>2, <2>0, TheDeployments DEF ReleaseInv, ReleaseType, Before, Api, Worker
  <2> QED
    BY <2>0, <2>1, <2>2, <1>2 DEF RolloutInv, ClusterInv, books, access
<1>4. CASE wait_for_pod_ready
  <2>0. release.step = "workerRollout" /\ release.worker \in 1 .. Len(WorkerTypes) /\ UNCHANGED <<healthy, schema, site, books>>
    BY <1>0, <1>4 DEF wait_for_pod_ready, At, ReleaseInv
  <2>1. CASE /\ release' = [release EXCEPT !.step = "workers", !.worker = @ + 1]
             /\ UNCHANGED <<revisions, access, outcome>>
    <3>1. release.worker + 1 \in 0 .. Len(WorkerTypes) + 1
      BY <2>0, TheDeployments
    <3>2. /\ release' \in ReleaseType /\ release'.step = "workers" /\ release'.tag = release.tag
      BY <1>2, <2>1, <3>1 DEF ReleaseType, Worker
    <3>3. ReleaseInv(release', revisions, schema, passed, before)
      BY <1>2, <3>2 DEF ReleaseInv, Before, Api, Worker
    <3> QED
      BY <1>2, <2>0, <2>1, <3>3 DEF RolloutInv, ClusterInv, books, access
  <2>2. CASE revisions' = Undo(WorkerTypes[release.worker]) /\ EndRelease("workerFailed")
    <3>1. RanInv(revisions', schema, passed)
      BY <1>0, <2>0, <2>2, RolledBack, TheDeployments DEF Undo
    <3> QED
      BY <1>0, <2>0, <2>2, <3>1, EndKeeps DEF books
  <2> QED
    BY <1>4, <2>1, <2>2 DEF wait_for_pod_ready
<1>5. CASE SyncSite
  <2>1. PICK o : EndRelease(o)
    BY <1>5 DEF SyncSite
  <2>2. site' \in passed \cup {Mixed} /\ UNCHANGED <<revisions, healthy, schema, books>>
    BY <1>0, <1>2, <1>5 DEF SyncSite
  <2> QED
    BY <1>0, <2>1, <2>2, EndKeeps DEF books
<1> QED
  BY <1>3, <1>4, <1>5

(* The invariant holds throughout.                                          *)
LEMMA RolloutInvariant == RolloutSpec => []RolloutInv
<1>1. RolloutInit => RolloutInv
  <2> SUFFICES ASSUME RolloutInit PROVE RolloutInv
    OBVIOUS
  <2>1. <<First>> \in Seq(Images) /\ Len(<<First>>) = 1 /\ Distinct(<<First>>) /\ \A x : Ran(<<First>>, x) => x = First
    BY RolloutAssumption DEF Distinct, Ran
  <2>2. RanInv(revisions, schema, passed)
    BY <2>1, RolloutAssumption DEF RolloutInit, RanInv
  <2>3. ReleaseInv(release, revisions, schema, passed, before) /\ before \in [Deployments -> Images] /\ site \in passed
    BY NoReleaseInv, RolloutAssumption DEF RolloutInit
  <2>4. healthy \subseteq Images /\ releases \in 0 .. MaxReleases /\ outcome = "none"
    BY RolloutAssumption DEF RolloutInit
  <2> QED
    BY <2>2, <2>3, <2>4 DEF RolloutInit, RolloutInv, ClusterInv
<1>2. RolloutInv /\ [RolloutNext]_rolloutVars => RolloutInv'
  <2>1. ASSUME RolloutInv, UNCHANGED rolloutVars PROVE RolloutInv'
    BY <2>1 DEF RolloutInv, rolloutVars
  <2> QED
    BY <2>1, DeployTsKeeps, ApiKeeps, WorkersKeep DEF RolloutNext
<1> QED
  BY <1>1, <1>2, PTL DEF RolloutSpec

(* However releases fail, are rolled back or are killed, of any images over *)
(* any worker types: no deployment runs an image whose migrations have not  *)
(* completed, and nothing runs ahead of the API (deploy.sh).                *)
THEOREM RolloutCorrect == RolloutSpec => [](RolloutTypeOK /\ SchemaCoversImages /\ NothingAheadOfApi)
<1>1. ASSUME RolloutInv PROVE RolloutTypeOK /\ SchemaCoversImages /\ NothingAheadOfApi
  <2>0. /\ RanInv(revisions, schema, passed) /\ ReleaseInv(release, revisions, schema, passed, before)
        /\ site \in passed \cup {Mixed} /\ before \in [Deployments -> Images] /\ passed \subseteq Images
    BY <1>1 DEF RolloutInv, ClusterInv, RanInv
  <2>1. ASSUME NEW d \in Deployments PROVE revisions[d] \in Seq(Images) /\ Len(revisions[d]) \in 1 .. Cardinality(Images)
    BY <2>0, FewEnough DEF RanInv
  <2>2. ASSUME NEW d \in Deployments PROVE Ran(revisions[d], Last(revisions[d]))
    BY <2>0 DEF RanInv, Ran, Last
  <2>3. SchemaCoversImages /\ NothingAheadOfApi
    BY <2>0, <2>2 DEF RanInv, SchemaCoversImages, NothingAheadOfApi
  <2>4. release.tag \in Images \cup {NoTag} /\ release.worker \in 0 .. (Len(WorkerTypes) + 1)
    BY <2>0 DEF ReleaseInv, ReleaseType
  <2>5. RolloutTypeOK
    BY <1>1, <2>0, <2>1, <2>4 DEF RolloutTypeOK, RolloutInv, RanInv
  <2> QED
    BY <2>3, <2>5
<1> QED
  BY <1>1, RolloutInvariant, PTL

(* A release rolled back at the API leaves every deployment on the image it *)
(* ran before, and one that ends leaves no access open (deploy.sh and the   *)
(* finally blocks of deploy.ts).                                            *)
THEOREM RolloutStepsCorrect == RolloutSpec => RollbackRestores /\ AccessIsClosed
<1>1. ASSUME RolloutInv, [RolloutNext]_rolloutVars, release # NoRelease, outcome' \in {"rolloutFailed", "unhealthy"},
             release.tag # before["app"]
      PROVE  \A d \in Deployments : Last(revisions'[d]) = before[d]
  <2>0. /\ RanInv(revisions, schema, passed) /\ ReleaseInv(release, revisions, schema, passed, before) /\ outcome = "none"
    BY <1>1 DEF RolloutInv, ClusterInv
  <2>1. release.step \in Api /\ revisions' = [revisions EXCEPT !["app"] = Previous(@)]
    BY <1>1, <2>0 DEF RolloutNext, rolloutVars, StartRelease, CheckInfrastructure, WriteKubeconfig, runLivenessChecks,
        run_migration_job, SetApiImage, WaitForRollout, wait_for_healthz, RolloutWorker, wait_for_pod_ready, SyncSite,
        ReleaseKilled, EndRelease, Undo, At, Api
  <2>2. /\ \A e \in Deployments \ {"app"} : revisions'[e] = revisions[e]
        /\ Len(revisions["app"]) > 1 => Last(revisions'["app"]) = revisions["app"][Len(revisions["app"]) - 1]
    <3>1. "app" \in Deployments
      BY TheDeployments
    <3>2. Back(revisions, "app", revisions')
      BY <2>0, <2>1, <3>1, RolledBack
    <3> QED
      BY <3>2 DEF Back
  <2>3. /\ Len(revisions["app"]) > 1 /\ revisions["app"][Len(revisions["app"]) - 1] = before["app"]
        /\ \A d \in Deployments \ {"app"} : Last(revisions[d]) = before[d]
    BY <1>1, <2>0, <2>1 DEF ReleaseInv
  <2> QED
    BY <2>2, <2>3
<1>2. ASSUME RolloutInv, [RolloutNext]_rolloutVars, release # NoRelease, release' = NoRelease, outcome' # "killed"
      PROVE  ~tunnel' /\ ~kubeconfig'
  <2>0. release \in ReleaseType
    BY <1>2 DEF RolloutInv, ClusterInv, ReleaseInv
  <2>1. ASSUME NEW s, s # "none", release' = [release EXCEPT !.step = s] PROVE FALSE
    BY <1>2, <2>0, <2>1 DEF NoRelease, ReleaseType
  <2>2. ASSUME release' = [release EXCEPT !.step = "workers", !.worker = @ + 1] PROVE FALSE
    <3>1. PICK x : x = release.worker + 1
      OBVIOUS
    <3>2. release' = [release EXCEPT !.step = "workers", !.worker = x]
      BY <2>2, <3>1
    <3> QED
      <4>1. release'.step = "workers"
        BY <2>0, <3>2 DEF ReleaseType
      <4> QED
        BY <1>2, <4>1 DEF NoRelease
  <2>3. ASSUME NEW o, EndRelease(o) PROVE ~tunnel' /\ ~kubeconfig'
    BY <2>3 DEF EndRelease
  <2> QED
    BY <1>2, <2>1, <2>2, <2>3 DEF RolloutNext, rolloutVars, StartRelease, CheckInfrastructure, WriteKubeconfig,
        runLivenessChecks, run_migration_job, SetApiImage, WaitForRollout, wait_for_healthz, RolloutWorker,
        wait_for_pod_ready, SyncSite, ReleaseKilled, Step
<1> QED
  BY <1>1, <1>2, RolloutInvariant, PTL DEF RolloutSpec, RollbackRestores, AccessIsClosed

=============================================================================
