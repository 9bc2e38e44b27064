------------------------------- MODULE LegalHold -------------------------------
(***************************************************************************)
(* Legal holds on the records of a tenant, and their removal under the     *)
(* four-eyes rule: packages/db/legal-hold.ts as the routes of              *)
(* apps/server/src/api/legal-hold.ts call it.                              *)
(*                                                                         *)
(* The routes pass the connection pool, not a transaction: each statement  *)
(* commits by itself, a SELECT ... FOR UPDATE locks nothing beyond itself, *)
(* and every statement is a step of its own.  The role check has no state  *)
(* here: Officers are the users who pass it.  Audit writes that fail are   *)
(* only logged by these functions and are left out.                        *)
(***************************************************************************)
EXTENDS Integers, FiniteSets

CONSTANTS
    Tenants,
    Officers,         \* compliance officers, and the superuser
    HoldIds,          \* bound of the model: ids of the holds that can be placed
    RemovalIds,       \* bound of the model: ids of the removal requests
    Sessions,         \* HTTP requests that can be in flight at once
    MaxInterrupted,   \* bound of the model: HTTP requests and scans cut short
    None

ASSUME LegalHoldAssumption ==
    /\ MaxInterrupted \in Nat
    /\ None \notin Tenants \cup Officers \cup HoldIds \cup RemovalIds

VARIABLES
    holds,        \* legal_holds
    removals,     \* legal_hold_removal_requests
    session,      \* the handler of each HTTP request, between two statements
    interrupted   \* HTTP requests and scans cut short so far

holdVars == <<holds, removals, session, interrupted>>

HoldType == [status: {"absent", "active", "pending_removal", "removed"},
             tenant: Tenants \cup {None}, removed_at: BOOLEAN]
RemovalType == [status: {"absent", "pending", "approved", "rejected"},
                hold: HoldIds \cup {None}, requested_by: Officers \cup {None},
                co_approved_by: Officers \cup {None}]
SessionType == [pc: {"idle", "mark", "insert", "approve", "lift", "reject", "restore"},
                by: Officers \cup {None}, hold: HoldIds \cup {None},
                removal: RemovalIds \cup {None}]

HoldTypeOK ==
    /\ holds \in [HoldIds -> HoldType]
    /\ removals \in [RemovalIds -> RemovalType]
    /\ session \in [Sessions -> SessionType]
    /\ interrupted \in Nat

NoSession == [pc |-> "idle", by |-> None, hold |-> None, removal |-> None]

HoldInit ==
    /\ holds = [h \in HoldIds |-> [status |-> "absent", tenant |-> None, removed_at |-> FALSE]]
    /\ removals = [r \in RemovalIds |-> [status |-> "absent", hold |-> None,
                                         requested_by |-> None, co_approved_by |-> None]]
    /\ session = [s \in Sessions |-> NoSession]
    /\ interrupted = 0

-----------------------------------------------------------------------------
PlaceLegalHold(h, t) ==
    /\ holds[h].status = "absent"
    /\ holds' = [holds EXCEPT ![h] = [status |-> "active", tenant |-> t, removed_at |-> FALSE]]
    /\ UNCHANGED <<removals, session, interrupted>>

FreeIds == {r \in RemovalIds : removals[r].status = "absent"}
Requesting == {s \in Sessions : session[s].pc \in {"mark", "insert"}}

(* requestHoldRemoval: SELECT ... FOR UPDATE; the hold is active.  Bounded *)
(* so that an id is left for every request in flight.                      *)
CheckActive(s, o, h) ==
    /\ session[s].pc = "idle"
    /\ Cardinality(Requesting) < Cardinality(FreeIds)
    /\ holds[h].status = "active"
    /\ session' = [session EXCEPT ![s] = [pc |-> "mark", by |-> o, hold |-> h, removal |-> None]]
    /\ UNCHANGED <<holds, removals, interrupted>>

(* requestHoldRemoval: UPDATE legal_holds, whatever the status is now.     *)
MarkPendingRemoval(s) ==
    /\ session[s].pc = "mark"
    /\ holds' = [holds EXCEPT ![session[s].hold].status = "pending_removal"]
    /\ session' = [session EXCEPT ![s].pc = "insert"]
    /\ UNCHANGED <<removals, interrupted>>

(* UNIQUE (hold_id, status, requested_by) refuses the status st for r.     *)
Refused(r, h, o, st) ==
    \E q \in RemovalIds \ {r} :
        removals[q].status = st /\ removals[q].hold = h /\ removals[q].requested_by = o

(* requestHoldRemoval: INSERT; a duplicate ends the request with an error. *)
InsertRemoval(s, r) ==
    LET c == session[s]
    IN  /\ c.pc = "insert" /\ r \in FreeIds
        /\ removals' = IF Refused(r, c.hold, c.by, "pending") THEN removals
                       ELSE [removals EXCEPT ![r] = [status |-> "pending", hold |-> c.hold,
                                requested_by |-> c.by, co_approved_by |-> None]]
        /\ session' = [session EXCEPT ![s] = NoSession]
        /\ UNCHANGED <<holds, interrupted>>

(* A slip: the requester may approve the removal.                          *)
MayCoApprove_Anyone(r, o) == removals[r].status = "pending"

(* approveHoldRemoval: pending, and not the requester's own.               *)
MayCoApprove(r, o) == removals[r].status = "pending" /\ removals[r].requested_by # o

CheckApprovable(s, o, r) ==
    /\ session[s].pc = "idle"
    /\ MayCoApprove(r, o)
    /\ session' = [session EXCEPT ![s] = [pc |-> "approve", by |-> o,
                      hold |-> removals[r].hold, removal |-> r]]
    /\ UNCHANGED <<holds, removals, interrupted>>

(* approveHoldRemoval: UPDATE of the removal request, then of the hold.    *)
MarkApproved(s) ==
    LET c == session[s]
    IN  /\ c.pc = "approve"
        /\ IF Refused(c.removal, c.hold, removals[c.removal].requested_by, "approved")
           THEN /\ session' = [session EXCEPT ![s] = NoSession]
                /\ UNCHANGED removals
           ELSE /\ session' = [session EXCEPT ![s].pc = "lift"]
                /\ removals' = [removals EXCEPT ![c.removal] =
                                  [@ EXCEPT !.status = "approved", !.co_approved_by = c.by]]
        /\ UNCHANGED <<holds, interrupted>>

LiftHold(s) ==
    LET h == session[s].hold
    IN  /\ session[s].pc = "lift"
        /\ holds' = [holds EXCEPT ![h] = [@ EXCEPT !.status = "removed", !.removed_at = TRUE]]
        /\ session' = [session EXCEPT ![s] = NoSession]
        /\ UNCHANGED <<removals, interrupted>>

CheckRejectable(s, o, r) ==
    /\ session[s].pc = "idle"
    /\ removals[r].status = "pending"
    /\ session' = [session EXCEPT ![s] = [pc |-> "reject", by |-> o,
                      hold |-> removals[r].hold, removal |-> r]]
    /\ UNCHANGED <<holds, removals, interrupted>>

(* rejectHoldRemoval: UPDATE of the removal request, then of the hold.     *)
MarkRejected(s) ==
    LET c == session[s]
    IN  /\ c.pc = "reject"
        /\ IF Refused(c.removal, c.hold, removals[c.removal].requested_by, "rejected")
           THEN /\ session' = [session EXCEPT ![s] = NoSession]
                /\ UNCHANGED removals
           ELSE /\ session' = [session EXCEPT ![s].pc = "restore"]
                /\ removals' = [removals EXCEPT ![c.removal].status = "rejected"]
        /\ UNCHANGED <<holds, interrupted>>

(* removed_at is not cleared.                                              *)
RestoreHold(s) ==
    /\ session[s].pc = "restore"
    /\ holds' = [holds EXCEPT ![session[s].hold].status = "active"]
    /\ session' = [session EXCEPT ![s] = NoSession]
    /\ UNCHANGED <<removals, interrupted>>

(* The server stops, or the database fails, between two statements.        *)
Interrupted(s) ==
    /\ session[s].pc # "idle" /\ interrupted < MaxInterrupted
    /\ interrupted' = interrupted + 1
    /\ session' = [session EXCEPT ![s] = NoSession]
    /\ UNCHANGED <<holds, removals>>

-----------------------------------------------------------------------------
(* A slip: a hold whose removal has been asked for no longer counts.       *)
InForce_ActiveOnly(h) == holds[h].status = "active"

(* hasActiveLegalHold: removal is not complete before the co-approval.     *)
InForce(h) == holds[h].status \in {"active", "pending_removal"}

HoldsInForce(t) == {h \in HoldIds : holds[h].tenant = t /\ InForce(h)}

Handle(s) ==
    \/ \E o \in Officers :
          \/ \E h \in HoldIds : CheckActive(s, o, h)
          \/ \E r \in RemovalIds : CheckApprovable(s, o, r) \/ CheckRejectable(s, o, r)
    \/ MarkPendingRemoval(s)
    \/ \E r \in RemovalIds : InsertRemoval(s, r)
    \/ MarkApproved(s) \/ LiftHold(s)
    \/ MarkRejected(s) \/ RestoreHold(s)
    \/ Interrupted(s)

HoldNext ==
    \/ \E h \in HoldIds, t \in Tenants : PlaceLegalHold(h, t)
    \/ \E s \in Sessions : Handle(s)

HoldSpec == HoldInit /\ [][HoldNext]_holdVars

-----------------------------------------------------------------------------
CoApproved(h) ==
    \E r \in RemovalIds : /\ removals[r].hold = h
                          /\ removals[r].co_approved_by \notin {None, removals[r].requested_by}

(* Four eyes: however approvals, rejections and new requests interleave,   *)
(* and wherever one is cut short, a hold that is or was lifted             *)
(* (approveHoldRemoval sets removed_at) has a removal request one officer  *)
(* made and a different one co-approved.                                   *)
FourEyes == \A h \in HoldIds : holds[h].status = "removed" \/ holds[h].removed_at => CoApproved(h)

=============================================================================
