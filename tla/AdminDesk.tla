------------------------------- MODULE AdminDesk -------------------------------
(* The administrator's writes and the chain of audit events they leave.      *)
EXTENDS Naturals, Sequences, FiniteSets

--------------------------------------------------------------------------------
(* The administrator's desk over one entity and one tenant: handlers that   *)
(* read an entity's properties, change some and write all of them back; the *)
(* erasure and export of a data subject; the two linked tenant settings.    *)

CONSTANTS
    Fields,         \* property names
    Sensitive,      \* the fields entity_types.sensitive lists
    Required,       \* the name of a CRM entity, which may not be empty; the role of a user
    Salted,         \* whether a pseudonym salt is configured
    Desks,          \* requests on the entity
    MaxValue,       \* bound on the values written
    Setters,        \* requests on the tenant's settings
    Halting,        \* whether one of them may stop halfway
    Gone            \* no row

ASSUME AdminAssumption ==
    /\ Sensitive \subseteq Fields /\ Required \in Fields \ Sensitive /\ MaxValue \in Nat \ {0}
    /\ Gone \notin [Fields -> [raw : Nat, masks : Nat]]

VARIABLES
    kind,           \* what the entity is: "crm" or "user"
    props,          \* entities.properties, or Gone
    desk,           \* the requests on the entity
    told,           \* history: the row as the audit events written so far replay it
    contradicted,   \* history: an event was written whose before is not what they replay
    intended,       \* history: the value last meant for each field
    crossed,        \* history: one request wrote what it had read before another wrote
    unaudited,      \* history: an audit write failed, or events of two requests crossed
    regulated, legacy,  \* tenant_policies: the two settings
    setter,         \* the requests on them
    setRaced        \* history: a request on one setting moved between two steps of another, or stopped

entityVars == <<kind, props, desk, told, contradicted, intended, crossed, unaudited>>
settingVars == <<regulated, legacy, setter, setRaced>>
adminVars == <<entityVars, settingVars>>

Null == [raw |-> 0, masks |-> 0]
Value == [raw : 0 .. MaxValue, masks : Nat]
AtRest == [pc |-> "idle", op |-> Gone, read |-> Gone, after |-> Gone, todo |-> {}]
NoSetter == [pc |-> "idle", enable |-> FALSE]

AdminTypeOK ==
    /\ props = Gone \/ props \in [Fields -> Value]
    /\ \A d \in Desks : desk[d].pc \in {"idle", "write", "audit", "answered", "refused"}
    /\ regulated \in BOOLEAN /\ legacy \in BOOLEAN
    /\ \A s \in Setters : setter[s].pc \in {"idle", "check", "disable", "write", "done", "refused"}

AdminInit ==
    /\ kind \in {"crm", "user"} /\ props = [f \in Fields |-> [raw |-> 1, masks |-> 0]]
    /\ desk = [d \in Desks |-> AtRest] /\ told = props /\ contradicted = FALSE
    /\ intended = props /\ crossed = FALSE /\ unaudited = FALSE
    /\ regulated = FALSE /\ legacy \in BOOLEAN /\ setter = [s \in Setters |-> NoSetter] /\ setRaced = FALSE

--------------------------------------------------------------------------------
(* The entity.                                                              *)

(* anonymizeRecord: a sensitive field becomes a pseudonym, or null.         *)
Masked(v) == IF Salted THEN [v EXCEPT !.masks = @ + 1] ELSE Null
AnonymizeRecord(p) == [f \in Fields |-> IF f \in Sensitive THEN Masked(p[f]) ELSE p[f]]

(* {...existing.properties, ...body.properties}                             *)
Merge(p, F, v) == [f \in Fields |-> IF f \in F THEN v ELSE p[f]]

(* A request reads the row and computes what it becomes.                    *)
Begin(d, op, after) ==
    /\ desk[d].pc = "idle"
    /\ desk' = [desk EXCEPT ![d] = [pc |-> "write", op |-> op, read |-> props, after |-> after, todo |-> {}]]
    /\ UNCHANGED <<kind, props, told, contradicted, intended, crossed, unaudited>>

Refuse(d) ==
    /\ desk[d].pc = "idle" /\ desk' = [desk EXCEPT ![d].pc = "refused"]
    /\ UNCHANGED <<kind, props, told, contradicted, intended, crossed, unaudited>>

(* PATCH of a CRM entity: refused when it leaves the name empty.            *)
PatchCrmEntity(d, F, v) ==
    /\ kind = "crm" /\ props # Gone
    /\ IF Merge(props, F, v)[Required] = Null
       THEN Refuse(d)
       ELSE Begin(d, [name |-> "patch", fields |-> F, value |-> v], Merge(props, F, v))

(* PATCH of a user: the role, the active flag or both.                      *)
PatchUser(d, F, v) ==
    /\ kind = "user" /\ props # Gone /\ F # {} /\ F \cap Sensitive = {}
    /\ Begin(d, [name |-> "patch", fields |-> F, value |-> v], Merge(props, F, v))

HandleErasure(d) ==
    props # Gone /\ Begin(d, [name |-> "erase", fields |-> Sensitive, value |-> Null], AnonymizeRecord(props))

DeleteCrmEntity(d) ==
    kind = "crm" /\ props # Gone /\ Begin(d, [name |-> "delete", fields |-> {}, value |-> Null], Gone)

NotFound(d) == props = Gone /\ Refuse(d)

(* What each request means to leave behind.                                 *)
Intends(op) ==
    CASE op.name = "patch" -> Merge(intended, op.fields, op.value)
      [] op.name = "erase" -> AnonymizeRecord(intended)
      [] OTHER -> intended

(* The fields its events are about: of a user's PATCH those that changed,   *)
(* each in an event of its own; of the others all, in one event.            *)
Single(q) == kind = "user" /\ q.op.name = "patch"
ToRecord(q) == IF Single(q) THEN {f \in q.op.fields : q.after[f] # q.read[f]} ELSE Fields
Recorded(q) ==
    IF Single(q) THEN {IF Required \in q.todo THEN Required ELSE CHOOSE f \in q.todo : TRUE} ELSE q.todo

(* UPDATE ... SET properties = all of them, or DELETE; no row, no effect.   *)
WriteBack(d) ==
    LET q == desk[d] IN
    /\ q.pc = "write"
    /\ desk' = [desk EXCEPT ![d].pc = IF ToRecord(q) = {} THEN "answered" ELSE "audit", ![d].todo = ToRecord(q)]
    /\ props' = IF props = Gone THEN Gone ELSE q.after
    /\ intended' = Intends(q.op) /\ crossed' = (crossed \/ props # q.read)
    /\ UNCHANGED <<kind, told, contradicted, unaudited>>

(* An audit event: its fields before and after.  A failure is logged only.  *)
Replayed(F, after) ==
    IF told = Gone \/ after = Gone THEN Gone ELSE [f \in Fields |-> IF f \in F THEN after[f] ELSE told[f]]

WriteAudit(d, fails) ==
    LET q == desk[d]  F == Recorded(q) IN
    /\ q.pc = "audit"
    /\ desk' = [desk EXCEPT ![d].pc = IF q.todo = F THEN "answered" ELSE "audit", ![d].todo = @ \ F]
    /\ told' = IF fails THEN told ELSE Replayed(F, q.after)
    /\ contradicted' = (contradicted \/ (~fails /\ (told = Gone \/ \E f \in F : told[f] # q.read[f])))
    /\ unaudited' = (unaudited \/ fails \/ \E e \in Desks \ {d} : desk[e].pc = "audit")
    /\ UNCHANGED <<kind, props, intended, crossed>>

EntityNext ==
    \E d \in Desks :
        \/ \E F \in SUBSET Fields, n \in 0 .. MaxValue :
              PatchCrmEntity(d, F, [raw |-> n, masks |-> 0]) \/ PatchUser(d, F, [raw |-> n, masks |-> 0])
        \/ HandleErasure(d) \/ DeleteCrmEntity(d) \/ NotFound(d) \/ WriteBack(d)
        \/ \E fails \in BOOLEAN : WriteAudit(d, fails)

--------------------------------------------------------------------------------
(* The tenant's settings: every step of a request is a statement of its own.*)
Step(s, pc) == setter' = [setter EXCEPT ![s].pc = pc]

SetTenantRegulated(s, on) ==
    /\ setter[s].pc = "idle" /\ regulated' = on
    /\ Step(s, IF on THEN "check" ELSE "done")
    /\ setRaced' = (setRaced \/ (on /\ \E t \in Setters : setter[t].pc = "write" /\ setter[t].enable))
    /\ UNCHANGED legacy

CheckLegacy(s) ==
    /\ setter[s].pc = "check" /\ Step(s, IF legacy THEN "disable" ELSE "done")
    /\ UNCHANGED <<regulated, legacy, setRaced>>

DisableLegacy(s) ==
    /\ setter[s].pc = "disable" /\ legacy' = FALSE /\ Step(s, "done")
    /\ UNCHANGED <<regulated, setRaced>>

SetAssemblyAiLegacyEnabled(s, on) ==
    /\ setter[s].pc = "idle"
    /\ setter' = [setter EXCEPT ![s] = [pc |-> IF on /\ regulated THEN "refused" ELSE "write", enable |-> on]]
    /\ UNCHANGED <<regulated, legacy, setRaced>>

UpsertLegacy(s) ==
    /\ setter[s].pc = "write" /\ legacy' = setter[s].enable /\ Step(s, "done")
    /\ UNCHANGED <<regulated, setRaced>>

(* The server stops between two statements of a request.                    *)
SetterStops(s) ==
    /\ Halting /\ setter[s].pc \in {"check", "disable", "write"} /\ Step(s, "done")
    /\ setRaced' = (setRaced \/ setter[s].pc # "write") /\ UNCHANGED <<regulated, legacy>>

SettingNext ==
    \E s \in Setters :
        \/ \E on \in BOOLEAN : SetTenantRegulated(s, on) \/ SetAssemblyAiLegacyEnabled(s, on)
        \/ CheckLegacy(s) \/ DisableLegacy(s) \/ UpsertLegacy(s) \/ SetterStops(s)

--------------------------------------------------------------------------------
(* While no request writes back properties that changed since it read them, *)
(* the row holds what the requests meant: a change of one field keeps the   *)
(* others, and an erased field stays erased.                                *)
EditsAddUp == ~crossed /\ props # Gone => props = intended

(* With every audit write done, in the order of the changes, the events are *)
(* a history of the row: each starts from what the ones before it replay    *)
(* to, and together they replay to the row as it is, although a user's      *)
(* PATCH records its fields one by one and leaves out what did not change.  *)
TrailReplays ==
    ~crossed /\ ~unaudited =>
        ~contradicted /\ ((\A d \in Desks : desk[d].pc # "audit") => told = props)

SettledDown == \A s \in Setters : setter[s].pc \in {"idle", "done", "refused"}

(* A regulated tenant has the legacy path off, once the requests are done   *)
(* and none of them stopped halfway or enabled it on what it had read       *)
(* before the tenant became regulated.                                      *)
RegulatedHasNoLegacy == regulated /\ SettledDown /\ ~setRaced => ~legacy

--------------------------------------------------------------------------------
(* The hash-chained audit log: writers of several requests append events in *)
(* serializable transactions, each naming the hash of the event before it.  *)
(* A hash stands for the event and, through its prev, for all before it.    *)

CONSTANTS
    Writers,        \* requests that emit one event each
    MaxClock        \* bound on the clock

ASSUME AuditAssumption == MaxClock \in Nat \ {0} /\ IsFiniteSet(Writers)

VARIABLES
    clock,
    events,         \* committed rows of audit_events
    writer,         \* the requests
    late            \* history: a row was committed that does not sort last

auditVars == <<clock, events, writer, late>>

Genesis == "genesis"
Waiting == [pc |-> "idle", ts |-> 0, prev |-> Genesis, saw |-> {}]

AuditTypeOK ==
    /\ clock \in 1 .. MaxClock
    /\ \A e \in events : e.ts \in 1 .. clock /\ e.by \in Writers
    /\ \A w \in Writers : writer[w].pc \in {"idle", "stamped", "begun", "done", "failed"}

AuditInit ==
    /\ clock = 1 /\ events = {} /\ late = FALSE /\ writer = [w \in Writers |-> Waiting]

AuditTick == clock < MaxClock /\ clock' = clock + 1 /\ UNCHANGED <<events, writer, late>>

(* ORDER BY ts, id: ids are random, so rows of one instant sort either way. *)
Before(e, f) == e.ts < f.ts \/ (e.ts = f.ts /\ e.id < f.id)
Latest(S) == CHOOSE e \in S : \A f \in S \ {e} : Before(f, e)
HashOf(e) == e.by

(* The caller puts the time into the event before it is written.            *)
Stamp(w) ==
    /\ writer[w].pc = "idle" /\ writer' = [writer EXCEPT ![w].pc = "stamped", ![w].ts = clock]
    /\ UNCHANGED <<clock, events, late>>

(* BEGIN SERIALIZABLE and the SELECT of the latest row.                     *)
SelectLatest(w) ==
    /\ writer[w].pc = "stamped"
    /\ writer' = [writer EXCEPT ![w].pc = "begun", ![w].saw = events,
                                ![w].prev = IF events = {} THEN Genesis ELSE HashOf(Latest(events))]
    /\ UNCHANGED <<clock, events, late>>

(* INSERT and COMMIT, refused when another transaction committed since the  *)
(* snapshot: both read the rows the other one adds to.                      *)
Commit(w, id) ==
    LET e == [ts |-> writer[w].ts, id |-> id, by |-> w, prev |-> writer[w].prev] IN
    /\ writer[w].pc = "begun" /\ events = writer[w].saw
    /\ \A f \in events : f.id # id
    /\ events' = events \cup {e} /\ writer' = [writer EXCEPT ![w].pc = "done"]
    /\ late' = (late \/ \E f \in events : ~Before(f, e))
    /\ UNCHANGED clock

Rollback(w) ==
    /\ writer[w].pc = "begun" /\ writer' = [writer EXCEPT ![w].pc = "failed"]
    /\ UNCHANGED <<clock, events, late>>

AuditNext ==
    \/ AuditTick
    \/ \E w \in Writers : Stamp(w) \/ SelectLatest(w) \/ Rollback(w)
    \/ \E w \in Writers, id \in 1 .. Cardinality(Writers) : Commit(w, id)

(* GET /api/audit/verify: the rows in their order, each naming the one      *)
(* before it.                                                               *)
Verify(S) ==
    \A e \in S : LET sooner == {f \in S : Before(f, e)} IN
        e.prev = IF sooner = {} THEN Genesis ELSE HashOf(Latest(sooner))

--------------------------------------------------------------------------------
(* While events are committed in the order of the times their callers took, *)
(* the log verifies: overlapping writers do not break the chain.            *)
ChainVerifies == ~late => Verify(events)

(* An event names one that was committed, and a writer that failed left     *)
(* nothing behind.                                                          *)
ChainIsGrounded ==
    /\ \A e \in events : e.prev = Genesis \/ \E f \in events : HashOf(f) = e.prev /\ f # e
    /\ \A w \in Writers : (writer[w].pc = "done") <=> \E e \in events : e.by = w

================================================================================
