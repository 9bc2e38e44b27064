-------------------------------- MODULE Genesis --------------------------------
(* The database genesis job (packages/db/init-remote.ts) and the row level  *)
(* security it installs.  The job is a straight line of SQL statements, each *)
(* atomic, none in a common transaction; the Kubernetes Job starts it again  *)
(* from the top when it dies, and an operator may run it again on a database *)
(* that is already serving.  What the statements leave in the catalogue is a *)
(* set of facts; what a session may read is computed from those facts the    *)
(* way PostgreSQL combines policies, while withRlsContext (rls-context.ts)   *)
(* binds a transaction on a pooled connection.                               *)
EXTENDS Integers, Sequences, SequencesExt, FiniteSets

CONSTANTS
    Shops,          \* tenants of the app database
    Clients,        \* customers that own wiki pages
    NoShop,         \* a NULL tenant_id, and an empty app.current_tenant_id
    MaxGenesis      \* bound: runs of the job

VARIABLES
    facts,          \* the catalogue: roles, databases, grants, tables, policies
    stmt,           \* the next statement of the run; 0 when no run is under way
    genesisRuns,    \* runs started so far
    verified,       \* the last run ended in a successful verification
    served,         \* servers have been started on this database
    conn            \* the settings of a pooled connection, and whose they are

genesisVars == <<facts, stmt, genesisRuns, verified, served, conn>>

(***************************************************************************)
(* The catalogue                                                           *)
(***************************************************************************)
Role(r) == <<"role", r>>
Database(d) == <<"database", d>>
Connect(d, r) == <<"connect", d, r>>
Table(d, t) == <<"table", d, t>>
Grant(t, r, p) == <<"grant", t, r, p>>
Secured(t) == <<"rls", t>>
Forced(t) == <<"force", t>>
Policy(t, p) == <<"policy", t, p>>

RoleNames == [app |-> "app_rw", audit |-> "audit_w", analytics |-> "analytics_w", dictionary |-> "dict_rw"]
Pools == DOMAIN RoleNames
PoolOrder == <<"app", "audit", "analytics", "dictionary">>
CustomerTables == {"entities", "relations"}
ContentTables == CustomerTables \cup {"wiki"}
AppTables == <<"entities", "relations", "wiki", "task_queue", "business_journal", "legal_holds", "rl_tables">>
Dml == {"SELECT", "INSERT", "UPDATE", "DELETE"}
AppendOnly == {"SELECT", "INSERT"}

(***************************************************************************)
(* Statements: what each needs, and what it does to the catalogue          *)
(***************************************************************************)
Add(need, x) == [op |-> "add", need |-> need, x |-> x]
Ensure(need, x) == [op |-> "ensure", need |-> need, x |-> x]    \* IF NOT EXISTS
Drop(need, x) == [op |-> "drop", need |-> need, x |-> x]
Create(need, x) == [op |-> "create", need |-> need, x |-> x]    \* an error if it is there
GrantOnAllTables == [op |-> "all", need |-> {Database("app"), Role("app_rw")}, x |-> {}]

CanRun(s, f) == s.need \subseteq f /\ (s.op = "create" => s.x \cap f = {})

(* An IF NOT EXISTS statement is keyed by the thing it creates: a database  *)
(* or a table comes with the default privileges only when it is created.    *)
Keyed(x) == {y \in x : y[1] \in {"role", "database", "table"}}

Effect(s, f) ==
    CASE s.op = "ensure" -> IF Keyed(s.x) \subseteq f THEN f ELSE f \cup s.x
      [] s.op = "drop" -> f \ s.x
      [] s.op = "all" -> f \cup {Grant(y[3], "app_rw", p) : y \in {z \in f : z[1] = "table" /\ z[2] = "app"}, p \in Dml}
      [] OTHER -> f \cup s.x

Each(Op(_), s) == FlattenSeq([i \in DOMAIN s |-> Op(s[i])])

ensureRole(r) == <<Ensure({}, {Role(r)})>>

ensureDatabase(d) ==
    <<Ensure({}, {Database(d), Connect(d, "PUBLIC")}), Drop({Database(d)}, {Connect(d, "PUBLIC")})>>

grantConnect(d, r) == <<Add({Database(d), Role(r)}, {Connect(d, r)})>>

configureAppDatabase == <<GrantOnAllTables>>

(* Each of these is one string of statements, sent and committed as one.    *)
configureAuditDatabase ==
    <<Add({Database("audit"), Role("audit_w")},
          {Table("audit", "audit_events")} \cup {Grant("audit_events", "audit_w", p) : p \in AppendOnly})>>

configureAnalyticsDatabase ==
    <<Add({Database("analytics"), Role("analytics_w")},
          {Table("analytics", "session_events")} \cup {Grant("session_events", "analytics_w", p) : p \in AppendOnly})>>

configureDictionaryDatabase ==
    <<Add({Database("dictionary"), Role("dict_rw")},
          {Table("dictionary", "identity_tokens")} \cup {Grant("identity_tokens", "dict_rw", p) : p \in Dml})>>

(* schema.sql runs as app_rw, so the tables are app_rw's, with all rights.  *)
migrateAppSchema ==
    LET CreateTable(t) == <<Ensure({Database("app"), Connect("app", "app_rw")},
                                   {Table("app", t)} \cup {Grant(t, "app_rw", p) : p \in Dml})>>
    IN Append(Each(CreateTable, AppTables), Add({Table("app", "task_queue")}, {Table("app", "task_queue_view")}))

revokeJournal ==
    <<Drop({Table("app", "business_journal")}, {Grant("business_journal", "app_rw", p) : p \in {"UPDATE", "DELETE"}})>>

RecreatePolicy(t, p) == <<Drop({Table("app", t)}, {Policy(t, p)}), Create({Table("app", t)}, {Policy(t, p)})>>

ensureAgentRoles == ensureRole("agent_worker") \o <<Ensure({Role("agent_worker")}, {Role("agent_email_ingest")})>>

configureAgentWorkerRoles ==
    <<Add({Table("app", "task_queue")}, {Secured("task_queue")}),
      Add({Database("app"), Role("agent_email_ingest")}, {Connect("app", "agent_email_ingest")}),
      Add({Table("app", "task_queue_view")}, {Grant("task_queue_view", "agent_email_ingest", "SELECT")})>>
    \o RecreatePolicy("task_queue", "agent_read")

configureCustomerScopedRls ==
    LET Secure(t) == <<Add({Table("app", t)}, {Secured(t)}), Add({Table("app", t)}, {Forced(t)})>>
    IN  Secure("entities") \o RecreatePolicy("entities", "tenant_isolation")
        \o Secure("relations") \o RecreatePolicy("relations", "tenant_isolation")
        \o Secure("wiki") \o RecreatePolicy("wiki", "rm_isolation")
        \o RecreatePolicy("wiki", "insert_bypass") \o RecreatePolicy("wiki", "update_bypass")

configureBdmRls == Each(LAMBDA t : RecreatePolicy(t, "bdm_block"), <<"entities", "relations", "wiki">>)

configureComplianceOfficerRole ==
    ensureRole("compliance_officer")
    \o <<Add({Role("compliance_officer"), Table("app", "legal_holds")},
             {Grant(t, "compliance_officer", "SELECT") : t \in ContentTables \cup {"legal_holds"}}),
         Add({Table("audit", "audit_events")}, {Grant("audit_events", "compliance_officer", "SELECT")})>>
    \o Each(LAMBDA t : RecreatePolicy(t, "compliance_block"), <<"entities", "relations", "wiki">>)

configureRevenueLicycleRoles ==
    LET Personas == <<"sales_rep", "collections_agent", "finance_controller", "cfo", "account_manager">>
    IN  Each(ensureRole, Personas)
        \o Each(LAMBDA r : <<Add({Role(r), Table("app", "rl_tables")}, {Grant("rl_tables", r, "SELECT")})>>, Personas)

runInitRemote ==
    Each(LAMBDA d : ensureRole(RoleNames[d]), PoolOrder) \o Each(ensureDatabase, PoolOrder)
    \o Each(LAMBDA d : grantConnect(d, RoleNames[d]), PoolOrder)
    \o configureAppDatabase \o configureAuditDatabase \o configureAnalyticsDatabase \o configureDictionaryDatabase
    \o migrateAppSchema \o revokeJournal
    \o ensureAgentRoles \o configureAgentWorkerRoles \o configureCustomerScopedRls \o configureBdmRls
    \o configureComplianceOfficerRole \o configureRevenueLicycleRoles

(***************************************************************************)
(* What verifyInitRemote asks of the catalogue.  A role may connect if it, *)
(* or PUBLIC, holds CONNECT.                                               *)
(***************************************************************************)
MayConnect(f, d, r) == Connect(d, r) \in f \/ Connect(d, "PUBLIC") \in f

verifyAgentRoles(f) ==
    /\ {Role("agent_worker"), Role("agent_email_ingest"), Secured("task_queue"), Table("app", "task_queue_view"),
        Grant("task_queue_view", "agent_email_ingest", "SELECT"), Policy("task_queue", "agent_read")} \subseteq f
    /\ MayConnect(f, "app", "agent_email_ingest")

verifyInitRemote(f) ==
    /\ \A d \in Pools : Role(RoleNames[d]) \in f /\ Database(d) \in f /\ MayConnect(f, d, RoleNames[d])
    /\ {Table("audit", "audit_events"), Table("analytics", "session_events"),
        Table("dictionary", "identity_tokens"), Table("app", "business_journal")} \subseteq f
    /\ {Grant("audit_events", "audit_w", p) : p \in AppendOnly} \subseteq f
    /\ {Grant("session_events", "analytics_w", p) : p \in AppendOnly} \subseteq f
    /\ {Grant("identity_tokens", "dict_rw", p) : p \in Dml} \subseteq f
    /\ {p \in Dml : Grant("business_journal", "app_rw", p) \in f} = AppendOnly
    /\ ~MayConnect(f, "app", "analytics_w")
    /\ Role("compliance_officer") \in f
    /\ {Grant(t, "compliance_officer", "SELECT") : t \in ContentTables \cup {"legal_holds", "audit_events"}} \subseteq f
    /\ verifyAgentRoles(f)
    /\ {Secured(t) : t \in ContentTables} \cup {Policy(t, "tenant_isolation") : t \in CustomerTables} \subseteq f
    /\ {Policy(t, p) : t \in ContentTables, p \in {"bdm_block", "compliance_block"}} \subseteq f
    /\ Policy("wiki", "rm_isolation") \in f

(***************************************************************************)
(* What a session reads: PostgreSQL's combination of the policies          *)
(***************************************************************************)
Rows ==
    [table : {"entities"}, tenant : Shops \cup {NoShop}, blocked : BOOLEAN]
    \cup [table : {"relations"}, tenant : Shops \cup {NoShop}, blocked : BOOLEAN, source : BOOLEAN]
    \cup [table : {"wiki"}, client : Clients]

Restrictive == {"bdm_block", "compliance_block"}
Reading == {"tenant_isolation", "rm_isolation"} \cup Restrictive    \* policies FOR SELECT or FOR ALL

(* A row's blocked flag says its type is on the list of types a BDM session *)
(* may not read.                                                            *)
BlockPasses(s, role, row, p) ==
    CASE p = "bdm_block" -> ~s.bdm \/ (row.table # "wiki" /\ ~row.blocked)
      [] p = "compliance_block" -> role # "compliance_officer"

(* Without row level security every row is shown; the owner app_rw is bound *)
(* by it only when it is forced.  Otherwise some permissive policy and all  *)
(* restrictive ones must pass.                                              *)
Combined(f, s, role, row, permits) ==
    LET there == {p \in Reading : Policy(row.table, p) \in f}
    IN  \/ Secured(row.table) \notin f
        \/ role = "app_rw" /\ Forced(row.table) \notin f
        \/ /\ there \ Restrictive # {} /\ permits
           /\ \A p \in there \cap Restrictive : BlockPasses(s, role, row, p)

EntityShown(f, s, role, e) == Combined(f, s, role, e, e.tenant = NoShop \/ e.tenant = s.tenant)

(* The policy of relations reads the source entity, itself under policies.  *)
RelationShown(f, s, role, r) ==
    LET source == [table |-> "entities", tenant |-> r.tenant, blocked |-> r.source]
    IN Combined(f, s, role, r, r.tenant # NoShop /\ r.tenant = s.tenant /\ EntityShown(f, s, role, source))

WikiShown(f, s, role, w) == Combined(f, s, role, w, w.client \in s.clients)

Shown(f, s, role, row) ==
    CASE row.table = "entities" -> EntityShown(f, s, role, row)
      [] row.table = "relations" -> RelationShown(f, s, role, row)
      [] row.table = "wiki" -> WikiShown(f, s, role, row)

(***************************************************************************)
(* Sessions.  SET LOCAL: the settings end with the transaction.            *)
(***************************************************************************)
Contexts == [tenant : Shops \cup {NoShop}, clients : SUBSET Clients, bdm : BOOLEAN]
NoContext == [tenant |-> NoShop, clients |-> {}, bdm |-> FALSE]

withRlsContext(c) ==
    /\ served /\ conn.owner = NoContext
    /\ conn' = [owner |-> c, setting |-> [conn.setting EXCEPT !.tenant = c.tenant, !.clients = c.clients,
                                                              !.bdm = @ \/ c.bdm]]
    /\ UNCHANGED <<facts, stmt, genesisRuns, verified, served>>

(* Mutant: SET instead of SET LOCAL.                                        *)
EndTransactionKeepsSettings ==
    /\ conn.owner # NoContext
    /\ conn' = [conn EXCEPT !.owner = NoContext]
    /\ UNCHANGED <<facts, stmt, genesisRuns, verified, served>>

EndTransaction ==
    /\ conn.owner # NoContext
    /\ conn' = [owner |-> NoContext, setting |-> NoContext]
    /\ UNCHANGED <<facts, stmt, genesisRuns, verified, served>>

(***************************************************************************)
(* The job                                                                 *)
(***************************************************************************)
GenesisInit ==
    /\ facts = {} /\ stmt = 0 /\ genesisRuns = 0
    /\ verified = FALSE /\ served = FALSE
    /\ conn = [owner |-> NoContext, setting |-> NoContext]

StartGenesis ==
    /\ stmt = 0 /\ genesisRuns < MaxGenesis
    /\ stmt' = 1 /\ genesisRuns' = genesisRuns + 1 /\ verified' = FALSE
    /\ UNCHANGED <<facts, served, conn>>

RunStatement ==
    /\ stmt \in 1..Len(runInitRemote)
    /\ CanRun(runInitRemote[stmt], facts)
    /\ facts' = Effect(runInitRemote[stmt], facts)
    /\ stmt' = stmt + 1
    /\ UNCHANGED <<genesisRuns, verified, served, conn>>

(* A statement that fails throws out of runInitRemote; the process may also *)
(* die anywhere.  The last run of the bound is left alone.                  *)
GenesisDies ==
    /\ stmt # 0
    /\ \/ genesisRuns < MaxGenesis
       \/ stmt <= Len(runInitRemote) /\ ~CanRun(runInitRemote[stmt], facts)
    /\ stmt' = 0
    /\ UNCHANGED <<facts, genesisRuns, verified, served, conn>>

VerifyGenesis ==
    /\ stmt = Len(runInitRemote) + 1
    /\ verified' = verifyInitRemote(facts)
    /\ stmt' = 0
    /\ UNCHANGED <<facts, genesisRuns, served, conn>>

(* k8s/app.yaml: the servers wait for the Job to complete.                  *)
StartServers ==
    /\ verified /\ ~served
    /\ served' = TRUE
    /\ UNCHANGED <<facts, stmt, genesisRuns, verified, conn>>

GenesisNext ==
    \/ StartGenesis \/ RunStatement \/ GenesisDies \/ VerifyGenesis \/ StartServers
    \/ EndTransaction \/ \E c \in Contexts \ {NoContext} : withRlsContext(c)

(***************************************************************************)
(* Properties                                                              *)
(***************************************************************************)
(* The catalogue and the connection keep their types.                       *)
GenesisTypeOK ==
    /\ IsFiniteSet(facts) /\ \A y \in facts : y[1] \in {"role", "database", "connect", "table", "grant", "rls", "force", "policy"}
    /\ stmt \in 0..(Len(runInitRemote) + 1) /\ genesisRuns \in 0..MaxGenesis
    /\ verified \in BOOLEAN /\ served \in BOOLEAN
    /\ conn.owner \in Contexts /\ conn.setting \in Contexts

(* Wherever earlier runs of init-remote.ts died, the statement that is next *)
(* can be executed: every object it needs was created before it, and a      *)
(* policy it creates was dropped just before.                               *)
EveryStatementRuns == stmt \in 1..Len(runInitRemote) => CanRun(runInitRemote[stmt], facts)

(* At any moment of a re-run, and wherever it died, a transaction under     *)
(* withRlsContext reads only rows of its own tenant (or of none), and an RM *)
(* only wiki pages of its customers: a policy that is missing denies.       *)
TenantsStayApart ==
    served =>
        \A row \in Rows :
            Shown(facts, conn.setting, "app_rw", row) =>
                IF row.table = "wiki" THEN row.client \in conn.owner.clients
                ELSE row.tenant \in {NoShop, conn.owner.tenant}

(* Once a run is verified: the journal cannot be rewritten by the server's  *)
(* role, each pool's role connects to its own database only, a BDM session  *)
(* reads no customer data and the compliance officer no content at all.     *)
VerifiedIsClosed ==
    verified =>
        /\ {p \in Dml : Grant("business_journal", "app_rw", p) \in facts} = AppendOnly
        /\ \A d, e \in Pools : MayConnect(facts, d, RoleNames[e]) <=> d = e
        /\ \A row \in Rows :
              /\ conn.owner.bdm /\ Shown(facts, conn.setting, "app_rw", row) => row.table # "wiki" /\ ~row.blocked
              /\ ~Shown(facts, conn.setting, "compliance_officer", row)

(* However often the job dies, the Job controller's re-run completes it.    *)
GenesisCompletes == []<>verified

================================================================================
