-------------------------------- MODULE Labels ---------------------------------
(* Who may read a text and under which names: access labels with their keys, *)
(* the dictionary that replaces names of people by tokens, and the keys that *)
(* encrypt sensitive fields.                                                 *)
EXTENDS Naturals, FiniteSets

--------------------------------------------------------------------------------
(* Clearance labels: the catalogue with one wrapped content key per label,  *)
(* the grants, and the encrypted records readable with the label only.  A   *)
(* label lives in a scope (a tenant, or the global one); a record is stored *)
(* once per entity and label name.                                          *)

CONSTANTS
    Scopes,         \* tenants, and the global scope
    Holders,        \* users that are not the superuser
    Admin,          \* the superuser
    Readers,        \* read requests
    MaxContent,     \* bound on the records' versions
    MaxDek,         \* bound on the content keys generated
    NoDek,          \* null
    Absent          \* no row

ASSUME LabelsAssumption ==
    /\ MaxContent \in Nat /\ MaxDek \in Nat /\ Admin \notin Holders /\ Absent # NoDek
    /\ Absent \notin [scope : Scopes, id : Nat] /\ NoDek \notin [scope : Scopes, id : Nat]
    /\ Absent \notin [content : Nat, key : [scope : Scopes, id : Nat], scope : Scopes]

VARIABLES
    remote,         \* the key backend: remote, or derived locally
    deks,           \* content keys requested so far
    label,          \* access_labels of one name, per scope: its wrapped key
    grants,         \* user_labels: pairs of user and scope
    record,         \* labeled_ground_truth of one entity and the name
    reader,         \* the read requests
    revoked,        \* history: when each grant was last revoked, by read count
    begun,          \* history: reads begun so far
    rekeyed         \* history: a content key was replaced, or a second scope wrote

labelVars == <<remote, deks, label, grants, record, reader, revoked, begun, rekeyed>>

Quiet == [pc |-> "quiet", user |-> Admin, scope |-> Absent, got |-> Absent, key |-> NoDek, at |-> 0]

LabelTypeOK ==
    /\ \A s \in Scopes : label[s] \in {Absent, NoDek} \cup [scope : {s}, id : 0 .. MaxDek]
    /\ grants \subseteq Holders \X Scopes
    /\ record = Absent \/ (record.content \in 1 .. MaxContent /\ record.scope \in Scopes)
    /\ \A q \in Readers : reader[q].pc \in {"quiet", "cleared", "fetched", "read", "denied", "missing", "failed"}

LabelInit ==
    /\ remote \in BOOLEAN /\ deks = 0 /\ label = [s \in Scopes |-> Absent] /\ grants = {} /\ record = Absent
    /\ reader = [q \in Readers |-> Quiet] /\ revoked = [g \in Holders \X Scopes |-> 0]
    /\ begun = 0 /\ rekeyed = FALSE

CreateAccessLabel(s) ==
    /\ label[s] = Absent /\ label' = [label EXCEPT ![s] = NoDek]
    /\ UNCHANGED <<remote, deks, grants, record, reader, revoked, begun, rekeyed>>

GetAccessLabel(s) == label[s] # Absent

(* A new key replaces the one the label had; the local backend derives the  *)
(* same one again.                                                          *)
CreateLabelContentKey(s) ==
    /\ GetAccessLabel(s) /\ deks < MaxDek
    /\ deks' = deks + 1
    /\ label' = [label EXCEPT ![s] = [scope |-> s, id |-> IF remote THEN deks' ELSE 0]]
    /\ rekeyed' = (rekeyed \/ (remote /\ label[s] # NoDek))
    /\ UNCHANGED <<remote, grants, record, reader, revoked, begun>>

GrantUserLabel(u, s) ==
    /\ GetAccessLabel(s) /\ grants' = grants \cup {<<u, s>>}
    /\ UNCHANGED <<remote, deks, label, record, reader, revoked, begun, rekeyed>>

RevokeUserLabel(u, s) ==
    /\ <<u, s>> \in grants /\ grants' = grants \ {<<u, s>>}
    /\ revoked' = [revoked EXCEPT ![<<u, s>>] = begun]
    /\ UNCHANGED <<remote, deks, label, record, reader, begun, rekeyed>>

UserHasLabel(u, s) == <<u, s>> \in grants

(* The record is encrypted with the key of the scope written to, and kept   *)
(* in the one row of entity and name, whose scope stays.                    *)
WriteLabeledGroundTruth_OldKey(s) ==
    LET n == IF record = Absent THEN 1 ELSE record.content + 1 IN
    /\ GetAccessLabel(s) /\ label[s] # NoDek /\ n <= MaxContent
    /\ record' = [content |-> n, key |-> [scope |-> s, id |-> 0], scope |-> IF record = Absent THEN s ELSE record.scope]
    /\ rekeyed' = (rekeyed \/ (record # Absent /\ record.scope # s))
    /\ UNCHANGED <<remote, deks, label, grants, reader, revoked, begun>>

WriteLabeledGroundTruth(s) ==
    LET n == IF record = Absent THEN 1 ELSE record.content + 1 IN
    /\ GetAccessLabel(s) /\ label[s] # NoDek /\ n <= MaxContent
    /\ record' = [content |-> n, key |-> label[s], scope |-> IF record = Absent THEN s ELSE record.scope]
    /\ rekeyed' = (rekeyed \/ (record # Absent /\ record.scope # s))
    /\ UNCHANGED <<remote, deks, label, grants, reader, revoked, begun>>

(* The read of a holder: the grant is checked, then the row fetched, then   *)
(* the label, whose key is unwrapped: three awaits.                         *)
BeginRead(q, u, s) ==
    /\ reader[q].pc = "quiet"
    /\ begun' = begun + 1
    /\ reader' = [reader EXCEPT ![q] = [pc |-> IF UserHasLabel(u, s) THEN "cleared" ELSE "denied",
                                        user |-> u, scope |-> s, got |-> Absent, key |-> NoDek, at |-> begun + 1]]
    /\ UNCHANGED <<remote, deks, label, grants, record, revoked, rekeyed>>

(* The superuser's read: no grant is checked, and the label is fetched      *)
(* before the row.                                                          *)
BeginReadAsSuperuser(q, s) ==
    /\ reader[q].pc = "quiet" /\ begun' = begun + 1
    /\ reader' = [reader EXCEPT ![q] = [pc |-> IF GetAccessLabel(s) THEN "cleared" ELSE "missing", user |-> Admin,
                                        scope |-> s, got |-> Absent, key |-> label[s], at |-> begun + 1]]
    /\ UNCHANGED <<remote, deks, label, grants, record, revoked, rekeyed>>

FetchRecord(q) ==
    /\ reader[q].pc = "cleared"
    /\ reader' = [reader EXCEPT ![q].pc = IF record # Absent /\ record.scope = reader[q].scope THEN "fetched" ELSE "missing",
                                ![q].got = record]
    /\ UNCHANGED <<remote, deks, label, grants, record, revoked, begun, rekeyed>>

UnwrapLabelDek(q) == IF reader[q].user = Admin THEN reader[q].key ELSE label[reader[q].scope]
DecryptLabeledContent(q) ==
    /\ reader[q].pc = "fetched"
    /\ reader' = [reader EXCEPT ![q].pc = IF reader[q].got.key = UnwrapLabelDek(q) THEN "read" ELSE "failed"]
    /\ UNCHANGED <<remote, deks, label, grants, record, revoked, begun, rekeyed>>

(* The routes: everything but reading is the superuser's.                   *)
IsSuperuser(a) == a = Admin
PostLabel(a, s) == IsSuperuser(a) /\ CreateAccessLabel(s)
PostContentKey(a, s) == IsSuperuser(a) /\ CreateLabelContentKey(s)
PostGrant(a, u, s) == IsSuperuser(a) /\ GrantUserLabel(u, s)
DeleteGrant(a, u, s) == IsSuperuser(a) /\ RevokeUserLabel(u, s)
PostGroundTruth(a, s) == IsSuperuser(a) /\ WriteLabeledGroundTruth(s)
GetGroundTruth(a, q, s) == IF IsSuperuser(a) THEN BeginReadAsSuperuser(q, s) ELSE BeginRead(q, a, s)

LabelNext ==
    \/ \E a \in Holders \cup {Admin}, s \in Scopes :
          \/ PostLabel(a, s) \/ PostContentKey(a, s) \/ PostGroundTruth(a, s)
          \/ \E u \in Holders : PostGrant(a, u, s) \/ DeleteGrant(a, u, s)
          \/ \E q \in Readers : GetGroundTruth(a, q, s)
    \/ \E q \in Readers : FetchRecord(q) \/ DecryptLabeledContent(q)

--------------------------------------------------------------------------------
(* A request begun after the grant was revoked, and with no grant since, is *)
(* never answered with the content, however the steps of other requests     *)
(* fall in between; nor is a request for another scope.                     *)
NoReadAfterRevocation ==
    \A q \in Readers :
        LET r == reader[q] IN
        r.pc = "read" /\ r.user # Admin =>
            \/ <<r.user, r.scope>> \in grants
            \/ revoked[<<r.user, r.scope>>] >= r.at

(* While each label keeps its first key and one scope writes the record, a  *)
(* cleared holder gets the content.                                         *)
ReadableUntilRekeyed == ~rekeyed => \A q \in Readers : reader[q].pc = "failed" => reader[q].user = Admin

--------------------------------------------------------------------------------
(* Tokens in place of personal data: the tokeniser that replaces spans of a *)
(* text, the dictionary of one database, and the audited way back.          *)

CONSTANTS
    Tenants,
    Names,          \* names as written: spellings
    People,         \* what canonicalise makes of a spelling, with its type
    Tokens,         \* the type and eight hex digits
    Ingests,        \* tokenise calls
    Resolves,       \* requests to resolve a token
    NoName          \* no row

ASSUME IdentityAssumption == NoName \notin [org : Tenants, name : Names]

VARIABLES
    spells,         \* the person each spelling canonicalises to
    digest,         \* the cut-off HMAC of a person under a tenant's key
    dict,           \* identity_tokens: real_org and real_name of a token
    ingest, resolve,
    auditLog        \* resolutions recorded in the audit log

identityVars == <<spells, digest, dict, ingest, resolve, auditLog>>

(* deriveToken: two people, of one tenant or of two, may share a token.     *)
Canonicalise(n) == spells[n]
DeriveToken(t, n) == digest[<<t, Canonicalise(n)>>]

IdleIngest == [pc |-> "idle", tenant |-> NoName, names |-> {}, text |-> {}]
IdleResolve == [pc |-> "idle", token |-> NoName, found |-> NoName]

IdentityTypeOK ==
    /\ spells \in [Names -> People] /\ digest \in [Tenants \X People -> Tokens]
    /\ dict \in [Tokens -> [org : Tenants, name : Names] \cup {NoName}]
    /\ \A i \in Ingests : ingest[i].pc \in {"idle", "registering", "done"} /\ ingest[i].text \subseteq People
    /\ \A q \in Resolves : resolve[q].pc \in {"idle", "fetched", "answered", "missing", "failed"}

IdentityInit ==
    /\ spells \in [Names -> People] /\ digest \in [Tenants \X People -> Tokens]
    /\ dict = [k \in Tokens |-> NoName]
    /\ ingest = [i \in Ingests |-> IdleIngest] /\ resolve = [q \in Resolves |-> IdleResolve] /\ auditLog = {}

(* tokenise: the spans of the text become tokens; of the spans that share   *)
(* a token one spelling is kept (the first in the text).                    *)
Tokenise(i, t, S) ==
    /\ ingest[i].pc = "idle" /\ S # {}
    /\ \E first \in SUBSET S :
          /\ \A m, n \in first : m # n => DeriveToken(t, m) # DeriveToken(t, n)
          /\ \A m \in S : \E n \in first : DeriveToken(t, m) = DeriveToken(t, n)
          /\ ingest' = [ingest EXCEPT ![i] = [pc |-> "registering", tenant |-> t, names |-> first,
                                              text |-> {Canonicalise(n) : n \in S}]]
    /\ UNCHANGED <<spells, digest, dict, resolve, auditLog>>

(* register: ON CONFLICT (token) DO NOTHING, and nothing looks whether the  *)
(* row that is there has the same value.                                    *)
Register(i, n) ==
    LET k == DeriveToken(ingest[i].tenant, n)  row == [org |-> ingest[i].tenant, name |-> n] IN
    /\ ingest[i].pc = "registering" /\ n \in ingest[i].names
    /\ dict' = [dict EXCEPT ![k] = IF @ = NoName THEN row ELSE @]
    /\ ingest' = [ingest EXCEPT ![i].names = @ \ {n}]
    /\ UNCHANGED <<spells, digest, resolve, auditLog>>

(* A failing insert ends the call: the text is not returned.                *)
RegisterFails(i) ==
    /\ ingest[i].pc = "registering" /\ ingest' = [ingest EXCEPT ![i] = IdleIngest]
    /\ UNCHANGED <<spells, digest, dict, resolve, auditLog>>

ReturnText(i) ==
    /\ ingest[i].pc = "registering" /\ ingest[i].names = {}
    /\ ingest' = [ingest EXCEPT ![i].pc = "done"]
    /\ UNCHANGED <<spells, digest, dict, resolve, auditLog>>

(* resolveToken: the row, its decryption, the audit event, the answer.  The *)
(* caller names no tenant: a token resolves for whoever may resolve any.    *)
ResolveToken(q, k) ==
    /\ resolve[q].pc = "idle"
    /\ resolve' = [resolve EXCEPT ![q] = [pc |-> IF dict[k] = NoName THEN "missing" ELSE "fetched",
                                          token |-> k, found |-> dict[k]]]
    /\ UNCHANGED <<spells, digest, dict, ingest, auditLog>>

AuditAndAnswer(q, fails) ==
    /\ resolve[q].pc = "fetched"
    /\ resolve' = [resolve EXCEPT ![q].pc = IF fails THEN "failed" ELSE "answered"]
    /\ auditLog' = IF fails THEN auditLog ELSE auditLog \cup {<<q, resolve[q].token>>}
    /\ UNCHANGED <<spells, digest, dict, ingest>>

IdentityNext ==
    \/ \E i \in Ingests, t \in Tenants : \E S \in SUBSET Names : Tokenise(i, t, S)
    \/ \E i \in Ingests, n \in Names : Register(i, n)
    \/ \E i \in Ingests : RegisterFails(i) \/ ReturnText(i)
    \/ \E q \in Resolves, k \in Tokens : ResolveToken(q, k)
    \/ \E q \in Resolves, fails \in BOOLEAN : AuditAndAnswer(q, fails)

--------------------------------------------------------------------------------
(* Every token in a text that was returned can be resolved, to a pair of    *)
(* tenant and spelling whose token it is: to the person the text named and  *)
(* to its tenant, unless two pairs share the token.                         *)
OnlyOneHas(k) ==
    \A s, t \in Tenants, p, q \in People : digest[<<s, p>>] = k /\ digest[<<t, q>>] = k => s = t /\ p = q
ReturnedTextIsReversible ==
    \A i \in Ingests : ingest[i].pc = "done" => \A p \in ingest[i].text :
        LET k == digest[<<ingest[i].tenant, p>>]  row == dict[k] IN
        /\ row # NoName /\ DeriveToken(row.org, row.name) = k
        /\ OnlyOneHas(k) => row.org = ingest[i].tenant /\ Canonicalise(row.name) = p

(* No identity leaves the service without its event in the audit log.       *)
AnswerIsAudited ==
    \A q \in Resolves : resolve[q].pc = "answered" => <<q, resolve[q].token>> \in auditLog

(* What a token resolves to is never changed by a later text, of this or    *)
(* another tenant.                                                          *)
MeaningIsStable == [][\A k \in Tokens : dict[k] # NoName => dict'[k] = dict[k]]_identityVars

--------------------------------------------------------------------------------
(* Field encryption: data keys of the key-management backends, the cache of *)
(* derived keys of the server process, its writes, the backfill of rows     *)
(* stored in the clear and the rotation command.                            *)

CONSTANTS
    Types,          \* entity types
    MaxRow,         \* rows of each type, in the order of their ids
    Calls,          \* requests of the server that write a row
    Batch,          \* rows the backfill reads at a time
    MaxKeys,        \* bound on the data keys generated
    MaxEdits,       \* bound on the versions of a row's text
    NoKey           \* null

ASSUME KeyStoreAssumption ==
    /\ MaxRow \in Nat /\ Batch \in Nat \ {0} /\ MaxKeys \in Nat /\ MaxEdits \in Nat \ {0}
    /\ NoKey \notin [domain : Types, id : Nat]

VARIABLES
    backend,        \* _kmsBackend of the server: "local", "aws" or "vault"
    enabled,        \* isEncryptionEnabled of the server
    listed,         \* types whose text is a field of SENSITIVE_FIELDS
    generated,      \* data keys generated by a remote backend so far
    cell,           \* entities.properties, per type and row; version 0: no row
    cache,          \* derivedKeyCache of the server process
    epoch,          \* which start of the server this is
    req,            \* the requests
    fill,           \* the backfill job
    raced,          \* history: two requests derived the key of one type at once
    bare            \* history: rows the server wrote in the clear since the backfill began

keyVars == <<backend, enabled, listed, generated, cell, cache, epoch, req, fill, raced, bare>>

Rows == 1 .. MaxRow
Plain(v) == [depth |-> 0, key |-> NoKey, text |-> v, by |-> 0]
Idle == [pc |-> "idle", type |-> NoKey, row |-> 0, key |-> NoKey, was |-> Plain(0)]
NoFill == [pc |-> "off", cursor |-> 0, read |-> <<>>, errors |-> 0, mode |-> "dry"]
Stored(v) == v.text # 0
Seals(t) == enabled /\ t \in listed

KeyTypeOK ==
    /\ backend \in {"local", "aws", "vault"} /\ generated \in 0 .. MaxKeys
    /\ \A t \in Types, r \in Rows : cell[t][r].depth \in Nat /\ cell[t][r].text \in 0 .. MaxEdits
    /\ \A t \in Types : cache[t] = NoKey \/ cache[t].domain = t
    /\ fill.pc \in {"off", "run", "done"} /\ fill.cursor \in 0 .. MaxRow

KeyInit ==
    /\ backend \in {"local", "aws", "vault"} /\ enabled \in BOOLEAN /\ listed \in SUBSET Types
    /\ cell \in [Types -> [Rows -> {Plain(0), Plain(1)}]] /\ cache = [t \in Types |-> NoKey]
    /\ generated = 0 /\ epoch = 1 /\ req = [c \in Calls |-> Idle] /\ fill = NoFill /\ raced = FALSE /\ bare = {}

(* generateDataKey: the local backend derives the key from the master key   *)
(* and the context, a remote one makes a new one each time.                 *)
GenerateLocal(t) == [domain |-> t, id |-> 0]
GenerateAws(t) == [domain |-> t, id |-> generated + 1]
GenerateVault(t) == [domain |-> t, id |-> generated + 1]
KmsGenerateDataKey(b, t) ==
    CASE b = "local" -> GenerateLocal(t) [] b = "aws" -> GenerateAws(t) [] b = "vault" -> GenerateVault(t)
CountKey(b) == generated' = IF b = "local" THEN generated ELSE generated + 1

(* encryptField of a value: what it already holds is wrapped once more.     *)
Encrypted(v, key, e) == [depth |-> v.depth + 1, key |-> key, text |-> v.text, by |-> e]

(* A request that adds a row encrypts the sensitive fields: with the cached *)
(* key, or a new one awaited from the backend, which the process keeps for  *)
(* the next ones.  The id of the row is a fresh one.                        *)
BeginInsert(c, t, r) ==
    /\ req[c].pc = "idle" /\ ~Stored(cell[t][r])
    /\ \A d \in Calls : req[d].pc \in {"derive", "write"} => <<req[d].type, req[d].row>> # <<t, r>>
    /\ req' = [req EXCEPT ![c] = [pc |-> IF Seals(t) /\ cache[t] = NoKey THEN "derive" ELSE "write", type |-> t,
                                  row |-> r, key |-> IF Seals(t) THEN cache[t] ELSE NoKey, was |-> Plain(0)]]
    /\ raced' = (raced \/ \E d \in Calls : req[d].pc = "derive" /\ req[d].type = t)
    /\ UNCHANGED <<backend, enabled, listed, generated, cell, cache, epoch, fill, bare>>

GetDerivedKey(c) ==
    LET t == req[c].type  key == KmsGenerateDataKey(backend, t) IN
    /\ req[c].pc = "derive" /\ generated < MaxKeys
    /\ CountKey(backend) /\ cache' = [cache EXCEPT ![t] = key]
    /\ req' = [req EXCEPT ![c].pc = "write", ![c].key = key]
    /\ UNCHANGED <<backend, enabled, listed, cell, epoch, fill, raced, bare>>

(* The backend or the statement fails.                                      *)
RequestFails(c) ==
    /\ req[c].pc # "idle" /\ req' = [req EXCEPT ![c] = Idle]
    /\ UNCHANGED <<backend, enabled, listed, generated, cell, cache, epoch, fill, raced, bare>>

Put(t, r, v) ==
    /\ cell' = [cell EXCEPT ![t][r] = v]
    /\ bare' = IF v.depth = 0 THEN bare \cup {<<t, r>>} ELSE bare

(* The row is inserted, as encryptProperties left it: no caller has         *)
(* assertEncryptedBeforeWrite look at it.                                   *)
Store(c) ==
    LET q == req[c]  new == Plain(1) IN
    /\ q.pc = "write" /\ Put(q.type, q.row, IF q.key = NoKey THEN new ELSE Encrypted(new, q.key, epoch))
    /\ req' = [req EXCEPT ![c] = Idle]
    /\ UNCHANGED <<backend, enabled, listed, generated, cache, epoch, fill, raced>>

(* A request that updates a row reads its properties and writes them back   *)
(* whole: the sensitive ones as they were, or, when it erases a data        *)
(* subject, pseudonyms in the clear.                                        *)
BeginUpdate(c, t, r) ==
    /\ req[c].pc = "idle" /\ Stored(cell[t][r])
    /\ req' = [req EXCEPT ![c] = [pc |-> "update", type |-> t, row |-> r, key |-> NoKey, was |-> cell[t][r]]]
    /\ UNCHANGED <<backend, enabled, listed, generated, cell, cache, epoch, fill, raced, bare>>

Update(c, erases) ==
    LET q == req[c] IN
    /\ q.pc = "update" /\ (erases => q.was.text < MaxEdits)
    /\ Put(q.type, q.row, IF erases THEN Plain(q.was.text + 1) ELSE q.was)
    /\ req' = [req EXCEPT ![c] = Idle]
    /\ UNCHANGED <<backend, enabled, listed, generated, cache, epoch, fill, raced>>

(* The server stops: its requests and its keys are gone.                    *)
RestartServer ==
    /\ epoch < 2 /\ epoch' = epoch + 1 /\ cache' = [t \in Types |-> NoKey]
    /\ req' = [c \in Calls |-> Idle] /\ raced' = FALSE
    /\ UNCHANGED <<backend, enabled, listed, generated, cell, fill, bare>>

(* decryptField in the server: text in the clear passes, a ciphertext needs *)
(* the key it was made with; with encryption disabled it is handed out.     *)
KeyInUse(t) == IF cache[t] # NoKey THEN cache[t] ELSE KmsGenerateDataKey(backend, t)
DecryptField(t, v) == v.depth = 0 \/ (enabled /\ v.key = KeyInUse(t))

(* The backfill: a process of its own, with the local backend.              *)
IsEncrypted(v) == v.depth > 0
NeedsBackfill(t, v) == t \in listed /\ ~IsEncrypted(v)
EncryptPlaintextFields(t, v) == IF IsEncrypted(v) THEN v ELSE Encrypted(v, GenerateLocal(t), 0)

(* It only counts ("dry"), has encryption disabled ("off") or writes.       *)
StartBackfill(t, mode) ==
    /\ fill.pc # "run" /\ bare' = {}
    /\ fill' = [NoFill EXCEPT !.pc = "run", !.mode = mode, !.read = [type |-> t, rows |-> {}]]
    /\ UNCHANGED <<backend, enabled, listed, generated, cell, cache, epoch, req, raced>>

(* The next rows after the cursor are read, or the type is finished.        *)
BackfillNext(t) ==
    LET ahead == {r \in Rows : r > fill.cursor /\ Stored(cell[t][r])}
        next == {r \in ahead : Cardinality({s \in ahead : s < r}) < Batch} IN
    IF next = {}
    THEN fill' = [fill EXCEPT !.pc = "done"]
    ELSE fill' = [fill EXCEPT !.cursor = CHOOSE r \in next : \A s \in next : s <= r,
                              !.read = [type |-> t, rows |-> {[row |-> r, was |-> cell[t][r]] : r \in next}]]

ReadBatch ==
    /\ fill.pc = "run" /\ fill.read.rows = {} /\ BackfillNext(fill.read.type)
    /\ UNCHANGED <<backend, enabled, listed, generated, cell, cache, epoch, req, raced, bare>>

(* One row of the batch: skipped, rewritten from what was read, or failed.  *)
BackfillRow(x, fails) ==
    LET t == fill.read.type
        new == IF fill.mode = "write" THEN EncryptPlaintextFields(t, x.was) ELSE x.was IN
    /\ fill.pc = "run" /\ x \in fill.read.rows
    /\ fails => NeedsBackfill(t, x.was) /\ fill.errors = 0
    /\ fill' = [fill EXCEPT !.read.rows = @ \ {x}, !.errors = IF fails THEN @ + 1 ELSE @]
    /\ cell' = IF NeedsBackfill(t, x.was) /\ ~fails /\ fill.mode # "dry" THEN [cell EXCEPT ![t][x.row] = new] ELSE cell
    /\ UNCHANGED <<backend, enabled, listed, generated, cache, epoch, req, raced, bare>>

StopBackfill ==
    /\ fill.pc = "run" /\ fill' = NoFill
    /\ UNCHANGED <<backend, enabled, listed, generated, cell, cache, epoch, req, raced, bare>>

(* The rotation command: a new key per domain, that nothing stores.         *)
RotateAllDomains ==
    /\ generated < MaxKeys /\ CountKey(backend)
    /\ UNCHANGED <<backend, enabled, listed, cell, cache, epoch, req, fill, raced, bare>>

KeyNext ==
    \/ \E c \in Calls : GetDerivedKey(c) \/ RequestFails(c) \/ Store(c) \/ \E erases \in BOOLEAN : Update(c, erases)
    \/ \E c \in Calls, t \in Types, r \in Rows : BeginInsert(c, t, r) \/ BeginUpdate(c, t, r)
    \/ RestartServer \/ ReadBatch \/ StopBackfill \/ RotateAllDomains
    \/ \E t \in Types, mode \in {"dry", "off", "write"} : StartBackfill(t, mode)
    \/ fill.pc = "run" /\ \E x \in fill.read.rows, fails \in BOOLEAN : BackfillRow(x, fails)

--------------------------------------------------------------------------------
(* With the local backend and encryption enabled every row, whoever wrote   *)
(* it, can be read by the server, after a restart and after the rotation    *)
(* command has run.                                                         *)
LocalRowsStayReadable ==
    backend = "local" /\ enabled => \A t \in Types, r \in Rows : DecryptField(t, cell[t][r])

(* With a remote backend a server that has not restarted, and whose         *)
(* requests did not derive one key at the same time, reads what it          *)
(* encrypted, also where a request wrote back what it had read.             *)
ServerReadsItsOwnRows ==
    ~raced => \A t \in Types, r \in Rows : cell[t][r].by = epoch => DecryptField(t, cell[t][r])

(* No value is encrypted twice, whatever of server and backfill overlaps.   *)
EncryptedOnce == \A t \in Types, r \in Rows : cell[t][r].depth <= 1

(* A backfill of a type with sensitive fields that ran to its end without   *)
(* an error, and was to write, leaves no row in the clear but those the     *)
(* server wrote in the clear since it began.                                *)
BackfillLeavesNoPlaintext ==
    fill.pc = "done" /\ fill.errors = 0 /\ fill.mode = "write" /\ fill.read.type \in listed =>
        \A r \in Rows : LET v == cell[fill.read.type][r] IN
            Stored(v) => IsEncrypted(v) \/ <<fill.read.type, r>> \in bare

================================================================================
