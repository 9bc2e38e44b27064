-------------------------------- MODULE Backup ---------------------------------
(* Copies of the data for a purpose: backup and restore, e-discovery bundles,*)
(* and the evidence package of an audit.                                     *)
EXTENDS Naturals, FiniteSets

--------------------------------------------------------------------------------
(* Scheduled backups of the application and the audit database, one after   *)
(* the other, into files named by label and second; and the restore, which  *)
(* decrypts into a temporary file.  Requests write a row of the application *)
(* and an event of the audit log about it, some the event first, some the   *)
(* row.                                                                     *)

CONSTANTS
    Backups,        \* runs of runScheduledBackup
    Restores,       \* runs of restoreDatabase
    Databases,        \* the databases: {"app", "audit"}
    MaxSecond,      \* bound on the clock
    Writes,         \* requests that write a row and its audit event
    NoFile          \* no such file

ASSUME BackupAssumption ==
    /\ MaxSecond \in Nat \ {0} /\ Databases = {"app", "audit"}
    /\ NoFile \notin Databases \X (1 .. MaxSecond) /\ \A S \in SUBSET Writes : NoFile # S
    /\ NoFile \notin [rows : SUBSET Writes, iv : Backups \cup {NoFile}]
    /\ NoFile \notin [iv : Backups \cup {NoFile}]

VARIABLES
    second,
    encrypting,     \* ENCRYPTION_MASTER_KEY is set
    order,          \* what a request writes first: the "event" or the "row"
    audited, written, \* requests whose event is in the audit database; whose row is in the application's
    dump, meta,     \* files of the store, by label and second
    backup,         \* the backup runs
    restore,        \* the restores
    temp,           \* cleartext dumps in the temporary directory, by label and second
    clash           \* history: two runs dumped one database in the same second

backupVars == <<second, encrypting, order, audited, written, dump, meta, backup, restore, temp, clash>>

Slots == Databases \X (1 .. MaxSecond)
Fresh == [pc |-> "idle", at |-> [l \in Databases |-> 0], rows |-> {}, first |-> NoFile]
NotYet == [pc |-> "idle", slot |-> NoFile, meta |-> NoFile, bytes |-> NoFile, rows |-> {}]

BackupTypeOK ==
    /\ second \in 1 .. MaxSecond /\ written \subseteq Writes /\ audited \subseteq Writes
    /\ \A b \in Backups : backup[b].pc \in {"idle", "app_dump", "app_file", "app_meta", "audit_dump", "audit_file", "audit_meta", "done", "failed"}
    /\ \A r \in Restores : restore[r].pc \in {"idle", "decrypt", "load", "load_ok", "cleanup", "done", "failed"}
    /\ temp \in [Slots -> {NoFile} \cup SUBSET Writes]

BackupInit ==
    /\ second = 1 /\ encrypting \in BOOLEAN /\ order \in [Writes -> {"event", "row"}] /\ audited = {} /\ written = {} /\ clash = FALSE
    /\ dump = [s \in Slots |-> NoFile] /\ meta = [s \in Slots |-> NoFile] /\ temp = [s \in Slots |-> NoFile]
    /\ backup = [b \in Backups |-> Fresh] /\ restore = [r \in Restores |-> NotYet]

SecondPasses ==
    /\ second < MaxSecond /\ second' = second + 1
    /\ UNCHANGED <<encrypting, order, audited, written, dump, meta, backup, restore, temp, clash>>

(* A request that writes the event first goes no further when it cannot;    *)
(* one that writes the row first only logs that.  Either write may never    *)
(* come.                                                                    *)
AuditWrite(w) ==
    /\ w \notin audited /\ (order[w] = "row" => w \in written) /\ audited' = audited \cup {w}
    /\ UNCHANGED <<second, encrypting, order, written, dump, meta, backup, restore, temp, clash>>
RowWrite(w) ==
    /\ w \notin written /\ (order[w] = "event" => w \in audited) /\ written' = written \cup {w}
    /\ UNCHANGED <<second, encrypting, order, audited, dump, meta, backup, restore, temp, clash>>

(* backupDatabase of one label: the name is chosen, pg_dump taken, the dump *)
(* written, its sidecar written.                                            *)
Enter(l) == IF l = "app" THEN "app_dump" ELSE "audit_dump"
DbOrder_AuditFirst == <<"audit", "app">>
DbOrder == <<"app", "audit">>
Label(b) == IF backup[b].first = NoFile THEN DbOrder[1] ELSE DbOrder[2]

RunScheduledBackup(b) ==
    /\ backup[b].pc = "idle"
    /\ backup' = [backup EXCEPT ![b].pc = Enter(DbOrder[1]), ![b].at[DbOrder[1]] = second]
    /\ clash' = (clash \/ \E c \in Backups \ {b} : backup[c].at[DbOrder[1]] = second)
    /\ UNCHANGED <<second, encrypting, order, audited, written, dump, meta, restore, temp>>

RunPgDump(b) ==
    /\ backup[b].pc = Enter(Label(b))
    /\ backup' = [backup EXCEPT ![b].pc = IF Label(b) = "app" THEN "app_file" ELSE "audit_file",
                                ![b].rows = IF Label(b) = "app" THEN written ELSE audited]
    /\ UNCHANGED <<second, encrypting, order, audited, written, dump, meta, restore, temp, clash>>

PgDumpFails(b) ==
    /\ backup[b].pc = Enter(Label(b)) /\ backup' = [backup EXCEPT ![b].pc = "failed"]
    /\ UNCHANGED <<second, encrypting, order, audited, written, dump, meta, restore, temp, clash>>

WriteArtifact(b) ==
    LET l == Label(b)  s == <<l, backup[b].at[l]>> IN
    /\ backup[b].pc = (IF l = "app" THEN "app_file" ELSE "audit_file")
    /\ dump' = [dump EXCEPT ![s] = [rows |-> backup[b].rows, iv |-> IF encrypting THEN b ELSE NoFile]]
    /\ backup' = [backup EXCEPT ![b].pc = IF l = "app" THEN "app_meta" ELSE "audit_meta"]
    /\ UNCHANGED <<second, encrypting, order, audited, written, meta, restore, temp, clash>>

WriteMeta(b) ==
    LET l == Label(b)  s == <<l, backup[b].at[l]>>  next == DbOrder[2] IN
    /\ backup[b].pc = (IF l = "app" THEN "app_meta" ELSE "audit_meta")
    /\ meta' = [meta EXCEPT ![s] = [iv |-> IF encrypting THEN b ELSE NoFile]]
    /\ IF backup[b].first = NoFile
       THEN /\ backup' = [backup EXCEPT ![b].pc = Enter(next), ![b].first = s, ![b].at[next] = second]
            /\ clash' = (clash \/ \E c \in Backups \ {b} : backup[c].at[next] = second)
       ELSE backup' = [backup EXCEPT ![b].pc = "done"] /\ clash' = clash
    /\ UNCHANGED <<second, encrypting, order, audited, written, dump, restore, temp>>

(* The process stops, whatever it had written stays.                        *)
BackupStops(b) ==
    /\ backup[b].pc \notin {"idle", "done", "failed"} /\ backup' = [backup EXCEPT ![b].pc = "failed"]
    /\ UNCHANGED <<second, encrypting, order, audited, written, dump, meta, restore, temp, clash>>

(* restoreDatabase: both files are read, the bytes decrypted with what the  *)
(* sidecar says, the cleartext written, loaded, removed.                    *)
RestoreDatabase(r, s) ==
    /\ restore[r].pc = "idle" /\ meta[s] # NoFile /\ dump[s] # NoFile
    /\ restore' = [restore EXCEPT ![r] = [pc |-> "decrypt", slot |-> s, meta |-> meta[s], bytes |-> dump[s], rows |-> {}]]
    /\ UNCHANGED <<second, encrypting, order, audited, written, dump, meta, backup, temp, clash>>

Decrypt(r) ==
    LET x == restore[r] IN
    /\ x.pc = "decrypt"
    /\ IF x.meta.iv # x.bytes.iv
       THEN restore' = [restore EXCEPT ![r].pc = "failed"] /\ temp' = temp
       ELSE /\ restore' = [restore EXCEPT ![r].pc = "load"]
            /\ temp' = IF x.meta.iv = NoFile THEN temp ELSE [temp EXCEPT ![x.slot] = x.bytes.rows]
    /\ UNCHANGED <<second, encrypting, order, audited, written, dump, meta, backup, clash>>

(* pg_restore reads the file that is there now, or fails.                   *)
RunPgRestore(r, fails) ==
    LET x == restore[r]
        rows == IF x.meta.iv # NoFile THEN temp[x.slot] ELSE dump[x.slot].rows IN
    /\ x.pc = "load"
    /\ restore' = [restore EXCEPT ![r].pc = IF fails \/ rows = NoFile THEN "cleanup" ELSE "load_ok",
                                  ![r].rows = IF fails \/ rows = NoFile THEN @ ELSE rows]
    /\ UNCHANGED <<second, encrypting, order, audited, written, dump, meta, backup, temp, clash>>

RemoveTemp(r) ==
    LET x == restore[r] IN
    /\ x.pc \in {"cleanup", "load_ok"}
    /\ temp' = IF x.meta.iv = NoFile THEN temp ELSE [temp EXCEPT ![x.slot] = NoFile]
    /\ restore' = [restore EXCEPT ![r].pc = IF x.pc = "load_ok" THEN "done" ELSE "failed"]
    /\ UNCHANGED <<second, encrypting, order, audited, written, dump, meta, backup, clash>>

BackupNext ==
    \/ SecondPasses \/ \E w \in Writes : AuditWrite(w) \/ RowWrite(w)
    \/ \E b \in Backups : \/ RunScheduledBackup(b) \/ RunPgDump(b) \/ PgDumpFails(b)
                          \/ WriteArtifact(b) \/ WriteMeta(b) \/ BackupStops(b)

(* One run, and restores of what it has written so far.                     *)
OneRun == \A b, c \in Backups : backup'[b].pc # "idle" /\ backup'[c].pc # "idle" => b = c
RestoreNext ==
    \/ \E r \in Restores : Decrypt(r) \/ RemoveTemp(r)
    \/ \E r \in Restores, s \in Slots : RestoreDatabase(r, s)
    \/ \E r \in Restores, fails \in BOOLEAN : RunPgRestore(r, fails)

--------------------------------------------------------------------------------
SlotOf(b, l) == <<l, backup[b].at[l]>>

(* The two dumps of a finished run go together: every row of the restored   *)
(* application whose request writes the event first has that event in the   *)
(* restored audit log, unless another run used the same second.             *)
RestoredIsAudited ==
    \A b \in Backups : backup[b].pc = "done" /\ ~clash =>
        \A w \in dump[SlotOf(b, "app")].rows : order[w] = "event" => w \in dump[SlotOf(b, "audit")].rows

(* A finished run can be restored: each dump has the sidecar that opens it. *)
FinishedCanBeRestored ==
    \A b \in Backups, l \in Databases : backup[b].pc = "done" /\ ~clash =>
        meta[SlotOf(b, l)] # NoFile /\ dump[SlotOf(b, l)].iv = meta[SlotOf(b, l)].iv

(* Once no restore is under way there is no cleartext left behind, after    *)
(* failures and after two restores of one backup.                           *)
CleartextIsRemoved ==
    (\A r \in Restores : restore[r].pc \in {"idle", "done", "failed"}) => \A s \in Slots : temp[s] = NoFile

--------------------------------------------------------------------------------
(* The e-discovery bundle and the SOC 2 evidence package: several queries   *)
(* in turn, or at once, over rows that other requests add and remove.       *)

CONSTANTS
    RowIds,         \* ids of rows, in the order they are given out
    Kinds,          \* "entity", "version", "thread", "reply", "event"
    MaxInstant,     \* bound on the clock
    Limit,          \* change-log entries in a package
    NoRow           \* null

ASSUME EvidenceAssumption ==
    /\ MaxInstant \in Nat \ {0} /\ Limit \in Nat \ {0} /\ RowIds \subseteq Nat /\ IsFiniteSet(RowIds) /\ NoRow \notin RowIds
    /\ Kinds = {"entity", "version", "thread", "reply", "event"}
    /\ NoRow \notin [action : {"change", "drill", "down"}, ts : 1 .. MaxInstant, id : RowIds]

VARIABLES
    instant,
    table,          \* rows of the customer, of all kinds
    bundle,         \* the export
    log,            \* audit events: "change", "drill" or "down", with their time and random id
    pack,           \* the package
    atStart         \* history: the rows, and the events, when the queries began

evidenceVars == <<instant, table, bundle, log, pack, atStart>>

Row == [id : RowIds, kind : Kinds, of : RowIds \cup {NoRow}, at : 1 .. MaxInstant]
Parent(k) == CASE k = "thread" -> "version" [] k = "reply" -> "thread" [] k = "event" -> "entity" [] OTHER -> "none"
NoBundle == [pc |-> "idle", from |-> 0, to |-> 0, rows |-> {}]
NoPack == [pc |-> "idle", from |-> 0, to |-> 0, todo |-> {}, changes |-> {}, drill |-> NoRow, down |-> 0]

EvidenceTypeOK ==
    /\ instant \in 1 .. MaxInstant /\ table \subseteq Row
    /\ bundle.pc \in {"idle", "entity", "version", "thread", "reply", "event", "done"} /\ bundle.rows \subseteq Row
    /\ pack.pc \in {"idle", "query", "done"} /\ Cardinality(pack.changes) <= Limit

EvidenceInit ==
    /\ instant = 1 /\ table = {} /\ bundle = NoBundle /\ log = {} /\ pack = NoPack
    /\ atStart = [rows |-> {}, events |-> {}]

InstantPasses == instant < MaxInstant /\ instant' = instant + 1 /\ UNCHANGED <<table, bundle, log, pack, atStart>>

(* Other requests: a row is added, under a parent that is there, or removed *)
(* with everything below it.                                                *)
AddRow(i, k) ==
    /\ \A x \in table \cup atStart.rows \cup bundle.rows : x.id < i /\ x.of # i
    /\ \/ Parent(k) = "none" /\ table' = table \cup {[id |-> i, kind |-> k, of |-> NoRow, at |-> instant]}
       \/ \E x \in table : x.kind = Parent(k) /\ table' = table \cup {[id |-> i, kind |-> k, of |-> x.id, at |-> instant]}
    /\ UNCHANGED <<instant, bundle, log, pack, atStart>>

Below(x) == {y \in table : y.of = x.id \/ \E z \in table : z.of = x.id /\ y.of = z.id}
RemoveRow(x) ==
    /\ x \in table /\ table' = table \ ({x} \cup {y \in Below(x) : y.kind # "event"})
    /\ UNCHANGED <<instant, bundle, log, pack, atStart>>

(* buildEDiscoveryBundle: the end of the period defaults to now.            *)
BeginBundle(from) ==
    /\ bundle.pc = "idle" /\ atStart' = [atStart EXCEPT !.rows = table]
    /\ bundle' = [pc |-> "entity", from |-> from, to |-> instant, rows |-> {}]
    /\ UNCHANGED <<instant, table, log, pack>>

After(k) == CASE k = "entity" -> "version" [] k = "version" -> "thread" [] k = "thread" -> "reply"
              [] k = "reply" -> "event" [] k = "event" -> "done"
InPeriod(x) == x.at >= bundle.from /\ x.at <= bundle.to
Selected(k) ==
    {x \in table : /\ x.kind = k /\ (k \in {"entity", "version", "event"} => InPeriod(x))
                   /\ Parent(k) # "none" => \E y \in bundle.rows : y.kind = Parent(k) /\ y.id = x.of}

QueryRows ==
    /\ bundle.pc \in Kinds
    /\ bundle' = [bundle EXCEPT !.rows = @ \cup Selected(bundle.pc), !.pc = After(bundle.pc)]
    /\ UNCHANGED <<instant, table, log, pack, atStart>>

--------------------------------------------------------------------------------
(* Events, and the package over a period.                                   *)
Record(e, ts, i) ==
    /\ \A x \in log : x.id # i
    /\ ts <= instant /\ log' = log \cup {[action |-> e, ts |-> ts, id |-> i]}
    /\ UNCHANGED <<instant, table, bundle, pack, atStart>>

AssembleSoc2EvidencePackage(from, to) ==
    /\ pack.pc = "idle"
    /\ pack' = [NoPack EXCEPT !.pc = "query", !.from = from, !.to = to, !.todo = {"changes", "drill", "down"}]
    /\ atStart' = [atStart EXCEPT !.events = log]
    /\ UNCHANGED <<instant, table, bundle, log>>

Newer(e, f) == e.ts > f.ts \/ (e.ts = f.ts /\ e.id > f.id)
Newest(S, n) == {e \in S : Cardinality({f \in S : Newer(f, e)}) < n}
ChangeLog(S) == Newest(S, Limit)
Of(a, S) == {e \in S : e.action = a}
Within(p, S) == {e \in S : e.ts >= p.from /\ e.ts <= p.to}

BuildChangeLog ==
    /\ "changes" \in pack.todo
    /\ pack' = [pack EXCEPT !.changes = ChangeLog(Within(pack, Of("change", log))), !.todo = @ \ {"changes"}]
    /\ UNCHANGED <<instant, table, bundle, log, atStart>>

(* The latest drill of all times; which one of several at one time is not   *)
(* said.                                                                    *)
LatestDrills == {e \in Of("drill", log) : \A f \in Of("drill", log) : f.ts <= e.ts}
BuildBackupVerificationProof ==
    /\ "drill" \in pack.todo
    /\ \E e \in IF Of("drill", log) = {} THEN {NoRow} ELSE LatestDrills :
          pack' = [pack EXCEPT !.drill = e, !.todo = @ \ {"drill"}]
    /\ UNCHANGED <<instant, table, bundle, log, atStart>>

BuildAvailabilityRecord ==
    /\ "down" \in pack.todo
    /\ pack' = [pack EXCEPT !.down = Cardinality(Within(pack, Of("down", log))), !.todo = @ \ {"down"}]
    /\ UNCHANGED <<instant, table, bundle, log, atStart>>

FinishPackage ==
    /\ pack.pc = "query" /\ pack.todo = {} /\ pack' = [pack EXCEPT !.pc = "done"]
    /\ UNCHANGED <<instant, table, bundle, log, atStart>>

BundleNext ==
    \/ InstantPasses \/ QueryRows \/ \E i \in RowIds, k \in Kinds : AddRow(i, k)
    \/ \E x \in table : RemoveRow(x)
    \/ \E from \in 0 .. MaxInstant : BeginBundle(from)

PackageNext ==
    \/ InstantPasses
    \/ \E e \in {"change", "drill", "down"}, ts \in 1 .. MaxInstant, i \in RowIds : Record(e, ts, i)
    \/ \E from, to \in 1 .. MaxInstant : AssembleSoc2EvidencePackage(from, to)
    \/ BuildChangeLog \/ BuildBackupVerificationProof \/ BuildAvailabilityRecord \/ FinishPackage

--------------------------------------------------------------------------------
(* A bundle refers to nothing outside itself: the version of a thread, the  *)
(* thread of a reply and the entity of an event are in it.                  *)
BundleIsClosed ==
    \A x \in bundle.rows : x.of # NoRow => \E y \in bundle.rows : y.id = x.of /\ y.kind = Parent(x.kind)

(* Lost to the export is only what was removed while it ran: a row that was *)
(* there when it began and still is, in the period with all above it, is    *)
(* in the bundle.  (The events of an entity that is gone are not.)          *)
Above(x, S) == {y \in S : y.id = x.of \/ \E z \in S : z.id = x.of /\ y.id = z.of}
InScope(x) ==
    LET S == atStart.rows \cap table IN
    /\ InPeriod(x) /\ \A y \in Above(x, S) : InPeriod(y)
    /\ x.of # NoRow => \E y \in Above(x, S) : y.id = x.of
PresentIsExported ==
    bundle.pc = "done" => \A x \in atStart.rows \cap table : InScope(x) => x \in bundle.rows

(* The package is not older than its beginning, and keeps to its period:    *)
(* the drill it shows is as late as every drill there was then, a change of *)
(* the period that it leaves out is older than every change it shows, which *)
(* are of the period, and it counts the failed checks of the period that    *)
(* were there then, and none that never were.                               *)
PackageIsCurrent ==
    pack.pc = "done" =>
        /\ \A e \in Of("drill", atStart.events) : pack.drill # NoRow /\ pack.drill.ts >= e.ts
        /\ \A e \in Within(pack, Of("change", atStart.events)) \ pack.changes : \A f \in pack.changes : Newer(f, e)
        /\ pack.changes \subseteq Within(pack, Of("change", log))
        /\ pack.down >= Cardinality(Within(pack, Of("down", atStart.events)))
        /\ pack.down <= Cardinality(Within(pack, Of("down", log)))

================================================================================
