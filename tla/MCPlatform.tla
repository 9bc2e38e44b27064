------------------------------ MODULE MCPlatform -------------------------------
(* The services of the platform: keys and encrypted rows, labels, identity  *)
(* tokens, the audit chain, the administrator's desk, the cron jobs, backup *)
(* and restore, evidence.  Each behaviour moves one of them: they share no  *)
(* state but rows written before the next one starts.                       *)
EXTENDS Labels, AdminDesk, CronJobs, Backup, TLC

VARIABLE part       \* the component that moves

platformVars == <<keyVars, labelVars, identityVars, auditVars, adminVars, cronVars, backupVars, evidenceVars, part>>

Init ==
    /\ part \in {"keys", "backfill", "labels", "identity", "audit", "entity", "settings", "reports", "ticks", "flags", "backup", "restore", "bundle", "package"}
    /\ KeyInit /\ LabelInit /\ IdentityInit /\ AuditInit /\ AdminInit /\ CronInit /\ BackupInit /\ EvidenceInit
    /\ part # "keys" => backend = "local"
    /\ part # "backfill" => enabled /\ listed = Types /\ \A t \in Types, r \in Rows : Stored(cell[t][r]) <=> r = 1
    /\ part # "labels" => ~remote
    /\ LET m == CHOOSE n \in Names : TRUE  d == CHOOSE x \in Tenants \X People : TRUE IN
          /\ spells[m] = (CHOOSE p \in People : TRUE) /\ digest[d] = (CHOOSE k \in Tokens : TRUE)
          /\ part # "identity" => (\A n \in Names : spells[n] = spells[m]) /\ \A x \in DOMAIN digest : digest[x] = digest[d]
    /\ part # "entity" => kind = "crm"
    /\ part # "settings" => ~legacy
    /\ part \notin {"backup", "restore"} => encrypting
    /\ \A w \in Writes : order[w] = IF w = CHOOSE u \in Writes : TRUE THEN "event" ELSE "row"

(* Beside the backfill the server writes one row at a time.                 *)
OneRequest == \A c, d \in Calls : req'[c].pc # "idle" /\ req'[d].pc # "idle" => c = d

Next ==
    /\ \/ part = "keys" /\ KeyNext /\ UNCHANGED fill
          /\ UNCHANGED <<labelVars, identityVars, auditVars, adminVars, cronVars, backupVars, evidenceVars>>
       \/ part = "backfill" /\ KeyNext /\ UNCHANGED epoch /\ OneRequest
          /\ UNCHANGED <<labelVars, identityVars, auditVars, adminVars, cronVars, backupVars, evidenceVars>>
       \/ part = "labels" /\ LabelNext
          /\ UNCHANGED <<keyVars, identityVars, auditVars, adminVars, cronVars, backupVars, evidenceVars>>
       \/ part = "identity" /\ IdentityNext
          /\ UNCHANGED <<keyVars, labelVars, auditVars, adminVars, cronVars, backupVars, evidenceVars>>
       \/ part = "audit" /\ AuditNext
          /\ UNCHANGED <<keyVars, labelVars, identityVars, adminVars, cronVars, backupVars, evidenceVars>>
       \/ part = "entity" /\ EntityNext /\ UNCHANGED settingVars
          /\ UNCHANGED <<keyVars, labelVars, identityVars, auditVars, cronVars, backupVars, evidenceVars>>
       \/ part = "settings" /\ SettingNext /\ UNCHANGED entityVars
          /\ UNCHANGED <<keyVars, labelVars, identityVars, auditVars, cronVars, backupVars, evidenceVars>>
       \/ part = "reports" /\ ReportNext
          /\ UNCHANGED <<keyVars, labelVars, identityVars, auditVars, adminVars, backupVars, evidenceVars>>
       \/ part = "ticks" /\ TickNext
          /\ UNCHANGED <<keyVars, labelVars, identityVars, auditVars, adminVars, backupVars, evidenceVars>>
       \/ part = "flags" /\ FlagNext
          /\ UNCHANGED <<keyVars, labelVars, identityVars, auditVars, adminVars, backupVars, evidenceVars>>
       \/ part = "backup" /\ BackupNext
          /\ UNCHANGED <<keyVars, labelVars, identityVars, auditVars, adminVars, cronVars, evidenceVars>>
       \/ part = "restore" /\ (BackupNext \/ RestoreNext) /\ OneRun /\ UNCHANGED audited
          /\ UNCHANGED <<keyVars, labelVars, identityVars, auditVars, adminVars, cronVars, evidenceVars>>
       \/ part = "bundle" /\ BundleNext
          /\ UNCHANGED <<keyVars, labelVars, identityVars, auditVars, adminVars, cronVars, backupVars>>
       \/ part = "package" /\ PackageNext
          /\ UNCHANGED <<keyVars, labelVars, identityVars, auditVars, adminVars, cronVars, backupVars>>
    /\ UNCHANGED part

(* Every minute the scheduler of a server that runs starts the flag job,    *)
(* and a server that stopped is started again.                              *)
Fairness ==
    \A s \in Servers :
        WF_platformVars(/\ part = "flags"
                        /\ StartCronScheduler(s) \/ StartSweep(s) \/ \E f \in Flags : DisableFlag(s, f)
                        /\ UNCHANGED <<keyVars, labelVars, identityVars, auditVars, adminVars, backupVars, evidenceVars, part>>)

Spec == Init /\ [][Next]_platformVars /\ Fairness

(* The rows and local states of the services keep their types.              *)
PlatformTypeOK ==
    /\ KeyTypeOK /\ LabelTypeOK /\ IdentityTypeOK /\ AuditTypeOK
    /\ AdminTypeOK /\ CronTypeOK /\ BackupTypeOK /\ EvidenceTypeOK

(* What is encrypted can be read by whom it is meant for, nothing is read   *)
(* under a label that was revoked before, and a text with tokens can be     *)
(* turned back, across restarts, rotations, backfills, revocations,         *)
(* overlapping ingestions and tokens that collide (kms-backfill.ts,         *)
(* encryption.ts, label-clearance.ts, pii-tokeniser.ts,                     *)
(* identity-dictionary.ts).                                                 *)
SecretsAreKept ==
    /\ PlatformTypeOK /\ LocalRowsStayReadable /\ ServerReadsItsOwnRows
    /\ EncryptedOnce /\ BackfillLeavesNoPlaintext /\ NoReadAfterRevocation
    /\ ReadableUntilRekeyed /\ ReturnedTextIsReversible /\ AnswerIsAudited

(* Records bear witness: audit chain, entity history, settings, daily rows, *)
(* dumps, bundles and evidence agree with what happened, although writers   *)
(* overlap, fail and restart (audit-service.ts, admin.ts, cron jobs,        *)
(* backup, e-discovery).                                                    *)
RecordsBearWitness ==
    /\ ChainVerifies /\ ChainIsGrounded /\ EditsAddUp /\ TrailReplays
    /\ RegulatedHasNoLegacy /\ OneRowPerDay /\ DeliveryAccountsForAll
    /\ RestoredIsAudited /\ FinishedCanBeRestored /\ CleartextIsRemoved
    /\ BundleIsClosed /\ PresentIsExported /\ PackageIsCurrent

(* A flag past its time goes off, whatever sweeps fail and servers restart, *)
(* no other flag does, and no text changes what a token means.              *)
FlagsFollowTheirTime ==
    /\ DueFlagGoesOff /\ OnlyDueFlagsGoOff /\ MeaningIsStable

================================================================================
