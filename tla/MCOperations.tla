------------------------------ MODULE MCOperations -----------------------------
(* What operators run: the genesis of the databases, the provisioning of    *)
(* the cloud, the login of their scripts and the rollout of a release.      *)
(* Each behaviour moves one of them.                                        *)
EXTENDS Genesis, Provision, Rollout, TLC

CONSTANT Jobs       \* the jobs that behaviours may move

VARIABLE job

opsVars == <<genesisVars, provisionVars, loginVars, rolloutVars, job>>

workerOrder == <<"email", "annotation">>

Init ==
    /\ job \in Jobs
    /\ GenesisInit /\ ProvisionInit /\ LoginInit /\ RolloutInit
    /\ job # "provision" => skipDoctor /\ denied = {} /\ cloud["vm"] = "absent"
    /\ job # "login" => file = Empty /\ source = [p \in Scripts |-> "file"]
    /\ \E p \in Scripts : source[p] = "file"     \* scripts without the file share nothing
    /\ job # "rollout" => healthy = Images

Next ==
    /\ \/ job = "genesis" /\ GenesisNext /\ UNCHANGED <<provisionVars, loginVars, rolloutVars>>
       \/ job = "provision" /\ ProvisionNext /\ UNCHANGED <<genesisVars, loginVars, rolloutVars>>
       \/ job = "login" /\ LoginNext /\ UNCHANGED <<genesisVars, provisionVars, rolloutVars>>
       \/ job = "rollout" /\ RolloutNext /\ UNCHANGED <<genesisVars, provisionVars, loginVars>>
    /\ UNCHANGED job

(* The Job controller restarts a genesis that failed (restartPolicy:        *)
(* OnFailure), and a script that runs executes its next statement.          *)
GenesisFairness ==
    WF_opsVars(/\ job = "genesis"
               /\ (StartGenesis /\ ~verified) \/ RunStatement \/ VerifyGenesis
               /\ UNCHANGED <<provisionVars, loginVars, rolloutVars, job>>)

(* Operators run the provisioning again until it succeeds; its polls go on  *)
(* and the cloud finishes what it accepted.                                 *)
ProvisionFairness ==
    /\ WF_opsVars(job = "provision" /\ (main \/ ScriptStep) /\ UNCHANGED <<genesisVars, loginVars, rolloutVars, job>>)
    /\ \A r \in Resources :
          WF_opsVars(job = "provision" /\ OperationAdvances(r) /\ UNCHANGED <<genesisVars, loginVars, rolloutVars, job>>)

Spec == Init /\ [][Next]_opsVars /\ GenesisFairness /\ ProvisionFairness

(* The catalogue, the cloud, the tokens and the cluster keep their types.   *)
OpsTypeOK == GenesisTypeOK /\ ProvisionTypeOK /\ LoginTypeOK /\ RolloutTypeOK

(* As GenesisCompletes and ProvisioningConverges, each where its job moves. *)
GenesisJobCompletes == job = "genesis" => GenesisCompletes
ProvisionJobConverges == job = "provision" => ProvisioningConverges

(* Wherever a genesis, a provisioning, a login or a release died before,    *)
(* the next one can run, what it reports is there, tenants stay apart       *)
(* throughout, tokens live and no image runs ahead of its schema or of the  *)
(* API (init-remote.ts, provision.ts, common.ts, deploy.sh).                *)
OperationsAreSafe ==
    /\ OpsTypeOK /\ EveryStatementRuns /\ TenantsStayApart /\ VerifiedIsClosed
    /\ CompleteIsUsable /\ DoctorSparesProject /\ HandedTokenLives /\ LoginIsBounded
    /\ SchemaCoversImages /\ NothingAheadOfApi

(* Repeated, genesis and provisioning succeed; a release that fails at the  *)
(* API puts back what ran before; and one that ends leaves no access open.  *)
OperationsConverge ==
    /\ GenesisJobCompletes /\ ProvisionJobConverges /\ RollbackRestores
    /\ AccessIsClosed

================================================================================
