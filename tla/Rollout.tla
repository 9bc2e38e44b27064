-------------------------------- MODULE Rollout --------------------------------
(* A release: scripts/gcp/deploy.ts checks the environment, opens a tunnel,  *)
(* writes a kubeconfig and runs deploy.sh, which migrates the database, then *)
(* moves the API, the workers and the static site to the image, each phase   *)
(* behind a gate and with a rollback of its own deployment.  One release at  *)
(* a time (deploy.yml has one concurrency group per environment).            *)
(* Kubernetes (external) keeps, per deployment, the images it ran: setting   *)
(* an image makes it the newest, undo makes the one before it the newest.    *)
EXTENDS Integers, Sequences, SequencesExt, FiniteSets

CONSTANTS
    Images, First,  \* image tags; the one that runs at the start
    WorkerTypes,    \* WORKER_TYPES, as a sequence
    Entries,        \* ways in: "ssh" and "talos" (deploy.ts), "direct" (deploy.sh)
    MaxReleases,    \* bound: releases
    NoTag, Mixed    \* no release; a half synchronised site

ASSUME RolloutAssumption ==
    /\ IsFiniteSet(Images) /\ First \in Images /\ {NoTag, Mixed} \cap Images = {}
    /\ WorkerTypes \in Seq(STRING \ {"app"}) /\ Entries \subseteq {"ssh", "talos", "direct"}
    /\ MaxReleases \in Nat

VARIABLES
    revisions,      \* deployment -> the images it ran, the newest last
    healthy,        \* the images whose pods become ready and answer /health
    schema,         \* images whose migrations completed
    site,           \* the image whose assets are served
    release,        \* the release under way: its entry, tag and step
    before,         \* what each deployment ran when the release began
    passed,         \* images the API passed its gates with
    tunnel, kubeconfig, releases,
    outcome         \* how the last release ended

rolloutVars == <<revisions, healthy, schema, site, release, before, passed, tunnel, kubeconfig, releases, outcome>>

Deployments == {"app"} \cup {WorkerTypes[i] : i \in DOMAIN WorkerTypes}
NoRelease == [entry |-> "none", tag |-> NoTag, step |-> "none", worker |-> 0, checkOnly |-> FALSE]

(* An image that is set again moves to the end; the one before the newest   *)
(* changes places with it.                                                  *)
Newest(s, v) == (IF \E i \in DOMAIN s : s[i] = v THEN RemoveAt(s, CHOOSE i \in DOMAIN s : s[i] = v) ELSE s) \o <<v>>
Previous(s) == IF Len(s) < 2 THEN s ELSE SubSeq(s, 1, Len(s) - 2) \o <<s[Len(s)], s[Len(s) - 1]>>

SetImage(d, v) == [revisions EXCEPT ![d] = Newest(@, v)]
Undo(d) == [revisions EXCEPT ![d] = Previous(@)]

At(s) == release.step = s
Step(s) == release' = [release EXCEPT !.step = s]

(* deploy.ts ends through its finally blocks: the kubeconfig is removed and *)
(* the tunnel closed.                                                       *)
EndRelease(o) ==
    /\ release' = NoRelease /\ outcome' = o
    /\ tunnel' = FALSE /\ kubeconfig' = FALSE

cluster == <<revisions, healthy, schema, site>>
books == <<before, passed, releases>>
access == <<tunnel, kubeconfig>>

(***************************************************************************)
(* deploy.ts                                                               *)
(***************************************************************************)
StartRelease(e, v, c) ==
    /\ release = NoRelease /\ releases < MaxReleases
    /\ e = "direct" => ~c
    /\ releases' = releases + 1 /\ outcome' = "none"
    /\ before' = [d \in Deployments |-> Last(revisions[d])]
    /\ release' = [entry |-> e, tag |-> v, worker |-> 1, checkOnly |-> c,
                   step |-> IF e = "direct" THEN "migrate" ELSE "infra"]
    /\ UNCHANGED <<cluster, passed, access>>

(* main: the doctor, the VM and AlloyDB must be up; then SSH, the database  *)
(* path, the tunnel.                                                        *)
CheckInfrastructure ==
    /\ At("infra")
    /\ \/ EndRelease("refused")
       \/ /\ tunnel' = (release.entry = "ssh") /\ UNCHANGED <<kubeconfig, outcome>>
          /\ Step("access")
    /\ UNCHANGED <<cluster, books>>

(* The port of the tunnel must open and a token be issued before the        *)
(* kubeconfig is written; Talos writes it first.                            *)
WriteKubeconfig ==
    /\ At("access")
    /\ \/ EndRelease("refused")
       \/ kubeconfig' = TRUE /\ Step("liveness") /\ UNCHANGED <<tunnel, outcome>>
    /\ UNCHANGED <<cluster, books>>

(* runLivenessChecks wants the present rollout of the API to be complete.   *)
runLivenessChecks ==
    /\ At("liveness")
    /\ \/ EndRelease("refused")
       \/ /\ Last(revisions["app"]) \in healthy
          /\ IF release.checkOnly THEN EndRelease("checked")
             ELSE Step("migrate") /\ UNCHANGED <<access, outcome>>
    /\ UNCHANGED <<cluster, books>>

(***************************************************************************)
(* deploy.sh                                                               *)
(***************************************************************************)
(* Phase 1.  A job that is not complete when kubectl wait gives up is       *)
(* deleted; it may have completed in the meantime.                          *)
run_migration_job ==
    /\ At("migrate")
    /\ \/ schema' = schema \cup {release.tag} /\ Step("setImage") /\ UNCHANGED <<access, outcome>>
       \/ EndRelease("migrationFailed") /\ schema' \in {schema, schema \cup {release.tag}}
    /\ UNCHANGED <<revisions, healthy, site, books>>

(* Phase 2.                                                                 *)
SetApiImage ==
    /\ At("setImage")
    /\ revisions' = SetImage("app", release.tag)
    /\ Step("rollout")
    /\ UNCHANGED <<healthy, schema, site, books, access, outcome>>

(* kubectl rollout status: pods that never get ready, or too late.          *)
WaitForRollout ==
    /\ At("rollout")
    /\ \/ release.tag \in healthy /\ Step("health") /\ UNCHANGED <<revisions, access, outcome>>
       \/ revisions' = Undo("app") /\ EndRelease("rolloutFailed")
    /\ UNCHANGED <<healthy, schema, site, books>>

(* deploy.sh appends /health to API_URL.  deploy.ts passes an API_URL that  *)
(* ends in /health already, and no route answers /health/health.            *)
HealthzAnswers == release.tag \in healthy /\ release.entry = "direct"

wait_for_healthz ==
    /\ At("health")
    /\ IF HealthzAnswers
       THEN passed' = passed \cup {release.tag} /\ Step("workers") /\ UNCHANGED <<revisions, access, outcome>>
       ELSE revisions' = Undo("app") /\ EndRelease("unhealthy") /\ UNCHANGED passed
    /\ UNCHANGED <<healthy, schema, site, before, releases>>

(* Phase 3, one worker type after the other.                                *)
RolloutWorker ==
    /\ At("workers") /\ release.worker \in DOMAIN WorkerTypes
    /\ revisions' = SetImage(WorkerTypes[release.worker], release.tag)
    /\ Step("workerRollout")
    /\ UNCHANGED <<healthy, schema, site, books, access, outcome>>

wait_for_pod_ready ==
    /\ At("workerRollout")
    /\ \/ /\ release.tag \in healthy
          /\ release' = [release EXCEPT !.step = "workers", !.worker = @ + 1]
          /\ UNCHANGED <<revisions, access, outcome>>
       \/ revisions' = Undo(WorkerTypes[release.worker]) /\ EndRelease("workerFailed")
    /\ UNCHANGED <<healthy, schema, site, books>>

(* Phase 4, then maybeAnnotateDeployment.  A sync that fails half way is    *)
(* followed by one from the previous assets, if they are at hand; without a *)
(* bucket the phase is skipped.                                             *)
SyncSite ==
    /\ At("workers") /\ release.worker \notin DOMAIN WorkerTypes
    /\ \/ site' \in {site, release.tag} /\ EndRelease("ok")
       \/ site' \in {site, Mixed} /\ EndRelease("siteFailed")
    /\ UNCHANGED <<revisions, healthy, schema, books>>

(* The runner dies: no rollback and no finally.                             *)
ReleaseKilled ==
    /\ release # NoRelease
    /\ release' = NoRelease /\ outcome' = "killed"
    /\ UNCHANGED <<cluster, books, access>>

RolloutInit ==
    /\ revisions = [d \in Deployments |-> <<First>>]
    /\ healthy \in {h \in SUBSET Images : First \in h}
    /\ schema = {First} /\ site = First /\ passed = {First}
    /\ before = [d \in Deployments |-> First]
    /\ release = NoRelease /\ releases = 0 /\ outcome = "none"
    /\ tunnel = FALSE /\ kubeconfig = FALSE

RolloutNext ==
    \/ \E e \in Entries, v \in Images, c \in BOOLEAN : StartRelease(e, v, c)
    \/ CheckInfrastructure \/ WriteKubeconfig \/ runLivenessChecks \/ run_migration_job
    \/ SetApiImage \/ WaitForRollout \/ wait_for_healthz
    \/ RolloutWorker \/ wait_for_pod_ready \/ SyncSite \/ ReleaseKilled

RolloutSpec == RolloutInit /\ [][RolloutNext]_rolloutVars

(***************************************************************************)
(* Properties                                                              *)
(***************************************************************************)
(* The cluster and the release keep their types.                            *)
RolloutTypeOK ==
    /\ \A d \in Deployments : revisions[d] \in Seq(Images) /\ Len(revisions[d]) \in 1..Cardinality(Images)
    /\ healthy \subseteq Images /\ schema \subseteq Images /\ passed \subseteq Images
    /\ site \in Images \cup {Mixed} /\ before \in [Deployments -> Images]
    /\ release.tag \in Images \cup {NoTag} /\ release.worker \in 0..(Len(WorkerTypes) + 1)
    /\ tunnel \in BOOLEAN /\ kubeconfig \in BOOLEAN /\ releases \in 0..MaxReleases

(* Whatever releases failed, were rolled back or died, no deployment runs   *)
(* an image whose migrations have not completed.                            *)
SchemaCoversImages == \A d \in Deployments : Last(revisions[d]) \in schema

(* Workers and assets never run ahead of the API: they are of an image the  *)
(* API served and answered its health gate with.                            *)
NothingAheadOfApi ==
    /\ \A d \in Deployments \ {"app"} : Last(revisions[d]) \in passed
    /\ site \in passed \cup {Mixed}

(* A release of another image that was rolled back at the API leaves every  *)
(* deployment on the image it ran before.                                   *)
RollbackRestores ==
    [][release # NoRelease /\ outcome' \in {"rolloutFailed", "unhealthy"} /\ release.tag # before["app"]
        => \A d \in Deployments : Last(revisions'[d]) = before[d]]_rolloutVars

(* A release that ends, other than by being killed, leaves no credentials   *)
(* of the cluster on disk and no tunnel to it; killed ones may.             *)
AccessIsClosed == [][release # NoRelease /\ release' = NoRelease /\ outcome' # "killed"
                        => ~tunnel' /\ ~kubeconfig']_rolloutVars

================================================================================
