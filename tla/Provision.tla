------------------------------- MODULE Provision -------------------------------
(* Setting up the cloud project, and the login its scripts share.            *)
EXTENDS Integers, Sequences, FiniteSets

--------------------------------------------------------------------------------
(* scripts/gcp/provision.ts: infrastructure made by a script that may die    *)
(* anywhere and is run again.  For every resource in turn it asks, creates,  *)
(* waits for the operation and reads back; what it finds it reuses, ready or *)
(* not.  The cloud (external) answers a creation at once and finishes it     *)
(* later, or fails it; it refuses a name that is taken and a resource whose  *)
(* dependencies are not ready.                                               *)

CONSTANTS MaxDeaths, MaxCloudFails      \* bounds: runs that are killed or time out, failed operations

ASSUME BoundsAssumption == MaxDeaths \in Nat /\ MaxCloudFails \in Nat

VARIABLES
    cloud,          \* resource -> absent, accepted (not visible), creating, ready, failed
    denied,         \* resources the credential has no permission to create
    skipDoctor,     \* --skip-doctor
    deaths,         \* runs that were killed or timed out
    at,             \* the script: the resource it is at, and its step
    done,           \* the last run printed that provisioning is complete
    made,           \* resources some run asked the cloud to create
    cloudFails

provisionVars == <<cloud, denied, skipDoctor, deaths, at, done, made, cloudFails>>

Order == <<"services", "network", "subnetwork", "sshRule", "appRule", "psaRange", "psaConnection", "cluster", "instance", "vm">>
Resources == {Order[i] : i \in DOMAIN Order}
Needs ==
    [r \in Resources |->
        CASE r = "services" -> {}
          [] r = "network" -> {"services"}
          [] r \in {"subnetwork", "sshRule", "appRule", "psaRange"} -> {"network"}
          [] r = "psaConnection" -> {"psaRange"}
          [] r = "cluster" -> {"psaConnection"}
          [] r = "instance" -> {"cluster"}
          [] r = "vm" -> {"subnetwork"}]

Visible == {"creating", "ready", "failed", "stopped"}
Idle == <<0, "idle">>
Here == Order[at[1]]
Goto(s) == at' = <<at[1], s>>
Advance == at' = IF at[1] = Len(Order) THEN <<at[1], "ssh">> ELSE <<at[1] + 1, "ask">>

(* A throw leaves main through its finally; the next run starts afresh.     *)
Throw == at' = Idle

fixedVars == <<denied, skipDoctor, deaths, done, cloudFails>>

(***************************************************************************)
(* The script                                                              *)
(***************************************************************************)
main ==
    /\ at = Idle /\ ~done
    /\ at' = IF skipDoctor THEN <<1, "ask">> ELSE <<1, "doctor">>
    /\ UNCHANGED <<cloud, made, fixedVars>>

runDoctor ==
    /\ at[2] = "doctor"
    /\ IF denied = {} THEN at' = <<1, "ask">> ELSE Throw
    /\ UNCHANGED <<cloud, made, fixedVars>>

(* GET: a resource that is there is taken as it is, except that the AlloyDB *)
(* cluster and instance are waited for and a VM that does not run is        *)
(* started.  There is no GET for the peering connection.                    *)
AskResource ==
    /\ at[2] = "ask"
    /\ CASE Here = "psaConnection" \/ cloud[Here] \notin Visible -> Goto("create")
         [] Here \in {"cluster", "instance"} /\ cloud[Here] # "ready" -> Goto("untilReady")
         [] Here = "services" /\ cloud[Here] # "ready" -> Goto("create")
         [] Here = "vm" /\ cloud[Here] # "ready" -> Goto("start")
         [] OTHER -> Advance
    /\ UNCHANGED <<cloud, made, fixedVars>>

(* Mutant: a peering connection that exists is an error.                    *)
CreateResourceStrict ==
    /\ at[2] = "create"
    /\ IF Here \in denied \/ cloud[Here] # "absent" \/ (\E n \in Needs[Here] : cloud[n] # "ready")
       THEN Throw /\ UNCHANGED <<cloud, made>>
       ELSE /\ cloud' = [cloud EXCEPT ![Here] = "accepted"]
            /\ made' = made \cup {Here}
            /\ Goto("wait")
    /\ UNCHANGED fixedVars

(* What a failure ends in.  The peering connection is different: a message  *)
(* that says that it cannot be created, or is there, lets the script go on. *)
FailHere == Throw \/ (Here = "psaConnection" /\ Advance)

(* POST: enabling a service twice and connecting a peered network twice are *)
(* not errors for the script; everything else that is taken is.             *)
CreateResource ==
    /\ at[2] = "create"
    /\ CASE Here \in denied \/ (\E n \in Needs[Here] : cloud[n] # "ready") ->
                FailHere /\ UNCHANGED <<cloud, made>>
         [] Here = "services" /\ cloud[Here] # "absent" -> Goto("wait") /\ UNCHANGED <<cloud, made>>
         [] Here = "psaConnection" /\ cloud[Here] # "absent" -> Advance /\ UNCHANGED <<cloud, made>>
         [] cloud[Here] # "absent" -> Throw /\ UNCHANGED <<cloud, made>>
         [] OTHER -> /\ cloud' = [cloud EXCEPT ![Here] = "accepted"]
                     /\ made' = made \cup {Here}
                     /\ Goto("wait")
    /\ UNCHANGED fixedVars

(* waitForGoogleOperation, then the read back of the resources that have    *)
(* one.  An operation that failed throws.                                   *)
waitForGoogleOperation ==
    /\ at[2] = "wait"
    /\ CASE cloud[Here] = "ready" -> Advance
         [] cloud[Here] \in {"absent", "failed"} -> FailHere
         [] OTHER -> FALSE
    /\ UNCHANGED <<cloud, made, fixedVars>>

(* waitUntilClusterReady and waitUntilInstanceReady.                        *)
waitUntilReady ==
    /\ at[2] = "untilReady"
    /\ CASE cloud[Here] = "ready" -> Advance
         [] cloud[Here] = "failed" -> Throw
         [] OTHER -> FALSE
    /\ UNCHANGED <<cloud, made, fixedVars>>

(* The second half of ensureVm: POST start, wait, read back; a machine that *)
(* has no address yet ends the run.                                         *)
startVm ==
    /\ at[2] = "start"
    /\ \/ cloud["vm"] = "stopped" /\ cloud' = [cloud EXCEPT !["vm"] = "ready"] /\ Advance
       \/ cloud["vm"] = "ready" /\ Advance /\ UNCHANGED cloud
       \/ cloud["vm"] \in {"creating", "absent"} /\ Throw /\ UNCHANGED cloud
    /\ UNCHANGED <<made, fixedVars>>

(* waitForTcpPort(22), then the summary is printed.  A port that is not     *)
(* going to open is given up on.                                            *)
waitForSsh ==
    /\ at[2] = "ssh"
    /\ \/ cloud["vm"] = "ready" /\ cloud["sshRule"] = "ready" /\ done' = TRUE
       \/ "absent" \in {cloud["vm"], cloud["sshRule"]} /\ UNCHANGED done
    /\ Throw
    /\ UNCHANGED <<cloud, denied, skipDoctor, deaths, made, cloudFails>>

(* A wait that reaches its deadline, a request that fails, a kill.          *)
ProvisionFails ==
    /\ at # Idle /\ deaths < MaxDeaths /\ deaths' = deaths + 1
    /\ Throw
    /\ UNCHANGED <<cloud, denied, skipDoctor, done, made, cloudFails>>

(***************************************************************************)
(* The cloud                                                               *)
(***************************************************************************)
OperationAdvances(r) ==
    /\ cloud[r] \in {"accepted", "creating"}
    /\ cloud' = [cloud EXCEPT ![r] = IF @ = "accepted" THEN "creating" ELSE "ready"]
    /\ UNCHANGED <<denied, skipDoctor, deaths, at, done, made, cloudFails>>

OperationFails(r) ==
    /\ cloud[r] = "creating" /\ cloudFails < MaxCloudFails
    /\ cloud' = [cloud EXCEPT ![r] = IF r \in {"cluster", "instance"} THEN "failed" ELSE "absent"]
    /\ cloudFails' = cloudFails + 1
    /\ UNCHANGED <<denied, skipDoctor, deaths, at, done, made>>

(* A first provisioning, or the re-use of an environment whose VM was       *)
(* switched off.                                                            *)
ProvisionInit ==
    /\ \/ cloud = [r \in Resources |-> "absent"]
       \/ cloud = [r \in Resources |-> IF r = "vm" THEN "stopped" ELSE "ready"]
    /\ denied \in {{}, {"cluster"}} /\ skipDoctor \in BOOLEAN
    /\ deaths = 0 /\ at = Idle /\ done = FALSE /\ made = {} /\ cloudFails = 0

ScriptStep ==
    \/ runDoctor \/ AskResource \/ CreateResource \/ waitForGoogleOperation \/ waitUntilReady \/ startVm \/ waitForSsh

ProvisionNext ==
    \/ main \/ ScriptStep \/ ProvisionFails
    \/ \E r \in Resources : OperationAdvances(r) \/ OperationFails(r)

ProvisionSpec == ProvisionInit /\ [][ProvisionNext]_provisionVars

(***************************************************************************)
(* Properties                                                              *)
(***************************************************************************)
(* The resources and the script keep their types.                           *)
ProvisionTypeOK ==
    /\ cloud \in [Resources -> Visible \cup {"absent", "accepted"}]
    /\ denied \subseteq Resources /\ made \subseteq Resources
    /\ at[1] \in 0..Len(Order) /\ at[2] \in {"idle", "doctor", "ask", "create", "wait", "untilReady", "start", "ssh"}
    /\ deaths \in 0..MaxDeaths /\ cloudFails \in 0..MaxCloudFails
    /\ skipDoctor \in BOOLEAN /\ done \in BOOLEAN

(* A run of provision.ts that reports success, after whatever was left by   *)
(* runs that died before it, leaves a machine that runs, reachable over     *)
(* SSH, in a network that is ready, and a database cluster and instance     *)
(* that are READY.  (The rule that opens the application's port is reused   *)
(* as it is found, so it may still be in the making.)                       *)
CompleteIsUsable == done => \A r \in Resources \ {"appRule"} : cloud[r] = "ready"

(* A credential that lacks a permission is turned away by the doctor before *)
(* anything is created: no project is left half provisioned for want of a   *)
(* permission that was known to be missing.                                 *)
DoctorSparesProject == ~skipDoctor /\ denied # {} => made = {}

(* Runs that die are completed by a later one, unless AlloyDB itself failed *)
(* (the script never replaces a FAILED cluster or instance) or a permission *)
(* is missing.                                                              *)
ProvisioningConverges == <>(done \/ denied # {} \/ \E r \in {"cluster", "instance"} : cloud[r] = "failed")

--------------------------------------------------------------------------------
(* Google credentials of the operator's scripts.  scripts/gcp/login.ts gets  *)
(* a refreshable credential, by a device code or by a browser callback, and  *)
(* writes it to a file; getGoogleAccessToken (common.ts) hands out access    *)
(* tokens from a process-wide cache, from the file, by a refresh that it     *)
(* writes back, or minted with a service-account key; a token the operator   *)
(* puts into the environment is handed out as it is.  Processes share the    *)
(* file and nothing else.  A token dies at the authorisation server when its *)
(* life is over; what the scripts keep is their own estimate of when.        *)

CONSTANTS
    Scripts,        \* processes that call Google APIs
    MaxNow,         \* bound of the clock
    Life,           \* expires_in of an access token
    Margin,         \* 60_000: a token this close to its end is not used
    Latency,        \* the longest a token request takes
    Timeout,        \* --timeout-seconds of a login
    Interval,       \* the polling interval the server first asks for
    Slower,         \* 5_000: what slow_down adds to it
    Empty, Torn     \* no credential file; a file being written

ASSUME LatencyAssumption ==
    /\ {MaxNow, Life, Margin, Latency, Timeout, Slower} \subseteq Nat /\ Interval \in Nat \ {0}
    /\ Latency <= Margin /\ Latency < Life

VARIABLES
    now,
    source,         \* script -> its credential: "file", "key" or "environment"
    file,           \* the credential file
    cached,         \* script -> its cachedToken
    asking,         \* script -> when it asked for a token; -1 when it did not
    writing,        \* script -> the token it is about to write to the file
    handed,         \* the last token handed out: "alive", "dead", or "given"
    login,          \* the login under way
    consent         \* what the user did: none, approved, denied

loginVars == <<now, source, file, cached, asking, writing, handed, login, consent>>

Sources == {"file", "key", "environment"}
Token == [dies : 0..(MaxNow + Life), until : 0..(MaxNow + Life)]
Fresh(t) == t # Empty /\ t.until - now > Margin

ASSUME TokenAssumption == Empty # Torn /\ {Empty, Torn} \cap Token = {}

NoLogin == [flow |-> "none", step |-> "none", begun |-> 0, next |-> 0, gap |-> 0]

(***************************************************************************)
(* getGoogleAccessToken                                                    *)
(***************************************************************************)
HandOut(t) == handed' = IF now < t.dies THEN "alive" ELSE "dead"

(* GCP_ACCESS_TOKEN: nobody looks at how long it lives.                     *)
UseEnvironment(p) ==
    /\ source[p] = "environment" /\ handed' = "given"
    /\ UNCHANGED <<now, source, file, cached, asking, writing, login, consent>>

UseCached(p) ==
    /\ asking[p] = -1 /\ writing[p] = Empty
    /\ Fresh(cached[p])
    /\ HandOut(cached[p])
    /\ UNCHANGED <<now, source, file, cached, asking, writing, login, consent>>

(* A file that is missing, or is read while it is being written, throws.    *)
UseFile(p) ==
    /\ source[p] = "file" /\ asking[p] = -1 /\ writing[p] = Empty
    /\ ~Fresh(cached[p])
    /\ file \notin {Empty, Torn}
    /\ IF Fresh(file)
       THEN HandOut(file) /\ cached' = [cached EXCEPT ![p] = file] /\ UNCHANGED asking
       ELSE asking' = [asking EXCEPT ![p] = now] /\ UNCHANGED <<handed, cached>>
    /\ UNCHANGED <<now, source, file, writing, login, consent>>

(* A service-account key: a signed assertion is exchanged for a token.      *)
UseKey(p) ==
    /\ source[p] = "key" /\ asking[p] = -1 /\ ~Fresh(cached[p])
    /\ asking' = [asking EXCEPT ![p] = now]
    /\ UNCHANGED <<now, source, file, cached, writing, handed, login, consent>>

(* The answer: the token was issued at some moment since it was asked for,  *)
(* its end is reckoned from before the request.                             *)
Issued(p, issued) == [dies |-> issued + Life, until |-> asking[p] + Life]

Refreshed(p) ==
    /\ source[p] = "file" /\ asking[p] # -1
    /\ \E issued \in asking[p]..now : writing' = [writing EXCEPT ![p] = Issued(p, issued)]
    /\ file' = Torn
    /\ asking' = [asking EXCEPT ![p] = -1]
    /\ UNCHANGED <<now, source, cached, handed, login, consent>>

Minted(p) ==
    /\ source[p] = "key" /\ asking[p] # -1
    /\ \E issued \in asking[p]..now :
          /\ cached' = [cached EXCEPT ![p] = Issued(p, issued)]
          /\ HandOut(Issued(p, issued))
    /\ asking' = [asking EXCEPT ![p] = -1]
    /\ UNCHANGED <<now, source, file, writing, login, consent>>

persistLocalOAuthCredential(p) ==
    /\ writing[p] # Empty
    /\ file' = writing[p]
    /\ cached' = [cached EXCEPT ![p] = writing[p]]
    /\ HandOut(writing[p])
    /\ writing' = [writing EXCEPT ![p] = Empty]
    /\ UNCHANGED <<now, source, asking, login, consent>>

(* The process ends, or its request fails; its cache is gone, and a file it *)
(* was writing stays torn unless another process writes it.                 *)
ScriptEnds(p) ==
    /\ cached[p] # Empty \/ asking[p] # -1 \/ writing[p] # Empty
    /\ cached' = [cached EXCEPT ![p] = Empty]
    /\ asking' = [asking EXCEPT ![p] = -1] /\ writing' = [writing EXCEPT ![p] = Empty]
    /\ UNCHANGED <<now, source, file, handed, login, consent>>

(***************************************************************************)
(* login.ts                                                                *)
(***************************************************************************)
StartLogin(flow) ==
    /\ login = NoLogin
    /\ login' = [flow |-> flow, step |-> "wait", begun |-> now, next |-> now + Interval, gap |-> Interval]
    /\ UNCHANGED <<now, source, file, cached, asking, writing, handed, consent>>

UserDecides ==
    /\ login.step = "wait" /\ consent = "none"
    /\ consent' \in {"approved", "denied"}
    /\ UNCHANGED <<now, source, file, cached, asking, writing, handed, login>>

EndLogin == login' = NoLogin /\ consent' = "none"
FailLogin == EndLogin /\ UNCHANGED file

(* pollDeviceCodeToken after a sleep: the answer is the user's decision, or *)
(* to go on, or to go on more slowly, or that the code has expired.  The    *)
(* deadline is looked at before the next sleep only.                        *)
pollDeviceCodeToken ==
    /\ login.flow = "device" /\ login.step = "wait" /\ now >= login.next
    /\ \/ consent = "approved" /\ login' = [login EXCEPT !.step = "write"] /\ UNCHANGED <<file, consent>>
       \/ consent = "denied" /\ FailLogin
       \/ consent = "none" /\ \E gap \in {login.gap, login.gap + Slower} :
              IF now < login.begun + Timeout
              THEN login' = [login EXCEPT !.gap = gap, !.next = now + gap] /\ UNCHANGED <<file, consent>>
              ELSE FailLogin
       \/ FailLogin
    /\ UNCHANGED <<now, source, cached, asking, writing, handed>>

(* handleOAuthCallbackRequest: the first request to the callback path       *)
(* decides, be it the user's, a refusal, or one whose state is not ours.    *)
handleOAuthCallbackRequest(ours) ==
    /\ login.flow = "callback" /\ login.step = "wait"
    /\ IF ours /\ consent = "approved"
       THEN login' = [login EXCEPT !.step = "write"] /\ UNCHANGED <<file, consent>>
       ELSE (~ours \/ consent = "denied") /\ FailLogin
    /\ UNCHANGED <<now, source, cached, asking, writing, handed>>

CallbackTimeout ==
    /\ login.flow = "callback" /\ login.step = "wait" /\ now >= login.begun + Timeout
    /\ FailLogin
    /\ UNCHANGED <<now, source, cached, asking, writing, handed>>

(* The code is exchanged and the credential written, its end reckoned from  *)
(* after the answer.                                                        *)
writeLocalOAuthCredentialFile ==
    /\ login.step = "write"
    /\ \E delay \in 0..Latency :
          /\ now - delay >= login.begun
          /\ file' = [dies |-> now - delay + Life, until |-> now + Life]
    /\ EndLogin
    /\ UNCHANGED <<now, source, cached, asking, writing, handed>>

(* Time passes, but no request takes longer than Latency, and a sleep that  *)
(* is over or a deadline that is reached is acted upon.                     *)
Tick ==
    /\ now < MaxNow
    /\ \A p \in Scripts : asking[p] # -1 => now < asking[p] + Latency
    /\ \A p \in Scripts : writing[p] = Empty
    /\ login.step # "write"
    /\ login.flow = "device" => now < login.next
    /\ login.flow = "callback" => now < login.begun + Timeout
    /\ now' = now + 1
    /\ UNCHANGED <<source, file, cached, asking, writing, handed, login, consent>>

LoginInit ==
    /\ now = 0 /\ source \in [Scripts -> Sources] /\ file \in {Empty, [dies |-> Life, until |-> Life]}
    /\ cached = [p \in Scripts |-> Empty] /\ asking = [p \in Scripts |-> -1]
    /\ writing = [p \in Scripts |-> Empty]
    /\ handed = "alive" /\ login = NoLogin /\ consent = "none"

LoginStep == pollDeviceCodeToken \/ CallbackTimeout \/ writeLocalOAuthCredentialFile

LoginNext ==
    \/ \E p \in Scripts : \/ UseEnvironment(p) \/ UseCached(p) \/ UseFile(p) \/ Refreshed(p)
                          \/ UseKey(p) \/ Minted(p)
                          \/ persistLocalOAuthCredential(p) \/ ScriptEnds(p)
    \/ \E flow \in {"device", "callback"} : StartLogin(flow)
    \/ UserDecides \/ LoginStep \/ \E ours \in BOOLEAN : handleOAuthCallbackRequest(ours)
    \/ Tick

LoginSpec == LoginInit /\ [][LoginNext]_loginVars

(***************************************************************************)
(* Properties                                                              *)
(***************************************************************************)
(* The tokens and the login keep their types.                               *)
LoginTypeOK ==
    /\ now \in 0..MaxNow /\ source \in [Scripts -> Sources] /\ file \in Token \cup {Empty, Torn}
    /\ \A p \in Scripts : cached[p] \in Token \cup {Empty} /\ writing[p] \in Token \cup {Empty}
    /\ \A p \in Scripts : asking[p] \in -1..MaxNow
    /\ login.gap \in {0} \cup {Interval + k * Slower : k \in 0..MaxNow} /\ consent \in {"none", "approved", "denied"}

(* No script is handed a token that is dead, whichever process got it, from *)
(* a refresh, a login or a key, and however long the request took up to     *)
(* Latency; of a token from the environment nothing is known.               *)
HandedTokenLives == handed # "dead"

(* A login that waits is over by its deadline, give or take one sleep.      *)
LoginIsBounded == login.step = "wait" => now <= login.begun + Timeout + login.gap

================================================================================
