# A TLA+ verification of the Superfield demo (Phoenix)

TLA+ modules, TLC configurations and TLAPS proofs for the server, the workers,
the database layer, the web client and the operators' scripts of this
repository. Paths are relative to the repository root (`src/`).
`PROJECT.json` maps every definition to the lines it models, and lists runs,
mutants, hazards, findings and theorems.

    tlc -workers 2 -config TaskQueue.cfg MCTaskQueue     # a run
    tlapm TaskQueueProofs.tla                            # the proofs of a module

## 1. The system

A TypeScript monorepo: an HTTP server with an in-process cron
(`apps/server`), worker pods that run agent CLIs (`apps/worker`), a web client
(`apps/web`), the code they share (`packages/db`, `packages/core`) and the scripts
that create, provision and release it (`scripts`, `deploy.sh`). All shared state is
in PostgreSQL (`packages/db/schema.sql`). Several server replicas, pods, cron jobs
and browser tabs work on the same rows at once.

One fact decides how the models look. Most functions of `packages/db` get
the connection *pool*, so each SQL statement commits by itself, and a
`SELECT ... FOR UPDATE` locks nothing beyond its own statement. Only code
inside `sql.begin` is a transaction. A model step is therefore one statement
(or one transaction), and everything between two `await`s belongs to it; a
process can stop, and any other process can act, between two steps. In the
browser a step is one turn of the event loop.

| Component | State it keeps | Operations | Interacts with | What makes it correct |
|---|---|---|---|---|
| Task queue, runner, delegated tokens | `task_queue` rows; the row a worker holds; `revoked_tokens` | enqueue, claim, execute, submit, PATCH, sweep | every job | an attempt has one winner; the retry budget; a consumed token admits nobody; an answered task is not rerun; every task ends unless a client parked it |
| Worker loop | phase, LISTEN connection | wait, wake, poll, stop | queue notifications | no lost wake-up; stop ends and loses no task |
| Invoices, dunning, cases, plans, write-offs | invoices, payments, notices, cases, plans, requests | send, pay, daily jobs, settle, propose, decide | each other, over shared rows | case and invoice agree; what is paid is closed, and only that is; notices in order |
| M-of-N approvals, legal holds, retention, WORM | requests, votes, holds, records, policies | vote, execute, place, lift, scan, delete | privileged routes | no operation without its quorum; four eyes; nothing goes early, held or unseen |
| Passkeys, lockout, recovery, users | credentials, challenges, counters, passphrases | the ceremonies, delete | sessions | penalties follow failures; no lock-out of everyone |
| Sessions, tokens, rate limits | JWTs, revocations, token rows, windows | verify, refresh, log out, consume, check, clean up | every route | ended means refused; single use; no stretch of a window over its maximum |
| Leads, deals | prospects, KYC, scores, tasks, deals, notices | decide, score, route, rescore, change stage | queue, bell | routed on what is verified, nobody stranded, a won deal makes one customer |
| Customer health, interventions | daily scores, interventions, alerts | daily job, resolve, escalate | leads' reps | one score a day, neglect reaches a lead |
| Email, transcription, autolearn, annotations | a state and a log per item, files, mailbox position | transition, fetch, ingest, run a CLI | corpus | log is the path, nothing skipped, results complete |
| Recorder, on-device transcription | recorder, stream, transcript | start, stop, reset, hide, transcribe | browser events | microphone released after a recording, audio of this recording |
| Corpus, citations, campaigns | chunks, query window, drafts | upload, query, export, check | pipelines | text is kept whole, data leaves audited, published is cited |
| Finance reports, portfolio scenarios | derived figures | compute | invoices, deals, cases, scores | figures add up, copies of a rule agree |
| Keys, labels, identity tokens | wrapped keys, grants, dictionary | encrypt, backfill, rotate, grant, revoke, tokenise | every labelled record | readable by whom it is meant for, also after a backfill or a rotation; not under a revoked label |
| Audit chain, administrator's desk | events, entities, tenant settings | append, patch, erase, set | every route | the trail replays, the chain verifies |
| Cron, flags, scheduled reports | task rows, flags, mails | tick, sweep, deliver | queue | one row a day, every due report accounted for |
| Backup, e-discovery, evidence | dumps, sidecars, bundles | dump, restore, export | all tables | what is finished can be restored and is consistent |
| Web client | user, cookie, page, loads, posts, bell, controls | sign in and out, load, post, poll, click | the routes | what is shown is what is selected and stored |
| Genesis and row-level security | roles, grants, policies | the genesis job, sessions under RLS | all | tenants stay apart at any moment of a re-run |
| Provisioning, login, rollout | cloud resources, credential file, revisions | provision, log in, release, roll back | cloud APIs, cluster | repeatable after any death; nothing ahead of its schema |

The behaviours that are hard here: statements of two requests interleaving
where the code assumes a lock; workers whose claim has expired and who go on;
jobs that work from a list read long before; a process that stops between two
statements; overlapping runs of a daily job during a rollout; notifications
that are lost; answers that reach a page in another order than they were asked
for; scripts that are killed and run again; limits that are compared once with
`<` and once with `>=`.

## 2. Modules

| Module | Models | Run |
|---|---|---|
| `TaskQueue` | queue table, runner, API workers, result route, tokens, sweep | `queue` |
| `TaskContract` | abstract: what the queue promises whoever enqueues | (refined by `TaskQueue`) |
| `WorkerLoop` | `TaskQueueWorker` and its waker, LISTEN/NOTIFY, shutdown | `queue` |
| `Receivables` | invoices, payments, dunning, cases, plans, monitor, write-offs, composed over the shared tables | `receivables` |
| `Installments`, `InstallmentSchedule` | the installment loop of a plan, against its reference definition | `reports` |
| `Approvals` | votes, quorum, approval gate, execution | `governance` |
| `LegalHold`, `Retention` | holds and their removal; records, policies, WORM, nightly scan, composed | `governance` |
| `Passkeys` | WebAuthn ceremonies, lockout, recovery, deletion of users and keys; JWTs through refresh, logout, rotation and the second they expire in | `accounts` |
| `Tokens` | worker, ingestion and wiki tokens; both rate limiters | `accounts` |
| `SingleUse` | abstract: a token is spent once | (refined by `Tokens`) |
| `Leads` | KYC, scoring, routing, rescoring; the transaction of a stage change | `customers` |
| `CustomerCare` | the daily health job on several servers; interventions, alerts, escalation | `customers` |
| `StateMachines` | the five persisted state machines with their logs, over one table of edges each | `pipelines` |
| `Intake` | mail fetching in batches, the ingestion and transcript routes; autolearn: staging, the CLI process with its timeout and files, the dismissal window | `pipelines` |
| `Recorder` | `use-audio-recorder`, the choice of the on-device engine | `pipelines` |
| `Corpus` | chunking and storing, the query window, campaign exports, citation checks | `reports` |
| `FinanceReports` | receivables by age in its three copies; tiers, quarters, close and recovery rates, agents; CLTV sub-scores, composite, segments, and the page's recomputation | `reports` |
| `Labels` | access labels, content keys, grants; the identity dictionary; data keys of three backends, derived-key cache, backfill, rotation | `platform` |
| `AdminDesk` | read-modify-write of an entity, tenant settings; the hash chain of events | `platform` |
| `CronJobs` | schedulers of several servers, report delivery, flag sweep | `platform` |
| `Backup` | dumps and restores; e-discovery bundle, evidence package | `platform` |
| `ClientSession` | one tab: boot, sign-in, sign-out, navigation, CSRF, reload | `client` |
| `Views` | loads and posts of fourteen pages, the bell, the scenario controls | `client` |
| `Genesis` | the statements of the genesis job, re-runs, what RLS shows a session | `operations` |
| `Provision` | ask, create, wait and reuse of cloud resources; both login flows | `operations` |
| `Rollout` | the gates of `deploy.ts`, the phases and rollbacks of `deploy.sh` | `operations` |
| `TaskQueueProofs`, `GovernanceProofs`, `ReceivablesProofs`, `AccountsProofs`, `PipelinesProofs`, `CustomersProofs`, `PlatformProofs`, `ClientProofs` | the proofs of section 4 | |

The MC modules put the components of a run side by side. Components that
share no rows, or meet only in rows one writes before the other starts, are
not multiplied: a *selector* (`part`, `crew`, `matter`, `subject`, `job`),
chosen in the initial state, says which of them a behaviour moves, so an
instance is their sum. What does interact is composed in one module:
dunning, payments, cases and write-offs in `Receivables`; holds and scans in
`Retention`; runner, route and sweep in `TaskQueue`; KYC, scoring and routing in
`Leads`. A module with two or three parts keeps them in sections of their own.

**Conventions.** One variable per column or local state; a request, job or
script is a record with a program counter. Times are abstracted to what is compared
with `NOW()`. A *history variable* (`races`, `leadRaces`, `crossed`,
`overlapped`, ...) records that two requests overlapped where the code has no
lock; a property that only holds without the overlap says so through it, and
section 5 says what the overlap does. Ciphers, hashes, signatures and vectors are what
they are made of (a ciphertext is the key and the value).

**TaskQueue.** A lease is NULL, live or expired, a retry NULL, waiting or due;
`LeaseExpires` and `RetryBecomesDue` move them. `pc`, `held`, `heldAttempt`,
`heldToken` are the local state of `tryClaimAndExecute`. A result request goes
through *received, checked, consumed, applied*: the SELECT, the INSERT and the
UPDATE of the route, and the reply. The connection may be lost at any of them,
the server may die (`HandlerFails`), a worker may crash. `PatchStatus` is
`PATCH /api/tasks-queue/:id`, which accepts seven statuses in any state. The run
lets clients close rows (`completed`, `failed`) and park them (`running`,
`submitting`: the sweep, which looks for `claimed`, never finds such a row again);
a PATCH to `pending`, `claimed` or `dead` is in the model but not in the run, because it
defeats the retry budget and the claim columns by what it says.

**Refinement.** `TaskQueue` implements `TaskContract` under the mapping that
sees a row as absent, queued, working or finished, with its attempts and
whether it has a result: queued once, worked on at most `MaxAttempts` times,
given back only with an attempt left, no answer withdrawn, and finished in the
end. The conditional UPDATE of `worker-tokens.ts` implements `SingleUse`; the
SELECT-then-INSERT of ingestion and delegated tokens does not (section 5).

**Receivables.** `status` changes only along `Allowed`, the trigger on
invoices. A payment is a transaction of three statements (insert, total,
update), whose total misses what other open transactions have inserted; `blind` (a history variable) says
that the latest payment to commit missed one; a plan
request, each dunning run and each monitor run are processes between whose
statements anything may happen. The age of an invoice counts the milestones
passed (D+1, D+7, D+14, D+30). `Crash` ends any of the processes.

**Passkeys, Tokens.** A ceremony is a request with the user, credential, challenge
and counter it read; the failure counter and the penalty of `auth-lockout.ts` are
two steps. A limiter's store is, per key, a set of numbers of the requests it let
pass, so that what the cleanup forgets can be compared with what was really let
through (`passed`, a history variable). A tenant's policy may be replaced at any time by one with a
shorter or a longer window; `narrow` and `most` are the shortest window and the largest maximum that were in
force so far, which is what the store can vouch for.

**Labels (keys).** A cell is a text, the key and epoch it was written under, and how often it is
encrypted. The server inserts and updates rows (an update writes sensitive fields back as it read them),
derives keys with an await in between, and may have encryption disabled; the backfill reads a batch,
then updates row by row. Two pairs of tenant and person may have one token (`digest`), as eight hex
digits allow.

**AdminDesk, Backup.** An entity's PATCH writes the row and then its events, one per field for a user and
none for what did not change; a failed event is logged and forgotten. `Backup` lets each write have the
order of its route: event first (transcript ingestion, for one) or row first (`admin.ts`,
`governance.ts`).

**Recorder.** Streams are numbered as they are granted; `open`, `active`, `queued` say
whether a stream's tracks are live, its recorder runs, its stop event waits. A start may fail after the
permission was granted, which leaves the stream open.

**Approvals, LegalHold, Retention.** A ballot is a `castVote` call: check, INSERT,
count, UPDATE. A session is a handler of the legal-hold routes between two
statements. A scanner is a run of `runRetentionScheduler`: its batch, the row it is
about to delete, and (history variable `since`) the holds that came into force
after it looked.

**Genesis.** A catalogue is a set of facts (database, role, table, grant, policy);
`runInitRemote` is the sequence of statements, each with what it needs, adds
and drops. A run dies anywhere and the next starts at the first statement, while
sessions under `withRlsContext` read through the policies there are.

**Views.** A page kind decides whether its load is cancelled by the next, whether
a post reloads or patches the list, and what it forgets on a new selection;
answers arrive in any order.

## 3. Runs

Where a run has many components, a property is a conjunction of named parts, each
with its own comment in the component's module; the table says what they are.

| Run | Instance | Shows |
|---|---|---|
| `queue` | 1 row, 1 runner, 2 API workers, 2 attempts, 1 token, PATCH to completed/failed/running/submitting; or 2 pods, 2 tasks in the loop | `TypeOK`, `RetryBudget`, `OneWinnerPerAttempt`, `ClaimColumnsAgree`, `UsedTokenAdmitsNobody` (nothing before the token is consumed, nobody new after), `AnsweredNeverRerun` (a stored result stays and its task is not handed out again), `EveryTaskSettles` (unless a PATCH parked it), `ImplementsContract`; `StopIsSafe` (no task abandoned), `LoopKeepsUp` (work is picked up without a notification, stop ends without a new iteration) |
| `receivables` | 1 invoice, 1 plan, 2 write-off requests, 1 dunning run and 1 monitor at a time, 1 crash; or two payers whose transactions overlap, beside the daily jobs; or two dunning runs at once | `CasesAddUp` (case agrees with invoice, write-offs are approved), `MoneyDecides` (payments that cover it close it, unless the latest totalled without another; paid means paid), `DunningIsOrderly` (notices once a run and in order, one case), `DebtsMoveOn` (dunning goes on to the D+30 notice, a paid plan completes) |
| `governance` | 3 approvers, 3 votes in flight, quorum 1 or 2, 1 crash; 2 officers, 1 hold, 2 removal requests; two floors and an unlisted class; scans over 2 tenants with failing deletes | `QuorumBehindApproval`, `OperationsHaveQuorum`, `QuorumIsNoticed`, `FourEyes`, `HoldsAreSeen`, `DeletedPastFloor`, `WriteOnce`, `ExpiredIsScannedAway` |
| `accounts` | 2 superusers, 2 keys, 2 ceremonies at once, 1 cut short; 3 JWTs, 2 key rotations; 3 callers on a token of each kind and a terminating pod; a default window of 2 ticks, policies that shorten it to 1 with a lower maximum or widen it to 4, past the cleanup's 3, with a higher one | `CredentialsHold` (failures penalised, threshold locks, a superuser and a set passphrase remain), `EndedIsRefused` (ended sessions and replays refused, live ones accepted across a rotation; no stretch of the shortest window holds more than the largest maximum, nor is any of it forgotten), `SpentStaysSpent` (refinement of `SingleUse`, counters never fall, the last key stays) |
| `customers` | 1 prospect, 2 reps, 2 requests, 1 cut short; 2 stage changes at once; 2 servers and 2 customers across midnight; 2 interventions over 3 days | `LeadsArriveRight` (qualified is verified, none stranded, rep is told, turns are even, scores follow the indicators, drops are told), `CustomersAreServed` (a won deal has one customer, failures cost no other customer's score, resolution ends alerts), `CareGoesOn` (neglect reaches a lead, a day's score is final) |
| `pipelines` | 1 item of each machine, 2 movers, 1 halt; 4 mails in batches of 2, one unparsable; 3 uploads; a CLI run; 2 streams; 2 transcriptions | `IntakeIsWhole` (log is the path, chain unbroken, checkpoint skips nothing, stored is audited, results complete), `RecordingIsSound` (microphone released after a recording, own audio, words kept, one import), `EndsAreReached` (a stopped recording gets its audio, final states stay, escalated drafts wait) |
| `client` | 1 tab, 3 persons, CSRF on and off; 14 page kinds, 2 selections, 3 loads; 3 notices, 2 polls | `ShownIsTrue` (user of the cookie, selection, saved rows once, badge, scenario), `ClientCatchesUp` (the bell catches up under overlapping and failing polls, reads only what was clicked) |
| `operations` | 3 genesis runs under 2 tenants' sessions; 3 deaths and 1 refusal of a provisioning; 2 scripts' logins; 3 releases of 3 images through 3 entries | `OperationsAreSafe` (every statement runs wherever the last run died, tenants stay apart, a success is usable, tokens live, no image ahead of its schema or the API), `OperationsConverge` (genesis and provisioning complete when repeated, a rollback restores, access is closed) |
| `reports` | totals to 13 and counts to 7; texts of up to 3 sentences; 2 readers, 2 checks; invoices on both sides of every bucket; 33 prospects a week; 2 leads | `CorpusIsSound`, `FiguresAddUp` |
| `platform` | 1 type and 2 rows, 2 requests under 3 key backends, or 1 request beside a backfill with encryption on or off; 2 scopes; 2 tenants, 2 people, 2 spellings and 2 tokens, which may collide; 3 audit writers; 2 desks on a user's or another row, 3 setters; 2 servers over 2 days; 2 backups over 2 writes, one of each order; 3 rows of evidence, every period within 2 instants | `SecretsAreKept` (rows stay readable, encrypted once, no plaintext after a backfill but what the server wrote meanwhile, no read after revocation, a token resolves to a pair that has it), `RecordsBearWitness` (chain verifies, trail replays, one row a day, an event-first row in a dump has its event in the other, bundles closed, a package keeps to its period), `FlagsFollowTheirTime` |
| `rejection_overwritten` | *violation* | a vote in flight writes `approved` over `rejected`, contrary to `approvals.ts:10-13` |
| `client_logout` | *violation* | sign-out sends no CSRF token, is refused, and the session lives on |

Every property has a mutant: a one-line slip of the code (`..._Strict`,
`..._Anyone`, ...), kept beside the definition it replaces, that makes it fail.

**Bounds, and why they are enough.** Rows of the queue, invoices, approval
requests and prospects only meet through the processes that serve them, so one
of each with several processes shows the interleavings; the theorems lift the
components that have them to any number. Two attempts distinguish
first, last and one too many; `ClaimBound` is above them so that it never hides
an excess claim. Amounts are two units and payments one or two, which gives
partial, exact and over-payment. Floors of 1 and 2 days with ages up to 2 are
before, at and past each floor. Two overlapping requests show every race of a
read with a write; three are used where a third can profit from the race
(votes, token callers, audit writers, desks). One crash, cut or failure:
each step can be the one that is cut short. The arithmetic of the reports takes
its inputs from both sides of every boundary the code compares with.
Deadlock checking is off where bounded resources are used up and the system
may rest; it is on in `receivables`.

What the properties leave out is meant, and is behaviour of the code (section 5): `MoneyDecides` excepts
an invoice whose latest payment totalled without another; `QuorumIsNoticed` speaks of votes that
were not cut short; `EveryTaskSettles` excepts a row that a client parked; `RetryBudget`,
`ClaimColumnsAgree` and the refinement need that no client patches a row to
`pending`, `claimed` or `dead`; and where a property names a history variable, what happens in that
overlap is a disagreement or a limit listed in section 5 and under its hazard, not something shown.

**Fairness.** *Queue*: the clock runs, the sweep is a cron job (every minute),
workers poll every 5 s, the hard timeout ends each execution and a fetch ends
somehow; nobody has to enqueue, patch or crash. *Loop*: the process is scheduled
and the poll timer fires; nothing is assumed of notifications. *Receivables*: a
request that was begun goes on and croner starts the daily jobs. *Retention*:
days pass, the nightly scan starts and goes on (weak); a DELETE that is tried every
night is not refused for ever (strong, per record). *Interventions, flags*: the
cron jobs run. *Recorder*: the browser delivers the events it has queued. *Bell*:
the timer polls (weak) and not every poll fails (strong). *Genesis*: the Job
controller restarts it (`restartPolicy: OnFailure`). *Provisioning*: operators run
it again and the cloud finishes what it accepted. Nothing is assumed of other
people: officers, approvers, payers, agents, users.

## 4. Proofs

TLAPS proves these for every value of the constants, under the named
assumptions of the modules (types of the constants, finite sets where something is
counted, and that NULL is none of the ids, records or states). Four theorems
of the queue also limit the statuses clients PATCH; they say so below.

*TaskQueueProofs.* `FencingCorrect` (`OneWinnerPerAttempt`) rests on `FenceInv`.
That two workers hold different attempts is not inductive: a claim would break it
if somebody already held the number it hands out. `AttemptsBehindRow` says that
nobody is ahead of the row, and `RequestOfHolder` that a submission in flight
is its worker's own. `BudgetCorrect`, `ColumnsCorrect` and `AnsweredCorrect` each
assume of `Patches`, the statuses clients write, only what they need (no `pending` or `dead`; none of these and no
`claimed`; no `pending` or `claimed`); `TypeCorrect` and `FencingCorrect` assume nothing. `AnsweredCorrect`
(`AnsweredNeverRerun`) rests on `AnsweredInv`: a row with a result is in none of the states
the claim and the sweep look for. `ConsumeCorrect` (`UsedTokenAdmitsNobody`): a request
past its INSERT has its token among the revoked ones, and once it is there the results written plus the
requests already past the SELECT only shrink. How many those are is not bounded: the code does not bound it. `ContractCorrect` proves
`ImplementsContract`, the refinement of `TaskContract`: initial states map to
initial states, every step to a step of the contract or a stutter, given that clients
PATCH only to `completed`, `failed`, `running` or `submitting` (a PATCH to `pending` would
requeue a finished row). `StopCorrect`: a loop that has exited holds no task,
because it exits only after awaiting the one it started.

*GovernanceProofs, approvals.* `VotesTypeCorrect` is the type invariant; `QuorumCorrect` and `OperationsCorrect` rest on `QuorumInv`:
a vote that has counted a quorum and not yet written, and a caller past the
gate, know of a quorum that still stands, because votes are only added.
The proof needs no lock, which is the point: the locks of `castVote` do not hold.
`NoticeCorrect` (`QuorumIsNoticed`) says more: among votes that are not cut short,
the one whose INSERT completes the quorum still has its count to come.

*GovernanceProofs, holds and retention.* `Inv` is `TypeOK /\ HoldInv /\ ScanInv /\ HoldsAreSeen`.
For `FourEyesCorrect`, `HoldInv` says what a handler between two statements
knows: about to approve, it is not the requester; about to lift, the co-approval
is written; and no statement clears `co_approved_by`, not even a rejection that
overwrites the status. For `FloorCorrect`, `ScanInv` says that a row of a batch,
while stored, keeps the listed class and the cleared `legal_hold` that made it
eligible. `HoldsAreSeenCorrect` and `WriteOnceCorrect` follow from the two, and the
list of all that can happen to a record (`RecordSteps`) or to a scan (`ScanSteps`).

*GovernanceProofs, what operators run.* Each specification by itself. `ProvisionCorrect` (`CompleteIsUsable`,
`DoctorSparesProject`): the script takes what it finds as it is, so what makes a success mean anything is the
cloud, in which a resource is there only when what it needs is ready (`CloudInv`), and the waits for the database
and the VM, which the script does not leave otherwise (`ScriptInv`). `TokensLive` (`HandedTokenLives`,
`LoginIsBounded`): an estimate of a token's end is at most the margin late, since no request takes longer than
the margin (`LatencyAssumption`; of the constants otherwise only that they are times, and that Google
asks for a polling interval above zero, which `login.ts` takes as it comes). `RolloutCorrect`
(`SchemaCoversImages`, `NothingAheadOfApi`): an undo returns to whatever ran before, so the invariant
(`RanInv`) is about every image a deployment ever ran, not the newest. `RolloutStepsCorrect`
(`RollbackRestores`, `AccessIsClosed`) needs that the API keeps the image it ran right behind the release's.

*ReceivablesProofs.* Between two statements each process of the invoice tables
knows something that the others leave true, and the invariants are those facts.
`CasesCorrect` needs what a plan request, a monitor and a write-off decision have read of a
case; `PaidCorrect` that `paid` is only written after a sum that covers the
invoice or a plan without an open installment, and that payments are never taken
back; `MoneyCorrect` adds the converse for any number of payments in flight: a covered invoice is closed unless
the latest payment to commit totalled without another (`blind`). It rests on `ReadsHold`: an invoice a payment
read as closed is still closed, so a payment that closes nothing has nothing to close. `DunningCorrect`
holds for any number of overlapping runs: a run's list is a snapshot, and what it
still has to send it has not sent.

*AccountsProofs.* `CredentialsCorrect` rests on `PasskeyInv`: what a login has
counted is not yet penalised only while the request is in flight, a user in
nobody's way has one request at most, a deletion that found another superuser
keeps finding one unless two overlapped. `RefusalCorrect` rests on an invariant
each for sessions (a revoked token's row outlives its `exp`), tokens (a spent row has
its revocation, a caller past the conditional UPDATE is the only one) and limiters
(what is stored is what passed, within the window). For the limiters nothing is assumed of the policies an operator sets but that windows and
maxima are positive: `InForce` says that the policy in force lies within the shortest window and the largest
maximum so far, and a request of the shortest window is dropped neither by a check nor by the cleanup. `SpentCorrect` contains the
refinement of `SingleUse` by worker tokens.

*PipelinesProofs.* `IntakeCorrect` and `RecordingCorrect` rest on one invariant per component.
*State machines*: an item whose transitions never overlapped has one
mover, which knows the row's state (`OneMover`), and its log ends at the row or one
entry short (`LogFollowsState`). *Mail*: a batch is a prefix of its mailbox (`BatchIsPrefix`); that
a nonempty batch has a greatest UID, and no batch is too large, comes from the well-foundedness of
the naturals. *CLI*: which files exist in which stage. *Recorder*: a live stream is the current
one or an orphan, and its recorder runs or its stop event waits (`StreamsAreHeld`);
`SnapshotIsWhole` says when a stale snapshot can exist at all: a second grant may leave one behind, but
it is never restored. The proof showed that `VisibleWordsStay` needs no condition on the phase,
and it is stated, and checked, without. `EndsCorrect` is the safety part of `EndsAreReached`.

*CustomersProofs.* `LeadsCorrect` rests on `LeadInv`: while a prospect has one request (`LeadAt`),
what it read is still in the tables, and every promise not yet kept (a score to
write, a rep to choose, a notice to send) names the request that will keep it; after an overlap or a
crash the prospect is among the exceptions of the property. That turns are even
(`TurnInv`) comes from the position being the count of routings modulo the number of reps; it uses that
reps are distinct and requests finitely many. `ServiceCorrect`: an open stage transaction, alone
with its prospect, sees the current stage and no customer it has not made (`DealInv`); a
customer on a health run's list waits, has failed, is being stored or is stored (`HealthInv`); a resolution
lies between the case's creation and today (`CareInv`). `DailyCorrect` is the safety part of `CareGoesOn`.

*PlatformProofs.* `PlatformInvariant` is one inductive invariant per service; `SecretsCorrect` and
`WitnessCorrect` follow from it, `FlagStepsCorrect` is the safety part of `FlagsFollowTheirTime`.
*Keys* (`KeyInv`): a stored cell is plain or encrypted once under a key that opens it as the property says
(`KeysInv`), and a row still to be visited by the backfill may be plain, one behind it is not unless the server wrote
it in the clear (`FillInv`). *Labels* (`LabelInv`): a wrapped key opens with the version
the row was written under, a revoked reader's cached key is gone. *Identity* (`IdentityInv`): nothing is assumed of
the tokens, two pairs of tenant and person may share one; what is invariant is that a row of the dictionary is under
the token of its own tenant and spelling, and that a token in a returned text has a row.
*Audit* (`AuditInv`): the events are finite and totally
ordered by their stamps, so each nonempty set has a latest one (well-foundedness of the naturals); while no two writers
overlapped, each event hashes the one before it. *Entities and settings* (`EntityInv`,
`SettingInv`): what a request has still to record is what its write changed, field by field, and the events told so far
lack exactly that. *Cron* (`Switches`, `CronInv`): a sweep holds only flags that were due when
it read them, a day's row exists once a server has written it. *Dumps* (`BackupInv`): which files a
run has left in which stage, and that a row written event first has its event in every audit dump taken after
the application's (`StoreInv`, `RunsInv`); of rows written first nothing is claimed. *Bundles and
packages* (`BundleInv`, `PackageInv`): what is already listed is among what was there at the start; that a package
holds the newest events of its period is a counting argument about the oldest it holds, in the order of time and id.
The assumptions are those of the modules: finite sets where something is counted, ids that are
no NULLs, positive limits.

*ClientProofs.* `ClientInvariant` has a part for each component of `MCClient`; `ShownCorrect` (`ShownIsTrue`)
follows from it, `ClientStepsCorrect` is the safety part of `ClientCatchesUp`. *Session* (`ClientInv`): while a
page loads there is no user, no sign-in and no sign-out under way; a sign-in runs only when there is no user; a sign-out
has stopped the clock. *Pages* (`ViewInv`): loads have numbers of their own, and unless answers were
shuffled the last one asked is still out or none is (`Newest`); unless the selection changed under a post, the
posts and the last load are about the selection (`Aimed`). `SavedIsShownOnce` needs to follow a row from the
form to the page: a stored row is *pending* until its page is told; the figures of the last load, and
those shown when the page is quiet, list what is stored once, but for what is pending (`Fits`); on
the pages that apply a result themselves nothing pending is listed (`Untold`), which is where a load that
overlaps a post (`raced`) would break it. *Bell* (`BellInv`): the count never exceeds the list, a click is of at most
one notice. *Scenario* (`ScenarioInv`): when no effect is due, what is shown is the segments under the controls.
The assumptions are that null is no record, that a row is not the name of a form, that notices
are finitely many and that there is a role for each person.

**Only model-checked.** Every liveness property (`EveryTaskSettles`, `LoopKeepsUp`, `DebtsMoveOn`,
`ExpiredIsScannedAway`, `OperationsConverge`, and the first parts of `CareGoesOn`, `EndsAreReached`,
`FlagsFollowTheirTime` and `ClientCatchesUp`: fairness and ENABLED are beyond the prover). Of `OperationsAreSafe`
the part of `Genesis`: its list of statements is flattened from the source's loops by a fold, so which
statement comes when is induction over data; it is of the length it has in the code, and TLC covers it completely. The
other parts of the property are proved above, each for its own specification.
`CorpusIsSound` and `FiguresAddUp`, and the installments: what a recursion or a fold over the input computes
is a matter of induction over data, also beyond the prover.

## 5. Where code and text disagree

The two violation runs above are findings. The models show, or contain, these
further behaviours, recorded here without a run:

- *Queue.* A late runner's catch block writes `failed` over `completed`
  (`task-queue.ts:192`, against the state machine at 52-58). A task the runner
  marks `failed` is never retried: `recoverStaleClaims` looks only at `claimed`
  (against the comments at `runner.ts:286-289` and 332). A row that a client patches to
  `running` or `submitting` (`api/task-queue.ts:206-214` accepts both, and the state machine of
  TQ-D-002 lists them) is found by no sweep if its worker dies. A PATCH to `pending` hands a finished
  task out again; one to `claimed` or `dead` leaves the other columns as they were. The runner claims without a delegated
  token, so its submission always throws (`runner.ts:224`, `319`). Two requests that
  both pass the token's SELECT both write a result (`delegated-token.ts:98-110`).
- *Receivables.* Two concurrent partial payments leave a covered invoice open
  (`invoices.ts:352` against 294). A `sent` invoice gets its D+30 notice and never a
  case: the trigger refuses its move to `in_collection` and the job logs that and goes on
  (`dunning-engine.ts:172-177` against `docs/prd.md:224`), so `DebtsMoveOn` promises the notice only. Overlapping dunning runs
  send a notice twice. Two plan requests both pass the check and insert
  (`payment-plans.ts:422`). A plan for less than the invoice closes it as paid.
  Payment in full leaves the case open. A paid plan of a settled invoice makes
  every monitor run fail there (`payment-plans.ts:549`).
  `decideWriteOffApproval` locks invoice before case, the others case before
  invoice (`write-off-approvals.ts:628`): PostgreSQL aborts one of them.
- *Approvals, holds, retention.* A surplus vote writes `approved` over `executed`
  (`approvals.ts:263`). A stop between the deciding INSERT and its UPDATE
  leaves a request pending that has its quorum. `UNIQUE (hold_id, status,
  requested_by)` (`schema.sql:1154`) keeps an officer's second removal request from
  being rejected. A stop between the UPDATE and the INSERT of
  `requestHoldRemoval` leaves a hold nobody can remove. Two removal requests, or
  an approval and a rejection, of one hold overwrite each other's status. A hold
  placed between the check and the DELETE does not save the record (`HoldsAreSeen`
  shows that this is the only window). No deletion path reads the entity-type overrides.
- *Accounts.* Overlapping deletions leave no superuser (`users.ts:84`). Overlapping
  failures may store the shorter penalty last; overlapping logins and recoveries may
  lower a counter or take the last key. A revoked token is accepted in
  the second it expires in (`revocation.ts:36`). Two refreshes of one token give
  two sessions. An ingestion token is accepted twice by overlapping requests
  (`ingestion-token.ts:93`). The limiters' cleanup works with the default window
  (`rate-limiter.ts:245-246`), so a longer one is forgotten too early; and where a window is widened after it
  was shorter, it starts from what a check under the shorter one left in the store. What survives
  any policy change is the shortest window so far.
- *Leads and customers.* Overlapping KYC and scoring may qualify a prospect that was
  just rejected; overlapping stage changes create two deals and two customers
  (`leads.ts:604`). Disqualification clears the rep. There is one RESCORE task
  per prospect and schedule, so a change that finds it in the queue is lost. The
  health worker stores a score no page reads (`health-score-worker.ts:89`). A
  reopened intervention keeps its old `resolved_at`.
- *Scores and reports.* The scorer stores composites of 0–100 with tiers at 80, 60
  and 40 (`cltv-scorer.ts:523`), while `cfo-summary.ts:85`, `cfo-tier-trend.ts:117`,
  `leads-queue.ts:244` and `lead-routing.ts:129` read them as 0–1 (A from 0.7): every
  scored lead from 1 on is an A there. The share of tier C may be −0.01. The comment at
  `cfo-summary.ts:157-158` leaves out `in_collection`, which the query counts (`ReportsAgree` is about the
  queries). The write-off rate is of the trailing 12 months, the agents' recovery rates of all time
  (`collections-performance.ts:147-151`, 80-95), which is why `RecoveriesAgree` compares them by inequalities. Cases closed by a plan never
  count as recovered. Unscored leads dilute a scenario, the page assumes
  weights 30/30/40 and clamps each lead against the segment's average.
- *Corpus.* "In a single transaction" (`corpus-chunks.ts:103-104`), yet each chunk is an INSERT of its
  own: a failed upload leaves its beginning behind and the retry adds to it. The query
  window is checked before an await and charged after it (`OvershootIsBounded` is the cost). A
  draft without `cites` relations passes with any marker. A check that lifts P1 does not
  restore the earlier priority. On a draft without a priority the passing check writes `undefined`, which JSON drops, so a
  P1 that another check has set meanwhile stays on an unblocked draft (`claim-citation-coverage.ts:323-330`). `queryByEmbedding` and `checkAndMarkDraft` are called only by tests.
- *Pipelines.* Transitions read, check and write in separate statements, so two may
  leave a final state and fork the log (`transcription-state-machine.ts:416`); these
  machines are library code that only tests call so far. The mail job's `since_uid` is always 0. Its transient failures are not retried and its permanent ones
  not marked `dead` (`email-ingest-job.ts:30-35`): the runner's catch block writes `failed`, and a permanent failure that is
  returned as a result writes `completed`.
  A CLI that writes during its grace period leaves its output file behind. A stop event
  after a reset or the next start mixes recordings; a stream granted twice stays open, and
  so does the stream of a start that fails after the permission was granted (`use-audio-recorder.ts:330-427`).
- *Platform.* Events committed out of the order of their timestamps break the verification
  (`audit-service.ts:26`). An update by PATCH restores what an erasure removed in between, and audit
  events keep the erased values in `before`; erasure ignores legal holds. Enabling the
  legacy path races with becoming regulated. `configureKmsBackend` is called only by the
  rotation script, whose result is stored nowhere (`kms.ts:8-15`); the backfill
  overwrites an edit stored after it read the row's batch (`kms-backfill.ts:208-236`). A server with encryption
  disabled hands out the ciphertext of rows that are encrypted. `assertEncryptedBeforeWrite` is never called: writers call
  `encryptProperties`, which knows a transcript's `body` but not the `text` that `transcript-ingestion.ts:147`
  stores, so transcripts stay in the clear and no backfill finds them; updates write sensitive fields back as they read them.
  A second value for a token is a silent no-op (`ON CONFLICT DO NOTHING`), while `identity-dictionary.ts:81-83`, 102 and
  `pii-tokeniser.ts:109-111` say it throws: only the in-memory store does (151-153). Tokens of two tenants are "always
  distinct" (`pii-tokeniser.ts:256-258`), yet a token keeps eight hex digits of the HMAC (271), so two persons may share one and
  it resolves to the first. `lookup` ignores the tenant it is given (`identity-dictionary.ts:118-127`): whoever may resolve
  tokens resolves those of every tenant, audited. `audit-service.ts:10-11` and 29-30 say a failed event must
  stop the write; `admin.ts:206-236`, 258-268, 536-567 and `governance.ts:423-448` write the row first and only log the failure. Re-creating a label's key makes its records unreadable. Two backups
  in one second share a name. A flag rescheduled after the sweep read it goes off. A report
  that could not be mailed is not tried again, and its "pdf" is CSV.
- *Client.* The session timeout never fires: the sign-in answers carry no role. State is
  kept for the next user of the tab. Late answers show another lead's data
  (`lead-detail.tsx:780`); contact logs and payments may be shown twice or not at all; passkeys are
  deleted without the CSRF header. The bell counts too few until the next poll.
- *Operations.* `API_URL` ends in `/health` and `deploy.sh:49` appends it again, so a release
  through `deploy.ts` is always rolled back. A `deploy.sh` killed by a signal counts as a
  success (`common.ts:258`). The migration wait is 30 s, the log says 60, and the running job
  is deleted. Redeploying the current image and failing goes back to an older one. A broken
  rollout is refused its successor. During a genesis re-run the journal can be rewritten until the
  REVOKE, and a restrictive policy is missing between DROP and CREATE, so that a BDM session
  may read what it blocks (tenants stay apart even then). Relations of entities without a tenant
  are shown to nobody. A private services connection counts as made when its creation, or the wait for it, fails with a
  message about an existing one (`provision.ts:525-536`). The credential file is not written atomically. A FAILED
  database cluster is waited for, never replaced.

## 6. Plan

Modelling is complete to the extent of section 7. Proved are all invariants of the runs but three:
`CorpusIsSound`, `FiguresAddUp` and the genesis part of `OperationsAreSafe` stay with TLC for the reasons of
section 4. What would carry the proofs further is a prover with induction, for the folds.

## 7. Not modelled

The development database container, the server shell (routing, configuration,
logging), the agent jobs' prompts, seeds, demo and blueprint scripts, cluster
files, WebSocket push (best effort; its listener's twin is in `WorkerLoop`) and the
installable app shell: no protocol state. Of the reports the monthly trends, pipeline
value, average days and plan success rate are single aggregates. Ciphers, signatures,
WebAuthn, embeddings, speech engines and the agent CLIs are libraries or processes of
which the models keep success and failure. API keys and stored vendor credentials are single
statements. What a page draws, and who may call a route where the check is
one comparison of a role, decide who may take a step, not what it does.
`PROJECT.json` gives the reason for each part.
