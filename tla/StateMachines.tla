----------------------------- MODULE StateMachines -----------------------------
(* The persisted state machines of recordings (edge and worker path),       *)
(* annotations, incoming email and autolearn jobs.  A transition reads the  *)
(* state, checks the table of legal transitions, updates the row, appends a *)
(* log row (not for jobs) and, for annotations, an audit event chained to   *)
(* the annotation's last one: separate statements, by processes that may    *)
(* overlap or stop between two of them.                                     *)
EXTENDS Naturals, Sequences

CONSTANTS
    Items,          \* recordings, annotations, emails and jobs
    Movers,         \* processes that advance them
    MaxMoves,       \* bound on the transitions started
    MaxHalts,       \* bound on the processes that stop halfway
    NoItem          \* NULL, and a mover that is idle

VARIABLES
    kind,           \* Items -> machine
    state,          \* Items -> state column, NoItem without a row
    log,            \* Items -> the transition rows in order: <<from, to>>
    chain,          \* Items -> for each audit event the event it is chained to
    mover,          \* Movers -> a transition in progress
    moves, halts,
    overlapped,     \* history: items with two transitions in progress at once
    halved          \* history: items on which a transition stopped halfway

machineVars == <<kind, state, log, chain, mover, moves, halts, overlapped, halved>>

Kinds == {"edge", "worker", "annotation", "email", "autolearn"}

(* EDGE_PATH_TRANSITIONS and WORKER_PATH_TRANSITIONS share their last part. *)
AfterTranscript ==
    {<<"UPLOAD_FAILED", "UPLOADING">>, <<"TRANSCRIBED", "QUEUED">>, <<"QUEUED", "INDEXED">>}

EdgePath == AfterTranscript \cup
    {<<"IDLE", "RECORDING">>, <<"RECORDING", "TRANSCRIBING">>, <<"TRANSCRIBING", "UPLOADING">>,
     <<"TRANSCRIBING", "TRANSCRIPTION_FAILED">>, <<"UPLOADING", "TRANSCRIBED">>,
     <<"UPLOADING", "UPLOAD_FAILED">>}

WorkerPath == AfterTranscript \cup
    {<<"IDLE", "RECORDING">>, <<"RECORDING", "UPLOADING">>, <<"UPLOADING", "TRANSCRIBING">>,
     <<"UPLOADING", "UPLOAD_FAILED">>, <<"TRANSCRIBING", "TRANSCRIBED">>,
     <<"TRANSCRIBING", "TRANSCRIPTION_FAILED">>}

AnnotationPath ==
    {<<"ANNOTATION_OPEN", "AGENT_RESPONDING">>} \cup
    ({"AGENT_RESPONDING"} \X {"DISCUSSION", "CORRECTION_APPLIED", "AUTO_RESOLVED"}) \cup
    ({"DISCUSSION"} \X {"AGENT_RESPONDING", "CORRECTION_APPLIED", "DISMISSED"}) \cup
    {<<"CORRECTION_APPLIED", "REOPENED">>} \cup ({"REOPENED"} \X {"AGENT_RESPONDING", "DISCUSSION"})

EmailPath ==
    {<<"IMAP_RECEIVED", "ANONYMISING">>, <<"QUEUED", "INDEXED">>} \cup
    ({"ANONYMISING"} \X {"STORING", "FAILED"}) \cup ({"STORING"} \X {"QUEUED", "FAILED"}) \cup
    ({"FAILED"} \X {"ANONYMISING", "STORING"})

JobSteps == <<"WORKER_STARTED", "FETCHING_GROUND_TRUTH", "FETCHING_WIKI", "WRITING_TEMP_FILES",
              "CLAUDE_CLI_RUNNING", "WRITING_NEW_VERSION", "EMBEDDING", "AWAITING_REVIEW",
              "PUBLISHED", "COMPLETE">>

AutolearnPath ==
    {<<JobSteps[n], JobSteps[n + 1]>> : n \in 1 .. Len(JobSteps) - 1} \cup
    {<<JobSteps[n], "FAILED">> : n \in 1 .. Len(JobSteps) - 1} \cup {<<"AWAITING_REVIEW", "REJECTED">>}

Legal(k) ==
    CASE k = "edge" -> EdgePath [] k = "worker" -> WorkerPath
      [] k = "annotation" -> AnnotationPath [] k = "email" -> EmailPath [] OTHER -> AutolearnPath

First(k) ==
    CASE k \in {"edge", "worker"} -> "IDLE" [] k = "annotation" -> "ANNOTATION_OPEN"
      [] k = "email" -> "IMAP_RECEIVED" [] OTHER -> "WORKER_STARTED"

StatesOf(k) == {First(k)} \cup {e[2] : e \in Legal(k)}
Final(k) == {s \in StatesOf(k) : ~\E e \in Legal(k) : e[1] = s}

States == UNION {StatesOf(k) : k \in Kinds}

ASSUME MachineAssumption ==
    MaxMoves \in Nat /\ MaxHalts \in Nat /\ NoItem \notin Items /\ NoItem \notin States

(* A transition in progress: what was read, what is to be written, and the  *)
(* audit event it chains to.                                                *)
Moving(at, i, from, to) == [at |-> at, item |-> i, from |-> from, to |-> to, prev |-> 0]
Idle == Moving("idle", NoItem, NoItem, NoItem)
Transition ==
    [at : {"idle", "update", "log", "read_chain", "chain"}, item : Items \cup {NoItem},
     from : States \cup {NoItem}, to : States \cup {NoItem}, prev : Nat]

MachineTypeOK ==
    /\ kind \in [Items -> Kinds]
    /\ state \in [Items -> States \cup {NoItem}] /\ mover \in [Movers -> Transition]
    /\ log \in [Items -> Seq((States \cup {NoItem}) \X States)] /\ chain \in [Items -> Seq(Nat)]
    /\ \A i \in Items :
          /\ state[i] \in StatesOf(kind[i]) \cup {NoItem}
          /\ \A n \in 1 .. Len(log[i]) : log[i][n] \in Legal(kind[i]) \cup {<<NoItem, First(kind[i])>>}
          /\ kind[i] = "autolearn" => log[i] = <<>>
          /\ kind[i] # "annotation" => chain[i] = <<>>
    /\ moves \in 0 .. MaxMoves /\ halts \in 0 .. MaxHalts
    /\ overlapped \subseteq Items /\ halved \subseteq Items

MachineInit ==
    /\ kind \in [Items -> Kinds]
    /\ state = [i \in Items |-> NoItem]
    /\ log = [i \in Items |-> <<>>] /\ chain = [i \in Items |-> <<>>]
    /\ mover = [m \in Movers |-> Idle]
    /\ moves = 0 /\ halts = 0 /\ overlapped = {} /\ halved = {}

(* A mover starts on i: overlapping if another one is at work on it.        *)
Start(m, i, r) ==
    /\ mover[m] = Idle /\ moves < MaxMoves /\ moves' = moves + 1
    /\ mover' = [mover EXCEPT ![m] = r]
    /\ overlapped' = IF \E o \in Movers : mover[o].item = i THEN overlapped \cup {i} ELSE overlapped

(* The primary key refuses a second row.                                    *)
InitState(m, i) ==
    /\ state[i] = NoItem
    /\ state' = [state EXCEPT ![i] = First(kind[i])]
    /\ Start(m, i, IF kind[i] = "autolearn" THEN Idle
                   ELSE Moving("log", i, NoItem, First(kind[i])))
    /\ UNCHANGED <<kind, log, chain, halts, halved>>

InitRecordingState(m, i) == kind[i] \in {"edge", "worker"} /\ InitState(m, i)
InitAnnotationState(m, i) == kind[i] = "annotation" /\ InitState(m, i)
InitEmailState(m, i) == kind[i] = "email" /\ InitState(m, i)
CreateJob(m, i) == kind[i] = "autolearn" /\ InitState(m, i)

(* No row, or an illegal target, throws.                                    *)
ReadState(m, i, to) ==
    /\ state[i] # NoItem /\ <<state[i], to>> \in Legal(kind[i])
    /\ Start(m, i, Moving("update", i, state[i], to))
    /\ UNCHANGED <<kind, state, log, chain, halts, halved>>

TransitionRecording(m, i, to) == kind[i] \in {"edge", "worker"} /\ ReadState(m, i, to)
TransitionAnnotation(m, i, to) == kind[i] = "annotation" /\ ReadState(m, i, to)
TransitionEmail(m, i, to) == kind[i] = "email" /\ ReadState(m, i, to)
AdvanceAutolearnState(m, i, to) == kind[i] = "autolearn" /\ ReadState(m, i, to)

(* UPDATE ... WHERE id: whatever the state is by now.                       *)
UpdateState(m) ==
    LET r == mover[m] IN
    /\ r.at = "update"
    /\ state' = [state EXCEPT ![r.item] = r.to]
    /\ mover' = [mover EXCEPT ![m] = IF kind[r.item] = "autolearn" THEN Idle ELSE [@ EXCEPT !.at = "log"]]
    /\ UNCHANGED <<kind, log, chain, moves, halts, overlapped, halved>>

AppendTransition(m) ==
    LET r == mover[m] IN
    /\ r.at = "log"
    /\ log' = [log EXCEPT ![r.item] = Append(@, <<r.from, r.to>>)]
    /\ mover' = [mover EXCEPT ![m] = IF kind[r.item] = "annotation" THEN [@ EXCEPT !.at = "read_chain"]
                                     ELSE Idle]
    /\ UNCHANGED <<kind, state, chain, moves, halts, overlapped, halved>>

(* emitAuditEvent of annotations: the annotation's last event, or genesis.  *)
ReadChain(m) ==
    LET r == mover[m] IN
    /\ r.at = "read_chain"
    /\ mover' = [mover EXCEPT ![m].at = "chain", ![m].prev = Len(chain[r.item])]
    /\ UNCHANGED <<kind, state, log, chain, moves, halts, overlapped, halved>>

AppendChain(m) ==
    LET r == mover[m] IN
    /\ r.at = "chain"
    /\ chain' = [chain EXCEPT ![r.item] = Append(@, r.prev)]
    /\ mover' = [mover EXCEPT ![m] = Idle]
    /\ UNCHANGED <<kind, state, log, moves, halts, overlapped, halved>>

(* The process stops, or a statement fails.                                 *)
Halt(m) ==
    /\ mover[m] # Idle /\ halts < MaxHalts /\ halts' = halts + 1
    /\ halved' = halved \cup {mover[m].item}
    /\ mover' = [mover EXCEPT ![m] = Idle]
    /\ UNCHANGED <<kind, state, log, chain, moves, overlapped>>

MachineNext ==
    \E m \in Movers :
        \/ UpdateState(m) \/ AppendTransition(m) \/ ReadChain(m) \/ AppendChain(m) \/ Halt(m)
        \/ \E i \in Items :
              \/ InitRecordingState(m, i) \/ InitAnnotationState(m, i)
              \/ InitEmailState(m, i) \/ CreateJob(m, i)
              \/ \E to \in StatesOf(kind[i]) :
                    \/ TransitionRecording(m, i, to) \/ TransitionAnnotation(m, i, to)
                    \/ TransitionEmail(m, i, to) \/ AdvanceAutolearnState(m, i, to)

(* As long as its transitions neither overlap nor stop halfway, an item's   *)
(* log is one path from its first state to the state in its row.            *)
LogIsThePath ==
    \A i \in Items \ (overlapped \cup halved) :
        log[i] # <<>> =>
            /\ log[i][1] = <<NoItem, First(kind[i])>>
            /\ \A n \in 2 .. Len(log[i]) : log[i][n][1] = log[i][n - 1][2]
            /\ (\A m \in Movers : mover[m].item # i \/ mover[m].at # "log") => state[i] = log[i][Len(log[i])][2]

(* A stop leaves the chain of an annotation's audit events short, never     *)
(* broken; only overlapping transitions fork it.                            *)
ChainIsUnbroken ==
    \A i \in Items \ overlapped : \A n \in 1 .. Len(chain[i]) : chain[i][n] = n - 1

(* A state without a legal successor is left only when a transition that    *)
(* read an earlier state overlapped the one that reached it.                *)
FinalStatesStay ==
    [][\A i \in Items \ overlapped : state[i] \in Final(kind[i]) => state'[i] = state[i]]_machineVars

=============================================================================
