------------------------------- MODULE Recorder --------------------------------
(* Recording a meeting in the browser, and transcribing it on the device.    *)
EXTENDS Naturals, Sequences, SequencesExt

--------------------------------------------------------------------------------
(* The audio recorder of the web app: a hook that drives the browser's      *)
(* microphone stream, MediaRecorder and SpeechRecognition, and survives the *)
(* app going to the background.  The browser answers and fires its events   *)
(* later, in between the user's clicks.                                     *)

CONSTANTS
    MaxStreams,     \* bound on the streams granted
    MaxPhrases,     \* bound on the phrases recognised in one recording
    NoBlob          \* null

ASSUME RecorderAssumption ==
    /\ MaxStreams \in Nat /\ MaxPhrases \in Nat
    /\ (\A S \in SUBSET (1 .. MaxStreams) : NoBlob # S) /\ NoBlob \notin Seq(1 .. MaxPhrases)

VARIABLES
    phase,          \* "idle", "recording", "resumed", "stopped", "killed"
    mounted, hidden,
    asking,         \* getUserMedia calls without an answer
    granted,        \* streams granted so far
    open,           \* streams whose tracks are live
    cur, rec,       \* streamRef and mediaRecorderRef: 0 is null
    active,         \* recorders in state 'recording'
    queued,         \* recorders whose stop event is waiting
    chunks,         \* recorders whose audio is in chunksRef
    blob,           \* audioBlob
    handed,         \* blobs passed to onAudioReady
    spoken,         \* phrases recognised in this recording
    heard,          \* those recognised while the app was visible
    final,          \* finalTranscriptRef: phrases in order
    snapshot,       \* sessionStorage
    timer,          \* the auto-stop timer is set
    orphans,        \* history: streams granted beside another, or after unmount
    broken,         \* history: streams granted to a start() that then failed
    crossed         \* history: start pressed twice, or a late stop event

recVars == <<phase, mounted, hidden, asking, granted, open, cur, rec, active, queued, chunks, blob,
             handed, spoken, heard, final, snapshot, timer, orphans, broken, crossed>>

Recording == {"recording", "resumed"}
Streams == 1 .. MaxStreams

RecorderTypeOK ==
    /\ phase \in Recording \cup {"idle", "stopped", "killed"}
    /\ asking \in 0 .. 2 /\ granted \in 0 .. MaxStreams /\ cur \in 0 .. granted /\ rec \in 0 .. granted
    /\ open \subseteq 1 .. granted /\ active \subseteq open /\ queued \subseteq 1 .. granted
    /\ broken \subseteq 1 .. granted
    /\ spoken \in 0 .. MaxPhrases /\ heard \subseteq 1 .. MaxPhrases
    /\ final \in Seq(1 .. MaxPhrases) /\ snapshot \in Seq(1 .. MaxPhrases) \cup {NoBlob}
    /\ chunks \subseteq 1 .. granted /\ blob \in (SUBSET (1 .. granted)) \cup {NoBlob}

RecorderInit ==
    /\ phase = "idle" /\ mounted = TRUE /\ hidden = FALSE /\ asking = 0 /\ granted = 0
    /\ open = {} /\ cur = 0 /\ rec = 0 /\ active = {} /\ queued = {} /\ chunks = {}
    /\ blob = NoBlob /\ handed = {} /\ spoken = 0 /\ heard = {} /\ final = <<>> /\ snapshot = NoBlob
    /\ timer = FALSE /\ orphans = {} /\ broken = {} /\ crossed = FALSE

(* Stopping the tracks of a stream makes its recorder inactive and queues   *)
(* its stop event.                                                          *)
StopTracks(S) == open' = open \ S /\ active' = active \ S /\ queued' = queued \cup (active \cap S)

(* start(): the refs are cleared, then the permission is awaited.           *)
PressStart_KeepsChunks ==
    /\ mounted /\ ~hidden /\ phase \in {"idle", "stopped"} /\ asking < 2 /\ granted + asking < MaxStreams
    /\ asking' = asking + 1 /\ crossed' = (crossed \/ asking > 0) /\ final' = <<>> /\ spoken' = 0 /\ heard' = {} /\ blob' = NoBlob
    /\ UNCHANGED <<phase, mounted, hidden, granted, open, cur, rec, active, queued, chunks, handed,
                   snapshot, timer, orphans, broken>>

PressStart ==
    /\ mounted /\ ~hidden /\ phase = "idle" /\ asking < 2 /\ granted + asking < MaxStreams
    /\ asking' = asking + 1 /\ crossed' = (crossed \/ asking > 0) /\ final' = <<>> /\ spoken' = 0 /\ heard' = {} /\ chunks' = {} /\ blob' = NoBlob
    /\ UNCHANGED <<phase, mounted, hidden, granted, open, cur, rec, active, queued, handed,
                   snapshot, timer, orphans, broken>>

(* The stream is granted: recorder, recognition, phase and timers.         *)
Granted ==
    LET id == granted + 1 IN
    /\ asking > 0 /\ asking' = asking - 1 /\ granted' = id
    /\ open' = open \cup {id} /\ active' = active \cup {id} /\ cur' = id /\ rec' = id
    /\ phase' = "recording" /\ timer' = TRUE
    /\ orphans' = IF mounted THEN orphans \cup (open \cap {cur}) ELSE orphans \cup {id}
    /\ UNCHANGED <<mounted, hidden, queued, chunks, blob, handed, spoken, heard, final, snapshot, broken, crossed>>

(* The stream is granted, and then the recorder cannot be made ("make") or  *)
(* started ("start"), or speech recognition fails ("speech"): the catch     *)
(* sets a message and leaves the refs, the stream and the recorder alone.   *)
GrantedButFails(at) ==
    LET id == granted + 1 IN
    /\ asking > 0 /\ asking' = asking - 1 /\ granted' = id
    /\ open' = open \cup {id} /\ cur' = id /\ broken' = broken \cup {id}
    /\ rec' = IF at = "make" THEN rec ELSE id
    /\ active' = IF at = "speech" THEN active \cup {id} ELSE active
    /\ orphans' = IF mounted THEN orphans \cup (open \cap {cur}) ELSE orphans \cup {id}
    /\ UNCHANGED <<phase, mounted, hidden, queued, chunks, blob, handed, spoken, heard, final, snapshot,
                   timer, crossed>>

Denied ==
    /\ asking > 0 /\ asking' = asking - 1
    /\ UNCHANGED <<phase, mounted, hidden, granted, open, cur, rec, active, queued, chunks, blob,
                   handed, spoken, heard, final, snapshot, timer, orphans, broken, crossed>>

(* onresult: the event lists every phrase so far, and each is appended.     *)
Hear ==
    LET results == [k \in 1 .. spoken + 1 |-> k] IN
    /\ mounted /\ phase \in Recording /\ spoken < MaxPhrases /\ spoken' = spoken + 1
    /\ final' = final \o results
    /\ heard' = IF hidden THEN heard ELSE heard \cup {spoken'}
    /\ UNCHANGED <<phase, mounted, hidden, asking, granted, open, cur, rec, active, queued, chunks,
                   blob, handed, snapshot, timer, orphans, broken, crossed>>

(* The effect on [phase]: the blob is handed over if it is there by then.   *)
HandOver(b) == handed' = IF b = NoBlob THEN handed ELSE handed \cup {b}

PressStop ==
    /\ mounted /\ ~hidden /\ phase \in Recording /\ phase' = "stopped"
    /\ active' = active \ {rec} /\ queued' = queued \cup (active \cap {rec})
    /\ HandOver(blob)
    /\ UNCHANGED <<mounted, hidden, asking, granted, open, cur, rec, chunks, blob, spoken, heard, final,
                   snapshot, timer, orphans, broken, crossed>>

AutoStop ==
    /\ mounted /\ timer /\ rec \in active /\ phase' = "stopped"
    /\ active' = active \ {rec} /\ queued' = queued \cup {rec} /\ timer' = FALSE
    /\ HandOver(IF phase = "stopped" THEN NoBlob ELSE blob)
    /\ UNCHANGED <<mounted, hidden, asking, granted, open, cur, rec, chunks, blob, spoken, heard, final,
                   snapshot, orphans, broken, crossed>>

(* The stop event: data first, then the blob; the current stream is closed. *)
OnStop_Guarded(i) ==
    /\ i \in queued
    /\ chunks' = chunks \cup {i} /\ blob' = IF phase = "stopped" THEN blob ELSE chunks'
    /\ open' = open \ {cur} /\ active' = active \ {cur}
    /\ queued' = (queued \ {i}) \cup (active \cap {cur})
    /\ cur' = 0 /\ timer' = FALSE /\ snapshot' = NoBlob
    /\ crossed' = (crossed \/ i # rec \/ phase = "idle")
    /\ UNCHANGED <<phase, mounted, hidden, asking, granted, rec, handed, spoken, heard, final, orphans, broken>>

OnStop(i) ==
    /\ i \in queued
    /\ chunks' = chunks \cup {i} /\ blob' = chunks'
    /\ open' = open \ {cur} /\ active' = active \ {cur}
    /\ queued' = (queued \ {i}) \cup (active \cap {cur})
    /\ cur' = 0 /\ timer' = FALSE /\ snapshot' = NoBlob
    /\ crossed' = (crossed \/ i # rec \/ phase = "idle")
    /\ UNCHANGED <<phase, mounted, hidden, asking, granted, rec, handed, spoken, heard, final, orphans, broken>>

Reset ==
    /\ mounted /\ ~hidden /\ phase \in {"stopped", "killed"} /\ phase' = "idle"
    /\ StopTracks({cur}) /\ cur' = 0 /\ timer' = FALSE /\ snapshot' = NoBlob
    /\ final' = <<>> /\ spoken' = 0 /\ heard' = {} /\ chunks' = {} /\ blob' = NoBlob
    /\ UNCHANGED <<mounted, hidden, asking, granted, rec, handed, orphans, broken, crossed>>

(* visibilitychange: the transcript is saved, and restored on return.       *)
SaveSnapshot == snapshot' = IF phase \in Recording THEN final ELSE snapshot
LoadSnapshot == final' = (IF snapshot = NoBlob THEN final ELSE snapshot) /\ snapshot' = NoBlob

Hide ==
    /\ mounted /\ ~hidden /\ hidden' = TRUE
    /\ SaveSnapshot
    /\ UNCHANGED <<phase, mounted, asking, granted, open, cur, rec, active, queued, chunks, blob,
                   handed, spoken, heard, final, timer, orphans, broken, crossed>>

Show ==
    /\ mounted /\ hidden /\ hidden' = FALSE
    /\ IF phase \in Recording
       THEN /\ phase' = IF rec \in active THEN "resumed" ELSE "killed"
            /\ LoadSnapshot
       ELSE UNCHANGED <<phase, final, snapshot>>
    /\ UNCHANGED <<mounted, asking, granted, open, cur, rec, active, queued, chunks, blob, handed,
                   spoken, heard, timer, orphans, broken, crossed>>

(* The platform ends the stream.                                            *)
KillStream(i) ==
    /\ i \in open /\ StopTracks({i})
    /\ UNCHANGED <<phase, mounted, hidden, asking, granted, cur, rec, chunks, blob, handed, spoken, heard,
                   final, snapshot, timer, orphans, broken, crossed>>

Unmount ==
    /\ mounted /\ mounted' = FALSE /\ StopTracks({cur}) /\ timer' = FALSE /\ snapshot' = NoBlob
    /\ UNCHANGED <<phase, hidden, asking, granted, cur, rec, chunks, blob, handed, spoken, heard, final,
                   orphans, broken, crossed>>

RecorderNext ==
    \/ PressStart \/ Granted \/ Denied \/ \E at \in {"make", "start", "speech"} : GrantedButFails(at)
    \/ Hear \/ PressStop \/ AutoStop \/ Reset
    \/ Hide \/ Show \/ Unmount
    \/ \E i \in Streams : OnStop(i) \/ KillStream(i)

-----------------------------------------------------------------------------
(* Once nothing is being recorded and no event is waiting, the microphone   *)
(* is off, but for streams granted beside another one or after the page was *)
(* left, which nobody holds, and for the current stream of a start that     *)
(* failed, which stays open until the page is left.                         *)
MicrophoneIsReleased ==
    queued = {} =>
        /\ phase \notin Recording => open \subseteq orphans \cup (broken \cap {cur})
        /\ ~mounted => open \subseteq orphans

(* The audio of a recording holds nothing of an earlier one, as long as     *)
(* start was not pressed twice and no stop event came after a reset or      *)
(* after the next recorder was made.                                        *)
AudioIsOfThisRecording == ~crossed /\ blob # NoBlob => blob = {rec}

(* What was recognised while the app was visible stays in the transcript    *)
(* when the app goes to the background and returns.                         *)
VisibleWordsStay == heard \subseteq ToSet(final)

(* A stopped recording gets its audio, unless its recorder did not start.   *)
StoppedGetsAudio == (phase = "stopped" /\ rec \notin broken) ~> (blob # NoBlob \/ phase # "stopped" \/ ~mounted)

--------------------------------------------------------------------------------
(* On-device transcription: the whisper module, imported once per page and  *)
(* shared by all calls, with the browser's speech recognition as fallback.  *)

CONSTANT CallsOf     \* calls of transcribeAudio

VARIABLES
    call,           \* CallsOf -> [engine, at]
    aborted,        \* calls whose AbortSignal has fired
    whisper,        \* whisperLoadPromise: "none", "loading", "loaded", "failed"
    imports,        \* dynamic imports started
    fit             \* engines the browser has

edgeVars == <<call, aborted, whisper, imports, fit>>

Engines == {"auto", "whisper", "speech-api"}

EdgeTypeOK ==
    /\ call \in [CallsOf -> [engine : Engines,
                            at : {"none", "load", "whisper", "running", "speech", "text", "empty", "threw"}]]
    /\ aborted \subseteq CallsOf /\ whisper \in {"none", "loading", "loaded", "failed"} /\ imports \in Nat

EdgeInit ==
    /\ call \in [CallsOf -> [engine : Engines, at : {"none"}]]
    /\ aborted = {} /\ whisper = "none" /\ imports = 0
    /\ fit \in SUBSET {"whisper", "speech-api"}

Goes(c, to) == call' = [call EXCEPT ![c].at = to]

(* After whisper: an automatic call falls back, a forced one throws.        *)
AfterWhisper(c) ==
    IF call[c].engine = "whisper" THEN "threw" ELSE IF "speech-api" \in fit THEN "speech" ELSE "empty"

AfterSpeech(c) == IF call[c].engine = "auto" THEN "empty" ELSE "threw"

TranscribeAudio(c) ==
    /\ call[c].at = "none"
    /\ Goes(c, CASE call[c].engine = "speech-api" -> IF "speech-api" \in fit THEN "speech" ELSE "threw"
                 [] "whisper" \in fit -> "load"
                 [] OTHER -> AfterWhisper(c))
    /\ UNCHANGED <<aborted, whisper, imports, fit>>

(* loadWhisper: the promise is kept, whether it succeeds or fails.          *)
LoadWhisper(c) ==
    /\ call[c].at = "load"
    /\ IF c \in aborted THEN UNCHANGED <<whisper, imports>> /\ Goes(c, AfterWhisper(c))
       ELSE /\ Goes(c, "whisper")
            /\ IF whisper = "none" THEN whisper' = "loading" /\ imports' = imports + 1
               ELSE UNCHANGED <<whisper, imports>>
    /\ UNCHANGED <<aborted, fit>>

ImportSettles(ok) ==
    /\ whisper = "loading" /\ whisper' = IF ok THEN "loaded" ELSE "failed"
    /\ UNCHANGED <<call, aborted, imports, fit>>

(* transcribeWithWhisper waits for the module and the decoded audio,        *)
(* whichever fails first, and looks at the signal once more.                *)
WhisperIsReady(c, decoded) ==
    /\ call[c].at = "whisper" /\ (whisper \in {"loaded", "failed"} \/ ~decoded)
    /\ Goes(c, IF whisper = "loaded" /\ decoded /\ c \notin aborted THEN "running" ELSE AfterWhisper(c))
    /\ UNCHANGED <<aborted, whisper, imports, fit>>

(* The transcript: an abort from here on is not seen.                       *)
WhisperAnswers(c, ok) ==
    /\ call[c].at = "running" /\ Goes(c, IF ok THEN "text" ELSE AfterWhisper(c))
    /\ UNCHANGED <<aborted, whisper, imports, fit>>

(* transcribeWithSpeechApi: an error of the recogniser resolves with what   *)
(* there is; only an abort rejects.                                         *)
SpeechAnswers(c) ==
    /\ call[c].at = "speech"
    /\ Goes(c, IF c \in aborted THEN AfterSpeech(c) ELSE "text")
    /\ UNCHANGED <<aborted, whisper, imports, fit>>

Abort(c) ==
    /\ call[c].at \in {"load", "whisper", "running", "speech"} /\ aborted' = aborted \cup {c}
    /\ UNCHANGED <<call, whisper, imports, fit>>

EdgeNext ==
    \/ \E ok \in BOOLEAN : ImportSettles(ok) \/ \E c \in CallsOf : WhisperIsReady(c, ok) \/ WhisperAnswers(c, ok)
    \/ \E c \in CallsOf : TranscribeAudio(c) \/ LoadWhisper(c) \/ SpeechAnswers(c) \/ Abort(c)

(* However many calls overlap, the module is imported once.                 *)
WhisperLoadsOnce == imports <= 1 /\ (whisper = "none") = (imports = 0)

(* Without a forced engine a call ends with a text, empty at worst, even    *)
(* when an engine fails or the call is aborted; a forced engine throws.     *)
AutomaticNeverThrows == \A c \in CallsOf : call[c].at = "threw" => call[c].engine # "auto"

================================================================================
