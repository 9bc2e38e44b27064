------------------------------ MODULE MCPipelines ------------------------------
(* The ways text takes into the knowledge base: state machines, the intake  *)
(* routes, the autolearn run, the recorder and on-device transcription.     *)
(* Each behaviour moves one of them: they share no state but rows written   *)
(* before the next one starts.                                              *)
EXTENDS StateMachines, Intake, Recorder, TLC

VARIABLE part       \* the component that moves

pipelineVars == <<machineVars, intakeVars, autolearnVars, recVars, edgeVars, part>>

Init ==
    /\ part \in {"machines", "mail", "uploads", "autolearn", "escalation", "recorder", "edge"}
    /\ MachineInit /\ IntakeInit /\ RunInit /\ RecorderInit /\ EdgeInit
    /\ part # "edge" => fit = {} /\ \A c \in CallsOf : call[c].engine = "auto"
    /\ part # "machines" => \A i \in Items : kind[i] = "edge"

Next ==
    /\ \/ part = "machines" /\ MachineNext /\ UNCHANGED <<intakeVars, autolearnVars, recVars, edgeVars>>
       \/ part = "mail" /\ MailNext /\ UNCHANGED <<machineVars, autolearnVars, recVars, edgeVars>>
       \/ part = "uploads" /\ UploadNext /\ UNCHANGED <<machineVars, autolearnVars, recVars, edgeVars>>
       \/ part = "autolearn" /\ RunNext /\ UNCHANGED <<machineVars, intakeVars, recVars, edgeVars>>
       \/ part = "escalation" /\ EscalationNext /\ UNCHANGED <<machineVars, intakeVars, recVars, edgeVars>>
       \/ part = "recorder" /\ RecorderNext /\ UNCHANGED <<machineVars, intakeVars, autolearnVars, edgeVars>>
       \/ part = "edge" /\ EdgeNext /\ UNCHANGED <<machineVars, intakeVars, autolearnVars, recVars>>
    /\ UNCHANGED part

(* The browser delivers the events it has queued.                           *)
Fairness ==
    \A i \in Streams :
        WF_pipelineVars(part = "recorder" /\ OnStop(i) /\ UNCHANGED <<machineVars, intakeVars, autolearnVars, edgeVars, part>>)

Spec == Init /\ [][Next]_pipelineVars /\ Fairness

(* The rows and local states of the components keep their types.       *)
PipelinesTypeOK == MachineTypeOK /\ IntakeTypeOK /\ RunTypeOK /\ RecorderTypeOK /\ EdgeTypeOK

(* Nothing is lost or half done on the way in: logs are paths and chains    *)
(* unbroken, a checkpoint skips no mail, what is stored is audited, and a   *)
(* run of autolearn returns only complete results (email, transcription,    *)
(* annotation and autolearn state machines, imap, autolearn-cli.ts).        *)
IntakeIsWhole ==
    /\ PipelinesTypeOK /\ LogIsThePath /\ ChainIsUnbroken /\ CheckpointSkipsNothing
    /\ StoredIsAudited /\ CliFilesAreRemoved /\ ReturnedIsComplete
    /\ FailedFetchStagesNothing

(* In the browser: the microphone is released, a recording holds its own    *)
(* audio and words, the model is imported once and an automatic             *)
(* transcription never throws (use-audio-recorder.ts, edge transcription).  *)
RecordingIsSound ==
    /\ MicrophoneIsReleased /\ AudioIsOfThisRecording /\ VisibleWordsStay
    /\ WhisperLoadsOnce /\ AutomaticNeverThrows

(* Ends are ends: a stopped recording gets its audio, a final state stays,  *)
(* and a customer who dismissed too much gets no draft unasked.             *)
EndsAreReached ==
    /\ StoppedGetsAudio /\ FinalStatesStay /\ EscalatedDraftWaits

=============================================================================
