------------------------- MODULE ConsultationProofs -------------------------
(***************************************************************************)
(* Proofs about Consultation for every number of clients, cases, sessions, *)
(* jobs and interruptions.                                                 *)
(***************************************************************************)
EXTENDS Consultation, TLAPS

(* What is saved from a well-typed screen is a well-typed record of the    *)
(* screen's case, and never an absent one.                                 *)
LEMMA SavedType ==
    ASSUME NEW u \in UiStates, NEW status \in {"IN_PROGRESS", "SEALED"}
    PROVE  /\ Saved(u, status) \in Records
           /\ Saved(u, status).case = u.case
           /\ Saved(u, status).status # "ABSENT"
BY DEF UiStates, Saved, Records, NotesOrNull, HasNotes, Result, NotesResults

(* Merging two results yields a result.                                    *)
LEMMA MergeType ==
    ASSUME NEW prior \in NotesResults, NEW current \in NotesResults
    PROVE  MergeWithPrior(prior, current) \in NotesResults
BY DEF MergeWithPrior, HasNotes, Notes, NotesResults

(* Everything the generator returns for a transcript is a result.          *)
LEMMA GeneratedType ==
    ASSUME NEW transcript \in Seq(Sessions)
    PROVE  Generated(transcript) \subseteq NotesResults
<1>1. {transcript[i] : i \in DOMAIN transcript} \subseteq Sessions
  OBVIOUS
<1>2. \A F \in SUBSET {transcript[i] : i \in DOMAIN transcript} : Notes(F) \in NotesResults
  BY <1>1 DEF Notes, NotesResults
<1>3. Result("FAILED") \in NotesResults
  BY DEF Result, NotesResults
<1> QED
  BY <1>2, <1>3 DEF Generated

(* The initial state.                                                      *)
LEMMA InitInductive == Init => Inductive
<1> SUFFICES ASSUME Init PROVE Inductive
  OBVIOUS
<1> USE ConsultationAssumption DEF Init
<1>1. TypeOK
  <2>1. InitialUi \in UiStates
    BY DEF InitialUi, UiStates, Phases, NotesResults, Result
  <2>2. IdleJob \in JobStates
    BY DEF IdleJob, JobStates, NotesResults, Result
  <2>3. Absent \in Records
    BY DEF Absent, Records, NotesResults, Result
  <2>4. NoCapture \in [state : {"NONE", "LIVE", "ENDED"}, sid : Sessions \cup {None}]
    BY DEF NoCapture
  <2>5. RecorderTypeOK
    BY <2>4 DEF RecorderTypeOK
  <2>6. PipelineTypeOK
    <3>1. jobs \in [Jobs -> JobStates]
      BY <2>2
    <3> QED
      BY <3>1 DEF PipelineTypeOK
  <2>7. DiskTypeOK
    <3>1. store \in [Sessions -> Records]
      BY <2>3
    <3> QED
      BY <3>1 DEF DiskTypeOK
  <2>8. HistoryTypeOK
    BY DEF HistoryTypeOK
  <2> QED
    BY <2>1, <2>5, <2>6, <2>7, <2>8 DEF TypeOK
<1>2. CaptureOwned /\ ProcessingHasJob /\ SessionsListFresh
  BY DEF CaptureOwned, ProcessingHasJob, SessionsListFresh, InitialUi, NoCapture
<1>3. CaseIntegrity
  BY DEF CaseIntegrity, InitialUi, Absent
<1>4. SessionExists
  BY DEF SessionExists, InitialUi, NoCapture, IdleJob, Stored, Absent
<1> QED
  BY <1>1, <1>2, <1>3, <1>4 DEF Inductive

-----------------------------------------------------------------------------
(* Shared parts of the actions.                                            *)

(* Cancelling the capture leaves no live capture behind.                   *)
LEMMA CancelCaptureStep ==
    ASSUME RecorderTypeOK, CancelCapture
    PROVE  RecorderTypeOK' /\ orphans' = orphans /\ capture'.state # "LIVE"
BY DEF RecorderTypeOK, CancelCapture, NoCapture

(* Cancelling a job marks it and suspends or wakes nothing.                *)
LEMMA CancelJobStep ==
    ASSUME PipelineTypeOK, CancelProcessingJob
    PROVE  PipelineTypeOK' /\ \A j \in Jobs : jobs'[j].pc = jobs[j].pc
<1> USE ConsultationAssumption
<1>1. CASE JobActive
  <2>1. processingJob \in Jobs /\ interrupts < MaxInterrupts /\ interrupts' = interrupts + 1
    BY <1>1 DEF CancelProcessingJob, PipelineTypeOK, JobActive
  <2>2. jobs' = [jobs EXCEPT ![processingJob].cancelled = TRUE]
    BY <1>1 DEF CancelProcessingJob
  <2>3. jobs' \in [Jobs -> JobStates]
    BY <2>1, <2>2, ZenonT(60) DEF PipelineTypeOK, JobStates
  <2>4. interrupts' \in 0..MaxInterrupts
    BY <2>1 DEF PipelineTypeOK
  <2>5. \A j \in Jobs : jobs'[j].pc = jobs[j].pc
    BY <2>1, <2>2 DEF PipelineTypeOK, JobStates
  <2> QED
    BY <2>3, <2>4, <2>5 DEF PipelineTypeOK, CancelProcessingJob
<1>2. CASE ~JobActive
  BY <1>2 DEF CancelProcessingJob, PipelineTypeOK
<1> QED
  BY <1>1, <1>2

(* Showing HOME preserves the invariant when the disk is left alone or a   *)
(* deletion keeps it well formed.                                          *)
LEMMA ShowHomeStep ==
    ASSUME Inductive, ShowHome, HistoryTypeOK',
           DiskTypeOK', \A s \in Sessions : store'[s].case \in cases' \cup {None},
           \A s \in Sessions : store'[s].status = "ABSENT" => store'[s].case = None
    PROVE  Inductive'
<1>1. RecorderTypeOK' /\ orphans' = orphans /\ capture'.state # "LIVE"
  BY CancelCaptureStep DEF Inductive, TypeOK, ShowHome
<1>2. PipelineTypeOK' /\ \A j \in Jobs : jobs'[j].pc = jobs[j].pc
  BY CancelJobStep DEF Inductive, TypeOK, ShowHome
<1>3. /\ ui' \in UiStates /\ ui'.phase = "HOME" /\ ui'.case = None
      /\ ui'.sid = ui.sid /\ ui'.isRecording = ui.isRecording
  BY DEF Inductive, TypeOK, ShowHome, UiStates, Phases
<1>4. TypeOK'
  BY <1>1, <1>2, <1>3 DEF TypeOK
<1>5. CaptureOwned' /\ ProcessingHasJob' /\ SessionsListFresh' /\ CaseIntegrity'
  BY <1>1, <1>3 DEF Inductive, ShowHome, RefreshSessions, CaptureOwned,
     ProcessingHasJob, SessionsListFresh, CaseIntegrity
<1>6. SessionExists'
  BY <1>1, <1>2, <1>3 DEF Inductive, SessionExists, Stored
<1> QED
  BY <1>4, <1>5, <1>6 DEF Inductive

(* Leaving the disk and the pipeline alone keeps what they guarantee.      *)
LEMMA DiskKept ==
    ASSUME Inductive, UNCHANGED <<cases, store, deleted>>, sessions' \in {sessions, store}
    PROVE  /\ DiskTypeOK' /\ SessionsListFresh'
           /\ \A s \in Sessions : store'[s].case \in cases' \cup {None}
           /\ \A s \in Sessions : store'[s].status = "ABSENT" => store'[s].case = None
BY DEF Inductive, TypeOK, DiskTypeOK, SessionsListFresh, CaseIntegrity, SessionExists, Stored

(* The screen moves, and the recorder with it or not; jobs and disk stay.  *)
LEMMA ScreenStep ==
    ASSUME Inductive, UNCHANGED pipeline, HistoryTypeOK',
           UNCHANGED <<cases, store, deleted>>, sessions' \in {sessions, store},
           ui' \in UiStates, ui'.case \in cases \cup {None},
           ui'.phase # "PROCESSING" \/ ui.phase = "PROCESSING",
           ui'.phase \in {"CONSENT", "CAPTURE", "PROCESSING", "RESULTS"} => ui'.sid # None,
           ui'.sid = ui.sid \/ ui'.sid # None,
           RecorderTypeOK', orphans' = {},
           capture'.state = "LIVE" => ui'.isRecording /\ capture'.sid # None
    PROVE  Inductive'
<1>1. /\ DiskTypeOK' /\ SessionsListFresh'
      /\ \A s \in Sessions : store'[s].case \in cases' \cup {None}
      /\ \A s \in Sessions : store'[s].status = "ABSENT" => store'[s].case = None
  BY DiskKept
<1>2. PipelineTypeOK'
  BY DEF Inductive, TypeOK, PipelineTypeOK, pipeline
<1>3. TypeOK'
  BY <1>1, <1>2 DEF TypeOK
<1>4. CaptureOwned'
  BY DEF CaptureOwned
<1>5. ProcessingHasJob'
  BY DEF Inductive, ProcessingHasJob, Running, pipeline
<1>6. CaseIntegrity'
  BY <1>1 DEF CaseIntegrity
<1>7. SessionExists'
  BY <1>1 DEF Inductive, SessionExists, Stored, pipeline
<1> QED
  BY <1>1, <1>3, <1>4, <1>5, <1>6, <1>7 DEF Inductive

(* Showing a client.                                                       *)
LEMMA ShowClientStep ==
    ASSUME Inductive, NEW c \in Clients, ShowClient(c), KeepDisk, KeepHistory
    PROVE  Inductive'
<1>1. ui' \in UiStates /\ ui'.phase = "CLIENT_PROFILE" /\ ui'.case = None
      /\ ui'.sid = ui.sid /\ ui'.isRecording = ui.isRecording
  BY DEF Inductive, TypeOK, ShowClient, UiStates, Phases
<1>2. RecorderTypeOK' /\ orphans' = {} /\ capture' = capture
  BY DEF Inductive, TypeOK, ShowClient, RecorderTypeOK, recorder, CaptureOwned
<1>3. capture'.state = "LIVE" => ui'.isRecording /\ capture'.sid # None
  BY <1>1, <1>2 DEF Inductive, CaptureOwned, SessionExists
<1>4. HistoryTypeOK'
  BY DEF Inductive, TypeOK, HistoryTypeOK, KeepHistory
<1> QED
  BY <1>1, <1>2, <1>3, <1>4, ScreenStep DEF ShowClient, KeepDisk, RefreshSessions

(* Showing a case, with the capture cancelled or left alone.               *)
LEMMA ShowCaseStep ==
    ASSUME Inductive, NEW k \in cases, ShowCase(k), KeepDisk, KeepHistory,
           UNCHANGED recorder \/ CancelCapture
    PROVE  Inductive'
<1>1. ui' \in UiStates /\ ui'.phase = "CASE_PROFILE" /\ ui'.case = k
      /\ ui'.sid = ui.sid /\ ui'.isRecording = ui.isRecording
  BY DEF Inductive, TypeOK, DiskTypeOK, ShowCase, UiStates, Phases
<1>2. RecorderTypeOK' /\ orphans' = {} /\ (capture'.state = "LIVE" => capture' = capture)
  <2>1. CASE UNCHANGED recorder
    BY <2>1 DEF Inductive, TypeOK, RecorderTypeOK, recorder, CaptureOwned
  <2>2. CASE CancelCapture
    BY <2>2, CancelCaptureStep DEF Inductive, TypeOK, CaptureOwned
  <2> QED
    BY <2>1, <2>2
<1>3. capture'.state = "LIVE" => ui'.isRecording /\ capture'.sid # None
  BY <1>1, <1>2 DEF Inductive, CaptureOwned, SessionExists
<1>4. HistoryTypeOK'
  BY DEF Inductive, TypeOK, HistoryTypeOK, KeepHistory
<1> QED
  BY <1>1, <1>2, <1>3, <1>4, ScreenStep DEF ShowCase, KeepDisk, RefreshSessions

(* Going home with the disk left alone.                                    *)
LEMMA HomeStep ==
    ASSUME Inductive, ShowHome, KeepDisk, KeepHistory
    PROVE  Inductive'
<1>1. HistoryTypeOK'
  BY DEF Inductive, TypeOK, HistoryTypeOK, KeepHistory
<1>2. /\ DiskTypeOK' /\ SessionsListFresh'
      /\ \A s \in Sessions : store'[s].case \in cases' \cup {None}
      /\ \A s \in Sessions : store'[s].status = "ABSENT" => store'[s].case = None
  BY DiskKept DEF KeepDisk, ShowHome, RefreshSessions
<1> QED
  BY <1>1, <1>2, ShowHomeStep

-----------------------------------------------------------------------------
(* Navigation.                                                             *)
LEMMA NavigationSteps ==
    ASSUME Inductive,
           \/ GoHome \/ BackToCase \/ BackFromCapture \/ BackToClient
           \/ \E c \in Clients : OpenClient(c)
           \/ \E k \in Cases : OpenCase(k)
    PROVE  Inductive'
<1>0. ui.case \in cases \cup {None} /\ ui.client \in Clients \cup {None}
  BY DEF Inductive, TypeOK, UiStates, CaseIntegrity
<1>1. CASE GoHome
  BY <1>1, HomeStep DEF GoHome
<1>2. CASE BackToCase
  BY <1>0, <1>2, HomeStep, ShowCaseStep DEF BackToCase
<1>3. CASE BackFromCapture
  BY <1>0, <1>3, HomeStep, ShowCaseStep DEF BackFromCapture
<1>4. CASE BackToClient
  BY <1>0, <1>4, HomeStep, ShowClientStep DEF BackToClient, ClientOrHome
<1>5. CASE \E c \in Clients : OpenClient(c)
  BY <1>5, ShowClientStep DEF OpenClient
<1>6. CASE \E k \in Cases : OpenCase(k)
  BY <1>6, ShowCaseStep DEF OpenCase
<1> QED
  BY <1>1, <1>2, <1>3, <1>4, <1>5, <1>6

(* Cancelling the processing job leads back to the capture screen.         *)
LEMMA CancelProcessingStep ==
    ASSUME Inductive, CancelProcessing
    PROVE  Inductive'
<1>1. PipelineTypeOK' /\ \A j \in Jobs : jobs'[j].pc = jobs[j].pc
  BY CancelJobStep DEF Inductive, TypeOK, CancelProcessing
<1>2. /\ ui' \in UiStates /\ ui'.phase = "CAPTURE" /\ ui'.case = ui.case
      /\ ui'.sid = ui.sid /\ ui'.isRecording = ui.isRecording
  BY DEF Inductive, TypeOK, CancelProcessing, UiStates, Phases
<1>3. /\ DiskTypeOK' /\ SessionsListFresh'
      /\ \A s \in Sessions : store'[s].case \in cases' \cup {None}
      /\ \A s \in Sessions : store'[s].status = "ABSENT" => store'[s].case = None
  BY DiskKept DEF CancelProcessing, disk
<1>4. TypeOK'
  BY <1>1, <1>2, <1>3 DEF Inductive, TypeOK, CancelProcessing, RecorderTypeOK,
     HistoryTypeOK, recorder, KeepHistory
<1>5. CaptureOwned' /\ ProcessingHasJob'
  BY <1>2 DEF Inductive, CancelProcessing, CaptureOwned, ProcessingHasJob, recorder
<1>6. CaseIntegrity'
  BY <1>2, <1>3 DEF Inductive, CaseIntegrity, CancelProcessing, disk
<1>7. SessionExists'
  BY <1>1, <1>2, <1>3 DEF Inductive, SessionExists, Stored, CancelProcessing, recorder
<1> QED
  BY <1>3, <1>4, <1>5, <1>6, <1>7 DEF Inductive

(* A new consultation gets a session of its own and a quiet recorder.      *)
LEMMA StartNewConsultationStep ==
    ASSUME Inductive, NEW s \in Sessions, StartNewConsultation(s)
    PROVE  Inductive'
<1> USE ConsultationAssumption
<1>1. RecorderTypeOK' /\ orphans' = orphans /\ capture'.state # "LIVE"
  BY CancelCaptureStep DEF Inductive, TypeOK, StartNewConsultation
<1>2. PipelineTypeOK' /\ \A j \in Jobs : jobs'[j].pc = jobs[j].pc
  BY CancelJobStep DEF Inductive, TypeOK, StartNewConsultation
<1>3. /\ ui' \in UiStates /\ ui'.phase = "CONSENT" /\ ui'.case = ui.case
      /\ ui'.sid = s /\ s # None
  <2>1. Result("NULL") \in NotesResults
    BY DEF Result, NotesResults
  <2>2. <<>> \in Seq(Sessions)
    OBVIOUS
  <2>3. ui \in UiStates /\ ui' = FreshUi(s)
    BY DEF Inductive, TypeOK, StartNewConsultation
  <2> QED
    BY <2>1, <2>2, <2>3 DEF FreshUi, UiStates, Phases
<1>4. /\ DiskTypeOK' /\ SessionsListFresh'
      /\ \A t \in Sessions : store'[t].case \in cases' \cup {None}
      /\ \A t \in Sessions : store'[t].status = "ABSENT" => store'[t].case = None
  BY DiskKept DEF StartNewConsultation, disk
<1>5. TypeOK'
  BY <1>1, <1>2, <1>3, <1>4 DEF Inductive, TypeOK, StartNewConsultation, HistoryTypeOK
<1>6. CaptureOwned' /\ ProcessingHasJob'
  BY <1>1, <1>3 DEF Inductive, CaptureOwned, ProcessingHasJob
<1>7. CaseIntegrity'
  BY <1>3, <1>4 DEF Inductive, CaseIntegrity, StartNewConsultation, disk
<1>8. SessionExists'
  BY <1>1, <1>3, <1>4 DEF SessionExists, Stored
<1> QED
  BY <1>4, <1>5, <1>6, <1>7, <1>8 DEF Inductive

(* Consent, the two ways to start a capture, its lines and its end.        *)
LEMMA CaptureSteps ==
    ASSUME Inductive,
           \/ OnConsent \/ StartRecording \/ LoadScript
           \/ HandleCaptureEvent \/ CaptureEnds
    PROVE  Inductive'
<1> USE ConsultationAssumption
<1>0. /\ ui.case \in cases \cup {None}
      /\ UNCHANGED <<warmupReady, issued, consented>> => HistoryTypeOK'
      /\ UNCHANGED recorder => RecorderTypeOK' /\ orphans' = {} /\ capture' = capture
      /\ UNCHANGED disk => UNCHANGED <<cases, store, deleted>> /\ sessions' \in {sessions, store}
  BY DEF Inductive, TypeOK, CaseIntegrity, HistoryTypeOK, RecorderTypeOK, recorder,
     CaptureOwned, disk
<1>1. CASE OnConsent
  <2>1. ui' \in UiStates /\ ui'.phase = "CAPTURE" /\ ui'.case = ui.case
        /\ ui'.sid = ui.sid /\ ui.sid \in Sessions /\ ui'.isRecording = ui.isRecording
    BY <1>1 DEF Inductive, TypeOK, OnConsent, UiStates, Phases, SessionExists
  <2>2. HistoryTypeOK'
    BY <1>1, <2>1 DEF Inductive, TypeOK, OnConsent, HistoryTypeOK
  <2>3. capture'.state = "LIVE" => ui'.isRecording /\ capture'.sid # None
    BY <1>0, <1>1, <2>1 DEF OnConsent, Inductive, CaptureOwned, SessionExists
  <2> QED
    BY <1>0, <1>1, <2>1, <2>2, <2>3, ScreenStep DEF OnConsent
<1>2. CASE StartRecording
  <2>1. ui' \in UiStates /\ ui'.phase = "CAPTURE" /\ ui'.case = ui.case
        /\ ui'.sid = ui.sid /\ ui.sid \in Sessions /\ ui'.isRecording
    BY <1>2 DEF Inductive, TypeOK, StartRecording, RecordButton, UiStates, Phases, SessionExists
  <2>2. orphans' = {}
    BY <1>2 DEF StartRecording, RecordButton, NewCapture, Inductive, CaptureOwned
  <2>3. RecorderTypeOK' /\ capture'.sid # None
    BY <1>2, <2>1, <2>2 DEF StartRecording, NewCapture, RecorderTypeOK
  <2> QED
    BY <1>0, <1>2, <2>1, <2>2, <2>3, ScreenStep DEF StartRecording, KeepHistory
<1>3. CASE LoadScript
  <2>1. ui' \in UiStates /\ ui'.phase = "CAPTURE" /\ ui'.case = ui.case
        /\ ui'.sid = ui.sid /\ ui.sid \in Sessions /\ ui'.isRecording
    <3>1. <<>> \in Seq(Sessions)
      OBVIOUS
    <3>2. ui \in UiStates /\ ui.phase = "CAPTURE" /\ ui.sid # None
      BY <1>3 DEF Inductive, TypeOK, LoadScript, ScriptButton, SessionExists
    <3>3. PICK segments \in Seq(Sessions) :
            ui' = [ui EXCEPT !.isRecording = TRUE, !.scripted = TRUE, !.segments = segments]
      BY <1>3, <3>1, <3>2 DEF LoadScript, ScriptButton, UiStates
    <3> QED
      BY <3>2, <3>3 DEF UiStates
  <2>2. orphans' = {}
    BY <1>3 DEF LoadScript, ScriptButton, NewCapture, NoCapture, Inductive, CaptureOwned
  <2>3. RecorderTypeOK' /\ capture'.sid # None
    BY <1>3, <2>1, <2>2 DEF LoadScript, NewCapture, RecorderTypeOK
  <2> QED
    BY <1>0, <1>3, <2>1, <2>2, <2>3, ScreenStep DEF LoadScript, KeepHistory
<1>4. CASE HandleCaptureEvent
  <2>1. PICK c \in LiveCaptures : ui' = [ui EXCEPT !.segments = Append(@, c.sid)]
    BY <1>4 DEF HandleCaptureEvent
  <2>2. c.sid \in Sessions
    BY DEF LiveCaptures, Inductive, CaptureOwned, SessionExists, TypeOK, RecorderTypeOK
  <2>3. ui' \in UiStates /\ ui'.phase = ui.phase /\ ui'.case = ui.case
        /\ ui'.sid = ui.sid /\ ui'.isRecording = ui.isRecording
    <3>1. ui \in UiStates
      BY DEF Inductive, TypeOK
    <3>2. Append(ui.segments, c.sid) \in Seq(Sessions)
      BY <2>2, <3>1 DEF UiStates
    <3> QED
      BY <2>1, <3>1, <3>2 DEF UiStates
  <2>4. capture'.state = "LIVE" => ui'.isRecording /\ capture'.sid # None
    BY <1>0, <1>4, <2>3 DEF HandleCaptureEvent, Inductive, CaptureOwned, SessionExists
  <2>5. ui'.phase \in {"CONSENT", "CAPTURE", "PROCESSING", "RESULTS"} => ui'.sid # None
    BY <2>3 DEF Inductive, SessionExists
  <2> QED
    BY <1>0, <1>4, <2>3, <2>4, <2>5, ScreenStep DEF HandleCaptureEvent, KeepHistory
<1>5. CASE CaptureEnds
  <2>1. RecorderTypeOK' /\ orphans' = {} /\ capture'.state # "LIVE"
    BY <1>5 DEF CaptureEnds, Inductive, TypeOK, RecorderTypeOK, CaptureOwned
  <2>2. ui' = ui /\ ui \in UiStates
    BY <1>5 DEF CaptureEnds, Inductive, TypeOK
  <2>3. ui.phase \in {"CONSENT", "CAPTURE", "PROCESSING", "RESULTS"} => ui.sid # None
    BY DEF Inductive, SessionExists
  <2> QED
    BY <1>0, <1>5, <2>1, <2>2, <2>3, ScreenStep DEF CaptureEnds, KeepHistory
<1> QED
  BY <1>1, <1>2, <1>3, <1>4, <1>5

-----------------------------------------------------------------------------
(* A save, done or failed, keeps the disk well formed.                     *)
LEMMA PersistStep ==
    ASSUME DiskTypeOK, NEW u \in UiStates, NEW status \in {"IN_PROGRESS", "SEALED"},
           u.case \in cases \cup {None},
           \A s \in Sessions : store[s].case \in cases \cup {None},
           \A s \in Sessions : store[s].status = "ABSENT" => store[s].case = None,
           Persist(u, status), sessions' = store', UNCHANGED <<cases, deleted>>
    PROVE  /\ DiskTypeOK'
           /\ \A s \in Sessions : store'[s].case \in cases' \cup {None}
           /\ \A s \in Sessions : store'[s].status = "ABSENT" => store'[s].case = None
<1>1. CASE store' = store
  BY <1>1 DEF DiskTypeOK
<1>2. CASE u.sid # None /\ store' = [store EXCEPT ![u.sid] = Saved(u, status)]
  <2>1. /\ Saved(u, status) \in Records
        /\ Saved(u, status).case = u.case
        /\ Saved(u, status).status # "ABSENT"
    BY SavedType
  <2>2. u.sid \in Sessions
    BY <1>2 DEF UiStates
  <2>3. store' \in [Sessions -> Records]
    BY <1>2, <2>1, <2>2 DEF DiskTypeOK
  <2>4. \A s \in Sessions : store'[s] = IF s = u.sid THEN Saved(u, status) ELSE store[s]
    BY <1>2, <2>2 DEF DiskTypeOK
  <2> QED
    BY <2>1, <2>3, <2>4 DEF DiskTypeOK
<1> QED
  BY <1>1, <1>2 DEF Persist

(* A job that ends is idle and disturbs no other.                          *)
LEMMA FinishStep ==
    ASSUME PipelineTypeOK, NEW j \in Jobs, Finish(j),
           processingJob' \in Jobs \cup {None}, interrupts' = interrupts
    PROVE  PipelineTypeOK' /\ \A i \in Jobs \ {j} : jobs'[i] = jobs[i]
<1>1. IdleJob \in JobStates
  BY DEF IdleJob, JobStates, NotesResults, Result
<1> QED
  BY <1>1 DEF Finish, PipelineTypeOK

(* The end of generateNotes, on a screen u that shows an existing session. *)
LEMMA ConcludeStep ==
    ASSUME Inductive, NEW j \in Jobs, NEW u \in UiStates,
           NEW prior \in NotesResults, NEW result \in NotesResults,
           u.case = ui.case, u.sid # None, Conclude(j, u, prior, result),
           processingJob' \in Jobs \cup {None}, interrupts' = interrupts,
           HistoryTypeOK', RecorderTypeOK', orphans' = {},
           capture'.state = "LIVE" => u.isRecording /\ capture'.sid # None
    PROVE  Inductive'
<1> DEFINE shown == [u EXCEPT !.notes = MergeWithPrior(prior, result), !.phase = "RESULTS"]
<1>1. /\ ui' = shown /\ Persist(shown, "IN_PROGRESS") /\ sessions' = store'
      /\ Finish(j) /\ UNCHANGED <<cases, deleted>>
  BY DEF Conclude, RefreshSessions
<1>2. /\ shown \in UiStates /\ shown.case = ui.case /\ shown.sid = u.sid
      /\ shown.phase = "RESULTS" /\ shown.isRecording = u.isRecording
  BY MergeType DEF UiStates, Phases
<1> HIDE DEF shown
<1>3. PipelineTypeOK' /\ \A i \in Jobs \ {j} : jobs'[i] = jobs[i]
  BY <1>1, FinishStep DEF Inductive, TypeOK
<1>4. /\ DiskTypeOK'
      /\ \A s \in Sessions : store'[s].case \in cases' \cup {None}
      /\ \A s \in Sessions : store'[s].status = "ABSENT" => store'[s].case = None
  BY <1>1, <1>2, PersistStep DEF Inductive, TypeOK, CaseIntegrity, SessionExists, Stored
<1>5. TypeOK'
  BY <1>1, <1>2, <1>3, <1>4 DEF TypeOK
<1>6. CaptureOwned' /\ ProcessingHasJob' /\ SessionsListFresh' /\ CaseIntegrity'
  BY <1>1, <1>2, <1>4 DEF Inductive, CaptureOwned, ProcessingHasJob, SessionsListFresh,
     CaseIntegrity
<1>7. SessionExists'
  BY <1>1, <1>2, <1>4 DEF SessionExists, Stored
<1> QED
  BY <1>5, <1>6, <1>7 DEF Inductive

(* generateNotes up to its engine call.  A job that nobody cancelled either *)
(* suspends again, and so still runs, or shows the results.                *)
LEMMA GenerateNotesStep ==
    ASSUME Inductive, NEW j \in Jobs, NEW u \in UiStates, NEW cancelled \in BOOLEAN,
           u.case = ui.case, u.sid # None, GenerateNotes(j, u, cancelled),
           processingJob' \in Jobs \cup {None}, interrupts' = interrupts,
           HistoryTypeOK', RecorderTypeOK', orphans' = {},
           capture'.state = "LIVE" => u.isRecording /\ capture'.sid # None
    PROVE  Inductive'
<1>0. u.notes \in NotesResults /\ Result("FAILED") \in NotesResults
      /\ Result("INSUFFICIENT") \in NotesResults /\ u.segments \in Seq(Sessions)
  BY DEF UiStates, Result, NotesResults
<1>1. CASE Insufficient(u.segments)
  <2>1. ui' = ShowInsufficient(u) /\ Finish(j) /\ UNCHANGED disk
    BY <1>1 DEF GenerateNotes
  <2>2. /\ ui' \in UiStates /\ ui'.case = ui.case /\ ui'.sid = u.sid
        /\ ui'.phase = "RESULTS" /\ ui'.isRecording = u.isRecording
    BY <1>0, <2>1 DEF ShowInsufficient, UiStates, Phases
  <2>3. PipelineTypeOK'
    BY <2>1, FinishStep DEF Inductive, TypeOK
  <2>4. /\ DiskTypeOK' /\ SessionsListFresh'
        /\ \A s \in Sessions : store'[s].case \in cases' \cup {None}
        /\ \A s \in Sessions : store'[s].status = "ABSENT" => store'[s].case = None
    BY <2>1, DiskKept DEF disk
  <2>5. TypeOK'
    BY <2>2, <2>3, <2>4 DEF TypeOK
  <2>6. CaptureOwned' /\ ProcessingHasJob' /\ CaseIntegrity'
    BY <2>1, <2>2, <2>4 DEF Inductive, CaptureOwned, ProcessingHasJob, CaseIntegrity, disk
  <2>7. SessionExists'
    BY <2>2, <2>4 DEF SessionExists, Stored
  <2> QED
    BY <2>4, <2>5, <2>6, <2>7 DEF Inductive
<1>2. CASE ~Insufficient(u.segments) /\ cancelled
  BY <1>0, <1>2, ConcludeStep DEF GenerateNotes
<1>3. CASE ~Insufficient(u.segments) /\ ~cancelled
  <2>1. /\ ui' = u /\ Await(j, "REASONING", u.segments, u.notes)
        /\ stage' = "REASONING" /\ UNCHANGED disk
    BY <1>3 DEF GenerateNotes
  <2>2. PipelineTypeOK'
    BY <1>0, <2>1 DEF Inductive, TypeOK, PipelineTypeOK, Await, JobStates
  <2>3. jobs'[j].pc = "REASONING" /\ ~jobs'[j].cancelled
    BY <2>1 DEF Inductive, TypeOK, PipelineTypeOK, Await
  <2>4. /\ DiskTypeOK' /\ SessionsListFresh'
        /\ \A s \in Sessions : store'[s].case \in cases' \cup {None}
        /\ \A s \in Sessions : store'[s].status = "ABSENT" => store'[s].case = None
    BY <2>1, DiskKept DEF disk
  <2>5. TypeOK'
    BY <2>1, <2>2, <2>4 DEF TypeOK
  <2>6. CaptureOwned' /\ ProcessingHasJob' /\ CaseIntegrity'
    BY <2>1, <2>3, <2>4 DEF Inductive, CaptureOwned, ProcessingHasJob, Running,
       CaseIntegrity, disk
  <2>7. SessionExists'
    BY <2>1, <2>4 DEF SessionExists, Stored
  <2> QED
    BY <2>4, <2>5, <2>6, <2>7 DEF Inductive
<1> QED
  BY <1>1, <1>2, <1>3

(* The processing job: its start and its two returns.                      *)
LEMMA JobSteps ==
    ASSUME Inductive, NEW j \in Jobs,
           StopAndProcess(j) \/ AttributionReturns(j) \/ NotesReturn(j)
    PROVE  Inductive'
<1>0. /\ ui \in UiStates /\ jobs[j] \in JobStates /\ orphans = {} /\ RecorderTypeOK
      /\ processingJob \in Jobs \cup {None} /\ PipelineTypeOK /\ HistoryTypeOK
      /\ capture.state = "LIVE" => ui.isRecording /\ capture.sid # None
      /\ jobs[j].pc # "IDLE" => ui.sid # None
      /\ ui.phase = "CAPTURE" => ui.sid # None
  BY DEF Inductive, TypeOK, PipelineTypeOK, CaptureOwned, SessionExists
<1>1. CASE StopAndProcess(j)
  <2> DEFINE shown == [ui EXCEPT !.isRecording = FALSE, !.phase = "PROCESSING"]
  <2>1. /\ shown \in UiStates /\ shown.case = ui.case /\ shown.sid = ui.sid
        /\ shown.phase = "PROCESSING" /\ ui.sid # None /\ shown.isRecording = FALSE
    BY <1>0, <1>1 DEF StopAndProcess, RecordButton, UiStates, Phases
  <2>2. RecorderTypeOK' /\ orphans' = {} /\ capture'.state # "LIVE"
    BY <1>0, <1>1, CancelCaptureStep DEF StopAndProcess
  <2>3. HistoryTypeOK' /\ processingJob' \in Jobs \cup {None} /\ interrupts' = interrupts
    BY <1>0, <1>1 DEF StopAndProcess, HistoryTypeOK, KeepHistory
  <2>4. CASE ~ui.scripted /\ ui.segments # <<>>
    <3>1. /\ ui' = shown /\ Await(j, "ATTRIBUTING", ui.segments, Result("NULL"))
          /\ stage' = "ATTRIBUTING" /\ UNCHANGED disk
      BY <1>1, <2>4 DEF StopAndProcess
    <3> HIDE DEF shown
    <3>2. Result("NULL") \in NotesResults /\ ui.segments \in Seq(Sessions)
      BY <1>0 DEF UiStates, Result, NotesResults
    <3>3. PipelineTypeOK'
      BY <1>0, <2>3, <3>1, <3>2 DEF PipelineTypeOK, Await, JobStates
    <3>4. jobs'[j].pc = "ATTRIBUTING" /\ ~jobs'[j].cancelled
      BY <1>0, <3>1 DEF PipelineTypeOK, Await
    <3>5. /\ DiskTypeOK' /\ SessionsListFresh'
          /\ \A s \in Sessions : store'[s].case \in cases' \cup {None}
          /\ \A s \in Sessions : store'[s].status = "ABSENT" => store'[s].case = None
      BY <3>1, DiskKept DEF disk
    <3>6. TypeOK'
      BY <2>1, <2>2, <2>3, <3>1, <3>3, <3>5 DEF TypeOK
    <3>7. CaptureOwned' /\ ProcessingHasJob' /\ CaseIntegrity'
      BY <2>1, <2>2, <3>1, <3>4, <3>5 DEF Inductive, CaptureOwned, ProcessingHasJob,
         Running, CaseIntegrity, disk
    <3>8. SessionExists'
      BY <2>1, <2>2, <3>1, <3>5 DEF SessionExists, Stored
    <3> QED
      BY <3>5, <3>6, <3>7, <3>8 DEF Inductive
  <2>5. CASE ~(~ui.scripted /\ ui.segments # <<>>)
    <3>1. GenerateNotes(j, shown, FALSE)
      BY <1>1, <2>5 DEF StopAndProcess
    <3> HIDE DEF shown
    <3> QED
      BY <2>1, <2>2, <2>3, <3>1, GenerateNotesStep
  <2> QED
    BY <2>4, <2>5
<1>2. CASE AttributionReturns(j)
  <2> DEFINE u == [ui EXCEPT !.segments = jobs[j].segs]
  <2>1. /\ u \in UiStates /\ u.case = ui.case /\ u.sid = ui.sid /\ u.sid # None
        /\ u.isRecording = ui.isRecording /\ jobs[j].cancelled \in BOOLEAN
    BY <1>0, <1>2 DEF AttributionReturns, UiStates, JobStates
  <2>2. GenerateNotes(j, u, jobs[j].cancelled)
    BY <1>2 DEF AttributionReturns
  <2> HIDE DEF u
  <2>3. /\ RecorderTypeOK' /\ orphans' = {} /\ capture' = capture /\ HistoryTypeOK'
        /\ processingJob' \in Jobs \cup {None} /\ interrupts' = interrupts
    BY <1>0, <1>2 DEF AttributionReturns, RecorderTypeOK, HistoryTypeOK, recorder, KeepHistory
  <2> QED
    BY <1>0, <2>1, <2>2, <2>3, GenerateNotesStep
<1>3. CASE NotesReturn(j)
  <2>1. PICK result \in NotesResults : Conclude(j, ui, jobs[j].prior, result)
    <3>1. jobs[j].segs \in Seq(Sessions) /\ Result("FAILED") \in NotesResults
      BY <1>0 DEF JobStates, Result, NotesResults
    <3> QED
      BY <1>3, <3>1, GeneratedType DEF NotesReturn
  <2>2. /\ RecorderTypeOK' /\ orphans' = {} /\ capture' = capture /\ HistoryTypeOK'
        /\ processingJob' \in Jobs \cup {None} /\ interrupts' = interrupts
    BY <1>0, <1>3 DEF NotesReturn, RecorderTypeOK, HistoryTypeOK, recorder, KeepHistory
  <2>3. ui.sid # None /\ jobs[j].prior \in NotesResults
    BY <1>0, <1>3 DEF NotesReturn, JobStates
  <2> QED
    BY <1>0, <2>1, <2>2, <2>3, ConcludeStep
<1> QED
  BY <1>1, <1>2, <1>3

-----------------------------------------------------------------------------
(* Continuing, and opening a saved session.                                *)
LEMMA ResumeSteps ==
    ASSUME Inductive, ContinueConsultation \/ \E s \in Sessions : OpenSession(s)
    PROVE  Inductive'
<1> USE ConsultationAssumption
<1>0. /\ ui \in UiStates /\ ui.case \in cases \cup {None}
      /\ UNCHANGED <<warmupReady, issued, consented>> => HistoryTypeOK'
      /\ UNCHANGED recorder => RecorderTypeOK' /\ orphans' = {} /\ capture' = capture
      /\ UNCHANGED disk => UNCHANGED <<cases, store, deleted>> /\ sessions' \in {sessions, store}
      /\ capture.state = "LIVE" => ui.isRecording /\ capture.sid # None
      /\ sessions \in [Sessions -> Records] /\ cases \subseteq Cases
  BY DEF Inductive, TypeOK, CaseIntegrity, HistoryTypeOK, RecorderTypeOK, recorder,
     CaptureOwned, disk, SessionExists, DiskTypeOK
<1>1. CASE ContinueConsultation
  <2>1. /\ ui' \in UiStates /\ ui'.phase = "CAPTURE" /\ ui'.case = ui.case
        /\ ui'.sid = ui.sid /\ ui.sid # None /\ ui'.isRecording = ui.isRecording
    BY <1>0, <1>1, SMTT(60) DEF Inductive, ContinueConsultation, UiStates, Phases, SessionExists
  <2> QED
    BY <1>0, <1>1, <2>1, ScreenStep DEF ContinueConsultation, KeepHistory
<1>2. CASE \E s \in Sessions : OpenSession(s)
  <2>1. PICK s \in Sessions : OpenSession(s)
    BY <1>2
  <2>2. sessions[s] \in Records /\ sessions[s].status # "ABSENT"
    BY <1>0, <2>1, ZenonT(60) DEF OpenSession, Listed
  <2>3. PICK client \in Clients \cup {None}, case \in cases \cup {None} :
          ui' = [ui EXCEPT !.phase = "RESULTS", !.client = client, !.case = case,
                           !.sid = s, !.status = sessions[s].status,
                           !.segments = sessions[s].lines, !.notes = sessions[s].notes]
    <3> DEFINE case == IF sessions[s].case \in cases THEN sessions[s].case ELSE ui.case
               client == IF sessions[s].client # None THEN sessions[s].client
                         ELSE IF case # None THEN ClientOf[case] ELSE ui.client
    <3>1. case \in cases \cup {None}
      BY <1>0
    <3>2. client \in Clients \cup {None}
      BY <1>0, <2>2, <3>1 DEF Records, UiStates
    <3> QED
      BY <2>1, <3>1, <3>2, ZenonT(60) DEF OpenSession
  <2>4. /\ ui' \in UiStates /\ ui'.phase = "RESULTS" /\ ui'.case \in cases \cup {None}
        /\ ui'.sid = s /\ s # None /\ ui'.isRecording = ui.isRecording
    BY <1>0, <2>2, <2>3, ZenonT(60) DEF UiStates, Records, Phases
  <2> QED
    BY <1>0, <2>1, <2>4, ScreenStep DEF OpenSession, KeepHistory
<1> QED
  BY <1>1, <1>2

(* Sealing.                                                                *)
LEMMA SealStep ==
    ASSUME Inductive, SealAndFinish
    PROVE  Inductive'
<1>0. ui \in UiStates /\ sessions' = store'
  BY DEF Inductive, TypeOK, SealAndFinish, RefreshSessions
<1>1. /\ ui' \in UiStates /\ ui'.phase = "CASE_PROFILE" /\ ui'.case = ui.case
      /\ ui'.sid = ui.sid /\ ui'.isRecording = ui.isRecording
  BY <1>0 DEF SealAndFinish, UiStates, Phases
<1>2. /\ DiskTypeOK'
      /\ \A s \in Sessions : store'[s].case \in cases' \cup {None}
      /\ \A s \in Sessions : store'[s].status = "ABSENT" => store'[s].case = None
  BY <1>0, PersistStep DEF Inductive, TypeOK, CaseIntegrity, SessionExists, Stored,
     SealAndFinish
<1>3. UNCHANGED <<capture, orphans, jobs, processingJob, stage, interrupts, cases>>
  BY DEF SealAndFinish, recorder, pipeline
<1>4. TypeOK'
  BY <1>1, <1>2, <1>3 DEF Inductive, TypeOK, RecorderTypeOK, PipelineTypeOK,
     HistoryTypeOK, SealAndFinish, KeepHistory
<1>5. CaptureOwned' /\ ProcessingHasJob' /\ SessionsListFresh' /\ CaseIntegrity'
  BY <1>0, <1>1, <1>2, <1>3 DEF Inductive, CaptureOwned, ProcessingHasJob,
     SessionsListFresh, CaseIntegrity
<1>6. SessionExists'
  BY <1>1, <1>2, <1>3 DEF Inductive, SessionExists, Stored
<1> QED
  BY <1>4, <1>5, <1>6 DEF Inductive

(* Removing records leaves absent ones, which refer to no case.            *)
LEMMA RemoveStep ==
    ASSUME Inductive, NEW S \in SUBSET Sessions, Remove(S), sessions' = store',
           cases' \subseteq cases,
           \A s \in Sessions \ S : store[s].case \in cases' \cup {None}
    PROVE  /\ DiskTypeOK'
           /\ \A s \in Sessions : store'[s].case \in cases' \cup {None}
           /\ \A s \in Sessions : store'[s].status = "ABSENT" => store'[s].case = None
<1>1. Absent \in Records /\ Absent.case = None
  BY DEF Absent, Records, Result, NotesResults
<1>2. \A s \in Sessions : store'[s] = IF s \in S THEN Absent ELSE store[s]
  BY DEF Remove
<1>3. store' \in [Sessions -> Records]
  BY <1>1 DEF Remove, Inductive, TypeOK, DiskTypeOK
<1>4. DiskTypeOK'
  BY <1>3 DEF Remove, Inductive, TypeOK, DiskTypeOK
<1> QED
  BY <1>1, <1>2, <1>4 DEF Inductive, SessionExists, Stored

(* Deleting a session, or a case with its sessions.  The cascade reads the *)
(* cached list; it misses nothing because that list is fresh.              *)
LEMMA DeleteSteps ==
    ASSUME Inductive, DeleteCase \/ \E s \in Sessions : DeleteSession(s)
    PROVE  Inductive'
<1>0. /\ ui \in UiStates /\ sessions = store
      /\ \A s \in Sessions : store[s].case \in cases \cup {None}
      /\ \A s \in Sessions : store[s].status = "ABSENT" => store[s].case = None
      /\ UNCHANGED <<warmupReady, issued, consented>> => HistoryTypeOK'
  BY DEF Inductive, TypeOK, SessionsListFresh, CaseIntegrity, SessionExists, Stored,
     HistoryTypeOK
<1>1. CASE \E s \in Sessions : DeleteSession(s)
  <2>1. PICK s \in Sessions : DeleteSession(s)
    BY <1>1
  <2>2. UNCHANGED <<ui, capture, orphans, jobs, processingJob, stage, interrupts, cases>>
        /\ sessions' = store' /\ HistoryTypeOK'
    BY <1>0, <2>1 DEF DeleteSession, recorder, pipeline, RefreshSessions, KeepHistory
  <2>3. /\ DiskTypeOK'
        /\ \A t \in Sessions : store'[t].case \in cases' \cup {None}
        /\ \A t \in Sessions : store'[t].status = "ABSENT" => store'[t].case = None
    <3>1. Remove({s}) /\ {s} \in SUBSET Sessions
      BY <2>1 DEF DeleteSession
    <3> QED
      BY <1>0, <2>2, <3>1, RemoveStep
  <2>4. TypeOK'
    BY <2>2, <2>3 DEF Inductive, TypeOK, RecorderTypeOK, PipelineTypeOK
  <2>5. CaptureOwned' /\ SessionsListFresh' /\ CaseIntegrity'
    BY <2>2, <2>3 DEF Inductive, CaptureOwned, SessionsListFresh, CaseIntegrity
  <2>6. ProcessingHasJob'
    BY <2>2 DEF Inductive, ProcessingHasJob, Running
  <2>7. SessionExists'
    BY <2>2, <2>3 DEF Inductive, SessionExists, Stored
  <2> QED
    BY <2>4, <2>5, <2>6, <2>7 DEF Inductive
<1>2. CASE DeleteCase
  <2> DEFINE S == {s \in Sessions : sessions[s].status # "ABSENT" /\ sessions[s].case = ui.case}
  <2>1. /\ Remove(S) /\ cases' = cases \ {ui.case} /\ ClientOrHome /\ HistoryTypeOK'
        /\ ui.case # None
    BY <1>0, <1>2 DEF DeleteCase, KeepHistory
  <2>2. \A s \in Sessions \ S : store[s].case \in cases' \cup {None}
    BY <1>0, <2>1
  <2>3. S \in SUBSET Sessions
    OBVIOUS
  <2> HIDE DEF S
  <2>4. sessions' = store'
    BY <2>1 DEF ClientOrHome, ShowClient, ShowHome, RefreshSessions
  <2>5. /\ DiskTypeOK'
        /\ \A s \in Sessions : store'[s].case \in cases' \cup {None}
        /\ \A s \in Sessions : store'[s].status = "ABSENT" => store'[s].case = None
    BY <2>1, <2>2, <2>3, <2>4, RemoveStep
  <2>6. CASE ui.client = None
    BY <2>1, <2>5, <2>6, ShowHomeStep DEF ClientOrHome
  <2>7. CASE ui.client # None
    <3>1. ShowClient(ui.client)
      BY <2>1, <2>7 DEF ClientOrHome
    <3>2. UNCHANGED <<capture, orphans, jobs, processingJob, stage, interrupts>>
      BY <3>1 DEF ShowClient, recorder, pipeline
    <3>3. /\ ui' \in UiStates /\ ui'.phase = "CLIENT_PROFILE" /\ ui'.case = None
          /\ ui'.sid = ui.sid /\ ui'.isRecording = ui.isRecording
      BY <1>0, <3>1 DEF ShowClient, UiStates, Phases
    <3>4. TypeOK'
      BY <2>1, <2>5, <3>2, <3>3 DEF Inductive, TypeOK, RecorderTypeOK, PipelineTypeOK
    <3>5. CaptureOwned' /\ ProcessingHasJob' /\ SessionsListFresh' /\ CaseIntegrity'
      BY <2>4, <2>5, <3>2, <3>3 DEF Inductive, CaptureOwned, ProcessingHasJob,
         SessionsListFresh, CaseIntegrity
    <3>6. SessionExists'
      BY <2>5, <3>2, <3>3 DEF Inductive, SessionExists, Stored
    <3> QED
      BY <3>4, <3>5, <3>6 DEF Inductive
  <2> QED
    BY <2>6, <2>7
<1> QED
  BY <1>1, <1>2

-----------------------------------------------------------------------------
(* The end of the warmup, and a process that dies and starts again.        *)
LEMMA LaunchSteps ==
    ASSUME Inductive, WarmupDone \/ ProcessRestart
    PROVE  Inductive'
<1> USE ConsultationAssumption
<1>1. CASE WarmupDone
  <2>1. HistoryTypeOK' /\ UNCHANGED <<ui, recorder, pipeline>>
    BY <1>1 DEF WarmupDone, Inductive, TypeOK, HistoryTypeOK
  <2>2. UNCHANGED <<cases, store, deleted>> /\ sessions' \in {sessions, store}
    BY <1>1 DEF WarmupDone, disk
  <2>3. /\ RecorderTypeOK' /\ orphans' = {}
        /\ capture'.state = "LIVE" => ui'.isRecording /\ capture'.sid # None
    BY <2>1 DEF Inductive, TypeOK, RecorderTypeOK, recorder, CaptureOwned, SessionExists
  <2>4. /\ ui' \in UiStates /\ ui'.case \in cases \cup {None}
        /\ ui'.phase \in {"CONSENT", "CAPTURE", "PROCESSING", "RESULTS"} => ui'.sid # None
    BY <2>1 DEF Inductive, TypeOK, CaseIntegrity, SessionExists
  <2> QED
    BY <2>1, <2>2, <2>3, <2>4, ScreenStep
<1>2. CASE ProcessRestart
  <2>1. InitialUi \in UiStates
    BY DEF InitialUi, UiStates, Phases, NotesResults, Result
  <2>2. /\ DiskTypeOK' /\ SessionsListFresh'
        /\ \A s \in Sessions : store'[s].case \in cases' \cup {None}
        /\ \A s \in Sessions : store'[s].status = "ABSENT" => store'[s].case = None
    BY <1>2, DiskKept DEF ProcessRestart, KeepDisk, RefreshSessions
  <2>3. RecorderTypeOK'
    BY <1>2 DEF ProcessRestart, NoCapture, RecorderTypeOK
  <2>4. PipelineTypeOK'
    <3>1. IdleJob \in JobStates
      BY DEF IdleJob, JobStates, NotesResults, Result
    <3>2. jobs' \in [Jobs -> JobStates]
      BY <1>2, <3>1 DEF ProcessRestart
    <3> QED
      BY <1>2, <3>2 DEF ProcessRestart, Inductive, TypeOK, PipelineTypeOK
  <2>5. HistoryTypeOK'
    BY <1>2 DEF ProcessRestart, Inductive, TypeOK, HistoryTypeOK
  <2>6. TypeOK'
    BY <1>2, <2>1, <2>2, <2>3, <2>4, <2>5 DEF ProcessRestart, TypeOK
  <2>7. CaptureOwned' /\ ProcessingHasJob' /\ CaseIntegrity'
    BY <1>2, <2>2 DEF ProcessRestart, InitialUi, NoCapture, CaptureOwned,
       ProcessingHasJob, CaseIntegrity
  <2>8. SessionExists'
    BY <1>2, <2>2 DEF ProcessRestart, InitialUi, NoCapture, IdleJob, SessionExists, Stored
  <2> QED
    BY <2>2, <2>6, <2>7, <2>8 DEF Inductive
<1> QED
  BY <1>1, <1>2

(* Every step preserves the invariant.                                     *)
LEMMA NextInductive == Inductive /\ [Next]_vars => Inductive'
<1> SUFFICES ASSUME Inductive, [Next]_vars PROVE Inductive'
  OBVIOUS
<1>1. CASE UNCHANGED vars
  <2>1. UNCHANGED <<ui, capture, orphans, jobs, processingJob, stage, interrupts, cases,
                    store, sessions, deleted, warmupReady, issued, consented>>
    BY <1>1 DEF vars
  <2>2. TypeOK'
    BY <2>1 DEF Inductive, TypeOK, RecorderTypeOK, PipelineTypeOK, DiskTypeOK, HistoryTypeOK
  <2>3. CaptureOwned' /\ ProcessingHasJob' /\ SessionsListFresh' /\ CaseIntegrity'
    BY <2>1 DEF Inductive, CaptureOwned, ProcessingHasJob, Running, SessionsListFresh,
       CaseIntegrity
  <2>4. SessionExists'
    BY <2>1 DEF Inductive, SessionExists, Stored
  <2> QED
    BY <2>2, <2>3, <2>4 DEF Inductive
<1>2. CASE Next
  BY <1>2, NavigationSteps, CancelProcessingStep, StartNewConsultationStep, CaptureSteps,
     JobSteps, ResumeSteps, SealStep, DeleteSteps, LaunchSteps DEF Next
<1> QED
  BY <1>1, <1>2

(* The inductive invariant holds in every behaviour.                       *)
THEOREM InductiveInvariant == Spec => []Inductive
BY InitInductive, NextInductive, PTL DEF Spec

(* Every variable always holds a value of its type.                        *)
THEOREM TypeCorrect == Spec => []TypeOK
<1>1. Inductive => TypeOK
  BY DEF Inductive
<1> QED
  BY <1>1, InductiveInvariant, PTL

(* No capture job is ever lost track of, whatever the lawyer taps and      *)
(* whenever a cancelled job wakes up.                                      *)
THEOREM CaptureNeverLost == Spec => []CaptureOwned
<1>1. Inductive => CaptureOwned
  BY DEF Inductive
<1> QED
  BY <1>1, InductiveInvariant, PTL

(* The processing screen always has a running job behind it.               *)
THEOREM ProcessingNeverStranded == Spec => []ProcessingHasJob
<1>1. Inductive => ProcessingHasJob
  BY DEF Inductive
<1> QED
  BY <1>1, InductiveInvariant, PTL

(* The session list in memory is the one on disk.                          *)
THEOREM ListMatchesDisk == Spec => []SessionsListFresh
<1>1. Inductive => SessionsListFresh
  BY DEF Inductive
<1> QED
  BY <1>1, InductiveInvariant, PTL

(* Deleting a case leaves no record that refers to it, then or later.      *)
THEOREM NoDanglingCase == Spec => []CaseIntegrity
<1>1. Inductive => CaseIntegrity
  BY DEF Inductive
<1> QED
  BY <1>1, InductiveInvariant, PTL

-----------------------------------------------------------------------------
(***************************************************************************)
(* What holds as long as no running job is cancelled (MaxInterrupts = 0),  *)
(* for every number of clients, cases, sessions and lines, with saves that *)
(* fail and a process that restarts: isolation, consent, no lost line, and *)
(* that Consultation implements RecordLifecycle.                           *)
(***************************************************************************)

RecordScreens == {"CONSENT", "CAPTURE", "PROCESSING", "RESULTS"}

(* Lines and notes of session s: all of them its own, notes only where     *)
(* enough was said.                                                        *)
OwnRecord(s, lines, notes) ==
    /\ \A i \in DOMAIN lines : lines[i] = s
    /\ notes.facts \subseteq {s}
    /\ ~HasNotes(notes) => notes.facts = {}
    /\ HasNotes(notes) => ~Insufficient(lines)

(* A job that runs is the one processingJob refers to, the processing      *)
(* screen waits for it, and what it was given is still what is on screen.  *)
JobAtWork(j) ==
    /\ processingJob = j /\ ~jobs[j].cancelled
    /\ ui.phase = "PROCESSING"
    /\ jobs[j].segs = ui.segments
    /\ jobs[j].pc = "REASONING" => jobs[j].prior = ui.notes /\ ~Insufficient(ui.segments)

JobsAtWork == \A j \in Jobs : jobs[j].pc # "IDLE" => JobAtWork(j)

NoJobs == \A j \in Jobs : jobs[j].pc = "IDLE"

(* A capture runs on the capture screen only, for the session on it, which *)
(* was consented to.                                                       *)
CaptureAtWork ==
    capture.state = "LIVE" =>
        ui.phase = "CAPTURE" /\ capture.sid = ui.sid /\ capture.sid \in consented

ScreenOwned ==
    /\ ui.sid # None => ui.sid \in issued
    /\ OwnRecord(ui.sid, ui.segments, ui.notes)

StoreOwned ==
    \A s \in Sessions :
        /\ OwnRecord(s, store[s].lines, store[s].notes)
        /\ store[s].notes.kind \in {"NULL", "NOTES"}
        /\ s \in deleted => s \in issued /\ ~Stored(s)
        /\ Stored(s) => s \in issued /\ s \in consented
        /\ ~Stored(s) => store[s].notes.facts = {}

(* The session of a consultation screen is not deleted, and on disk with   *)
(* no more than is on screen.                                              *)
RecordShown ==
    ui.phase \in RecordScreens =>
        /\ ui.sid \notin deleted
        /\ ui.sid \in issued
        /\ ui.status = "IN_PROGRESS" => store[ui.sid].status # "SEALED"
        /\ ui.status = "SEALED" => ui.phase = "RESULTS" /\ ui.notes.kind # "INSUFFICIENT"
        /\ store[ui.sid].notes.facts \subseteq ui.notes.facts
        /\ ui.phase # "CONSENT" => ui.sid \in consented

Undisturbed == JobsAtWork /\ CaptureAtWork /\ ScreenOwned /\ StoreOwned /\ RecordShown

(* What NoLineLost and ImplementsLifecycle say of a step.                  *)
LineKept ==
    ui'.sid = ui.sid =>
        \/ /\ Len(ui.segments) <= Len(ui'.segments)
           /\ \A i \in DOMAIN ui.segments : ui'.segments[i] = ui.segments[i]
        \/ ui'.scripted /\ ui'.isRecording /\ ~ui.isRecording
        \/ ui'.phase = "RESULTS" /\ ui.phase = "CASE_PROFILE"

LifeStep == Lifecycle!Next \/ UNCHANGED Lifecycle!vars

Good == Undisturbed' /\ LineKept /\ LifeStep

-----------------------------------------------------------------------------
(* Shared parts.                                                           *)

(* Off the processing screen no job runs.                                  *)
LEMMA OffScreen ==
    ASSUME Undisturbed
    PROVE  /\ ui.phase # "PROCESSING" => NoJobs
           /\ ui.phase # "CAPTURE" => capture.state # "LIVE"
BY DEF Undisturbed, JobsAtWork, JobAtWork, NoJobs, CaptureAtWork

(* With no interruptions to spend, a job can be cancelled only when none   *)
(* runs.                                                                   *)
LEMMA CancelIdle ==
    ASSUME Inductive, Undisturbed, MaxInterrupts = 0, CancelProcessingJob
    PROVE  UNCHANGED pipeline /\ NoJobs
<1>1. interrupts = 0 /\ jobs \in [Jobs -> JobStates]
  BY DEF Inductive, TypeOK, PipelineTypeOK
<1>2. ~JobActive
  BY <1>1 DEF CancelProcessingJob
<1>3. NoJobs
  <2> SUFFICES ASSUME NEW j \in Jobs, jobs[j].pc # "IDLE" PROVE FALSE
    BY DEF NoJobs
  <2>1. processingJob = j /\ ~jobs[j].cancelled
    BY DEF Undisturbed, JobsAtWork, JobAtWork
  <2>2. j # None
    BY ConsultationAssumption
  <2> QED
    BY <1>2, <2>1, <2>2 DEF JobActive, Running
<1> QED
  BY <1>2, <1>3 DEF CancelProcessingJob, pipeline

(* What is on disk, left alone.                                            *)
LEMMA DiskLeftAlone ==
    ASSUME Undisturbed, UNCHANGED <<store, deleted>>,
           issued \subseteq issued', consented \subseteq consented'
    PROVE  StoreOwned' /\ LifeStep
<1>1. StoreOwned'
  BY DEF Undisturbed, StoreOwned, Stored
<1>2. UNCHANGED Lifecycle!vars
  BY DEF Lifecycle!vars, Stored
<1> QED
  BY <1>1, <1>2 DEF LifeStep

(* The screen leaves the record, or stays away from it.                    *)
LEMMA OffRecord ==
    ASSUME Inductive, Undisturbed, NoJobs', capture'.state # "LIVE",
           ui'.phase \notin RecordScreens,
           ui'.sid = ui.sid, ui'.segments = ui.segments, ui'.notes = ui.notes,
           UNCHANGED issued, StoreOwned', LifeStep
    PROVE  Good
<1>1. ui.segments \in Seq(Sessions)
  BY DEF Inductive, TypeOK, UiStates
<1>2. LineKept
  BY <1>1 DEF LineKept
<1>3. JobsAtWork' /\ CaptureAtWork' /\ RecordShown'
  BY DEF NoJobs, JobsAtWork, CaptureAtWork, RecordShown
<1>4. ScreenOwned'
  BY DEF Undisturbed, ScreenOwned, OwnRecord, HasNotes, Insufficient
<1> QED
  BY <1>2, <1>3, <1>4 DEF Good, Undisturbed

-----------------------------------------------------------------------------
(* Navigation.                                                             *)

(* Home, by whatever way.                                                  *)
LEMMA HomeGood ==
    ASSUME Inductive, Undisturbed, MaxInterrupts = 0,
           ShowHome, StoreOwned', LifeStep, KeepHistory
    PROVE  Good
<1>1. UNCHANGED pipeline /\ NoJobs
  BY CancelIdle DEF ShowHome
<1>2. NoJobs' /\ capture'.state # "LIVE"
  BY <1>1 DEF NoJobs, pipeline, ShowHome, CancelCapture, NoCapture
<1>3. /\ ui'.phase = "HOME" /\ ui'.sid = ui.sid /\ ui'.segments = ui.segments
      /\ ui'.notes = ui.notes /\ issued' = issued
  BY DEF ShowHome, KeepHistory, Inductive, TypeOK, UiStates
<1> QED
  BY <1>2, <1>3, OffRecord DEF RecordScreens

(* A client, from a screen on which nothing runs.                          *)
LEMMA ClientGood ==
    ASSUME Inductive, Undisturbed, NEW c, ui.phase \in {"HOME", "CASE_PROFILE"},
           ShowClient(c), StoreOwned', LifeStep, KeepHistory
    PROVE  Good
<1>1. NoJobs' /\ capture'.state # "LIVE"
  BY OffScreen DEF NoJobs, pipeline, recorder, ShowClient
<1>2. /\ ui'.phase = "CLIENT_PROFILE" /\ ui'.sid = ui.sid /\ ui'.segments = ui.segments
      /\ ui'.notes = ui.notes /\ issued' = issued
  BY DEF ShowClient, KeepHistory, Inductive, TypeOK, UiStates
<1> QED
  BY <1>1, <1>2, OffRecord DEF RecordScreens

(* A case, from a screen on which nothing runs or from the capture screen. *)
LEMMA CaseGood ==
    ASSUME Inductive, Undisturbed, NEW k, ui.phase # "PROCESSING",
           ShowCase(k), KeepDisk, KeepHistory,
           CancelCapture \/ (UNCHANGED recorder /\ ui.phase # "CAPTURE")
    PROVE  Good
<1>1. NoJobs' /\ capture'.state # "LIVE"
  BY OffScreen DEF NoJobs, pipeline, recorder, ShowCase, CancelCapture, NoCapture
<1>2. /\ ui'.phase = "CASE_PROFILE" /\ ui'.sid = ui.sid /\ ui'.segments = ui.segments
      /\ ui'.notes = ui.notes /\ issued' = issued
  BY DEF ShowCase, KeepHistory, Inductive, TypeOK, UiStates
<1>3. StoreOwned' /\ LifeStep
  BY DiskLeftAlone DEF KeepDisk, KeepHistory
<1> QED
  BY <1>1, <1>2, <1>3, OffRecord DEF RecordScreens

LEMMA NavigationGood ==
    ASSUME Inductive, Undisturbed, MaxInterrupts = 0,
           \/ GoHome \/ BackToCase \/ BackFromCapture \/ BackToClient
           \/ \E c \in Clients : OpenClient(c)
           \/ \E k \in Cases : OpenCase(k)
    PROVE  Good
<1>0. KeepDisk /\ KeepHistory
  BY DEF GoHome, BackToCase, BackFromCapture, BackToClient, OpenClient, OpenCase
<1>1. StoreOwned' /\ LifeStep
  BY <1>0, DiskLeftAlone DEF KeepDisk, KeepHistory
<1>2. CASE ShowHome
  BY <1>0, <1>1, <1>2, HomeGood
<1>3. CASE BackToCase
  BY <1>0, <1>2, <1>3, CaseGood DEF BackToCase
<1>4. CASE BackFromCapture
  BY <1>0, <1>2, <1>4, CaseGood DEF BackFromCapture
<1>5. CASE BackToClient
  BY <1>0, <1>1, <1>2, <1>5, ClientGood DEF BackToClient, ClientOrHome
<1>6. CASE \E c \in Clients : OpenClient(c)
  BY <1>0, <1>1, <1>6, ClientGood DEF OpenClient
<1>7. CASE \E k \in Cases : OpenCase(k)
  BY <1>0, <1>7, CaseGood DEF OpenCase
<1> QED
  BY <1>2, <1>3, <1>4, <1>5, <1>6, <1>7 DEF GoHome

(* A running job cannot be cancelled, and the processing screen shows only *)
(* while one runs.                                                         *)
LEMMA CancelImpossible ==
    ASSUME Inductive, Undisturbed, MaxInterrupts = 0
    PROVE  ~CancelProcessing
<1> SUFFICES ASSUME CancelProcessing PROVE FALSE
  OBVIOUS
<1>1. NoJobs
  BY CancelIdle DEF CancelProcessing
<1>2. \E j \in Jobs : Running(j)
  BY DEF CancelProcessing, Inductive, ProcessingHasJob
<1> QED
  BY <1>1, <1>2 DEF Running, NoJobs

-----------------------------------------------------------------------------
(* The consultation, up to its capture.                                    *)

LEMMA StartNewConsultationGood ==
    ASSUME Inductive, Undisturbed, MaxInterrupts = 0,
           NEW s \in Sessions, StartNewConsultation(s)
    PROVE  Good
<1>1. UNCHANGED pipeline /\ NoJobs
  BY CancelIdle DEF StartNewConsultation
<1>2. NoJobs' /\ capture'.state # "LIVE"
  BY <1>1 DEF NoJobs, pipeline, StartNewConsultation, CancelCapture, NoCapture
<1>3. /\ ui'.phase = "CONSENT" /\ ui'.sid = s /\ ui'.status = "IN_PROGRESS"
      /\ ui'.segments = <<>> /\ ui'.notes = Result("NULL")
  BY DEF StartNewConsultation, FreshUi, Inductive, TypeOK, UiStates
<1>4. /\ s \notin issued /\ issued' = issued \cup {s} /\ consented' = consented
      /\ UNCHANGED <<store, deleted>>
  BY DEF StartNewConsultation, disk
<1>5. s \notin deleted /\ ~Stored(s) /\ store[s].notes.facts = {} /\ ui.sid # s
  BY <1>4, ConsultationAssumption DEF Undisturbed, StoreOwned, ScreenOwned
<1>6. StoreOwned' /\ LifeStep
  BY <1>4, DiskLeftAlone
<1>7. JobsAtWork' /\ CaptureAtWork' /\ LineKept
  BY <1>2, <1>3, <1>5 DEF NoJobs, JobsAtWork, CaptureAtWork, LineKept
<1>8. ScreenOwned'
  BY <1>3, <1>4 DEF ScreenOwned, OwnRecord, Result, HasNotes
<1>9. RecordShown'
  BY <1>3, <1>4, <1>5 DEF RecordShown, RecordScreens, Result, Stored
<1> QED
  BY <1>6, <1>7, <1>8, <1>9 DEF Good, Undisturbed

(* A step on the same session that leaves jobs and disk alone, and shows   *)
(* the transcript with no line lost and no line of another session.        *)
LEMMA SameRecord ==
    ASSUME Inductive, Undisturbed, UNCHANGED <<store, deleted, issued>>,
           consented \subseteq consented',
           ui'.sid = ui.sid, ui.phase \in RecordScreens, ui'.phase \in RecordScreens,
           ui.status = "IN_PROGRESS", ui'.status = ui.status, ui'.notes = ui.notes,
           ui'.phase # "CONSENT" => ui.sid \in consented',
           JobsAtWork', CaptureAtWork', LineKept,
           OwnRecord(ui.sid, ui'.segments, ui.notes)
    PROVE  Good
<1>1. StoreOwned' /\ LifeStep
  BY DiskLeftAlone
<1>2. ScreenOwned'
  BY DEF Undisturbed, ScreenOwned, OwnRecord, HasNotes, Insufficient
<1>3. RecordShown'
  BY DEF Undisturbed, RecordShown
<1> QED
  BY <1>1, <1>2, <1>3 DEF Good, Undisturbed

(* Idle jobs that stay idle.                                               *)
LEMMA StayIdle ==
    ASSUME NoJobs, UNCHANGED pipeline
    PROVE  JobsAtWork' /\ NoJobs'
BY DEF NoJobs, pipeline, JobsAtWork

(* On the capture screen the record is in progress.                        *)
LEMMA InProgress ==
    ASSUME Inductive, Undisturbed, ui.phase \in RecordScreens, ui.phase # "RESULTS"
    PROVE  ui.status = "IN_PROGRESS" /\ store[ui.sid].status # "SEALED"
BY DEF Inductive, TypeOK, UiStates, Undisturbed, RecordShown

LEMMA ConsentGood ==
    ASSUME Inductive, Undisturbed, OnConsent
    PROVE  Good
<1>1. /\ ui.phase = "CONSENT" /\ ui'.phase = "CAPTURE" /\ ui'.sid = ui.sid
      /\ ui'.status = ui.status /\ ui'.segments = ui.segments /\ ui'.notes = ui.notes
      /\ ui.segments \in Seq(Sessions)
  BY DEF OnConsent, Inductive, TypeOK, UiStates
<1>2. /\ UNCHANGED <<store, deleted, issued, capture>> /\ UNCHANGED pipeline
      /\ consented' = consented \cup {ui.sid}
  BY DEF OnConsent, disk, recorder
<1>3. ui.status = "IN_PROGRESS"
  BY <1>1, InProgress DEF RecordScreens
<1>4. JobsAtWork' /\ CaptureAtWork' /\ LineKept
  BY <1>1, <1>2, OffScreen, StayIdle DEF CaptureAtWork, LineKept
<1>5. OwnRecord(ui.sid, ui'.segments, ui.notes)
  BY <1>1 DEF Undisturbed, ScreenOwned
<1> QED
  BY <1>1, <1>2, <1>3, <1>4, <1>5, SameRecord DEF RecordScreens

(* Starting the microphone, the script, and the end of either.             *)
LEMMA RecordingGood ==
    ASSUME Inductive, Undisturbed, StartRecording \/ LoadScript
    PROVE  Good
<1>1. /\ ui.phase = "CAPTURE" /\ ui'.phase = "CAPTURE" /\ ui'.sid = ui.sid
      /\ ui'.status = ui.status /\ ui'.notes = ui.notes
      /\ ui.segments \in Seq(Sessions) /\ ui.sid \in consented
  BY ZenonT(60) DEF StartRecording, LoadScript, RecordButton, ScriptButton, Inductive, TypeOK,
     UiStates, Undisturbed, RecordShown, RecordScreens
<1>2. /\ UNCHANGED <<store, deleted, issued, consented>> /\ UNCHANGED pipeline
      /\ capture'.sid = ui.sid
  BY DEF StartRecording, LoadScript, NewCapture, disk, KeepHistory
<1>3. ui.status = "IN_PROGRESS"
  BY <1>1, InProgress DEF RecordScreens
<1>4. JobsAtWork' /\ CaptureAtWork'
  BY <1>1, <1>2, OffScreen, StayIdle DEF CaptureAtWork
<1>5. OwnRecord(ui.sid, ui.segments, ui.notes)
  BY DEF Undisturbed, ScreenOwned
<1>6. CASE ui'.segments = ui.segments
  BY <1>1, <1>2, <1>3, <1>4, <1>5, <1>6, SameRecord DEF RecordScreens, LineKept
<1>7. CASE ui'.segments = <<>> /\ ~HasNotes(ui.notes) /\ LoadScript
  <2>1. LineKept
    BY <1>7 DEF LoadScript, ScriptButton, LineKept, Inductive, TypeOK, UiStates
  <2>2. OwnRecord(ui.sid, ui'.segments, ui.notes)
    BY <1>5, <1>7 DEF OwnRecord
  <2> QED
    BY <1>1, <1>2, <1>3, <1>4, <2>1, <2>2, SameRecord DEF RecordScreens
<1>8. ui'.segments = ui.segments \/ (ui'.segments = <<>> /\ ~HasNotes(ui.notes) /\ LoadScript)
  BY DEF StartRecording, LoadScript, Inductive, TypeOK, UiStates
<1> QED
  BY <1>6, <1>7, <1>8

(* A line is appended to the transcript of the session that speaks.        *)
LEMMA LineGood ==
    ASSUME Inductive, Undisturbed, HandleCaptureEvent
    PROVE  Good
<1>1. PICK c \in LiveCaptures : ui' = [ui EXCEPT !.segments = Append(@, c.sid)]
  BY DEF HandleCaptureEvent
<1>2. capture.state = "LIVE" /\ c.sid = ui.sid /\ ui.phase = "CAPTURE"
  BY DEF LiveCaptures, Inductive, CaptureOwned, Undisturbed, CaptureAtWork
<1>3. ui \in UiStates /\ ui.segments \in Seq(Sessions) /\ ui.sid \in Sessions
  BY <1>2 DEF Inductive, TypeOK, UiStates, SessionExists
<1>4. /\ ui'.phase = "CAPTURE" /\ ui'.sid = ui.sid /\ ui'.status = ui.status
      /\ ui'.notes = ui.notes /\ ui'.segments = Append(ui.segments, ui.sid)
  BY <1>1, <1>2, <1>3 DEF UiStates
<1>5. /\ UNCHANGED <<store, deleted, issued, consented, capture>> /\ UNCHANGED pipeline
  BY DEF HandleCaptureEvent, disk, KeepHistory, recorder
<1>6. ui.status = "IN_PROGRESS"
  BY <1>2, InProgress DEF RecordScreens
<1>7. JobsAtWork' /\ CaptureAtWork'
  BY <1>2, <1>4, <1>5, OffScreen, StayIdle DEF Undisturbed, CaptureAtWork
<1>8. LineKept
  BY <1>3, <1>4 DEF LineKept
<1>9. OwnRecord(ui.sid, ui'.segments, ui.notes)
  BY <1>3, <1>4, ConsultationAssumption DEF Undisturbed, ScreenOwned, OwnRecord, Insufficient
<1>10. ui.sid \in consented
  BY <1>2 DEF Undisturbed, CaptureAtWork
<1> QED
  BY <1>2, <1>4, <1>5, <1>6, <1>7, <1>8, <1>9, <1>10, SameRecord DEF RecordScreens

LEMMA CaptureEndsGood ==
    ASSUME Inductive, Undisturbed, CaptureEnds
    PROVE  Good
<1>1. /\ UNCHANGED <<ui, store, deleted, issued, consented>> /\ UNCHANGED pipeline
      /\ capture'.state # "LIVE" /\ ui.phase = "CAPTURE"
  BY DEF CaptureEnds, disk, KeepHistory, Inductive, TypeOK, RecorderTypeOK, Undisturbed,
     CaptureAtWork
<1>2. ui.status = "IN_PROGRESS" /\ ui.segments \in Seq(Sessions)
  BY <1>1, InProgress DEF RecordScreens, Inductive, TypeOK, UiStates
<1>3. JobsAtWork' /\ CaptureAtWork' /\ LineKept
  BY <1>1, <1>2, OffScreen, StayIdle DEF CaptureAtWork, LineKept
<1>4. OwnRecord(ui.sid, ui'.segments, ui.notes) /\ ui.sid \in consented
  BY <1>1 DEF Undisturbed, ScreenOwned, RecordShown, RecordScreens
<1> QED
  BY <1>1, <1>2, <1>3, <1>4, SameRecord DEF RecordScreens

(* Continuing: what may be continued is in progress.                       *)
LEMMA ContinueGood ==
    ASSUME Inductive, Undisturbed, ContinueConsultation
    PROVE  Good
<1>1. /\ UNCHANGED <<store, deleted, issued, consented, capture>> /\ UNCHANGED pipeline
      /\ ui.phase = "RESULTS" /\ ui'.phase = "CAPTURE" /\ ui'.sid = ui.sid
      /\ ui'.status = ui.status /\ ui'.notes = ui.notes /\ ui'.segments = ui.segments
      /\ ui.segments \in Seq(Sessions)
  BY DEF ContinueConsultation, disk, KeepHistory, recorder, Inductive, TypeOK, UiStates
<1>2. ui.status = "IN_PROGRESS" /\ ui.sid \in consented
  BY <1>1 DEF ContinueConsultation, ContinueOffered, CanResume, Undisturbed, RecordShown,
     RecordScreens, Inductive, TypeOK, UiStates
<1>3. JobsAtWork' /\ CaptureAtWork' /\ LineKept
  BY <1>1, OffScreen, StayIdle DEF CaptureAtWork, LineKept
<1>4. OwnRecord(ui.sid, ui'.segments, ui.notes)
  BY <1>1 DEF Undisturbed, ScreenOwned
<1> QED
  BY <1>1, <1>2, <1>3, <1>4, SameRecord DEF RecordScreens

-----------------------------------------------------------------------------
(* Saving.                                                                 *)

(* Writing a record that grows is a step of the abstract record.           *)
LEMMA WriteLife ==
    ASSUME Inductive, Undisturbed, NEW s \in Sessions, NEW r \in Records,
           r.status \in {"IN_PROGRESS", "SEALED"}, OwnRecord(s, r.lines, r.notes),
           s \notin deleted, store[s].status # "SEALED",
           store[s].notes.facts \subseteq r.notes.facts,
           store' = [store EXCEPT ![s] = r], deleted' = deleted
    PROVE  LifeStep
<1> DEFINE status(t) == IF t \in deleted /\ ~Stored(t) THEN "DELETED" ELSE store[t].status
           speech(t) == {store[t].lines[i] : i \in DOMAIN store[t].lines}
<1>1. store \in [Sessions -> Records]
  BY DEF Inductive, TypeOK, DiskTypeOK
<1>2. \A t \in Sessions : store'[t] = IF t = s THEN r ELSE store[t]
  BY <1>1
<1>3. status(s) \in {"ABSENT", "IN_PROGRESS"}
  BY <1>1 DEF Records
<1>4. [t \in Sessions |-> status(t)]' = [[t \in Sessions |-> status(t)] EXCEPT ![s] = r.status]
  <2>1. \A t \in Sessions : status(t)' = IF t = s THEN r.status ELSE status(t)
    BY <1>2 DEF Stored
  <2> QED
    BY <2>1
<1>5. [t \in Sessions |-> store[t].notes.facts]'
        = [[t \in Sessions |-> store[t].notes.facts] EXCEPT ![s] = r.notes.facts]
  <2>1. \A t \in Sessions : store'[t].notes.facts = IF t = s THEN r.notes.facts
                                                             ELSE store[t].notes.facts
    BY <1>2
  <2> QED
    BY <2>1
<1>6. [t \in Sessions |-> speech(t)]'
        = [[t \in Sessions |-> speech(t)] EXCEPT ![s] = {r.lines[i] : i \in DOMAIN r.lines}]
  <2>1. \A t \in Sessions : speech(t)' = IF t = s THEN {r.lines[i] : i \in DOMAIN r.lines}
                                                   ELSE speech(t)
    <3>1. speech(s)' = {r.lines[i] : i \in DOMAIN r.lines}
      BY <1>2
    <3>2. ASSUME NEW t \in Sessions, t # s PROVE speech(t)' = speech(t)
      <4>1. store'[t] = store[t]
        BY <1>2, <3>2
      <4> QED
        BY <4>1
    <3> HIDE DEF speech
    <3> QED
      BY <3>1, <3>2
  <2> HIDE DEF speech
  <2> QED
    BY <2>1
<1>7. r.notes.facts \in SUBSET {s} /\ {r.lines[i] : i \in DOMAIN r.lines} \in SUBSET {s}
  BY DEF OwnRecord
<1>8. Lifecycle!Write(s, r.status)
  BY <1>3, <1>4, <1>5, <1>6, <1>7 DEF Lifecycle!Write
<1> QED
  BY <1>8 DEF LifeStep, Lifecycle!Next, Lifecycle!Save, Lifecycle!Seal

(* A save, done or failed.                                                 *)
LEMMA SaveGood ==
    ASSUME Inductive, Undisturbed, NEW u \in UiStates,
           NEW status \in {"IN_PROGRESS", "SEALED"}, Persist(u, status),
           u.sid # None, u.sid \notin deleted, u.sid \in issued, u.sid \in consented,
           store[u.sid].status # "SEALED", store[u.sid].notes.facts \subseteq u.notes.facts,
           OwnRecord(u.sid, u.segments, u.notes), UNCHANGED <<deleted, issued, consented>>
    PROVE  /\ StoreOwned' /\ LifeStep
           /\ store'[u.sid].notes.facts \subseteq u.notes.facts
           /\ store'[u.sid].status \in {store[u.sid].status, status}
<1>1. CASE store' = store
  BY <1>1, DiskLeftAlone
<1>2. CASE store' = [store EXCEPT ![u.sid] = Saved(u, status)]
  <2> DEFINE r == Saved(u, status)
  <2>1. u.sid \in Sessions /\ store \in [Sessions -> Records] /\ u.notes \in NotesResults
    BY DEF UiStates, Inductive, TypeOK, DiskTypeOK
  <2>2. r \in Records /\ r.status = status /\ r.lines = u.segments
        /\ r.notes = NotesOrNull(u.notes)
    BY SavedType DEF Saved
  <2> HIDE DEF r
  <2>3. /\ OwnRecord(u.sid, r.lines, r.notes) /\ r.notes.kind \in {"NULL", "NOTES"}
        /\ r.notes.facts = u.notes.facts
    <3>1. CASE HasNotes(u.notes)
      BY <2>2, <3>1 DEF NotesOrNull, HasNotes
    <3>2. CASE ~HasNotes(u.notes)
      <4>1. r.notes.kind = "NULL" /\ r.notes.facts = {} /\ u.notes.facts = {}
        BY <2>2, <3>2 DEF NotesOrNull, Result, OwnRecord
      <4> QED
        BY <2>2, <4>1 DEF OwnRecord, HasNotes
    <3> QED
      BY <3>1, <3>2
  <2>4. LifeStep
    BY <1>2, <2>1, <2>2, <2>3, WriteLife DEF r
  <2>5. \A t \in Sessions : store'[t] = IF t = u.sid THEN r ELSE store[t]
    BY <1>2, <2>1 DEF r
  <2>6. StoreOwned'
    BY <2>1, <2>2, <2>3, <2>5 DEF Undisturbed, StoreOwned, Stored
  <2> QED
    BY <2>1, <2>2, <2>3, <2>4, <2>5, <2>6
<1> QED
  BY <1>1, <1>2 DEF Persist

-----------------------------------------------------------------------------
(* The processing job.                                                     *)

(* What a pass learns of a transcript is added to what was known.          *)
LEMMA MergeOwn ==
    ASSUME NEW s \in Sessions, NEW lines, NEW notes \in NotesResults,
           OwnRecord(s, lines, notes), ~Insufficient(lines), NEW result \in Generated(lines)
    PROVE  /\ OwnRecord(s, lines, MergeWithPrior(notes, result))
           /\ notes.facts \subseteq MergeWithPrior(notes, result).facts
<1>1. /\ result.facts \subseteq {s}
      /\ ~HasNotes(result) => result.facts = {}
  BY DEF Generated, OwnRecord, Notes, Result, HasNotes
<1>2. CASE ~HasNotes(notes)
  BY <1>1, <1>2 DEF MergeWithPrior, OwnRecord
<1>3. CASE HasNotes(notes) /\ HasNotes(result)
  BY <1>1, <1>3 DEF MergeWithPrior, OwnRecord, Notes, HasNotes
<1>4. CASE HasNotes(notes) /\ ~HasNotes(result)
  BY <1>4 DEF MergeWithPrior, OwnRecord
<1> QED
  BY <1>2, <1>3, <1>4

(* While one job runs, every other is idle.                                *)
LEMMA OneJob ==
    ASSUME Undisturbed, NEW j \in Jobs, jobs[j].pc # "IDLE"
    PROVE  \A i \in Jobs \ {j} : jobs[i].pc = "IDLE"
BY DEF Undisturbed, JobsAtWork, JobAtWork

(* The notes come back to the screen that waits for them.                  *)
LEMMA NotesReturnGood ==
    ASSUME Inductive, Undisturbed, NEW j \in Jobs, NotesReturn(j)
    PROVE  Good
<1>1. /\ ui.phase = "PROCESSING" /\ ~jobs[j].cancelled /\ jobs[j].segs = ui.segments
      /\ jobs[j].prior = ui.notes /\ ~Insufficient(ui.segments)
      /\ jobs[j].pc = "REASONING"
  BY DEF NotesReturn, Undisturbed, JobsAtWork, JobAtWork
<1>2. PICK result \in Generated(ui.segments) : Conclude(j, ui, ui.notes, result)
  BY <1>1 DEF NotesReturn
<1> DEFINE shown == [ui EXCEPT !.notes = MergeWithPrior(ui.notes, result), !.phase = "RESULTS"]
<1>3. /\ ui \in UiStates /\ ui.sid \in Sessions /\ ui.segments \in Seq(Sessions)
      /\ ui.notes \in NotesResults /\ result \in NotesResults
  BY <1>1, GeneratedType DEF Inductive, TypeOK, UiStates, SessionExists
<1>4. /\ shown \in UiStates /\ shown.sid = ui.sid /\ shown.phase = "RESULTS"
      /\ shown.status = ui.status /\ shown.segments = ui.segments
      /\ shown.notes = MergeWithPrior(ui.notes, result)
  BY <1>3, MergeType DEF UiStates, Phases
<1>5. /\ ui' = shown /\ Persist(shown, "IN_PROGRESS") /\ Finish(j)
      /\ UNCHANGED <<deleted, issued, consented, capture>>
  BY <1>2 DEF Conclude, NotesReturn, KeepHistory, recorder
<1> HIDE DEF shown
<1>6. /\ OwnRecord(shown.sid, shown.segments, shown.notes)
      /\ ui.notes.facts \subseteq shown.notes.facts
  BY <1>1, <1>3, <1>4, MergeOwn DEF Undisturbed, ScreenOwned
<1>7. /\ ui.sid \notin deleted /\ ui.sid \in issued /\ ui.sid \in consented
      /\ ui.status = "IN_PROGRESS" /\ store[ui.sid].status # "SEALED"
      /\ store[ui.sid].notes.facts \subseteq ui.notes.facts
  BY <1>1, InProgress DEF Undisturbed, RecordShown, RecordScreens
<1>8. /\ StoreOwned' /\ LifeStep
      /\ store'[ui.sid].notes.facts \subseteq shown.notes.facts
      /\ store'[ui.sid].status \in {store[ui.sid].status, "IN_PROGRESS"}
  BY <1>3, <1>4, <1>5, <1>6, <1>7, SaveGood, ConsultationAssumption
<1>9. NoJobs'
  BY <1>1, <1>5, OneJob DEF Finish, IdleJob, NoJobs, Inductive, TypeOK, PipelineTypeOK
<1>10. JobsAtWork' /\ CaptureAtWork' /\ LineKept
  BY <1>1, <1>3, <1>4, <1>5, <1>9, OffScreen DEF NoJobs, JobsAtWork, CaptureAtWork, LineKept
<1>11. ScreenOwned' /\ RecordShown'
  BY <1>4, <1>5, <1>6, <1>7, <1>8 DEF ScreenOwned, RecordShown
<1> QED
  BY <1>8, <1>10, <1>11 DEF Good, Undisturbed

(* generateNotes up to its engine call, in the job the screen waits for.   *)
LEMMA GenerateNotesGood ==
    ASSUME Inductive, Undisturbed, NEW j \in Jobs, NEW u \in UiStates,
           ui.phase \in {"CAPTURE", "PROCESSING"}, ui.sid # None,
           u.phase = "PROCESSING", u.sid = ui.sid, u.status = ui.status,
           u.segments = ui.segments, u.notes = ui.notes,
           \A i \in Jobs \ {j} : jobs[i].pc = "IDLE",
           GenerateNotes(j, u, FALSE), processingJob' = j, capture'.state # "LIVE",
           UNCHANGED <<issued, consented>>
    PROVE  Good
<1>1. /\ ui.sid \in Sessions /\ ui.segments \in Seq(Sessions) /\ jobs \in [Jobs -> JobStates]
  BY DEF Inductive, TypeOK, UiStates, PipelineTypeOK
<1>2. UNCHANGED <<store, deleted>>
  BY DEF GenerateNotes, disk
<1>3. StoreOwned' /\ LifeStep
  BY <1>2, DiskLeftAlone
<1>4. /\ ui.sid \notin deleted /\ ui.sid \in issued /\ ui.sid \in consented
      /\ ui.status = "IN_PROGRESS" /\ store[ui.sid].status # "SEALED"
      /\ store[ui.sid].notes.facts \subseteq ui.notes.facts
      /\ OwnRecord(ui.sid, ui.segments, ui.notes)
  BY InProgress DEF Undisturbed, ScreenOwned, RecordShown, RecordScreens
<1>5. CASE Insufficient(ui.segments)
  <2>1. /\ ui'.phase = "RESULTS" /\ ui'.sid = ui.sid /\ ui'.status = ui.status
        /\ ui'.segments = ui.segments /\ ui'.notes = Result("INSUFFICIENT") /\ Finish(j)
    BY <1>5, ZenonT(60) DEF GenerateNotes, ShowInsufficient, UiStates
  <2>2. ui.notes.facts = {} /\ ui'.notes.facts = {} /\ ~HasNotes(ui'.notes)
    BY <1>4, <1>5, <2>1 DEF OwnRecord, Result, HasNotes
  <2>3. NoJobs'
    BY <1>1, <2>1 DEF Finish, IdleJob, NoJobs
  <2>4. JobsAtWork' /\ CaptureAtWork' /\ LineKept
    BY <1>1, <2>1, <2>3 DEF NoJobs, JobsAtWork, CaptureAtWork, LineKept
  <2>5. ScreenOwned' /\ RecordShown'
    BY <1>2, <1>4, <2>1, <2>2 DEF ScreenOwned, OwnRecord, RecordShown
  <2> QED
    BY <1>3, <2>4, <2>5 DEF Good, Undisturbed
<1>6. CASE ~Insufficient(ui.segments)
  <2>1. ui' = u /\ Await(j, "REASONING", u.segments, u.notes)
    BY <1>6 DEF GenerateNotes
  <2>2. /\ jobs'[j].segs = ui'.segments /\ jobs'[j].prior = ui'.notes /\ ~jobs'[j].cancelled
        /\ \A i \in Jobs \ {j} : jobs'[i].pc = "IDLE"
    BY <1>1, <2>1 DEF Await
  <2>3. ~Insufficient(ui'.segments)
    BY <1>6, <2>1
  <2>4. JobsAtWork'
    BY <2>1, <2>2, <2>3 DEF JobsAtWork, JobAtWork, Insufficient
  <2>5. CaptureAtWork' /\ LineKept
    BY <1>1, <2>1 DEF CaptureAtWork, LineKept
  <2>6. ScreenOwned' /\ RecordShown'
    BY <1>2, <1>4, <2>1 DEF ScreenOwned, OwnRecord, Insufficient, HasNotes, RecordShown
  <2> QED
    BY <1>3, <2>4, <2>5, <2>6 DEF Good, Undisturbed
<1> QED
  BY <1>5, <1>6

LEMMA StopAndProcessGood ==
    ASSUME Inductive, Undisturbed, NEW j \in Jobs, StopAndProcess(j)
    PROVE  Good
<1> DEFINE shown == [ui EXCEPT !.isRecording = FALSE, !.phase = "PROCESSING"]
<1>1. /\ ui \in UiStates /\ ui.phase = "CAPTURE" /\ ui.sid \in Sessions /\ ui.sid # None
      /\ ui.segments \in Seq(Sessions) /\ jobs \in [Jobs -> JobStates]
  BY ConsultationAssumption DEF StopAndProcess, RecordButton, Inductive, TypeOK, UiStates,
     SessionExists, PipelineTypeOK
<1>2. /\ shown \in UiStates /\ shown.phase = "PROCESSING" /\ shown.sid = ui.sid
      /\ shown.status = ui.status /\ shown.segments = ui.segments /\ shown.notes = ui.notes
  BY <1>1 DEF UiStates, Phases
<1>3. NoJobs
  BY <1>1, OffScreen
<1>4. /\ processingJob' = j /\ capture'.state # "LIVE" /\ UNCHANGED <<issued, consented>>
  BY DEF StopAndProcess, CancelCapture, NoCapture, KeepHistory
<1>5. CASE ~ui.scripted /\ ui.segments # <<>>
  <2>1. /\ ui' = shown /\ Await(j, "ATTRIBUTING", ui.segments, Result("NULL"))
        /\ UNCHANGED <<store, deleted>>
    BY <1>5 DEF StopAndProcess, disk
  <2> HIDE DEF shown
  <2>2. /\ jobs'[j].segs = ui'.segments /\ jobs'[j].pc = "ATTRIBUTING" /\ ~jobs'[j].cancelled
        /\ \A i \in Jobs \ {j} : jobs'[i].pc = "IDLE"
    BY <1>1, <1>2, <1>3, <2>1 DEF Await, NoJobs
  <2>3. JobsAtWork'
    BY <1>2, <1>4, <2>1, <2>2 DEF JobsAtWork, JobAtWork
  <2>4. CaptureAtWork' /\ LineKept
    BY <1>1, <1>2, <1>4, <2>1 DEF CaptureAtWork, LineKept
  <2>5. StoreOwned' /\ LifeStep
    BY <1>4, <2>1, DiskLeftAlone
  <2>6. ScreenOwned'
    BY <1>2, <1>4, <2>1 DEF Undisturbed, ScreenOwned, OwnRecord, Insufficient, HasNotes
  <2>7. RecordShown'
    BY <1>1, <1>2, <1>4, <2>1 DEF Undisturbed, RecordShown, RecordScreens
  <2> QED
    BY <2>3, <2>4, <2>5, <2>6, <2>7 DEF Good, Undisturbed
<1>6. CASE ~(~ui.scripted /\ ui.segments # <<>>)
  <2>1. GenerateNotes(j, shown, FALSE)
    BY <1>6 DEF StopAndProcess
  <2> HIDE DEF shown
  <2> QED
    BY <1>1, <1>2, <1>3, <1>4, <2>1, GenerateNotesGood DEF NoJobs
<1> QED
  BY <1>5, <1>6

(* The relabelled copy has every line that is on screen.                   *)
LEMMA AttributionReturnsGood ==
    ASSUME Inductive, Undisturbed, NEW j \in Jobs, AttributionReturns(j)
    PROVE  Good
<1> DEFINE u == [ui EXCEPT !.segments = jobs[j].segs]
<1>1. /\ ui.phase = "PROCESSING" /\ jobs[j].cancelled = FALSE /\ jobs[j].segs = ui.segments
      /\ processingJob = j /\ jobs[j].pc # "IDLE"
  BY DEF AttributionReturns, Undisturbed, JobsAtWork, JobAtWork, Inductive, TypeOK,
     PipelineTypeOK, JobStates
<1>2. ui \in UiStates /\ ui.sid # None
  BY <1>1 DEF Inductive, TypeOK, SessionExists
<1>3. /\ u \in UiStates /\ u.phase = "PROCESSING" /\ u.sid = ui.sid
      /\ u.status = ui.status /\ u.segments = ui.segments /\ u.notes = ui.notes
  BY <1>1, <1>2 DEF UiStates
<1>4. /\ GenerateNotes(j, u, FALSE) /\ processingJob' = j
      /\ UNCHANGED <<issued, consented, capture>>
  BY <1>1 DEF AttributionReturns, KeepHistory, recorder
<1>5. capture'.state # "LIVE"
  BY <1>1, <1>4, OffScreen
<1> HIDE DEF u
<1> QED
  BY <1>1, <1>2, <1>3, <1>4, <1>5, OneJob, GenerateNotesGood

-----------------------------------------------------------------------------
(* Saved sessions, and the launch of the process.                          *)

(* A saved session is shown as it was saved.                               *)
LEMMA OpenSessionGood ==
    ASSUME Inductive, Undisturbed, NEW s \in Sessions, OpenSession(s)
    PROVE  Good
<1>1. /\ ui.phase = "CASE_PROFILE" /\ sessions = store /\ Stored(s) /\ store[s] \in Records
  BY DEF OpenSession, Listed, Inductive, SessionsListFresh, Stored, TypeOK, DiskTypeOK
<1>2. /\ ui'.phase = "RESULTS" /\ ui'.sid = s /\ ui'.status = store[s].status
      /\ ui'.segments = store[s].lines /\ ui'.notes = store[s].notes
  BY <1>1 DEF OpenSession, Inductive, TypeOK, UiStates
<1>3. /\ UNCHANGED <<store, deleted, issued, consented, capture>> /\ UNCHANGED pipeline
  BY DEF OpenSession, disk, KeepHistory, recorder
<1>4. StoreOwned' /\ LifeStep
  BY <1>3, DiskLeftAlone
<1>5. JobsAtWork' /\ CaptureAtWork' /\ LineKept
  BY <1>1, <1>2, <1>3, OffScreen, StayIdle DEF CaptureAtWork, LineKept
<1>6. /\ OwnRecord(s, store[s].lines, store[s].notes) /\ s \in issued /\ s \in consented
      /\ s \notin deleted /\ store[s].notes.kind # "INSUFFICIENT"
  BY <1>1 DEF Undisturbed, StoreOwned
<1>7. ScreenOwned'
  BY <1>2, <1>3, <1>6 DEF ScreenOwned, OwnRecord, Insufficient, HasNotes
<1>8. RecordShown'
  BY <1>2, <1>3, <1>6 DEF RecordShown
<1> QED
  BY <1>4, <1>5, <1>7, <1>8 DEF Good, Undisturbed

(* Sealing writes what the screen shows and leaves the record.             *)
LEMMA SealGood ==
    ASSUME Inductive, Undisturbed, SealAndFinish
    PROVE  Good
<1>1. /\ ui \in UiStates /\ ui.phase = "RESULTS" /\ ui.status = "IN_PROGRESS" /\ ui.sid # None
      /\ Persist(ui, "SEALED")
      /\ UNCHANGED <<deleted, issued, consented, capture>> /\ UNCHANGED pipeline
  BY DEF SealAndFinish, CanResume, Inductive, TypeOK, SessionExists, KeepHistory, recorder
<1>2. /\ ui'.phase = "CASE_PROFILE" /\ ui'.sid = ui.sid /\ ui'.segments = ui.segments
      /\ ui'.notes = ui.notes
  BY <1>1 DEF SealAndFinish, UiStates
<1>3. StoreOwned' /\ LifeStep
  BY <1>1, SaveGood DEF Undisturbed, ScreenOwned, RecordShown, RecordScreens
<1>4. NoJobs' /\ capture'.state # "LIVE"
  BY <1>1, OffScreen, StayIdle
<1> QED
  BY <1>1, <1>2, <1>3, <1>4, OffRecord DEF RecordScreens

(* Removing saved records.                                                 *)
LEMMA RemoveGood ==
    ASSUME Inductive, Undisturbed, NEW S \in SUBSET Sessions, \A s \in S : Stored(s),
           Remove(S), UNCHANGED <<issued, consented>>
    PROVE  StoreOwned' /\ LifeStep
<1>1. store \in [Sessions -> Records] /\ deleted' = deleted \cup S
  BY DEF Inductive, TypeOK, DiskTypeOK, Remove
<1>2. \A s \in Sessions : store'[s] = IF s \in S THEN Absent ELSE store[s]
  BY DEF Remove
<1>3. /\ Absent.status = "ABSENT" /\ Absent.lines = <<>> /\ Absent.notes = Result("NULL")
  BY DEF Absent
<1>4. StoreOwned'
  <2> SUFFICES ASSUME NEW s \in Sessions
               PROVE  /\ OwnRecord(s, store'[s].lines, store'[s].notes)
                      /\ store'[s].notes.kind \in {"NULL", "NOTES"}
                      /\ s \in deleted' => s \in issued' /\ ~Stored(s)'
                      /\ Stored(s)' => s \in issued' /\ s \in consented'
                      /\ ~Stored(s)' => store'[s].notes.facts = {}
    BY DEF StoreOwned, OwnRecord, Insufficient, HasNotes
  <2>1. CASE s \in S
    BY <1>1, <1>2, <1>3, <2>1 DEF Undisturbed, StoreOwned, Stored, OwnRecord, HasNotes, Result
  <2>2. CASE s \notin S
    BY <1>1, <1>2, <2>2 DEF Undisturbed, StoreOwned, Stored
  <2> QED
    BY <2>1, <2>2
<1>5. Lifecycle!Delete(S)
  <2> DEFINE status(t) == IF t \in deleted /\ ~Stored(t) THEN "DELETED" ELSE store[t].status
             speech(t) == {store[t].lines[i] : i \in DOMAIN store[t].lines}
  <2>1. \A s \in S : status(s) \in {"IN_PROGRESS", "SEALED"}
    BY <1>1 DEF Stored, Records
  <2>2. \A t \in Sessions : status(t)' = IF t \in S THEN "DELETED" ELSE status(t)
    BY <1>1, <1>2, <1>3 DEF Stored
  <2>3. \A t \in Sessions : store'[t].notes.facts = IF t \in S THEN {} ELSE store[t].notes.facts
    <3>1. Absent.notes.facts = {}
      BY <1>3 DEF Result
    <3>2. ASSUME NEW t \in Sessions
          PROVE  store'[t].notes.facts = IF t \in S THEN {} ELSE store[t].notes.facts
      <4>1. CASE t \in S
        BY <1>2, <3>1, <4>1
      <4>2. CASE t \notin S
        BY <1>2, <4>2
      <4> QED
        BY <4>1, <4>2
    <3> QED
      BY <3>2
  <2>4. \A t \in Sessions : speech(t)' = IF t \in S THEN {} ELSE speech(t)
    <3>1. ASSUME NEW t \in S PROVE speech(t)' = {}
      <4>1. store'[t].lines = <<>>
        BY <1>2, <1>3
      <4> QED
        BY <4>1
    <3>2. ASSUME NEW t \in Sessions, t \notin S PROVE speech(t)' = speech(t)
      <4>1. store'[t] = store[t]
        BY <1>2, <3>2
      <4> QED
        BY <4>1
    <3> HIDE DEF speech
    <3> QED
      BY <3>1, <3>2
  <2> HIDE DEF status, speech
  <2>5. [t \in Sessions |-> status(t)]'
          = [t \in Sessions |-> IF t \in S THEN "DELETED" ELSE [u \in Sessions |-> status(u)][t]]
    BY <2>2
  <2>6. [t \in Sessions |-> store[t].notes.facts]'
          = [t \in Sessions |-> IF t \in S THEN {} ELSE [u \in Sessions |-> store[u].notes.facts][t]]
    BY <2>3
  <2>7. [t \in Sessions |-> speech(t)]'
          = [t \in Sessions |-> IF t \in S THEN {} ELSE [u \in Sessions |-> speech(u)][t]]
    BY <2>4
  <2>8. \A s \in S : [t \in Sessions |-> status(t)][s] \in {"IN_PROGRESS", "SEALED"}
    BY <2>1
  <2> QED
    BY <2>5, <2>6, <2>7, <2>8 DEF Lifecycle!Delete, status, speech
<1> QED
  BY <1>4, <1>5 DEF LifeStep, Lifecycle!Next

LEMMA DeleteSessionGood ==
    ASSUME Inductive, Undisturbed, NEW s \in Sessions, DeleteSession(s)
    PROVE  Good
<1>1. /\ ui.phase = "CASE_PROFILE" /\ Stored(s) /\ Remove({s})
      /\ UNCHANGED <<ui, issued, consented, capture>> /\ UNCHANGED pipeline
  BY DEF DeleteSession, Listed, Inductive, SessionsListFresh, Stored, KeepHistory, recorder
<1>2. StoreOwned' /\ LifeStep
  BY <1>1, RemoveGood
<1>3. NoJobs' /\ capture'.state # "LIVE"
  BY <1>1, OffScreen, StayIdle
<1> QED
  BY <1>1, <1>2, <1>3, OffRecord DEF RecordScreens

LEMMA DeleteCaseGood ==
    ASSUME Inductive, Undisturbed, MaxInterrupts = 0, DeleteCase
    PROVE  Good
<1> DEFINE S == {s \in Sessions : sessions[s].status # "ABSENT" /\ sessions[s].case = ui.case}
<1>1. /\ S \in SUBSET Sessions /\ \A s \in S : Stored(s)
  BY DEF Inductive, SessionsListFresh, Stored
<1>2. Remove(S) /\ ui.phase = "CASE_PROFILE" /\ ClientOrHome /\ KeepHistory
  BY DEF DeleteCase
<1> HIDE DEF S
<1>3. StoreOwned' /\ LifeStep
  BY <1>1, <1>2, RemoveGood DEF KeepHistory
<1> QED
  BY <1>2, <1>3, HomeGood, ClientGood DEF ClientOrHome

LEMMA WarmupGood ==
    ASSUME Inductive, Undisturbed, WarmupDone
    PROVE  Good
<1>1. /\ UNCHANGED <<ui, store, deleted, issued, consented, capture>> /\ UNCHANGED pipeline
      /\ ui.segments \in Seq(Sessions)
  BY DEF WarmupDone, disk, recorder, Inductive, TypeOK, UiStates
<1>2. StoreOwned' /\ LifeStep
  BY <1>1, DiskLeftAlone
<1>3. JobsAtWork' /\ CaptureAtWork' /\ LineKept
  BY <1>1 DEF pipeline, Undisturbed, JobsAtWork, JobAtWork, CaptureAtWork, LineKept
<1>4. ScreenOwned' /\ RecordShown'
  BY <1>1 DEF Undisturbed, ScreenOwned, RecordShown
<1> QED
  BY <1>2, <1>3, <1>4 DEF Good, Undisturbed

(* A restart shows nothing; a screen without a session had no lines.       *)
LEMMA RestartGood ==
    ASSUME Inductive, Undisturbed, ProcessRestart
    PROVE  Good
<1>1. /\ UNCHANGED <<store, deleted, issued, consented>> /\ capture'.state # "LIVE" /\ NoJobs'
      /\ ui'.phase = "HOME" /\ ui'.sid = None /\ ui'.segments = <<>> /\ ui'.notes = Result("NULL")
  BY DEF ProcessRestart, KeepDisk, NoCapture, IdleJob, InitialUi, NoJobs
<1>2. StoreOwned' /\ LifeStep
  BY <1>1, DiskLeftAlone
<1>3. ui.sid = None => ui.segments = <<>>
  <2> SUFFICES ASSUME ui.sid = None, ui.segments # <<>> PROVE FALSE
    OBVIOUS
  <2>1. ui.segments \in Seq(Sessions)
    BY DEF Inductive, TypeOK, UiStates
  <2>2. 1 \in DOMAIN ui.segments /\ ui.segments[1] \in Sessions
    BY <2>1
  <2> QED
    BY <2>2, ConsultationAssumption DEF Undisturbed, ScreenOwned, OwnRecord
<1>4. JobsAtWork' /\ CaptureAtWork' /\ LineKept
  BY <1>1, <1>3 DEF NoJobs, JobsAtWork, CaptureAtWork, LineKept
<1>5. ScreenOwned' /\ RecordShown'
  BY <1>1 DEF ScreenOwned, OwnRecord, Result, HasNotes, RecordShown, RecordScreens
<1> QED
  BY <1>2, <1>4, <1>5 DEF Good, Undisturbed

-----------------------------------------------------------------------------
(* Every behaviour.                                                        *)

(* The initial state.                                                      *)
LEMMA InitUndisturbed == Init => Undisturbed
<1> SUFFICES ASSUME Init PROVE Undisturbed
  OBVIOUS
<1>1. JobsAtWork /\ CaptureAtWork
  BY DEF Init, IdleJob, NoCapture, JobsAtWork, CaptureAtWork
<1>2. ScreenOwned /\ RecordShown
  BY DEF Init, InitialUi, Result, ScreenOwned, OwnRecord, HasNotes, RecordShown, RecordScreens
<1>3. StoreOwned
  BY DEF Init, Absent, Result, StoreOwned, OwnRecord, HasNotes, Stored
<1> QED
  BY <1>1, <1>2, <1>3 DEF Undisturbed

(* Every step keeps the record in order.                                   *)
LEMMA NextGood ==
    ASSUME MaxInterrupts = 0
    PROVE  Inductive /\ Undisturbed /\ [Next]_vars => Good
<1> SUFFICES ASSUME Inductive, Undisturbed, [Next]_vars PROVE Good
  OBVIOUS
<1>1. CASE UNCHANGED vars
  <2>1. /\ UNCHANGED <<ui, store, deleted, issued, consented, capture, jobs, processingJob>>
        /\ ui.segments \in Seq(Sessions)
    BY <1>1 DEF vars, Inductive, TypeOK, UiStates
  <2>2. StoreOwned' /\ LifeStep
    BY <2>1, DiskLeftAlone
  <2>3. JobsAtWork' /\ CaptureAtWork' /\ LineKept
    BY <2>1 DEF Undisturbed, JobsAtWork, JobAtWork, CaptureAtWork, LineKept
  <2>4. ScreenOwned' /\ RecordShown'
    BY <2>1 DEF Undisturbed, ScreenOwned, RecordShown
  <2> QED
    BY <2>2, <2>3, <2>4 DEF Good, Undisturbed
<1>2. CASE Next
  <2>1. CASE \/ GoHome \/ BackToCase \/ BackFromCapture \/ BackToClient
             \/ \E c \in Clients : OpenClient(c)
             \/ \E k \in Cases : OpenCase(k)
    BY <2>1, NavigationGood
  <2>2. CASE CancelProcessing
    BY <2>2, CancelImpossible
  <2>3. CASE \E s \in Sessions : StartNewConsultation(s) \/ OpenSession(s) \/ DeleteSession(s)
    BY <2>3, StartNewConsultationGood, OpenSessionGood, DeleteSessionGood
  <2>4. CASE OnConsent \/ StartRecording \/ LoadScript \/ HandleCaptureEvent \/ CaptureEnds
    BY <2>4, ConsentGood, RecordingGood, LineGood, CaptureEndsGood
  <2>5. CASE \E j \in Jobs : StopAndProcess(j) \/ AttributionReturns(j) \/ NotesReturn(j)
    BY <2>5, StopAndProcessGood, AttributionReturnsGood, NotesReturnGood
  <2>6. CASE ContinueConsultation \/ SealAndFinish \/ DeleteCase
    BY <2>6, ContinueGood, SealGood, DeleteCaseGood
  <2>7. CASE WarmupDone \/ ProcessRestart
    BY <2>7, WarmupGood, RestartGood
  <2> QED
    BY <1>2, <2>1, <2>2, <2>3, <2>4, <2>5, <2>6, <2>7 DEF Next
<1> QED
  BY <1>1, <1>2

(* While no running job is cancelled, whatever runs belongs to what is on  *)
(* screen, and every record to its own session.                            *)
THEOREM StaysUndisturbed ==
    ASSUME MaxInterrupts = 0
    PROVE  Spec => []Undisturbed
<1>1. Inductive /\ Undisturbed /\ [Next]_vars => Undisturbed'
  BY NextGood DEF Good
<1> QED
  BY <1>1, InitUndisturbed, InductiveInvariant, PTL DEF Spec

(* Two consultations never mix: not by a resume, not by the script, not by *)
(* a failed save followed by another pass.                                 *)
THEOREM SessionsNeverMix ==
    ASSUME MaxInterrupts = 0
    PROVE  Spec => []SessionIsolation
<1>1. Undisturbed => SessionIsolation
  BY DEF Undisturbed, StoreOwned, OwnRecord, SessionIsolation
<1> QED
  BY <1>1, StaysUndisturbed, PTL

(* Nobody is recorded without the consent screen accepted.                 *)
THEOREM ConsentComesFirst ==
    ASSUME MaxInterrupts = 0
    PROVE  Spec => []ConsentBeforeCapture
<1>1. Undisturbed => ConsentBeforeCapture
  BY DEF Undisturbed, CaptureAtWork, ConsentBeforeCapture
<1> QED
  BY <1>1, StaysUndisturbed, PTL

(* No step loses a line of the session on screen.                          *)
THEOREM TranscriptIsKept ==
    ASSUME MaxInterrupts = 0
    PROVE  Spec => NoLineLost
<1>1. Inductive /\ Undisturbed /\ [Next]_vars =>
        [ui'.sid = ui.sid =>
         \/ /\ Len(ui.segments) <= Len(ui'.segments)
            /\ \A i \in DOMAIN ui.segments : ui'.segments[i] = ui.segments[i]
         \/ ui'.scripted /\ ui'.isRecording /\ ~ui.isRecording
         \/ ui'.phase = "RESULTS" /\ ui.phase = "CASE_PROFILE"]_ui
  BY NextGood DEF Good, LineKept
<1> QED
  BY <1>1, InductiveInvariant, StaysUndisturbed, PTL DEF Spec, NoLineLost

(* The pipeline implements the abstract record: it grows while in          *)
(* progress, is sealed at most once, and stays deleted.                    *)
THEOREM LifecycleImplemented ==
    ASSUME MaxInterrupts = 0
    PROVE  Spec => ImplementsLifecycle
<1>1. Init => Lifecycle!Init
  <2> SUFFICES ASSUME Init PROVE Lifecycle!Init
    OBVIOUS
  <2>1. store = [s \in Sessions |-> Absent] /\ deleted = {}
    BY DEF Init
  <2>2. \A s \in Sessions : {store[s].lines[i] : i \in DOMAIN store[s].lines} = {}
    BY <2>1 DEF Absent
  <2> QED
    BY <2>1, <2>2 DEF Lifecycle!Init, Absent, Result
<1>2. Inductive /\ Undisturbed /\ [Next]_vars => [Lifecycle!Next]_(Lifecycle!vars)
  BY NextGood DEF Good, LifeStep
<1> QED
  BY <1>1, <1>2, InductiveInvariant, StaysUndisturbed, PTL
     DEF Spec, ImplementsLifecycle, Lifecycle!Spec
=============================================================================
