---------------------------- MODULE Consultation ----------------------------
(***************************************************************************)
(* The consultation lifecycle of SessionViewModel: navigation, consent,    *)
(* live capture, the processing job that attributes speakers and generates *)
(* notes, and the session records it keeps on disk.                        *)
(*                                                                         *)
(* Every handler, and every stretch of a coroutine between two suspension  *)
(* points, runs on the main thread (viewModelScope), so each is one atomic *)
(* action here.  The processing job suspends only inside the text engine.  *)
(* Cancelling it does not stop it: the engine call is blocking native or   *)
(* subprocess work that runs to its end, and the CancellationException the *)
(* job then receives is swallowed by the runCatching around every engine   *)
(* call.  A cancelled job therefore wakes up later and runs to its end in  *)
(* one step, on whatever state the screen is in by then.                   *)
(*                                                                         *)
(* An operator that stands directly before another and is named for what   *)
(* it gets wrong (CaptureNotCancelled, MergeDropsPrior, ...) is a faulty   *)
(* variant of it.  No specification uses one: each is a plausible bug that *)
(* some property has to catch.                                             *)
(*                                                                         *)
(* Data abstraction.  A transcript line is the session whose recording     *)
(* produced it; its text, speaker label and timestamps are left out.  A    *)
(* fact of the notes is the session whose conversation it was drawn from.  *)
(* matterType is set exactly when sessionId is, so one null stands for     *)
(* both.                                                                   *)
(***************************************************************************)
EXTENDS Naturals, Sequences

CONSTANTS
    Clients, Cases,   \* the stored clients and the cases they start with
    ClientOf,         \* the client each case belongs to
    DemoCase,         \* DemoSeeder.CASE_ID: the one case that offers the script
    Sessions,         \* session ids the clock can hand out
    Jobs,             \* slots for processing jobs that are still suspended
    None,             \* Kotlin's null
    MinSegments,      \* lines that reach MIN_TOTAL_WORDS
    MaxSegments,      \* bound on the length of a transcript
    MaxInterrupts,    \* bound on cancellations of a running processing job
    SaveMayFail       \* whether a save may throw (and be swallowed)

ASSUME ConsultationAssumption ==
    /\ ClientOf \in [Cases -> Clients]
    /\ None \notin Clients \cup Cases \cup Sessions \cup Jobs
    /\ MinSegments \in Nat
    /\ MaxSegments \in Nat
    /\ MaxInterrupts \in Nat
    /\ SaveMayFail \in BOOLEAN

VARIABLES
    ui,            \* SessionUiState
    warmupReady,   \* both models have been warmed
    capture,       \* the job captureJob refers to
    orphans,       \* capture jobs still running that captureJob lost track of
    jobs,          \* processing jobs
    processingJob, \* the one processingJob refers to
    stage,         \* processingStage
    cases,         \* CaseStore on disk
    store,         \* SessionStore on disk
    sessions,      \* _sessions, the list the screens and cascades read
    issued,        \* session ids handed out so far
    consented,     \* history: sessions whose consent screen was accepted
    deleted,       \* history: sessions the lawyer deleted
    interrupts     \* running jobs cancelled so far

vars == <<ui, warmupReady, capture, orphans, jobs, processingJob, stage,
          cases, store, sessions, issued, consented, deleted, interrupts>>

disk == <<cases, store, sessions, deleted>>
pipeline == <<jobs, processingJob, stage, interrupts>>
recorder == <<capture, orphans>>

Phases == {"HOME", "CLIENT_PROFILE", "CASE_PROFILE", "CONSENT", "CAPTURE",
           "PROCESSING", "RESULTS"}

-----------------------------------------------------------------------------
(* NotesResult: facts are present only when notes were recovered.          *)
NotesResults ==
    [kind : {"NULL", "NOTES", "FAILED", "INSUFFICIENT"}, facts : SUBSET Sessions]

Result(kind) == [kind |-> kind, facts |-> {}]
Notes(facts) == [kind |-> "NOTES", facts |-> facts]
HasNotes(r) == r.kind = "NOTES"
NotesOrNull(r) == IF HasNotes(r) THEN r ELSE Result("NULL")

MergeDropsPrior(prior, current) == current

(* A continued consultation keeps what the first pass learned.             *)
MergeWithPrior(prior, current) ==
    IF ~HasNotes(prior) THEN current
    ELSE IF HasNotes(current) THEN Notes(prior.facts \cup current.facts)
    ELSE prior

(* What the generator may return for a transcript: failure, or notes whose *)
(* facts come from what was said in it.                                    *)
Generated(transcript) ==
    {Result("FAILED")} \cup
    {Notes(F) : F \in SUBSET {transcript[i] : i \in DOMAIN transcript}}

Insufficient(transcript) == Len(transcript) < MinSegments

-----------------------------------------------------------------------------
(* SavedSession, with ABSENT for an id that has no file.                   *)
Records ==
    [status : {"ABSENT", "IN_PROGRESS", "SEALED"}, client : Clients \cup {None},
     case : Cases \cup {None}, lines : Seq(Sessions), notes : NotesResults]

Absent == [status |-> "ABSENT", client |-> None, case |-> None,
           lines |-> <<>>, notes |-> Result("NULL")]

Saved(u, status) == [status |-> status, client |-> u.client, case |-> u.case,
                     lines |-> u.segments, notes |-> NotesOrNull(u.notes)]

Stored(s) == store[s].status # "ABSENT"

(* persist: nothing without a session; a save that throws is swallowed.    *)
Persist(u, status) ==
    \/ /\ u.sid # None
       /\ store' = [store EXCEPT ![u.sid] = Saved(u, status)]
    \/ /\ SaveMayFail \/ u.sid = None
       /\ store' = store

RefreshForgotten == UNCHANGED sessions

RefreshSessions == sessions' = store'

-----------------------------------------------------------------------------
InitialUi ==
    [phase |-> "HOME", client |-> None, case |-> None, sid |-> None,
     status |-> "IN_PROGRESS", isRecording |-> FALSE, scripted |-> FALSE,
     segments |-> <<>>, notes |-> Result("NULL")]

NoCapture == [state |-> "NONE", sid |-> None]
IdleJob == [pc |-> "IDLE", cancelled |-> FALSE, segs |-> <<>>,
            prior |-> Result("NULL")]

Init ==
    /\ ui = InitialUi
    /\ warmupReady = FALSE
    /\ capture = NoCapture
    /\ orphans = {}
    /\ jobs = [j \in Jobs |-> IdleJob]
    /\ processingJob = None
    /\ stage = "PREPARING"
    /\ cases = Cases
    /\ store = [s \in Sessions |-> Absent]
    /\ sessions = store
    /\ issued = {}
    /\ consented = {}
    /\ deleted = {}
    /\ interrupts = 0

-----------------------------------------------------------------------------
CaptureNotCancelled == UNCHANGED <<capture, orphans>>

(* captureJob?.cancel(): no event of a cancelled capture is delivered.     *)
CancelCapture == capture' = NoCapture /\ UNCHANGED orphans

Running(j) == jobs[j].pc # "IDLE" /\ ~jobs[j].cancelled
JobActive == processingJob # None /\ Running(processingJob)

(* processingJob?.cancel(): marks the job; it stays suspended.             *)
CancelProcessingJob ==
    /\ IF JobActive
         THEN /\ interrupts < MaxInterrupts
              /\ interrupts' = interrupts + 1
              /\ jobs' = [jobs EXCEPT ![processingJob].cancelled = TRUE]
         ELSE UNCHANGED <<interrupts, jobs>>
    /\ UNCHANGED <<processingJob, stage>>

KeepDisk == UNCHANGED <<cases, store, deleted>>
KeepHistory == UNCHANGED <<warmupReady, issued, consented>>

(* The bodies of goHome, openClient and openCase, shared by their callers. *)
ShowHome ==
    /\ CancelCapture
    /\ CancelProcessingJob
    /\ RefreshSessions
    /\ ui' = [ui EXCEPT !.phase = "HOME", !.client = None, !.case = None]

ShowClientKeepsCase(c) ==
    /\ ui' = [ui EXCEPT !.phase = "CLIENT_PROFILE", !.client = c]
    /\ RefreshSessions
    /\ UNCHANGED <<recorder, pipeline>>

ShowClient(c) ==
    /\ ui' = [ui EXCEPT !.phase = "CLIENT_PROFILE", !.client = c, !.case = None]
    /\ RefreshSessions
    /\ UNCHANGED <<recorder, pipeline>>

ShowCase(k) ==
    /\ ui' = [ui EXCEPT !.phase = "CASE_PROFILE", !.case = k]
    /\ RefreshSessions
    /\ UNCHANGED pipeline

ClientOrHome == IF ui.client # None THEN ShowClient(ui.client) ELSE ShowHome

-----------------------------------------------------------------------------
(* Navigation                                                              *)
GoHome ==
    /\ KeepDisk
    /\ ShowHome
    /\ KeepHistory

OpenClient(c) ==
    /\ ui.phase = "HOME"
    /\ KeepDisk
    /\ ShowClient(c)
    /\ KeepHistory

OpenCase(k) ==
    /\ ui.phase = "CLIENT_PROFILE"
    /\ ui.client # None
    /\ k \in cases /\ ClientOf[k] = ui.client
    /\ KeepDisk
    /\ ShowCase(k)
    /\ UNCHANGED recorder
    /\ KeepHistory

CancelStaysOnScreen ==
    /\ ui.phase = "PROCESSING"
    /\ CancelProcessingJob
    /\ UNCHANGED <<ui, recorder, disk>>
    /\ KeepHistory

CancelProcessing ==
    /\ ui.phase = "PROCESSING"
    /\ CancelProcessingJob
    /\ ui' = [ui EXCEPT !.phase = "CAPTURE"]
    /\ UNCHANGED <<recorder, disk>>
    /\ KeepHistory

BackToCase ==
    /\ ui.phase \in {"RESULTS", "CONSENT"}
    /\ KeepDisk
    /\ IF ui.case # None THEN ShowCase(ui.case) /\ UNCHANGED recorder ELSE ShowHome
    /\ KeepHistory

BackFromCapture ==
    /\ ui.phase = "CAPTURE"
    /\ KeepDisk
    /\ IF ui.case # None THEN ShowCase(ui.case) /\ CancelCapture ELSE ShowHome
    /\ KeepHistory

BackToClient ==
    /\ ui.phase = "CASE_PROFILE"
    /\ KeepDisk
    /\ ClientOrHome
    /\ KeepHistory

-----------------------------------------------------------------------------
(* Consultation                                                            *)
FreshUiKeepsLines(s) ==
    [ui EXCEPT !.phase = "CONSENT", !.sid = s, !.status = "IN_PROGRESS",
               !.isRecording = FALSE, !.scripted = FALSE, !.notes = Result("NULL")]

FreshUiSkipsConsent(s) ==
    [ui EXCEPT !.phase = "CAPTURE", !.sid = s, !.status = "IN_PROGRESS",
               !.isRecording = FALSE, !.scripted = FALSE,
               !.segments = <<>>, !.notes = Result("NULL")]

FreshUi(s) ==
    [ui EXCEPT !.phase = "CONSENT", !.sid = s, !.status = "IN_PROGRESS",
               !.isRecording = FALSE, !.scripted = FALSE,
               !.segments = <<>>, !.notes = Result("NULL")]

StartNewConsultation(s) ==
    /\ ui.phase = "CASE_PROFILE" /\ ui.case # None
    /\ s \in Sessions \ issued
    /\ CancelCapture
    /\ CancelProcessingJob
    /\ ui' = FreshUi(s)
    /\ issued' = issued \cup {s}
    /\ UNCHANGED <<warmupReady, consented, disk>>

OnConsent ==
    /\ ui.phase = "CONSENT"
    /\ ui' = [ui EXCEPT !.phase = "CAPTURE"]
    /\ consented' = consented \cup {ui.sid}
    /\ UNCHANGED <<warmupReady, issued, recorder, pipeline, disk>>

(* Capture.  A new job replaces captureJob; one still running is orphaned. *)
NewCapture(previous) ==
    /\ capture' = [state |-> "LIVE", sid |-> ui.sid]
    /\ orphans' = orphans \cup {c \in {previous} : c.state = "LIVE"}

(* The buttons of the capture screen.                                      *)
RecordButton == ui.phase = "CAPTURE" /\ (ui.isRecording \/ warmupReady)
ScriptButton == ui.phase = "CAPTURE" /\ ui.case = DemoCase /\ ~ui.isRecording

StartRecording ==
    /\ RecordButton /\ ~ui.isRecording
    /\ ui' = [ui EXCEPT !.isRecording = TRUE, !.scripted = FALSE]
    /\ NewCapture(capture)
    /\ UNCHANGED <<pipeline, disk>>
    /\ KeepHistory

LoadScript ==
    /\ ScriptButton
    /\ ui' = [ui EXCEPT !.isRecording = TRUE, !.scripted = TRUE,
                        !.segments = IF HasNotes(ui.notes) THEN @ ELSE <<>>]
    /\ NewCapture(NoCapture)
    /\ UNCHANGED <<pipeline, disk>>
    /\ KeepHistory

LiveCaptures == {c \in {capture} \cup orphans : c.state = "LIVE"}

(* A finalized line: appended to whatever transcript is on screen.         *)
HandleCaptureEvent ==
    /\ Len(ui.segments) < MaxSegments
    /\ \E c \in LiveCaptures : ui' = [ui EXCEPT !.segments = Append(@, c.sid)]
    /\ UNCHANGED <<recorder, pipeline, disk>>
    /\ KeepHistory

(* The event flow ends by itself: the script ran out, or whisper would not *)
(* load.  isRecording is left as it was.                                   *)
CaptureEnds ==
    /\ capture.state = "LIVE"
    /\ capture' = [capture EXCEPT !.state = "ENDED"]
    /\ UNCHANGED <<ui, orphans, pipeline, disk>>
    /\ KeepHistory

-----------------------------------------------------------------------------
(* The processing job                                                      *)
Finish(j) == jobs' = [jobs EXCEPT ![j] = IdleJob] /\ stage' = "DONE"

Await(j, pc, segs, prior) ==
    jobs' = [jobs EXCEPT ![j] = [pc |-> pc, cancelled |-> FALSE,
                                 segs |-> segs, prior |-> prior]]

(* The end of generateNotes: merge, show, save, reload the list.           *)
Conclude(j, u, prior, result) ==
    LET shown == [u EXCEPT !.notes = MergeWithPrior(prior, result),
                           !.phase = "RESULTS"]
    IN  /\ ui' = shown
        /\ Persist(shown, "IN_PROGRESS")
        /\ RefreshSessions
        /\ Finish(j)
        /\ UNCHANGED <<cases, deleted>>

ShowInsufficient(u) ==
    [u EXCEPT !.notes = Result("INSUFFICIENT"), !.phase = "RESULTS"]

(* generateNotes up to its engine call, on the state u the job finds.  In  *)
(* a cancelled job the call fails at once instead of suspending.           *)
GenerateNotes(j, u, cancelled) ==
    IF u.sid = None THEN
        ui' = u /\ Finish(j) /\ UNCHANGED disk
    ELSE IF Insufficient(u.segments) THEN
        /\ ui' = ShowInsufficient(u)
        /\ Finish(j)
        /\ UNCHANGED disk
    ELSE IF cancelled THEN
        Conclude(j, u, u.notes, Result("FAILED"))
    ELSE
        /\ ui' = u
        /\ Await(j, "REASONING", u.segments, u.notes)
        /\ stage' = "REASONING"
        /\ UNCHANGED disk

(* stopAndProcess runs its job at once up to the first suspension: speaker *)
(* attribution unless the lines are scripted (or there are none).          *)
StopAndProcess(j) ==
    LET shown == [ui EXCEPT !.isRecording = FALSE, !.phase = "PROCESSING"]
    IN  /\ RecordButton /\ ui.isRecording
        /\ jobs[j].pc = "IDLE"
        /\ CancelCapture
        /\ processingJob' = j
        /\ IF ~ui.scripted /\ ui.segments # <<>>
             THEN /\ ui' = shown
                  /\ Await(j, "ATTRIBUTING", ui.segments, Result("NULL"))
                  /\ stage' = "ATTRIBUTING"
                  /\ UNCHANGED disk
             ELSE GenerateNotes(j, shown, FALSE)
        /\ UNCHANGED interrupts
        /\ KeepHistory

(* attributeSpeakers returns: the labelled copy of the lines it was given  *)
(* replaces the transcript, then generateNotes begins.                     *)
AttributionReturns(j) ==
    /\ jobs[j].pc = "ATTRIBUTING"
    /\ GenerateNotes(j, [ui EXCEPT !.segments = jobs[j].segs], jobs[j].cancelled)
    /\ UNCHANGED <<recorder, processingJob, interrupts>>
    /\ KeepHistory

NotesReturnStartsOver(j) ==
    /\ jobs[j].pc = "REASONING"
    /\ IF jobs[j].cancelled THEN Conclude(j, ui, jobs[j].prior, Result("FAILED"))
       ELSE \E result \in Generated(jobs[j].segs) :
                IF result.kind # "FAILED" THEN Conclude(j, ui, jobs[j].prior, result)
                ELSE /\ Await(j, "ATTRIBUTING", jobs[j].segs, jobs[j].prior)
                     /\ stage' = "ATTRIBUTING" /\ UNCHANGED <<ui, disk>>
    /\ UNCHANGED <<recorder, processingJob, interrupts>>
    /\ KeepHistory

NotesReturn(j) ==
    /\ jobs[j].pc = "REASONING"
    /\ \E result \in IF jobs[j].cancelled THEN {Result("FAILED")}
                     ELSE Generated(jobs[j].segs) :
           Conclude(j, ui, jobs[j].prior, result)
    /\ UNCHANGED <<recorder, processingJob, interrupts>>
    /\ KeepHistory

-----------------------------------------------------------------------------
(* The report and the saved sessions                                       *)
CanResume == ui.status = "IN_PROGRESS"

ContinueOffered ==
    ui.notes.kind = "INSUFFICIENT" \/ (CanResume /\ HasNotes(ui.notes))

ContinueConsultation ==
    /\ ui.phase = "RESULTS" /\ ContinueOffered
    /\ ui' = [ui EXCEPT !.phase = "CAPTURE"]
    /\ UNCHANGED <<recorder, pipeline, disk>>
    /\ KeepHistory

SealAndFinish ==
    /\ ui.phase = "RESULTS" /\ CanResume /\ HasNotes(ui.notes)
    /\ Persist(ui, "SEALED")
    /\ RefreshSessions
    /\ ui' = [ui EXCEPT !.status = "SEALED", !.phase = "CASE_PROFILE"]
    /\ UNCHANGED <<recorder, pipeline, cases, deleted>>
    /\ KeepHistory

(* The sessions the case screen lists: the cached ones of its case.        *)
Listed(s) ==
    /\ ui.phase = "CASE_PROFILE" /\ ui.case # None
    /\ sessions[s].status # "ABSENT" /\ sessions[s].case = ui.case

OpenSession(s) ==
    LET saved == sessions[s]
        case == IF saved.case \in cases THEN saved.case ELSE ui.case
        client == IF saved.client # None THEN saved.client
                  ELSE IF case # None THEN ClientOf[case] ELSE ui.client
    IN  /\ Listed(s)
        /\ ui' = [ui EXCEPT !.phase = "RESULTS", !.client = client, !.case = case,
                            !.sid = s, !.status = saved.status,
                            !.segments = saved.lines, !.notes = saved.notes]
        /\ UNCHANGED <<recorder, pipeline, disk>>
        /\ KeepHistory

Remove(S) ==
    /\ store' = [s \in Sessions |-> IF s \in S THEN Absent ELSE store[s]]
    /\ deleted' = deleted \cup S

DeleteSession(s) ==
    /\ Listed(s)
    /\ Remove({s})
    /\ RefreshSessions
    /\ UNCHANGED <<ui, recorder, pipeline, cases>>
    /\ KeepHistory

(* deleteCase cascades over the cached list of sessions.                   *)
DeleteCase ==
    /\ ui.phase = "CASE_PROFILE" /\ ui.case # None
    /\ Remove({s \in Sessions : sessions[s].status # "ABSENT"
                                /\ sessions[s].case = ui.case})
    /\ cases' = cases \ {ui.case}
    /\ ClientOrHome
    /\ KeepHistory

-----------------------------------------------------------------------------
WarmupDone ==
    /\ ~warmupReady
    /\ warmupReady' = TRUE
    /\ UNCHANGED <<ui, recorder, pipeline, disk, issued, consented>>

(* The process dies and is started again: only the files survive.          *)
ProcessRestart ==
    /\ KeepDisk
    /\ ui' = InitialUi
    /\ warmupReady' = FALSE
    /\ capture' = NoCapture
    /\ orphans' = {}
    /\ jobs' = [j \in Jobs |-> IdleJob]
    /\ processingJob' = None
    /\ stage' = "PREPARING"
    /\ RefreshSessions
    /\ UNCHANGED <<issued, consented, interrupts>>

Next ==
    \/ GoHome \/ CancelProcessing
    \/ BackToCase \/ BackFromCapture \/ BackToClient
    \/ \E c \in Clients : OpenClient(c)
    \/ \E k \in Cases : OpenCase(k)
    \/ \E s \in Sessions : StartNewConsultation(s) \/ OpenSession(s) \/ DeleteSession(s)
    \/ OnConsent \/ StartRecording \/ LoadScript
    \/ HandleCaptureEvent \/ CaptureEnds
    \/ \E j \in Jobs : StopAndProcess(j) \/ AttributionReturns(j) \/ NotesReturn(j)
    \/ ContinueConsultation \/ SealAndFinish \/ DeleteCase
    \/ WarmupDone \/ ProcessRestart

Spec == Init /\ [][Next]_vars

(* Every engine call ends: the native call and the runner process do.      *)
Fairness == \A j \in Jobs : WF_vars(AttributionReturns(j) \/ NotesReturn(j))

FairSpec == Spec /\ Fairness

-----------------------------------------------------------------------------
(* Properties                                                              *)

UiStates ==
    [phase : Phases, client : Clients \cup {None}, case : Cases \cup {None},
     sid : Sessions \cup {None}, status : {"IN_PROGRESS", "SEALED"},
     isRecording : BOOLEAN, scripted : BOOLEAN,
     segments : Seq(Sessions), notes : NotesResults]

JobStates ==
    [pc : {"IDLE", "ATTRIBUTING", "REASONING"}, cancelled : BOOLEAN,
     segs : Seq(Sessions), prior : NotesResults]

RecorderTypeOK ==
    /\ capture \in [state : {"NONE", "LIVE", "ENDED"}, sid : Sessions \cup {None}]
    /\ orphans \subseteq [state : {"LIVE"}, sid : Sessions \cup {None}]

PipelineTypeOK ==
    /\ jobs \in [Jobs -> JobStates]
    /\ processingJob \in Jobs \cup {None}
    /\ stage \in {"PREPARING", "ATTRIBUTING", "REASONING", "DONE"}
    /\ interrupts \in 0..MaxInterrupts

DiskTypeOK ==
    /\ cases \subseteq Cases
    /\ store \in [Sessions -> Records]
    /\ sessions \in [Sessions -> Records]
    /\ deleted \subseteq Sessions

HistoryTypeOK ==
    /\ warmupReady \in BOOLEAN
    /\ issued \subseteq Sessions
    /\ consented \subseteq Sessions

(* Every variable holds a value of its Kotlin type.                        *)
TypeOK ==
    /\ ui \in UiStates
    /\ RecorderTypeOK
    /\ PipelineTypeOK
    /\ DiskTypeOK
    /\ HistoryTypeOK

(* The microphone is never lost: at most one capture job runs, captureJob  *)
(* refers to it, and while the screen offers to start a recording (or the  *)
(* script) none runs.  startRecording does not cancel what it replaces.    *)
CaptureOwned ==
    /\ orphans = {}
    /\ ~ui.isRecording => capture.state # "LIVE"

(* The processing screen is never a dead end: while it shows, some job     *)
(* that nobody cancelled is at work on an existing session.                *)
ProcessingHasJob ==
    ui.phase = "PROCESSING" => ui.sid # None /\ \E j \in Jobs : Running(j)

(* The list the screens and the delete cascades read is what is on disk,   *)
(* after every handler and every return of a job, failed saves included.   *)
SessionsListFresh == sessions = store

(* No record on disk refers to a deleted case, however late a job saves.   *)
CaseIntegrity ==
    /\ ui.case \in cases \cup {None}
    /\ \A s \in Sessions : store[s].case \in cases \cup {None}

(* What makes the four invariants above inductive: a consultation screen,  *)
(* a running capture and a suspended job all belong to an existing         *)
(* session, and an absent record refers to no case.                        *)
SessionExists ==
    /\ ui.phase \in {"CONSENT", "CAPTURE", "PROCESSING", "RESULTS"} => ui.sid # None
    /\ capture.state = "LIVE" => capture.sid # None
    /\ \A j \in Jobs : jobs[j].pc # "IDLE" => ui.sid # None
    /\ \A s \in Sessions : ~Stored(s) => store[s].case = None

Inductive ==
    /\ TypeOK
    /\ CaptureOwned
    /\ ProcessingHasJob
    /\ SessionsListFresh
    /\ CaseIntegrity
    /\ SessionExists

(* The processing screen is always left again.                             *)
ProcessingEnds == ui.phase = "PROCESSING" ~> ui.phase # "PROCESSING"

(* A record holds only what was said in, and learned from, its own         *)
(* session: resumes, scripts and late jobs never mix two consultations.    *)
SessionIsolation ==
    \A s \in Sessions :
        /\ \A i \in DOMAIN store[s].lines : store[s].lines[i] = s
        /\ store[s].notes.facts \subseteq {s}

(* No capture runs for a session whose consent screen was never accepted,  *)
(* by whatever way the capture screen was reached.                         *)
ConsentBeforeCapture == capture.state = "LIVE" => capture.sid \in consented

(* While a session stays on screen its transcript loses no line (to a      *)
(* relabelling that was given an older copy, for one); only loading the    *)
(* opening script clears it, by design.                                    *)
NoLineLost ==
    [][ui'.sid = ui.sid =>
         \/ /\ Len(ui.segments) <= Len(ui'.segments)
            /\ \A i \in DOMAIN ui.segments : ui'.segments[i] = ui.segments[i]
         \/ ui'.scripted /\ ui'.isRecording /\ ~ui.isRecording
         \/ ui'.phase = "RESULTS" /\ ui.phase = "CASE_PROFILE"]_ui

-----------------------------------------------------------------------------
(* What a consultation promises about its records: see RecordLifecycle.    *)
Lifecycle ==
    INSTANCE RecordLifecycle WITH
        status <- [s \in Sessions |->
                     IF s \in deleted /\ ~Stored(s) THEN "DELETED" ELSE store[s].status],
        facts <- [s \in Sessions |-> store[s].notes.facts],
        speech <- [s \in Sessions |->
                     {store[s].lines[i] : i \in DOMAIN store[s].lines}]

(* Every behaviour of the pipeline is one the abstract record allows.      *)
ImplementsLifecycle == Lifecycle!Spec
=============================================================================
