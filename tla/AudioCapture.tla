---------------------------- MODULE AudioCapture ----------------------------
(***************************************************************************)
(* Live capture: AudioRecorder.stream (a mic thread that fills an          *)
(* unbounded channel) feeds WhisperTranscriber.transcribe, which cuts the  *)
(* audio into windows and has whisper's single thread transcribe each.     *)
(* The capture job of SessionViewModel collects the lines and is stopped   *)
(* by cancelling it.                                                       *)
(*                                                                         *)
(* Audio is a position in the recording: a chunk is the interval a read of *)
(* the mic covers, and a line keeps the interval it was transcribed from   *)
(* next to the timestamps the code computed for it.  Times are positions   *)
(* divided by SamplesPerMs.  The operators that stand before another and   *)
(* are named for what they get wrong are faulty variants.                  *)
(***************************************************************************)
EXTENDS Integers, Sequences

CONSTANTS
    MaxRecordings,  \* bound: recordings, made one after the other
    ReadSize,       \* the most samples one read of the mic returns
    WindowSamples,  \* the samples a window needs
    SamplesPerMs,
    MaxPosition     \* bound: samples one recording may read

ASSUME AudioCaptureAssumption ==
    /\ MaxRecordings \in Nat
    /\ {ReadSize, WindowSamples, SamplesPerMs} \subseteq Nat \ {0}
    /\ MaxPosition \in Nat

Recordings == 1..MaxRecordings
None == 0

VARIABLES
    rec,        \* the state of each recording
    captureJob, \* the recording that captureJob refers to, or None
    loaded,     \* WhisperEngine.ctx is set
    calls       \* the calls on whisper's single thread; the first one runs

vars == <<rec, captureJob, loaded, calls>>

Chunks == [at : Nat, len : Nat \ {0}]
Lines == [startMs : Nat, endMs : Nat, from : Nat, to : Nat]

States ==
    [flow : {"NEW", "COLLECT", "TRANSCRIBE", "ENDED"},  \* the collecting coroutine
     cancelled : BOOLEAN,
     mic : {"CLOSED", "OPENING", "OPEN", "JOINING", "RELEASED"},
     running : BOOLEAN,
     thread : {"NONE", "CHECK", "READ", "ENDED"},
     position : Nat,                 \* samples put into the channel so far
     channel : Seq(Chunks),
     chunks : Seq(Chunks), samples : Nat, baseSamples : Nat,
     lines : Seq(Lines)]

Fresh ==
    [flow |-> "NEW", cancelled |-> FALSE, mic |-> "CLOSED", running |-> FALSE,
     thread |-> "NONE", position |-> 0, channel |-> <<>>, chunks |-> <<>>,
     samples |-> 0, baseSamples |-> 0, lines |-> <<>>]

Init ==
    /\ rec = [r \in Recordings |-> Fresh]
    /\ captureJob = None
    /\ loaded = FALSE
    /\ calls = <<>>

-----------------------------------------------------------------------------
(* The capture job, on the main thread                                     *)

(* transcribe loads the model first; a failed load ends the flow with an   *)
(* error event.  Collecting the audio has the IO dispatcher open the mic.  *)
StartRecording(r) ==
    /\ captureJob = None
    /\ rec[r].flow = "NEW" /\ \A q \in 1..r - 1 : rec[q].flow # "NEW"
    /\ captureJob' = r
    /\ \/ /\ loaded' = TRUE
          /\ rec' = [rec EXCEPT ![r].flow = "COLLECT", ![r].mic = "OPENING"]
       \/ /\ ~loaded
          /\ rec' = [rec EXCEPT ![r].flow = "ENDED"]
          /\ UNCHANGED loaded
    /\ UNCHANGED calls

(* Stop, and every way out of the capture screen, cancels the job.  The    *)
(* code after collect, which would flush the tail, is skipped with it: the *)
(* audio flow never completes otherwise.                                   *)
StopRecording ==
    /\ captureJob # None
    /\ rec' = [rec EXCEPT ![captureJob].cancelled = TRUE, ![captureJob].channel = <<>>,
                          ![captureJob].flow = IF @ = "COLLECT" THEN "ENDED" ELSE @]
    /\ captureJob' = None
    /\ UNCHANGED <<loaded, calls>>

(* One chunk is taken from the channel; a full window goes to whisper.     *)
Collect(r) ==
    /\ rec[r].flow = "COLLECT" /\ rec[r].channel # <<>>
    /\ LET chunk == Head(rec[r].channel)
           full == rec[r].samples + chunk.len >= WindowSamples
       IN  /\ rec' = [rec EXCEPT ![r].channel = Tail(@),
                                 ![r].chunks = Append(@, chunk),
                                 ![r].samples = @ + chunk.len,
                                 ![r].flow = IF full THEN "TRANSCRIBE" ELSE @]
           /\ calls' = IF full THEN Append(calls, r) ELSE calls
    /\ UNCHANGED <<captureJob, loaded>>

(* The line of a window, from what the code knows of its place.            *)
Line(s) ==
    [startMs |-> s.baseSamples \div SamplesPerMs,
     endMs |-> (s.baseSamples + s.samples) \div SamplesPerMs,
     from |-> s.chunks[1].at,
     to |-> s.chunks[Len(s.chunks)].at + s.chunks[Len(s.chunks)].len]

CommittedIfSpoken(s, spoken) ==
    [s EXCEPT !.baseSamples = IF spoken THEN @ + s.samples ELSE @, !.chunks = <<>>,
              !.samples = 0, !.flow = "COLLECT",
              !.lines = IF spoken THEN Append(@, Line(s)) ELSE @]

CommittedUncleared(s, spoken) ==
    [s EXCEPT !.baseSamples = @ + s.samples, !.flow = "COLLECT",
              !.lines = IF spoken THEN Append(@, Line(s)) ELSE @]

(* The window is committed; one that was silent, or failed, emits nothing. *)
Committed(s, spoken) ==
    [s EXCEPT !.baseSamples = @ + s.samples, !.chunks = <<>>, !.samples = 0,
              !.flow = "COLLECT",
              !.lines = IF spoken THEN Append(@, Line(s)) ELSE @]

(* Whisper has one thread, which takes the calls in order; a cancelled     *)
(* call still occupies it until it ends.                                   *)
WhisperReturns(r) ==
    /\ calls # <<>> /\ r = Head(calls)
    /\ calls' = Tail(calls)

TranscribedAnyway(r) ==
    /\ WhisperReturns(r)
    /\ \E spoken \in BOOLEAN : rec' = [rec EXCEPT ![r] = Committed(@, spoken)]
    /\ UNCHANGED <<captureJob, loaded>>

TranscribedIfLive(r) ==
    /\ WhisperReturns(r) /\ ~rec[r].cancelled
    /\ \E spoken \in BOOLEAN : rec' = [rec EXCEPT ![r] = Committed(@, spoken)]
    /\ UNCHANGED <<captureJob, loaded>>

(* Whisper's thread finishes a window.  A cancelled job gets an exception  *)
(* instead of the text, which run takes for silence, and ends when it asks *)
(* for the next chunk.                                                     *)
Transcribed(r) ==
    /\ WhisperReturns(r)
    /\ \E spoken \in BOOLEAN :
          rec' = [rec EXCEPT ![r] = IF rec[r].cancelled
                                      THEN [Committed(@, FALSE) EXCEPT !.flow = "ENDED"]
                                      ELSE Committed(@, spoken)]
    /\ UNCHANGED <<captureJob, loaded>>

-----------------------------------------------------------------------------
(* The recorder: its producer on the IO dispatcher, and the mic thread      *)
OpenMic(r) ==
    /\ rec[r].mic = "OPENING"
    /\ rec' = IF rec[r].cancelled
                THEN [rec EXCEPT ![r].mic = "RELEASED", ![r].thread = "ENDED"]
                ELSE [rec EXCEPT ![r].mic = "OPEN", ![r].running = TRUE, ![r].thread = "CHECK"]
    /\ UNCHANGED <<captureJob, loaded, calls>>

(* AudioRecord cannot be initialised: the exception passes through collect *)
(* to a scope without a handler and the process dies.                      *)
MicUnavailable(r) ==
    /\ rec[r].mic = "OPENING" /\ ~rec[r].cancelled
    /\ rec' = [q \in Recordings |->
                 IF rec[q].flow = "NEW" THEN rec[q]
                 ELSE [rec[q] EXCEPT !.flow = "ENDED", !.cancelled = TRUE, !.channel = <<>>,
                                     !.running = FALSE, !.mic = "RELEASED", !.thread = "ENDED"]]
    /\ captureJob' = None
    /\ loaded' = FALSE
    /\ calls' = <<>>

ThreadChecks(r) ==
    /\ rec[r].thread = "CHECK"
    /\ rec' = [rec EXCEPT ![r].thread = IF rec[r].running THEN "READ" ELSE "ENDED"]
    /\ UNCHANGED <<captureJob, loaded, calls>>

(* A read returns n samples, none when it fails or the recorder is gone;   *)
(* trySend drops them once the job is cancelled.                           *)
ThreadReads(r) ==
    /\ rec[r].thread = "READ"
    /\ \E n \in 0..ReadSize :
          /\ rec[r].mic = "RELEASED" => n = 0
          /\ rec[r].position + n <= MaxPosition
          /\ LET sent == n > 0 /\ ~rec[r].cancelled
                 chunk == [at |-> rec[r].position, len |-> n]
             IN  rec' = [rec EXCEPT ![r].thread = "CHECK",
                                    ![r].position = IF sent THEN @ + n ELSE @,
                                    ![r].channel = IF sent THEN Append(@, chunk) ELSE @]
    /\ UNCHANGED <<captureJob, loaded, calls>>

CloseMicKeepsRunning(r) ==
    /\ rec[r].mic = "OPEN" /\ rec[r].cancelled
    /\ rec' = [rec EXCEPT ![r].mic = "JOINING"]
    /\ UNCHANGED <<captureJob, loaded, calls>>

(* awaitClose: the thread is told to stop and joined for half a second.    *)
CloseMic(r) ==
    /\ rec[r].mic = "OPEN" /\ rec[r].cancelled
    /\ rec' = [rec EXCEPT ![r].running = FALSE, ![r].mic = "JOINING"]
    /\ UNCHANGED <<captureJob, loaded, calls>>

(* The join ends, the thread done or not, and the recorder is released.    *)
ReleaseMic(r) ==
    /\ rec[r].mic = "JOINING"
    /\ rec' = [rec EXCEPT ![r].mic = "RELEASED"]
    /\ UNCHANGED <<captureJob, loaded, calls>>

Recorder(r) == OpenMic(r) \/ CloseMic(r) \/ ReleaseMic(r)
MicThread(r) == ThreadChecks(r) \/ ThreadReads(r)

Next ==
    \/ StopRecording
    \/ \E r \in Recordings :
          \/ StartRecording(r) \/ MicUnavailable(r)
          \/ Collect(r) \/ Transcribed(r) \/ Recorder(r) \/ MicThread(r)

Spec == Init /\ [][Next]_vars

(* Threads and dispatchers run, and a native call of whisper ends.  Nothing *)
(* makes the lawyer start or stop.                                         *)
FairSpec ==
    /\ Spec
    /\ \A r \in Recordings :
         /\ WF_vars(Collect(r)) /\ WF_vars(Transcribed(r))
         /\ WF_vars(Recorder(r)) /\ WF_vars(MicThread(r))

-----------------------------------------------------------------------------
(* Properties                                                              *)

(* Every variable holds a value of its type.                               *)
TypeOK ==
    /\ rec \in [Recordings -> States]
    /\ captureJob \in Recordings \cup {None}
    /\ loaded \in BOOLEAN
    /\ calls \in Seq(Recordings)

(* The chunks of q follow each other without gap or overlap, from a to b.  *)
Covers(q, a, b) ==
    IF q = <<>> THEN a = b
    ELSE /\ q[1].at = a
         /\ \A i \in 1..Len(q) - 1 : q[i].at + q[i].len = q[i + 1].at
         /\ q[Len(q)].at + q[Len(q)].len = b

(* While a recording runs, the committed windows, the buffered chunks and  *)
(* the channel together hold everything the mic delivered, in order and    *)
(* exactly once, however far whisper lags behind the mic.                  *)
AudioConserved ==
    \A r \in Recordings :
        LET s == rec[r]
        IN  ~s.cancelled =>
              /\ Covers(s.chunks, s.baseSamples, s.baseSamples + s.samples)
              /\ Covers(s.channel, s.baseSamples + s.samples, s.position)

(* Every line carries the times at which its audio was spoken, silent and  *)
(* failed windows before it included.                                      *)
TimesAreTrue ==
    \A r \in Recordings : \A i \in 1..Len(rec[r].lines) :
        LET l == rec[r].lines[i]
        IN  /\ l.startMs = l.from \div SamplesPerMs
            /\ l.endMs = l.to \div SamplesPerMs

(* A window never outgrows its size by a whole read: what is handed to     *)
(* whisper at once stays bounded although the channel does not.            *)
WindowBounded == \A r \in Recordings : rec[r].samples < WindowSamples + ReadSize

(* On its way from the mic to whisper audio stays whole and in bounds.     *)
AudioSound == TypeOK /\ AudioConserved /\ WindowBounded

(* A stopped recording adds no line, even when whisper was in the middle   *)
(* of its window: what is said after Stop is not transcribed.              *)
NothingAfterStop ==
    [][\A r \in Recordings :
         rec[r].cancelled => rec'[r].lines = rec[r].lines]_vars

(* Cancelling the collector stops and releases the recorder and ends its   *)
(* thread.                                                                 *)
MicReleased ==
    \A r \in Recordings :
        rec[r].cancelled ~> rec[r].mic \in {"CLOSED", "RELEASED"} /\ rec[r].thread \in {"NONE", "ENDED"}

(* A full window is transcribed or its recording stopped: no window waits  *)
(* forever behind one of an earlier recording.                             *)
WindowsFinish == \A r \in Recordings : rec[r].flow = "TRANSCRIBE" ~> rec[r].flow # "TRANSCRIBE"

(* When a stopped recording has come to rest, all of its audio has been    *)
(* transcribed.                                                            *)
TailFlushed ==
    \A r \in Recordings :
        rec[r].cancelled /\ rec[r].flow = "ENDED" => rec[r].samples = 0
=============================================================================
