# Sub Rosa: a TLA+ verification project

Sub Rosa is an Android app that records a lawyer's first consultation with a
client, transcribes it on the phone (whisper.cpp), has a small on-device LLM
(Hexagon NPU, CPU as fallback) label the speakers and draw up intake notes, and
keeps the result in encrypted files under Client > Case > Session. This
directory models in TLA+ the app's own logic, `src/app/src/main/java/com/subrosa/app/`,
and the stateful core of the vendored `whisper.cpp` and `ggml` on which every
window of audio is transcribed: decode loop, KV cache, graph allocator and
thread pool. TLC checks small instances and TLAPS proves the central invariants
for every instance. `PROJECT.json` holds the machine-readable side: components,
runs, the map from definitions to source lines, hazards, findings, theorems and,
for every property, a mutant of the model that breaks it.

    tlc -config Engine.cfg TextEngines      # one run
    tlapm ConsultationProofs.tla            # one proof module

## The system

| Component | State | Operations | Hard parts |
|---|---|---|---|
| `SessionViewModel` with its screens | `SessionUiState` (phase, client, case, session id, lines, notes, flags), `captureJob`, `processingJob`, `processingStage`, cached lists | navigation, consent, start/stop recording, demo script, cancel, continue, seal, open and delete sessions and cases | two kinds of coroutine update one state; cancelled jobs go on; state read before a suspension and used after it |
| Text engines: `FallbackTextEngine` over `NpuRunnerEngine` and `LlmEngine` | `degraded`, `loaded`, `module`, `out.txt` in the cache, the backend label | load, generate, warmup; switch to the CPU on the first failure | worker threads, check-then-act, a shared file, cancellation that looks like failure |
| Audio: `AudioRecorder`, `WhisperTranscriber`, `WhisperEngine`, `WhisperContext` | mic thread, `running`, unbounded channel, window buffer, position | open, read, window, transcribe, stop, release | four actors per recording; a single whisper thread shared by consecutive recordings |
| Stores: `ClientStore`, `CaseStore`, `SessionStore`, `DocumentStore`, `DemoSeeder` | one encrypted file per item | save, list, delete, cascades | no transactions; death of the process between two file operations |
| Notes: `NotesJsonParser`, `mergeWithPrior`, `buildCaseReport` | notes of each session | extract JSON, salvage fields, set-difference, verify quotes, merge passes, aggregate a case | malformed answers; text normalisation; combining several passes and consultations |
| Speaker attribution, prompts, checklists | none | pure | label parsing |
| Decode loop and KV cache (`whisper.cpp`) | `seek`, decoders, history, segments; cells with position and sequences | `whisper_full_with_state`: window, temperature, sample, decode, rank, output; `find_slot`, `seq_cp`, `seq_rm` | fallback and failure at every step, beams that swap caches, termination |
| Graph allocator (`ggml-alloc.c`) | free blocks of each chunk, children and views of each tensor, the plan, the buffer | reserve, allocate, reuse of a plan | memory shared, taken over in place and planned for another graph |
| Thread pool (`ggml-cpu.c`) | `n_graph`, barrier counters, `current_chunk`, `stop`, `pause`, `abort`, the workers | new, compute, pause, resume, free | lock-free barrier and polling, sleeping on a condition, reuse from graph to graph |
| App lock, privacy monitor, PDF report, diarizer, screens, theme | little | platform I/O, layout | not modelled, see the end |

How they interact. The screens call handlers of the view model on the main
thread. `startRecording` collects the transcriber's flow, which collects the
recorder's flow; each finalized line is appended to the state. `stopAndProcess`
cancels the capture and launches the processing job, which suspends only in the
text engine (attribution, then notes); its result is merged, shown and saved.
The warmup at launch and every processing job share one text engine. Deleting
cascades through the stores by the lists the view model has cached.

Below `WhisperEngine`, a window is one `fullTranscribe` of `jni.c` on whisper's
single thread, which calls `whisper_full`. Each token is a graph: built anew,
placed by the graph allocator (`ggml_gallocr_alloc_graph`), computed by a pool of
threads made for it and freed after it, then read. The decoders share one KV
cache, whose cells the graph reads and writes.

What makes each part correct: a record holds only what was said in its own
session and loses nothing; nothing is recorded without consent; the processing
screen always ends; a caller gets the answer to its own prompt; the chip never
claims the NPU on the CPU; audio is transcribed once and with true times and
the microphone is let go; nothing on disk outlives its owner; a fact shown as
verified was spoken; what is listed as missing is what nobody covered. A decoder
attends to its own context and no text of a result is lost; an operand is not
overwritten while it is needed; every part of a graph is computed once, in
order, and every call returns.

## Modules

| Module | Models |
|---|---|
| `Consultation` | the view model: navigation, capture, processing job, records |
| `RecordLifecycle` | the abstract record: absent, in progress, sealed, deleted |
| `MCConsultation` | constants of `Consultation` for TLC |
| `ConsultationProofs` | its inductive invariant and five theorems, and five more that hold while no running job is cancelled |
| `TextEngines` | the fallback engine, both backends, the label |
| `TextEnginesProofs` | its invariants and seven theorems |
| `AudioCapture` | recorder, mic thread, windowing, whisper's thread |
| `AudioCaptureProofs` | its inductive invariant and three theorems |
| `Records` | the files, the cascades, the cached lists, crashes |
| `RecordsProofs` | its inductive invariant and three theorems |
| `JsonExtract` | the brace scanner and, as reference, the grammar of blocks |
| `IntakeNotes` (`MCIntakeNotes`) | parser, quote check, merging, case report |
| `IntakeNotesProofs` | its inductive invariant, three theorems, and that the scanner is exact |
| `ThreadPool` (`MCThreadPool`) | ggml's pool of threads, one step per access to shared state |
| `ThreadPoolProofs` | its inductive invariant, three theorems, and that it implements `GraphRun` |
| `GraphRun` | the abstract run of a graph: node after node, every part once |
| `DynTallocr` | the allocator of addresses: best fit, growth, chunks, merging |
| `GraphAlloc` | the walk that plans a graph's memory, and the plan's reuse |
| `GraphMemory` (`MCGraphMemory`) | a graph computed in that memory as `GraphRun` allows |
| `GraphAllocProofs` | the inductive invariants of both, the exactness of the free lists, and that operands and outputs stay intact |
| `KvCache` | cells, slots and sequences of the attention cache |
| `WhisperFull` (`MCWhisperFull`) | the decode loop |
| `WhisperFullProofs` | its inductive invariant and four theorems |

An operator that stands directly before another and is named for what it gets
wrong is a faulty variant, used only as a mutant.

**Consultation.** One action per handler and per stretch of a coroutine between
two suspensions, because all of them run on the main thread. The central fact of
this code is what cancellation does: `processingJob?.cancel()` marks the job,
but the engine call is blocking work that runs on, and the
`CancellationException` that follows is swallowed by the `runCatching` around
each engine call. So a cancelled job stays in `jobs` and later runs to its end
(`AttributionReturns`, `NotesReturn`) on whatever state it finds. A capture, on
the other hand, delivers nothing after its cancellation. Lines and facts are
abstracted to the session they came from, which is what isolation and loss are
about; `MIN_TOTAL_WORDS` becomes `MinSegments`; `matterType` is null exactly
when `sessionId` is. `consentGiven` is never read by the code; the history
variable `consented` takes its place. Session ids are clock readings and are
taken to be distinct. The Decline button has an empty handler and so no action.
`ProcessRestart` may strike at any time; what it can do inside a save is in
`Records`.

**TextEngines.** A caller is the warmup or a job; its position is one of the
points at which threads interleave. The answer to a prompt is the caller whose
prompt it was. `out` is the shared `out.txt`: deleted in `NpuStart`, written (or
not) by the runner in `RunnerEnds`, read in `NpuRead`. `Cancel` does not interrupt
a call; it turns its outcome into an exception, which `guard` cannot tell from a
failure. The history variables `overlapped`, `cancelled` and `npuFailed` only
serve the properties.

**AudioCapture.** A chunk is the interval of the recording that a read covered,
so that loss, repetition and wrong times are all visible. Reads return any
number of samples up to `ReadSize`, or nothing. A recording is ended only by
cancelling it: the microphone's flow never completes by itself.

**Records.** A handler is a list of file operations (`todo`) followed by its
refreshes and its next screen (`after`); only `Restart` can come in between. A
write tears the file and then fills it. `list()` skips what it cannot decode,
documents are listed by name. What a screen offers
is a guard named for it (`OnHome`, `OnCaseProfile`, ...). `File.delete` is taken to succeed; jobs that save
late are the business of `Consultation`.

**JsonExtract, IntakeNotes.** Texts are sequences of atoms that match as a
whole; `Lower`, `Punct` and `Label` carry what `normalize` and
`stripSpeakerLabel` do. The answers of the model are any of a set of outputs and
of decoded objects with absent, mistyped and partial fields. The instance takes
two of the shipped checklist items whose names alias and two that do not.

**ThreadPool, GraphRun.** The build is the one of `CMakeLists.txt`, with
`GGML_OPENMP` off. A step is one access to a shared atomic, or one critical
section of the pool's mutex. A thread's `pc` is its place in
`ggml_graph_compute_secondary_thread`, `ggml_graph_compute_thread`,
`ggml_compute_forward_mul_mat` or `ggml_barrier`; `ret` says which of three
barriers it is in. A node is skipped, computed by rows (part `ith` of `nth`) or a
matrix product cut into chunks that the threads fetch from a shared counter.
Memory is sequentially consistent; the relaxed accesses are ordered in the code
by the seq_cst operations of the barrier, and what a weaker order could show
is not modelled. The app makes a disposable pool for every graph; pools that are
kept, paused and resumed are modelled because the code supports them and the
hardest interleavings are theirs. `work` is a ghost: how often each part was
computed. `ThreadPool` implements `GraphRun` with `parts <- work`, and
`GraphMemory` lets a graph be computed in any order `GraphRun` allows, so what
holds there holds for whatever the threads do.

**DynTallocr, GraphAlloc, GraphMemory.** The sorted array of free blocks is a
set. The walk is split where the code loops: a leaf, a node, an operand of a
node that is done with. A graph carries what the allocator asks of it: operands,
views, sizes, whether data is external, whether the operation can be done in
place, whether it is an output. A cell of memory remembers whose value was
written to it last. Two branches of the code are never taken and are left out:
a view as operand taken over in place (a view is never allocated by this
allocator), and leftovers of such an operand (layouts are equal). A plan is kept
for any graph that does not outgrow it, and `ggml_gallocr_needs_realloc` compares
neither operations nor which tensors the operands are. So what is computed in
the memory of an earlier plan is right only if the graphs are of one making, and
`Alike` in the assumption of `GraphMemory` says so: of two graphs one of which
fits the other's plan, one is the other in other sizes. In `whisper.cpp` each
allocator is given the graphs of one builder (`whisper_sched_graph_init`), which
differ in numbers of tokens and of cells.

**KvCache, WhisperFull.** What the network computes is open: any token that
`whisper_process_logits` lets through may be sampled, any decoder may score
best, entropy and log-probabilities may fall on either side of their
thresholds. A token is text, the end, or a timestamp. The content of a cell is
represented by the tokens that led to it, which is what makes a wrong context
visible. The encoder, the prompt's decoding and every step's decoding may fail,
and an attempt to go on is a further call. The app decodes greedily, with five
candidates above temperature 0 and no history; history and beam search are
modelled as well.

## Runs

| Run | Config | Shows |
|---|---|---|
| `uninterrupted` | `ConsultationUninterrupted.cfg` | as long as no running job is cancelled: isolation, consent, no lost line, and refinement of `RecordLifecycle`; saves may fail and the process may restart |
| `interrupted` | `ConsultationInterrupted.cfg` | with a cancellation and failing saves: capture ownership, no dead processing screen, fresh list, no dangling case; the processing screen is always left |
| `consent_bypassed` | `ConsentBypassed.cfg` | violation: see Findings |
| `engine` | `Engine.cfg` | what the engine guarantees always, and until callers overlap |
| `audio_capture` | `AudioCapture.cfg` | conservation, times, bounds, stop, release |
| `tail_not_flushed` | `TailNotFlushed.cfg` | violation |
| `records` | `Records.cfg` | no orphans, lists and screens true to the disk, across crashes |
| `notes` | `IntakeNotes.cfg` | exact extraction, verified quotes, merging, the report |
| `unmarked_item_dropped` | `UnmarkedItemDropped.cfg` | violation |
| `thread_pool` | `ThreadPool.cfg` | threads in lockstep, quiet between graphs, refinement of `GraphRun`, every call returns |
| `graph_memory` | `GraphMemory.cfg` | exact free lists; operands and outputs intact for every order of computing |
| `decode` | `WhisperFull.cfg` | own context, room in the cache, a transcript that only grows, every call returns |

What the two consultation runs say together. `MaxInterrupts` bounds how often a
*running* job is cancelled. With 0 everything in `uninterrupted` holds; with 1 in
that same config TLC violates `ImplementsLifecycle`, `NoLineLost` and
`ConsentBeforeCapture`, all by a cancelled job that wakes up late. The properties
of `interrupted` are those that survive it, and they are the ones proved for any
number of cancellations. The engine divides the same way: `OwnAnswerInTurn`, `FailureIsRetried` and
`ChipNeverLies` are claimed while no two callers have been inside at once, the
others always. `AudioSound`, `ScreenSound`, `NotesSound`, `ReportExact` and
`OwnAnswerInTurn` are conjunctions whose parts are commented one by one.

Bounds. Two sessions suffice for mixing, two cases for a script that is offered
on one and not the other, one or two jobs for a late job beside a current one,
two lines for an overwritten transcript (with `MinSegments = 1`, so that both an
insufficient and a sufficient transcript occur). `interrupted` keeps one session,
one case and one line beside two jobs, since its properties are about a job and
a screen; `consent_bypassed` has two sessions and symmetry. Neither liveness nor
refinement is checked under symmetry. Two callers are enough for
every interleaving of the engine, whose steps involve a caller and shared flags
only; the proofs cover any finite number. Two recordings suffice for one to be
delayed by its predecessor, and four samples with windows and reads of two give
partial reads, overfull windows and several windows. One case and client beside
the seeded ones allow cascades with and without other items. Two consultations
and two passes give continued passes and reports over both; extraction is
compared on all texts of up to six characters. Three threads are the fewest of
which one can be slow while two others meet; two graphs per pool give every
counter a second use, and four wanted chunks both of `mul_mat`'s ways of cutting.
The graphs of `graph_memory` have six tensors, enough for views, in-place
operations, outputs, gaps, growth and a second and third chunk; sizes are not
multiples of the alignment. `decode` has a context of fourteen positions, so
three tokens a window and histories both cut and whole, two decoders that swap,
two temperatures, one below and one above the threshold for history, and audio
of up to two windows; the code pads the cache to 256 cells, the model does not,
which leaves less room. The bounds of the state
(`MaxSegments`, `MaxPosition`, `MaxRecordings`, `MaxPasses`, `MaxLines`,
`MaxConsultations`, `MaxInterrupts`, `MaxGraphs`) are guards named in the modules. Deadlock
is checked except in `AudioCapture`, which comes to rest when its recordings are
used up.

Fairness. `interrupted` assumes that each suspended job is resumed: the
engine call is a native call or a subprocess that ends, and the main thread
dispatches its continuation. `engine` assumes each thread inside a call makes
progress, nothing of who calls or cancels. `audio_capture` assumes it of the
collecting coroutine, the producer, the mic thread and whisper's thread. `thread_pool` assumes that the operating system runs every
thread, not that a wakeup without a cause comes or that anybody calls; `decode`
that a call runs on its caller's thread. No fairness is put on the lawyer.

## Findings

1. *Consent bypassed* (`SessionViewModel.kt:471`). Cancel processing, go back,
   begin a new consultation: when the old job wakes up it replaces the consent
   screen by results, from where Continue reaches the microphone.
   `ARCHITECTURE.md:100` has only "CONSENT --> CAPTURE: I consent".
2. *Tail dropped* (`WhisperTranscriber.kt:79`). Stop cancels the coroutine that
   would run the flush: "On stop, the trailing block is flushed." (`:20-21`).
3. *Unmarked item covered* (`NotesJsonParser.kt:76`). Containment makes the mark
   of one shipped item cover another; line 69 says "Set-difference: the checklist
   items whose id/label the model did NOT mark as covered."

Seen while reading and not claimed by any run.

In the app: leaving the capture screen cancels the capture and leaves
`isRecording` set (`SessionViewModel.kt:204`), so a session opened and continued
then shows "Capturing the consultation on-device." (`CaptureScreen.kt:224`) with no
capture behind it; overlapping generations share `out.txt`
(`NpuRunnerEngine.kt:52`) and may return each other's answers; loading the CPU
engine replaces the red "CPU FALLBACK" label by the plain CPU one
(`LlmEngine.kt:41`, `FallbackTextEngine.kt:8-9`); a session whose first pass failed
is saved in progress and offers neither Continue nor Seal; a quote of
punctuation only counts as verified; `parseLabels` accepts prose, taking each l
and c in it for a label; a merged report is `Parsed` although facts of the first
pass may be unverified; an item covered in the first pass may be missing again
in the second; `DocumentStore.open` leaves plaintext in the cache directory.

In whisper.cpp and ggml: a failed `whisper_full` is only logged by `jni.c:188` and
its partial text is shown as the window's; `best_decoder_id` is not reset between
temperatures, so when all decoders fail at one the winner of the one before
may name the output; the result of a decoder that has failed at the last
temperature is written out untruncated; "do not allow to go back in time"
(`whisper.cpp:7365`) cannot happen, as the logits of earlier timestamps are
masked; after a failed `whisper_kv_cache_init` the state is freed
(`whisper.cpp:7156`) and the caller goes on to count its segments;
`ggml_gallocr_needs_realloc` compares counts and sizes, not which tensors the
operands are, while `ggml-alloc.h:70` speaks of "automatic reallocation if the
topology changes"; if a buffer cannot be allocated the new plan stays behind
without it; the graph count in `n_graph` wraps after 65,536 graphs, which only a
worker asleep through all of them could mistake for no work.

## Proofs

Theorems hold for every value of the constants that satisfies the modules'
assumptions: constants of the right kind, `None` outside the sets, `Callers`
finite. Seven assumptions say more. A call to the pool asks for at least one
thread and no more than `MaxThreads`, which is only the bound the model puts on
pools. `None` is no handler's end in `Records` (`NothingAssumption`). No two items of a
checklist have the same label, as in each of the shipped ones
(`ChecklistAssumption`). `prompt_init` has no more than four tokens: start, language,
task and no-timestamps (`whisper.cpp:6975`). The graphs
of `GraphAlloc` are well formed: operands before results, as `ggml_build_forward`
orders them, every leaf somebody's operand (`ggml_visit_parents_graph`), every view
within its tensor (`ggml_new_tensor_impl` asserts it), no product in place
(`ggml_op_can_inplace`), no more than `GGML_MAX_SRC` operands. Those of `GraphMemory` are
of one making, as above. And no tensor is larger than `Endless`, which is half of
`SIZE_MAX`: `ggml_dyn_tallocr_new_chunk` takes its last chunk to hold anything, as
the code says ("virtually endless memory"), and hands out what is not there
otherwise.

Each inductive invariant was first checked by TLC on the run of its module.

`ConsultationProofs` proves `Inductive` of `Consultation` an invariant and from it
`TypeCorrect`, `CaptureNeverLost`, `ProcessingNeverStranded`, `ListMatchesDisk` and
`NoDanglingCase`. The four properties are not inductive alone: that a late job's
save leaves no dangling case needs `ui.case` to be an existing case and the list
that `deleteCase` cascades over to be the disk; that the processing screen has
a job needs a session behind every suspended job, since `generateNotes` returns
without leaving the screen when there is none. `SessionExists` adds this. One
lemma per group of actions; helper lemmas for the shared bodies (`ShowHome`,
`ShowCase`, `Persist`, `Conclude`, `GenerateNotes`).

Its second half proves what the run `uninterrupted` checks, all of it under
`MaxInterrupts = 0`, for any number of sessions, cases, jobs, failing saves and
restarts. The hypothesis is the boundary the code draws: with one interruption
TLC violates three of the four. The invariant `Undisturbed` says that the job which runs is the one the
processing screen waits for and that what it was given is still on that screen,
that a capture runs only for the session on the capture screen, and that lines
and facts, on screen and on disk, are their session's own. Its last part, that
the record of the session on screen is not deleted, not sealed before the screen
says so and holds no fact the screen lacks, is what the refinement of
`RecordLifecycle` needs: every save only extends the record.

`TextEnginesProofs` uses three invariants. `Sound` says of each caller what its
position implies: it has something to do, it is on the CPU only when the app has
switched, and it generates there only with a module, which once set is never
unset. From it follow `EngineTypeCorrect`, `CpuAlwaysLoaded` and
`NpuGivenUpForCause`. `BuildCount` bounds the builds made plus those under way by
the number of callers: one is started only while there is no module, hence
before any has been finished, so by distinct callers. It gives
`BuildsAreBounded`. `InTurn` says what holds until two callers have been inside at
once: whoever is inside is alone, so `out.txt` is absent or holds its answer, and
the label follows what it did. It gives `AnswersInTurn`, `FailuresAreRetried` and
`ChipIsTrue`.

`AudioCaptureProofs`: until its job is cancelled, the window of a recording covers
the audio from where the last one ended, and the channel what follows up to the
last read, without gap or overlap; a read fits into the window because only a
full one is longer than a window less one sample; and whisper's queue holds each
recording that waits for it once. `AudioSound` and `TimesAreTrue` follow. The
third theorem is the action property that nothing is added after a stop.

`RecordsProofs`: a restart may drop a handler after any operation, so the
invariant has what remains of its operations in it. They are a rest of a plan
that deletes sessions and documents before their case and cases before their
client, and whatever is deleted later in the plan has all that belongs to it
deleted earlier, as far as it still exists. With that `NoOrphans` holds after every
prefix. `ListsMatchDisk` and `ScreenSound` need that the refreshes to come cover every
list an operation has made stale, and that the next screen shows nothing the
operations remove.

`ThreadPoolProofs`: `PoolInv` gives each thread a position, its node and whether
it is past the barrier inside a product, in which a thread that a barrier has
let go but that has not yet seen it counts as past it. Two threads are at the
same position, or every node between them is one that can be passed: skipped, or
the last, after which the code has no barrier. The barrier's counter is the
number of those it holds, and the last to arrive finds all others waiting, which
is what lets it reset the counter. Lockstep and quiet between graphs follow, for
any number of threads, nodes, chunks and graphs.

Its second half: `ThreadPool` implements `GraphRun`, for any number of threads, graphs
of any shape and any chunks. The refinement maps the ghost `work` to `parts`, so
`PoolInv` is not enough: `WorkInv` ties `work` to where the threads are. A thread's
rows are done once it has computed their node (`RowsCounted`); a chunk is done if
it has been given out and nobody holds it, or, once some thread is behind the
product, in any case (`ChunksCounted`); no two threads hold one chunk
(`GivenOnce`), and who has found none left leaves none (`GivenOut`), which needs
that thread 0 sets the counter to the number of threads before any of them gets
past the barrier (`CounterSet`). For an abort: no thread comes past the node it
stops at (`NotPast`), and once `abort` is set thread 0 is on its way to that node
or out of the graph and does not ask the callback again (`Marked`). Then a thread inside a node finds all nodes
before it done, so computing its part is `ComputePart`; thread 0 returns when each
thread of the graph is through with what is wanted; and kickoff, the abort
callback and the end of `ggml_graph_compute` are `Begin`, `Abort` and `Collect`. All
other steps stutter.

`GraphAllocProofs`: `Tiled` divides a chunk between its free blocks and the tensors
that own memory in it. Three lemmas show that cutting a block (`TakeTiled`),
giving back and merging (`MergeTiled`) and taking an operand's memory over
(`RenameTiled`) keep it, one (`PlaceGives`) that the best fit is a fit. The
invariant adds that only tensors the walk has reached own memory, so that the
tensor placed next owns none. Which free block is best does not matter to it.

Its second half is about the graphs computed in that memory, and what it comes
to is one relation, `Yields`: a tensor `u` may lie where an earlier `t` lies only if
all nodes that need `t`, itself or through a view, come before `u`, or `u` is the
only one left, is written over `t` cell by cell, and has its size and address; and
`t` is no output. It is kept in three places. On the walk (`Sound`): the counts of
children and views are never below the uses to come (`Counts`; they may stay above,
since a view nobody uses is counted and never dropped), so what is given back or
taken over is over (`GivenUp`, `ReuseIsLast`), and who owns memory is apart from whoever is placed
next, by the first half. In the plan (`MadeFor`): addresses are those of the walk,
and no chunk is larger than the buffer's. For a later graph (`PlanServes`): what it
is given memory for is no larger than what was planned, leafs included, because
each is an operand and operands are compared; so whatever meets in it met in the
plan. Then the run: a cell that was written holds its value until a later tensor
with the same cell is written there (`Held`), and nodes are computed one after the
other (`Sequential`). A part still to be computed finds its operands, then, because
a tensor written over one of them would have to yield to nobody but the node
itself, and that part has not been computed: `OperandsStayIntact`. And an output
yields to none: `OutputsStayIntact`. How a node is cut does not matter but for one
fact, that the parts cover it (`PartOf`).

`IntakeNotesProofs`: texts, answers, checklists and cases are of any length, so
what the list functions return has to be proved by induction. The library states
induction for an operator, which no prover here can instantiate; but for a *set*
of numbers it can be had: sets of numbers have least elements, since the
intervals below them are finite and the proper subset relation is well founded on
finite sets (`LeastNumber`), hence a set that holds 0 and with each number the next
is all of them (`Induction`). The recursive functions in `Picked` and `FlattenSeq`
are shown to exist in the same way and then unfolded one step at a time.
`PickedComesFrom` says that a filter returns the elements of the positions it
takes, once and in order, `FlattenHolds` that nothing is lost or invented in
joining lists, `DistinctFacts` that of each key one fact remains, `NormalizeConcat`
that normalising is done word by word. What is verified then stays verified,
since a longer text still contains what a shorter one did. The invariant
`RecordsAgree` says that the screen shows the notes of the record and that whoever
has notes has words enough for the next ones, so that the notice on too few words
hides none; `CoverageAgrees`, that the list of a record is what its last usable
pass left. From them `NotesSound`, `FactsNeverLost` and `ReportExact`.

`ExtractionIsExact`, in the same module, needs no invariant of the notes: it says
of the scanner and the grammar in `JsonExtract` that they agree on texts of every
length (`MaxRaw` is any bound of at least two, the length of the smallest block).
The recursive functions in `Scanned`, `Literals` and `Bodies` are shown to exist
and unfolded (`Scanner`, `LiteralsStep`, `BodiesStep`). Then two inductions. What
the grammar generates the scan reads: over the length of a body, the scan is at its
end at the depth at which it began (`LiteralsRead`, `BodiesRead`), so behind a
block at the start of the text it is done (`BlockRead`). And what the scan reads the
grammar generates: over the positions of the text, with the invariant `StillOpen`,
which names the braces still open, and says that between each and the next stands a
body, and behind the last a body or a body and a literal that has begun
(`ReadSoFar`). A scan that is done stays so (`DoneStays`), which makes the block the only one.

`WhisperFullProofs`: five parts. `Packed`: every batch so far lies in the first
`prompt + i * kv_n_dec` cells, since a step adds at most `kv_n_dec` tokens and the
cache is searched from its front; so the cells from there on are free and
the search finds a slot there at the latest, wherever copying and removing have
left holes. The cache is long enough for all steps of a temperature because
the prompt is at most `InitLen` and half of `n_text_ctx`, no more than half of it
less four tokens are sampled (`whisper.cpp:7205`), and there are `n_text_ctx`
cells for each decoder (`whisper.cpp:7149`; the argument does not need the two
more rows that are allocated against fragmentation). `CacheHasRoom` follows. `Contexts`: each decoder still at work has one
cell for every position before its next token, computed from its own tokens.
Beam search keeps it because it copies each chosen part aside before it removes
any (`Moved`); this gives `ContextIsOwn`. `Timely`: the timestamps of a result do not
decrease and `seek_delta` covers the last of them, so the check against going
back in time (`whisper.cpp:7365`) never fires. `Written`: the segments are in order of time and none ends
beyond `seek` before the audio is at its end, which with `Timely` gives
`TranscriptOnlyGrows`; that no text is lost in cutting a result into
segments is an induction over its tokens, with `Induction` as above. `FindSlot` and
the two lists a batch is made of are characterised by lemmas of their own.

`TypeOK` of the app's modules and `DegradedByFailure` are proved and not run.

Only model-checked, and why. Liveness under fairness (`ProcessingEnds`,
`CallsReturn`, `MicReleased`, `WindowsFinish`, `ComputeReturns`, `CallReturns`): the
prover does not do it.

## Plan

1. Done: the consultation with its abstract record, the engine, audio, records,
   notes; thread pool, graph allocator and its memory, KV cache and decode loop;
   proofs about all of them, as above.
2. To model: `SpeakerAttributor.parseLabels` and the heuristic with the labels
   they decide; the composition of `Consultation` with `TextEngines`, so that the
   overlap of jobs in the engine follows from the view model instead of being
   any overlap.

## Not modelled

The repository's C and C++ is vendored: some 327,000 lines, of which
nine in ten are kernels, quantisation formats, repacked layouts for other
processors, and backends (Vulkan, OpenCL, SYCL, CUDA, Metal, CANN, ...) that
`CMakeLists.txt` does not compile. That code is numeric and without a state
to interleave, so a model of it would repeat its arithmetic and say nothing; what
has state and is used by the app is in the modules above. Hence the map covers a
small share of the lines. Left out of the modelled native files: loading,
quantisation, the encoder's graphs, logits and scores, language detection, VAD,
grammar, token-level timestamps, callbacks, several buffer types and backends
(`ggml-backend.cpp`'s scheduler splits nothing where the CPU is alone), NUMA, thread
priorities, and allocation failures other than those named.

Of the app: the JNI bridge, which copies arguments and results; prompt wording; PDF layout, export and download; checklists as an asset
(they enter as a constant); the app lock, a flag set once per launch; the
privacy monitor's probe; the acoustic diarizer and live speaker id, which only
self-tests reach; theme and layout, beyond the conditions under which a button
is offered; taps during a screen's exit animation; the setters no screen calls
(`toggleSpeaker`, `setCaptureMode`, `correctSpeaker`, `setSpeakerCount`).
