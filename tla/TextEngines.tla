---------------------------- MODULE TextEngines ----------------------------
(***************************************************************************)
(* The text engine the app's LLM calls share: FallbackTextEngine over the  *)
(* Hexagon runner (NpuRunnerEngine, one subprocess per generation, answer  *)
(* read back from a file) and the CPU engine (LlmEngine, one LlmModule in  *)
(* memory), with the backend chip of MetricsCollector.                     *)
(*                                                                         *)
(* A caller is the warmup at launch or a processing job.  Its calls run on *)
(* worker threads; what FallbackTextEngine.guard does with their outcome   *)
(* runs on the main thread.  Callers overlap: the demo script is not gated *)
(* by the warmup, and a cancelled job stays in the engine while the next   *)
(* one starts.  Cancelling a caller does not interrupt its call, it turns  *)
(* the outcome into an exception, which guard cannot tell from a failure.  *)
(*                                                                         *)
(* Prompts and answers are left out: an answer is the caller whose prompt  *)
(* it answers.  Operators that stand before another and are named for what *)
(* they get wrong are faulty variants some property has to catch.          *)
(***************************************************************************)
EXTENDS Naturals, Sequences, FiniteSets

CONSTANTS
    Callers,
    Warmup,      \* the caller that warms the engine; nothing cancels it
    None

ASSUME TextEnginesAssumption ==
    /\ IsFiniteSet(Callers)
    /\ None \notin Callers

VARIABLES
    degraded,    \* FallbackTextEngine.degraded
    npuLoaded,   \* NpuRunnerEngine.loaded
    out,         \* whose answer the runner's out.txt holds
    module,      \* LlmEngine.module is set
    builds,      \* LlmModules built and loaded so far
    label,       \* MetricsCollector's backend label
    npuFailed,   \* history: a call on the NPU failed of itself
    overlapped,  \* history: two callers have been in the engine at once
    cancelled,   \* history: some caller was cancelled
    call         \* what each caller is doing

history == <<npuFailed, overlapped, cancelled>>
engines == <<degraded, npuLoaded, out, module, builds, label>>
vars == <<engines, history, call>>

Labels == {"NONE", "NPU", "CPU", "CPU_FALLBACK"}

(* OK and THROWN wait for the main thread, as DONE and ERROR do for the    *)
(* caller; the states of an engine are on a worker thread.                 *)
Places == {"IDLE", "ENTER", "NPU_LOAD", "NPU_START", "NPU_RUN", "NPU_READ",
           "CPU_LOAD", "CPU_BUILD", "CPU_RUN", "OK", "THROWN", "DONE", "ERROR"}

Ops == {"load", "generate", "warmup"}

Calls ==
    [at : Places, task : {"none", "warmup", "attribute", "notes"}, todo : Seq(Ops),
     cancelled : BOOLEAN, answer : Callers \cup {None},
     by : {"NONE", "NPU", "CPU"},   \* the engine that generated the answer
     triedCpu : BOOLEAN,            \* the CPU engine was asked for this call
     seeds : BOOLEAN]               \* seedsAssistantTurn as the caller read it

Idle == [at |-> "IDLE", task |-> "none", todo |-> <<>>, cancelled |-> FALSE,
         answer |-> None, by |-> "NONE", triedCpu |-> FALSE, seeds |-> FALSE]

Init ==
    /\ degraded = FALSE
    /\ npuLoaded = FALSE
    /\ out = None
    /\ module = FALSE
    /\ builds = 0
    /\ label = "NPU"
    /\ npuFailed = FALSE
    /\ overlapped = FALSE
    /\ cancelled = FALSE
    /\ call = [c \in Callers |-> Idle]

-----------------------------------------------------------------------------
At(c, place) == call[c].at = place
Op(c) == Head(call[c].todo)
Goto(c, place) == call' = [call EXCEPT ![c].at = place]

IsLoaded == IF degraded THEN module ELSE npuLoaded
SeedsAssistantTurn == degraded

(* The engine operations of each task, in order.                           *)
Program(task) ==
    CASE task = "warmup" -> <<"warmup">>
      [] task = "attribute" -> <<"load", "generate">>
      [] task = "notes" -> IF IsLoaded THEN <<"generate">> ELSE <<"load", "generate">>

Begin(c, task) ==
    /\ At(c, "IDLE")
    /\ (task = "warmup") = (c = Warmup)
    /\ call' = [call EXCEPT ![c] = [Idle EXCEPT !.at = "ENTER", !.task = task,
                                                !.todo = Program(task)]]
    /\ overlapped' = (overlapped \/ \E d \in Callers : ~At(d, "IDLE"))
    /\ UNCHANGED <<engines, npuFailed, cancelled>>

EnterCpuUnchecked(c) ==
    /\ At(c, "ENTER")
    /\ call' = [call EXCEPT
         ![c].at = IF call[c].cancelled THEN "THROWN"
                   ELSE IF degraded
                     THEN IF Op(c) = "load" THEN "CPU_LOAD" ELSE "CPU_RUN"
                     ELSE IF Op(c) = "load" \/ ~npuLoaded THEN "NPU_LOAD" ELSE "NPU_START",
         ![c].triedCpu = @ \/ (degraded /\ ~call[c].cancelled)]
    /\ UNCHANGED <<engines, history>>

(* guard runs its block on the active engine.  In a cancelled job the      *)
(* engine's withContext throws without running anything.                   *)
Enter(c) ==
    /\ At(c, "ENTER")
    /\ call' = [call EXCEPT
         ![c].at = IF call[c].cancelled THEN "THROWN"
                   ELSE IF degraded
                     THEN IF Op(c) = "load" \/ ~module THEN "CPU_LOAD" ELSE "CPU_RUN"
                     ELSE IF Op(c) = "load" \/ ~npuLoaded THEN "NPU_LOAD" ELSE "NPU_START",
         ![c].triedCpu = @ \/ (degraded /\ ~call[c].cancelled)]
    /\ UNCHANGED <<engines, history>>

-----------------------------------------------------------------------------
(* The NPU runner                                                          *)
NpuLoad(c) ==
    /\ At(c, "NPU_LOAD")
    /\ \/ /\ npuLoaded' = TRUE
          /\ label' = "NPU"
          /\ Goto(c, IF Op(c) = "load" THEN "OK" ELSE "NPU_START")
          /\ UNCHANGED npuFailed
       \/ /\ Goto(c, "THROWN")          \* the runner or its model is missing
          /\ npuFailed' = TRUE
          /\ UNCHANGED <<npuLoaded, label>>
    /\ UNCHANGED <<degraded, out, module, builds, overlapped, cancelled>>

NpuStartKeepsFile(c) ==
    /\ At(c, "NPU_START")
    /\ Goto(c, "NPU_RUN")
    /\ UNCHANGED <<engines, history>>

(* out.txt, which all runs share, is deleted and the runner is started.    *)
NpuStart(c) ==
    /\ At(c, "NPU_START")
    /\ out' = None
    /\ Goto(c, "NPU_RUN")
    /\ UNCHANGED <<degraded, npuLoaded, module, builds, label, history>>

(* The runner process ends, with or without having written its output.     *)
RunnerEnds(c) ==
    /\ At(c, "NPU_RUN")
    /\ out' \in {out, c}
    /\ Goto(c, "NPU_READ")
    /\ UNCHANGED <<degraded, npuLoaded, module, builds, label, history>>

NpuRead(c) ==
    /\ At(c, "NPU_READ")
    /\ IF out = None
         THEN Goto(c, "THROWN") /\ npuFailed' = TRUE
         ELSE /\ call' = [call EXCEPT ![c].at = "OK", ![c].answer = out, ![c].by = "NPU"]
              /\ UNCHANGED npuFailed
    /\ UNCHANGED <<engines, overlapped, cancelled>>

-----------------------------------------------------------------------------
(* The CPU engine                                                          *)
AfterCpuLoad(c) == IF Op(c) = "load" THEN "OK" ELSE "CPU_RUN"

CpuLoadAlways(c) ==
    /\ At(c, "CPU_LOAD")
    /\ Goto(c, "CPU_BUILD")
    /\ UNCHANGED <<engines, history>>

CpuLoad(c) ==
    /\ At(c, "CPU_LOAD")
    /\ Goto(c, IF module THEN AfterCpuLoad(c) ELSE "CPU_BUILD")
    /\ UNCHANGED <<engines, history>>

(* The module is built off to the side, then published with its label.     *)
CpuBuilt(c) ==
    /\ At(c, "CPU_BUILD")
    /\ \/ /\ module' = TRUE
          /\ builds' = builds + 1
          /\ label' = "CPU"
          /\ Goto(c, AfterCpuLoad(c))
       \/ /\ Goto(c, "THROWN")
          /\ UNCHANGED <<module, builds, label>>
    /\ UNCHANGED <<degraded, npuLoaded, out, history>>

CpuRun(c) ==
    /\ At(c, "CPU_RUN")
    /\ \/ call' = [call EXCEPT ![c].at = "OK", ![c].answer = c, ![c].by = "CPU"]
       \/ Goto(c, "THROWN")
    /\ UNCHANGED <<engines, history>>

-----------------------------------------------------------------------------
(* Back on the main thread                                                 *)
(* The attributor reads the flag after its load and before it generates;   *)
(* the notes generator after it generated.                                 *)
SeedsReadNow(c) ==
    IF call[c].task = "attribute" THEN Op(c) = "load" ELSE Op(c) = "generate"

Resume(c) ==
    /\ At(c, "OK")
    /\ IF call[c].cancelled THEN Goto(c, "THROWN")
       ELSE call' = [call EXCEPT
              ![c].at = IF Len(call[c].todo) = 1 THEN "DONE" ELSE "ENTER",
              ![c].todo = Tail(@),
              ![c].seeds = IF SeedsReadNow(c) THEN SeedsAssistantTurn ELSE @]
    /\ UNCHANGED <<engines, history>>

GuardKeepsLabel(c) ==
    /\ At(c, "THROWN")
    /\ Goto(c, IF degraded THEN "ERROR" ELSE "ENTER")
    /\ degraded' = TRUE
    /\ UNCHANGED <<npuLoaded, out, module, builds, label, history>>

GuardRetriesAlways(c) ==
    /\ At(c, "THROWN")
    /\ Goto(c, "ENTER")
    /\ degraded' = TRUE
    /\ label' = "CPU_FALLBACK"
    /\ UNCHANGED <<npuLoaded, out, module, builds, history>>

GuardRethrows(c) ==
    /\ At(c, "THROWN")
    /\ degraded' = TRUE
    /\ label' = "CPU_FALLBACK"
    /\ Goto(c, "ERROR")
    /\ UNCHANGED <<npuLoaded, out, module, builds, history>>

(* guard's catch: the first failure switches to the CPU and tries again,   *)
(* any later one, on whatever engine, is rethrown.                         *)
Guard(c) ==
    /\ At(c, "THROWN")
    /\ IF degraded
         THEN Goto(c, "ERROR") /\ UNCHANGED <<degraded, label>>
         ELSE /\ degraded' = TRUE
              /\ label' = "CPU_FALLBACK"
              /\ Goto(c, "ENTER")
    /\ UNCHANGED <<npuLoaded, out, module, builds, history>>

Return(c) ==
    /\ At(c, "DONE") \/ At(c, "ERROR")
    /\ call' = [call EXCEPT ![c] = Idle]
    /\ UNCHANGED <<engines, history>>

Cancel(c) ==
    /\ c # Warmup
    /\ call[c].at \notin {"IDLE", "DONE", "ERROR"}
    /\ ~call[c].cancelled
    /\ call' = [call EXCEPT ![c].cancelled = TRUE]
    /\ cancelled' = TRUE
    /\ UNCHANGED <<engines, npuFailed, overlapped>>

(* A new consultation, or opening a saved one, resets the metrics.         *)
MetricsReset ==
    /\ label' = "NONE"
    /\ UNCHANGED <<degraded, npuLoaded, out, module, builds, history, call>>

Step(c) ==
    \/ Enter(c) \/ NpuLoad(c) \/ NpuStart(c) \/ RunnerEnds(c) \/ NpuRead(c)
    \/ CpuLoad(c) \/ CpuBuilt(c) \/ CpuRun(c) \/ Resume(c) \/ Guard(c) \/ Return(c)

Next ==
    \/ \E c \in Callers : Step(c) \/ Cancel(c)
    \/ \E c \in Callers, task \in {"warmup", "attribute", "notes"} : Begin(c, task)
    \/ MetricsReset

Spec == Init /\ [][Next]_vars

(* Worker threads and the runner process make progress; nothing makes a    *)
(* caller begin.                                                           *)
FairSpec == Spec /\ \A c \in Callers : WF_vars(Step(c))

-----------------------------------------------------------------------------
(* Properties                                                              *)

(* Every variable holds a value of its type.                               *)
TypeOK ==
    /\ degraded \in BOOLEAN /\ npuLoaded \in BOOLEAN /\ module \in BOOLEAN
    /\ npuFailed \in BOOLEAN /\ overlapped \in BOOLEAN /\ cancelled \in BOOLEAN
    /\ out \in Callers \cup {None}
    /\ builds \in Nat
    /\ label \in Labels
    /\ call \in [Callers -> Calls]

(* The CPU engine never generates without a model ("LlmEngine not loaded"  *)
(* is never thrown), however loads and fallbacks of callers interleave.    *)
CpuGeneratesLoaded == \A c \in Callers : At(c, "CPU_RUN") => module

(* LlmEngine.load checks the module before it builds one and publishes it  *)
(* after: callers that overlap may each build a model, but no caller ever   *)
(* builds a second one, so memory holds at most one per overlapping caller. *)
BuildsBounded == builds <= Cardinality(Callers)

(* Every call returns, with an answer or an error.                         *)
CallsReturn == \A c \in Callers : ~At(c, "IDLE") ~> At(c, "IDLE")

(* A caller gets the answer to its own prompt.                             *)
AnswerIsOwn == \A c \in Callers : At(c, "DONE") => call[c].answer = c

(* What the engine promises as long as its callers take turns, a cancelled *)
(* caller included until its call has ended:                               *)

(* the runner's shared out.txt never hands a caller another one's answer;  *)
AnswerIsOwnInTurn == ~overlapped => AnswerIsOwn

(* the notes generator prepends the JSON prefill exactly when the engine   *)
(* that answered had consumed it;                                          *)
SeedsMatchAnswer ==
    ~overlapped =>
        \A c \in Callers :
            At(c, "DONE") /\ call[c].task = "notes" => call[c].seeds = (call[c].by = "CPU")

(* a call that nobody cancelled fails only after the CPU was tried;        *)
FailureIsRetried ==
    ~overlapped =>
        \A c \in Callers : At(c, "ERROR") => call[c].cancelled \/ call[c].triedCpu

(* so an answer is the caller's own and is completed as it has to be;      *)
OwnAnswerInTurn == AnswerIsOwnInTurn /\ SeedsMatchAnswer

(* once the app has switched, the chip never claims the NPU.               *)
ChipNeverLies == ~overlapped /\ degraded => label # "NPU"

(* However callers overlap, the app gives the NPU up only when the NPU     *)
(* failed or a caller was cancelled in it, which guard takes for a failure. *)
DegradedByFailure == degraded => npuFailed \/ cancelled
=============================================================================
