----------------------------- MODULE ThreadPool -----------------------------
(***************************************************************************)
(* The thread pool of ggml's CPU backend (ggml-cpu.c), on which every      *)
(* Whisper window of the app is computed. Thread 0 is the caller of        *)
(* ggml_graph_compute and works like the others; the threads 1 to          *)
(* n_threads - 1 are the pool's workers. The app passes no pool, so each   *)
(* graph makes a disposable one; a caller may also make a pool, pause and  *)
(* resume it and keep it for several graphs with different numbers of      *)
(* threads. The build is the one without OpenMP. The operators that stand  *)
(* before another and are named for what they get wrong are faulty         *)
(* variants.                                                               *)
(*                                                                         *)
(* A step is one access to a shared atomic, or one critical section of     *)
(* the pool's mutex: what a thread outside the mutex can see half way      *)
(* through one (n_graph stored, pause not yet cleared) sends it back to    *)
(* the mutex. The three loads of ggml_graph_compute_thread_ready are one   *)
(* step: only the last, of n_graph, can start work, and to have seen stop  *)
(* or pause too early only leads to the mutex. Memory is sequentially      *)
(* consistent: the code's relaxed loads and stores are ordered by the      *)
(* seq_cst read-modify-writes of the barrier, which the model does not go  *)
(* below.                                                                  *)
(***************************************************************************)
EXTENDS Integers, FiniteSets, Sequences

CONSTANTS
    MaxThreads,     \* the largest pool, and the most threads asked for
    MaxGraphs,      \* graphs one pool computes before it is freed (a bound)
    Calls,          \* what is asked for: the kinds of the nodes, the threads
    ChunksWanted,   \* chunks mul_mat would cut its result into
    PoorChunking    \* chunks per thread below which it cuts by thread instead

ASSUME ThreadPoolAssumption ==
    /\ MaxThreads \in Nat \ {0}
    /\ MaxGraphs \in Nat \ {0}
    /\ Calls \subseteq [shape : Seq({"skip", "rows", "chunks"}), threads : 1 .. MaxThreads]
    /\ ChunksWanted \in Nat \ {0}
    /\ PoorChunking \in Nat \ {0}

Threads == 0 .. MaxThreads - 1
Workers == Threads \ {0}

VARIABLES
    pool,        \* "none", "disposable" or "kept": who frees the pool
    n_threads,   \* threads of the pool, the caller's included
    cgraph,      \* the graph being computed
    n_graph,     \* [graph, threads]: the two halves of the atomic n_graph
    n_barrier, n_barrier_passed, current_chunk,
    stop, pause, abort, ec,
    pc,          \* where each thread is
    last_graph,  \* the n_graph a worker has last taken notice of
    nth,         \* params.nth of a computing thread
    node,        \* node_n, each thread's own loop counter
    chunk,       \* current_chunk, mul_mat's local
    seen,        \* ggml_barrier's locals: n_threads and n_passed
    ret,         \* what follows the barrier a thread is in
    wdata,       \* the node for which each thread has filled its share of
                 \* the work buffer, into which mul_mat converts an operand
    work         \* ghost: times each part of each node has been computed

pooled == <<pool, n_threads>>
barrier == <<n_barrier, n_barrier_passed>>
flags == <<stop, pause>>
request == <<cgraph, current_chunk, abort, ec>>
shared == <<pooled, n_graph, barrier, flags, request>>
frame == <<nth, node, chunk, seen, ret>>
data == <<wdata, work>>
vars == <<shared, pc, last_graph, frame, data>>

NoGraph == [graph |-> 0, threads |-> 0]
Unfilled == [t \in Threads |-> -1]
NotSeen == [threads |-> 0, passed |-> 0]
NNodes == Len(cgraph)
Kind(k) == cgraph[k + 1]

(* mul_mat's chunks: few chunks are re-cut into one for each thread.       *)
NChunks(n) == IF ChunksWanted < n * PoorChunking THEN n ELSE ChunksWanted

(* The parts a node's result is cut into when n threads compute it.        *)
Parts(k, n) == CASE Kind(k) = "skip" -> {}
                 [] Kind(k) = "rows" -> 0 .. n - 1
                 [] Kind(k) = "chunks" -> 0 .. NChunks(n) - 1

Goto(t, label) == pc' = [pc EXCEPT ![t] = label]

(* ggml_cond_broadcast: the sleepers go back to the test they slept on.    *)
Awake(p) == [t \in Threads |-> CASE p[t] = "paused" -> "pause"
                                 [] p[t] = "asleep" -> "sleep"
                                 [] OTHER -> p[t]]

Init ==
    /\ pool = "none" /\ n_threads = 0 /\ cgraph = <<>>
    /\ n_graph = NoGraph /\ n_barrier = 0 /\ n_barrier_passed = 0
    /\ current_chunk = 0 /\ stop = FALSE /\ pause = FALSE
    /\ abort = -1 /\ ec = "success"
    /\ pc = [t \in Threads |-> IF t = 0 THEN "idle" ELSE "none"]
    /\ last_graph = [t \in Threads |-> NoGraph]
    /\ nth = [t \in Threads |-> 0]
    /\ node = [t \in Threads |-> 0]
    /\ chunk = [t \in Threads |-> 0]
    /\ seen = [t \in Threads |-> NotSeen]
    /\ ret = [t \in Threads |-> "exit"]
    /\ wdata = Unfilled /\ work = <<>>

-----------------------------------------------------------------------------
(* The caller: pools, graphs, and the end of a pool.                       *)

(* ggml_threadpool_new_impl: fresh state, and a thread for every worker.   *)
NewPool(kind, n, paused, main) ==
    /\ pool' = kind /\ n_threads' = n
    /\ n_graph' = NoGraph /\ n_barrier' = 0 /\ n_barrier_passed' = 0
    /\ current_chunk' = 0 /\ stop' = FALSE /\ pause' = paused
    /\ abort' = -1 /\ ec' = "success"
    /\ last_graph' = [t \in Threads |-> NoGraph]
    /\ pc' = [t \in Threads |-> CASE t = 0 -> main
                                  [] t \in 1 .. n - 1 -> "pause"
                                  [] OTHER -> "none"]

KeepPool ==
    /\ pc[0] = "idle" /\ pool = "none"
    /\ \E n \in 1 .. MaxThreads, paused \in BOOLEAN :
           NewPool("kept", n, paused, "idle")
    /\ UNCHANGED <<cgraph, frame, data>>

(* ggml_threadpool_pause and _resume, called between graphs.               *)
PausePool ==
    /\ pc[0] = "idle" /\ pool = "kept" /\ ~pause
    /\ pause' = TRUE
    /\ pc' = Awake(pc)
    /\ UNCHANGED <<pooled, n_graph, barrier, stop, request, last_graph,
                   frame, data>>

ResumePool ==
    /\ pc[0] = "idle" /\ pool = "kept" /\ pause
    /\ pause' = FALSE
    /\ pc' = Awake(pc)
    /\ UNCHANGED <<pooled, n_graph, barrier, stop, request, last_graph,
                   frame, data>>

(* ggml_graph_compute without a pool: the graph gets a disposable one.     *)
ComputeDisposable(shape, n) ==
    /\ pc[0] = "idle" /\ pool = "none"
    /\ NewPool("disposable", n, FALSE, "kick")
    /\ cgraph' = shape
    /\ nth' = [nth EXCEPT ![0] = n]
    /\ UNCHANGED <<node, chunk, seen, ret, data>>

(* ggml_graph_compute on a pool: reset what the last graph left. More      *)
(* threads than the pool has are cut down to what it has.                  *)
ComputeUncut(shape, n) ==
    /\ pc[0] = "idle" /\ pool = "kept" /\ n_graph.graph < MaxGraphs
    /\ cgraph' = shape
    /\ current_chunk' = 0 /\ abort' = -1 /\ ec' = "success"
    /\ nth' = [nth EXCEPT ![0] = n]
    /\ Goto(0, "kick")
    /\ UNCHANGED <<pooled, n_graph, barrier, flags, last_graph, node, chunk,
                   seen, ret, data>>

ComputeKept(shape, n) ==
    /\ pc[0] = "idle" /\ pool = "kept" /\ n_graph.graph < MaxGraphs
    /\ cgraph' = shape
    /\ current_chunk' = 0 /\ abort' = -1 /\ ec' = "success"
    /\ nth' = [nth EXCEPT ![0] = IF n > n_threads THEN n_threads ELSE n]
    /\ Goto(0, "kick")
    /\ UNCHANGED <<pooled, n_graph, barrier, flags, last_graph, node, chunk,
                   seen, ret, data>>

(* ggml_graph_compute_kickoff, under the mutex.                            *)
KickoffUnheard ==
    /\ pc[0] = "kick"
    /\ n_graph' = [graph |-> n_graph.graph + 1, threads |-> nth[0]]
    /\ pause' = FALSE
    /\ Goto(0, "start")
    /\ work' = [k \in 0 .. NNodes - 1 |-> [p \in Parts(k, nth[0]) |-> 0]]
    /\ UNCHANGED <<pooled, barrier, stop, request, last_graph, frame, wdata>>

Kickoff ==
    /\ pc[0] = "kick"
    /\ n_graph' = [graph |-> n_graph.graph + 1, threads |-> nth[0]]
    /\ pause' = FALSE
    /\ pc' = [Awake(pc) EXCEPT ![0] = "start"]
    /\ work' = [k \in 0 .. NNodes - 1 |-> [p \in Parts(k, nth[0]) |-> 0]]
    /\ UNCHANGED <<pooled, barrier, stop, request, last_graph, frame, wdata>>

(* The rest of ggml_graph_compute: a disposable pool is freed.             *)
GraphDone ==
    /\ pc[0] = "done"
    /\ Goto(0, IF pool = "disposable" THEN "free" ELSE "idle")
    /\ wdata' = Unfilled /\ work' = <<>>
    /\ UNCHANGED <<shared, last_graph, frame>>

DropPool ==
    /\ pc[0] = "idle" /\ pool = "kept"
    /\ Goto(0, "free")
    /\ UNCHANGED <<shared, last_graph, frame, data>>

(* ggml_threadpool_free: tell the workers to stop, wait for each to end,   *)
(* release the memory.                                                     *)
StopPool ==
    /\ pc[0] = "free"
    /\ stop' = TRUE /\ pause' = FALSE
    /\ pc' = [Awake(pc) EXCEPT ![0] = "join"]
    /\ UNCHANGED <<pooled, n_graph, barrier, request, last_graph, frame,
                   data>>

FreePool ==
    /\ pc[0] = "join"
    /\ \A t \in 1 .. n_threads - 1 : pc[t] = "ended"
    /\ pool' = "none"
    /\ pc' = [t \in Threads |-> IF t = 0 THEN "idle" ELSE "none"]
    /\ UNCHANGED <<n_threads, n_graph, barrier, flags, request, last_graph,
                   frame, data>>

-----------------------------------------------------------------------------
(* A worker between graphs (ggml_graph_compute_secondary_thread).          *)

(* The pause loop: tested outside the mutex, and again inside it.          *)
TestPause(t) ==
    /\ pc[t] = "pause"
    /\ Goto(t, IF pause THEN "pauselock" ELSE "stop")
    /\ UNCHANGED <<shared, last_graph, frame, data>>

PauseSleep(t) ==
    /\ pc[t] = "pauselock"
    /\ Goto(t, IF pause THEN "paused" ELSE "pause")
    /\ UNCHANGED <<shared, last_graph, frame, data>>

TestStop(t) ==
    /\ pc[t] = "stop"
    /\ Goto(t, IF stop THEN "ended" ELSE "poll")
    /\ UNCHANGED <<shared, last_graph, frame, data>>

(* ggml_graph_compute_thread_ready is true.                                *)
Ready(t) == stop \/ pause \/ n_graph # last_graph[t]

(* It is true for new work this thread has a part in: state->pending.      *)
Called(t) == ~stop /\ ~pause /\ n_graph # last_graph[t] /\ t < n_graph.threads

(* What it leaves: the graph is noted, unless stop or pause came first.    *)
Notice(t) == last_graph' = [last_graph EXCEPT ![t] =
                              IF stop \/ pause THEN @ ELSE n_graph]

(* Polling: new work is taken, anything else leads to the mutex, and so    *)
(* does giving up after n_rounds.                                          *)
Poll(t) ==
    /\ pc[t] = "poll"
    /\ Goto(t, IF Called(t) THEN "start" ELSE "sleep")
    /\ Notice(t)
    /\ UNCHANGED <<shared, frame, data>>

(* Under the mutex: sleep until there is something to do.                  *)
Sleep(t) ==
    /\ pc[t] = "sleep"
    /\ Goto(t, IF Called(t) THEN "start"
               ELSE IF Ready(t) THEN "pause" ELSE "asleep")
    /\ Notice(t)
    /\ UNCHANGED <<shared, frame, data>>

(* pthread_cond_wait may return for no reason.                             *)
SpuriousWakeup(t) ==
    /\ pc[t] \in {"paused", "asleep"}
    /\ Goto(t, Awake(pc)[t])
    /\ UNCHANGED <<shared, last_graph, frame, data>>

-----------------------------------------------------------------------------
(* A thread in a graph (ggml_graph_compute_thread).                        *)

Start(t) ==
    /\ pc[t] = "start"
    /\ nth' = [nth EXCEPT ![t] = n_graph.threads]
    /\ node' = [node EXCEPT ![t] = 0]
    /\ Goto(t, "node")
    /\ UNCHANGED <<shared, last_graph, chunk, seen, ret, data>>

(* The head of the node loop.                                              *)
NextNode(t) ==
    /\ pc[t] = "node" /\ node[t] < NNodes /\ abort # node[t]
    /\ \/ /\ Kind(node[t]) = "skip"
          /\ node' = [node EXCEPT ![t] = @ + 1]
          /\ UNCHANGED pc
       \/ /\ Kind(node[t]) = "rows"
          /\ Goto(t, "rows")
          /\ UNCHANGED node
       \/ /\ Kind(node[t]) = "chunks"
          /\ Goto(t, "convert")
          /\ UNCHANGED node
    /\ UNCHANGED <<shared, last_graph, nth, chunk, seen, ret, data>>

LeaveAlone(t) ==
    /\ pc[t] = "node" /\ (node[t] >= NNodes \/ abort = node[t])
    /\ Goto(t, IF t = 0 THEN "done" ELSE "pause")
    /\ nth' = [nth EXCEPT ![t] = 0]
    /\ node' = [node EXCEPT ![t] = 0]
    /\ UNCHANGED <<shared, last_graph, chunk, seen, ret, data>>

LeaveLoop(t) ==
    /\ pc[t] = "node" /\ (node[t] >= NNodes \/ abort = node[t])
    /\ ret' = [ret EXCEPT ![t] = "exit"]
    /\ Goto(t, "enter")
    /\ UNCHANGED <<shared, last_graph, nth, node, chunk, seen, data>>

Done(t, part) == work' = [work EXCEPT ![node[t]][part] = @ + 1]

(* A node computed by rows: each thread does the rows of its own number.   *)
Rows(t) ==
    /\ pc[t] = "rows"
    /\ Done(t, t)
    /\ Goto(t, "computed")
    /\ UNCHANGED <<shared, last_graph, frame, wdata>>

(* mul_mat: a thread converts its share of src1 into the work buffer, and  *)
(* thread 0 sets the shared counter past the chunks the threads start on;  *)
(* then the barrier.                                                       *)
ConvertNoBarrier(t) ==
    /\ pc[t] = "convert"
    /\ wdata' = [wdata EXCEPT ![t] = node[t]]
    /\ current_chunk' = IF t = 0 THEN nth[t] ELSE current_chunk
    /\ chunk' = [chunk EXCEPT ![t] = t]
    /\ Goto(t, "chunk")
    /\ UNCHANGED <<pooled, n_graph, barrier, flags, cgraph, abort, ec,
                   last_graph, nth, node, seen, ret, work>>

Convert(t) ==
    /\ pc[t] = "convert"
    /\ wdata' = [wdata EXCEPT ![t] = node[t]]
    /\ current_chunk' = IF t = 0 THEN nth[t] ELSE current_chunk
    /\ ret' = [ret EXCEPT ![t] = "chunk"]
    /\ Goto(t, "enter")
    /\ UNCHANGED <<pooled, n_graph, barrier, flags, cgraph, abort, ec,
                   last_graph, nth, node, chunk, seen, work>>

(* A chunk of the product. When each thread has one there are no others.   *)
Chunk(t) ==
    LET enough == nth[t] >= NChunks(nth[t])
    IN  /\ pc[t] = "chunk" /\ chunk[t] < NChunks(nth[t])
        /\ Done(t, chunk[t])
        /\ chunk' = IF enough THEN [chunk EXCEPT ![t] = 0] ELSE chunk
        /\ Goto(t, IF enough THEN "computed" ELSE "fetch")
        /\ UNCHANGED <<shared, last_graph, nth, node, seen, ret, wdata>>

FetchNextChunk(t) ==
    /\ pc[t] = "fetch"
    /\ chunk' = [chunk EXCEPT ![t] = current_chunk + 1]
    /\ current_chunk' = current_chunk + 1
    /\ Goto(t, "chunk")
    /\ UNCHANGED <<pooled, n_graph, barrier, flags, cgraph, abort, ec,
                   last_graph, nth, node, seen, ret, data>>

(* atomic_fetch_add returns the counter as it was.                         *)
FetchChunk(t) ==
    /\ pc[t] = "fetch"
    /\ chunk' = [chunk EXCEPT ![t] = current_chunk]
    /\ current_chunk' = current_chunk + 1
    /\ Goto(t, "chunk")
    /\ UNCHANGED <<pooled, n_graph, barrier, flags, cgraph, abort, ec,
                   last_graph, nth, node, seen, ret, data>>

NoMoreChunks(t) ==
    /\ pc[t] = "chunk" /\ chunk[t] >= NChunks(nth[t])
    /\ chunk' = [chunk EXCEPT ![t] = 0]
    /\ Goto(t, "computed")
    /\ UNCHANGED <<shared, last_graph, nth, node, seen, ret, data>>

(* After a node: thread 0 asks the abort callback, and all meet unless     *)
(* this was the last node, after which the loop ends at the last barrier.  *)
AfterNode(t) ==
    /\ pc[t] = "computed"
    /\ \/ UNCHANGED <<abort, ec>>
       \/ /\ t = 0
          /\ abort' = node[t] + 1
          /\ ec' = "aborted"
    /\ IF node[t] + 1 < NNodes
       THEN /\ ret' = [ret EXCEPT ![t] = "next"]
            /\ Goto(t, "enter")
            /\ UNCHANGED node
       ELSE /\ node' = [node EXCEPT ![t] = @ + 1]
            /\ Goto(t, "node")
            /\ UNCHANGED ret
    /\ UNCHANGED <<pooled, n_graph, barrier, flags, cgraph, current_chunk,
                   last_graph, nth, chunk, seen, data>>

-----------------------------------------------------------------------------
(* ggml_barrier.                                                           *)

(* What a thread does next: its first chunk, the next node, or the end of  *)
(* the graph.                                                              *)
LeaveBarrier(t) ==
    /\ chunk' = [chunk EXCEPT ![t] = IF ret[t] = "chunk" THEN t ELSE 0]
    /\ node' = [node EXCEPT ![t] = CASE ret[t] = "chunk" -> @
                                      [] ret[t] = "next" -> @ + 1
                                      [] OTHER -> 0]
    /\ nth' = [nth EXCEPT ![t] = IF ret[t] = "exit" THEN 0 ELSE @]
    /\ seen' = [seen EXCEPT ![t] = NotSeen]
    /\ ret' = [ret EXCEPT ![t] = "exit"]
    /\ Goto(t, CASE ret[t] = "chunk" -> "chunk"
                 [] ret[t] = "next" -> "node"
                 [] OTHER -> IF t = 0 THEN "done" ELSE "pause")

EnterBarrier(t) ==
    /\ pc[t] = "enter"
    /\ IF n_graph.threads = 1
       THEN LeaveBarrier(t)
       ELSE /\ seen' = [seen EXCEPT ![t] = [threads |-> n_graph.threads,
                                            passed |-> n_barrier_passed]]
            /\ Goto(t, "arrive")
            /\ UNCHANGED <<nth, node, chunk, ret>>
    /\ UNCHANGED <<shared, last_graph, data>>

Arrive(t) ==
    /\ pc[t] = "arrive"
    /\ n_barrier' = n_barrier + 1
    /\ Goto(t, IF n_barrier = seen[t].threads - 1 THEN "reset" ELSE "wait")
    /\ UNCHANGED <<pooled, n_graph, n_barrier_passed, flags, request,
                   last_graph, frame, data>>

ResetBarrier(t) ==
    /\ pc[t] = "reset"
    /\ n_barrier' = 0
    /\ Goto(t, "release")
    /\ UNCHANGED <<pooled, n_graph, n_barrier_passed, flags, request,
                   last_graph, frame, data>>

ReleaseBarrier(t) ==
    /\ pc[t] = "release"
    /\ n_barrier_passed' = n_barrier_passed + 1
    /\ LeaveBarrier(t)
    /\ UNCHANGED <<pooled, n_graph, n_barrier, flags, request, last_graph,
                   data>>

WaitBarrier(t) ==
    /\ pc[t] = "wait" /\ n_barrier_passed # seen[t].passed
    /\ LeaveBarrier(t)
    /\ UNCHANGED <<shared, last_graph, data>>

-----------------------------------------------------------------------------
Manage == KeepPool \/ PausePool \/ ResumePool \/ DropPool

Call == \E call \in Calls :
            \/ ComputeDisposable(call.shape, call.threads)
            \/ ComputeKept(call.shape, call.threads)

Serve == Kickoff \/ GraphDone \/ StopPool \/ FreePool

Between(t) ==
    \/ TestPause(t) \/ PauseSleep(t) \/ TestStop(t) \/ Poll(t) \/ Sleep(t)

Compute(t) ==
    \/ Start(t) \/ NextNode(t) \/ LeaveLoop(t) \/ AfterNode(t)
    \/ Rows(t) \/ Convert(t) \/ Chunk(t) \/ FetchChunk(t) \/ NoMoreChunks(t)
    \/ EnterBarrier(t) \/ Arrive(t) \/ ResetBarrier(t) \/ ReleaseBarrier(t)
    \/ WaitBarrier(t)

Next ==
    \/ Manage \/ Call \/ Serve
    \/ \E t \in Workers : Between(t) \/ SpuriousWakeup(t)
    \/ \E t \in Threads : Compute(t)

Spec == Init /\ [][Next]_vars

(* The operating system runs every thread. Nobody has to call the library, *)
(* and wakeups without a cause need not happen.                            *)
Fairness ==
    /\ WF_vars(Serve)
    /\ \A t \in Threads : WF_vars(Between(t) \/ Compute(t))

FairSpec == Spec /\ Fairness

-----------------------------------------------------------------------------
(* Properties.                                                             *)

Labels == {"none", "idle", "kick", "done", "free", "join", "pause", "pauselock",
           "paused", "stop", "ended", "poll", "sleep", "asleep", "start",
           "node", "rows", "convert", "chunk", "fetch", "computed", "enter",
           "arrive", "wait", "reset", "release"}

InBarrier == {"enter", "arrive", "wait", "reset", "release"}
InGraph == {"start", "node", "rows", "convert", "chunk", "fetch", "computed"}
               \cup InBarrier

NGraphs == [graph : 0 .. MaxGraphs, threads : 0 .. MaxThreads]

(* Every variable of the pool holds a value of its type, each thread is at *)
(* a known place, and no thread has more of a graph's threads beside it    *)
(* than the pool has.                                                      *)
TypeOK ==
    /\ pool \in {"none", "disposable", "kept"} /\ n_threads \in 0 .. MaxThreads
    /\ cgraph \in {call.shape : call \in Calls} \cup {<<>>}
    /\ n_graph \in NGraphs /\ n_graph.threads <= n_threads
    /\ n_barrier \in 0 .. MaxThreads /\ n_barrier_passed \in Nat
    /\ current_chunk \in Nat
    /\ stop \in BOOLEAN /\ pause \in BOOLEAN
    /\ abort \in -1 .. NNodes /\ ec \in {"success", "aborted"}
    /\ pc \in [Threads -> Labels]
    /\ last_graph \in [Threads -> NGraphs]
    /\ nth \in [Threads -> 0 .. MaxThreads]
    /\ node \in [Threads -> Nat]
    /\ chunk \in [Threads -> Nat]
    /\ seen \in [Threads -> [threads : 0 .. MaxThreads, passed : Nat]]
    /\ ret \in [Threads -> {"chunk", "next", "exit"}]
    /\ wdata \in [Threads -> Nat \cup {-1}]

(* The threads of a graph go through it together: while one is inside a    *)
(* node, no other is inside another node, and a chunk of a matrix product  *)
(* is computed from an operand that every thread of the graph has          *)
(* converted for this node (ggml_barrier, after each node and inside       *)
(* mul_mat).                                                               *)
Inside(t) == pc[t] \in {"rows", "convert", "chunk", "fetch", "computed"}

Lockstep ==
    /\ \A t, u \in Threads : Inside(t) /\ Inside(u) => node[t] = node[u]
    /\ \A t \in Threads : pc[t] = "chunk" =>
           \A u \in 0 .. nth[t] - 1 : wdata[u] = node[t]

(* When ggml_graph_compute has returned, and while it resets the pool for  *)
(* the next graph, no worker reads the graph, the plan or the counters     *)
(* being reset: it is outside the graph, or has yet to see that the last   *)
(* barrier has let it go. The code relies on it: "No worker threads should *)
(* be accessing the parameters below at this stage".                       *)
QuietBetweenGraphs ==
    pc[0] \notin InGraph =>
        \A t \in Workers : pc[t] \in InGraph =>
            pc[t] = "wait" /\ ret[t] = "exit" /\ seen[t].passed # n_barrier_passed

(* The pool computes graphs as GraphRun says: node after node, every part  *)
(* once, and an aborted run stops at the end of a node.                    *)
Running == pc[0] \in InGraph

Run == INSTANCE GraphRun WITH
           status <- IF Running THEN "running"
                     ELSE IF pc[0] = "done" THEN ec ELSE "idle",
           parts <- IF Running THEN work ELSE <<>>,
           limit <- IF Running THEN abort ELSE -1

ImplementsGraphRun == Run!Spec

(* Every call into the library returns: no thread is left behind at a      *)
(* barrier or asleep, however pools are paused, resumed and freed.         *)
ComputeReturns == pc[0] # "idle" ~> pc[0] = "idle"
=============================================================================
