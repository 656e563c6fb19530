-------------------------- MODULE ThreadPoolProofs --------------------------
(***************************************************************************)
(* Proofs about ThreadPool for any size of the pool, any number of graphs  *)
(* of any shape and any division of a product into chunks.                 *)
(***************************************************************************)
EXTENDS ThreadPool, FiniteSetTheorems, SequenceTheorems, TLAPS

(* The threads the current graph is computed by, and the number of times   *)
(* the barrier has let go.                                                 *)
N == n_graph.threads
Team == 0 .. N - 1
P == n_barrier_passed

(* A thread that has noticed the current graph; one that the last barrier  *)
(* of its graph has let go but has yet to see it; one that is through.     *)
Current(t) == t = 0 \/ last_graph[t] = n_graph
Straggler(t) == pc[t] = "wait" /\ ret[t] = "exit" /\ seen[t].passed < P
Left(t) == Current(t) /\ (pc[t] \notin InGraph \/ Straggler(t))

(* Threads the barrier has let go, and threads it still holds.             *)
Released(t) == pc[t] = "wait" /\ seen[t].passed # P
Waiting == {t \in Threads : pc[t] = "wait" /\ seen[t].passed = P}
Arrived == Waiting \cup {t \in Threads : pc[t] = "reset"}

(* How far a thread is: its node, and whether it is past the barrier in    *)
(* the middle of that node. A thread that has yet to leave a barrier that  *)
(* let it go counts as past it, one that has yet to begin as at node 0.    *)
Node(t) ==
    IF ~Current(t) \/ pc[t] = "start" THEN 0
    ELSE IF Released(t) /\ ret[t] = "next" THEN node[t] + 1 ELSE node[t]

Product(t) == Kind(node[t]) = "chunks"
Held(t) == pc[t] \in InBarrier /\ ~Released(t)

Conv(t) ==
    /\ Current(t)
    /\ \/ pc[t] \in {"chunk", "fetch"}
       \/ Released(t) /\ ret[t] = "chunk"
       \/ pc[t] = "computed" /\ Product(t)
       \/ Held(t) /\ ret[t] = "next" /\ Product(t)

(* What a thread in the graph knows of its node.                           *)
Local(t) ==
    /\ t \in Team
    /\ pc[t] # "start" => nth[t] = N /\ node[t] <= NNodes
    /\ Inside(t) => node[t] < NNodes /\ abort # node[t] /\ Kind(node[t]) # "skip"
    /\ pc[t] = "rows" => Kind(node[t]) = "rows"
    /\ pc[t] \in {"convert", "chunk", "fetch"} => Product(t)
    /\ pc[t] \in InBarrier /\ ret[t] = "chunk" =>
           node[t] < NNodes /\ abort # node[t] /\ Product(t) /\ wdata[t] = node[t]
    /\ pc[t] \in InBarrier /\ ret[t] = "next" =>
           node[t] + 1 < NNodes /\ Kind(node[t]) # "skip" /\ (~Released(t) => abort # node[t])
    /\ pc[t] \in InBarrier /\ ret[t] = "exit" => node[t] = NNodes \/ abort = node[t]
    /\ pc[t] \in {"arrive", "reset", "release"} => seen[t].passed = P
    /\ pc[t] = "wait" => seen[t].passed <= P
    /\ pc[t] = "arrive" => seen[t].threads = N

(* A node that a thread may pass while another has yet to finish it: one   *)
(* that is skipped, or the last, of which the other has only its own part  *)
(* left to compute.                                                        *)
Passable(t, j) ==
    /\ abort # j
    /\ \/ Kind(j) = "skip"
       \/ j = NNodes - 1 /\ Kind(j) = "rows"
       \/ j = NNodes - 1 /\ Conv(t) /\ Node(t) = j

(* Two threads of a graph are at the same place, or the nodes between them *)
(* can be passed.                                                          *)
Near(t, u) ==
    /\ Node(t) = Node(u) => (Conv(t) <=> Conv(u))
    /\ Node(t) < Node(u) => ~Conv(u) /\ \A j \in Node(t) .. Node(u) - 1 : Passable(t, j)

(* The parts of the inductive invariant. The threads of a graph are at     *)
(* their places, leave it together and stay near each other; past the      *)
(* barrier of a product all of them have converted; the barrier counts     *)
(* those it holds; and the last to arrive finds all others waiting.        *)
Placed == \A t \in Threads : pc[t] \in InGraph => Straggler(t) \/ (Current(t) /\ Local(t))
LeftTogether == (\E t \in Team : Left(t)) => \A t \in Team : Left(t)
AllNear == \A t, u \in Team : ~Left(t) /\ ~Left(u) => Near(t, u)
Converted == \A t \in Team : Conv(t) => \A u \in Team : wdata[u] = Node(t)
Counted ==
    n_barrier = IF \E t \in Threads : pc[t] = "release" THEN 0 ELSE Cardinality(Arrived)
LastAlone ==
    \A t \in Threads : pc[t] \in {"reset", "release"} => Team \ {t} \subseteq Waiting
Numbered ==
    /\ \A t \in Threads : last_graph[t].graph <= n_graph.graph
    /\ pc[0] = "kick" => nth[0] \in 1 .. n_threads /\ n_graph.graph < MaxGraphs
    /\ pool # "none" => n_threads >= 1

PoolInv ==
    /\ TypeOK /\ Placed /\ LeftTogether /\ AllNear /\ Converted
    /\ Counted /\ LastAlone /\ Numbered

-----------------------------------------------------------------------------
(* Facts about a state.                                                    *)

(* The assumption on the constants, and the types most steps need.         *)
LEMMA Types ==
    ASSUME TypeOK
    PROVE  /\ MaxThreads \in Nat \ {0} /\ MaxGraphs \in Nat \ {0}
           /\ NNodes \in Nat
           /\ N \in 0 .. MaxThreads /\ N \in Nat /\ P \in Nat
           /\ \A t \in Threads : t \in Nat /\ node[t] \in Nat
           /\ Team \subseteq Threads
           /\ 0 \in Threads
<1>1. MaxThreads \in Nat \ {0} /\ MaxGraphs \in Nat \ {0}
  BY ThreadPoolAssumption
<1>2. cgraph \in Seq({"skip", "rows", "chunks"})
  <2>1. \A call \in Calls : call.shape \in Seq({"skip", "rows", "chunks"})
    BY ThreadPoolAssumption
  <2>2. <<>> \in Seq({"skip", "rows", "chunks"})
    BY EmptySeq
  <2> QED
    BY <2>1, <2>2, ZenonT(60) DEF TypeOK
<1>3. NNodes \in Nat
  BY <1>2, LenProperties DEF NNodes
<1>4. N \in 0 .. MaxThreads /\ P \in Nat
  BY DEF TypeOK, NGraphs, N, P
<1> QED
  BY <1>1, <1>3, <1>4, SMTT(60) DEF TypeOK, Threads, Team

(* Past the barrier of a product a thread is in the graph, and such a      *)
(* thread is not through.                                                  *)
LEMMA ConvNotLeft ==
    ASSUME PoolInv, NEW t \in Threads, Conv(t)
    PROVE  t \in Team /\ ~Left(t) /\ pc[t] \in InGraph /\ Current(t) /\ Local(t)
<1>1. pc[t] \in InGraph /\ Current(t) /\ ~Straggler(t)
  <2>1. CASE pc[t] \in {"chunk", "fetch", "computed"}
    BY <2>1 DEF Conv, InGraph, Straggler
  <2>2. CASE Released(t) /\ ret[t] = "chunk"
    BY <2>2 DEF Conv, Released, InGraph, InBarrier, Straggler
  <2>3. CASE Held(t) /\ ret[t] = "next"
    BY <2>3 DEF Conv, Held, InGraph, InBarrier, Straggler
  <2> QED
    BY <2>1, <2>2, <2>3 DEF Conv
<1> QED
  BY <1>1 DEF PoolInv, Placed, Local, Left

(* A thread in the graph has it noticed, unless it has been let go.        *)
LEMMA InGraphLocal ==
    ASSUME PoolInv, NEW t \in Threads, pc[t] \in InGraph, ~Straggler(t)
    PROVE  Current(t) /\ Local(t) /\ t \in Team /\ ~Left(t)
BY DEF PoolInv, Placed, Local, Left

(* Once thread 0 is out of the graph, so are the others, but for those     *)
(* that have yet to see that they were let go, and nobody holds the        *)
(* barrier.                                                                *)
LEMMA Quiet ==
    ASSUME PoolInv, pc[0] \notin InGraph
    PROVE  /\ \A t \in Threads : pc[t] \in InGraph => Straggler(t)
           /\ \A t \in Team : Left(t)
           /\ \A t \in Threads : pc[t] \notin {"reset", "release"}
           /\ Arrived = {} /\ n_barrier = 0
<1>1. \A t \in Team : Left(t)
  <2>1. CASE 0 \in Team
    BY <2>1 DEF PoolInv, LeftTogether, Left, Current
  <2>2. CASE 0 \notin Team
    BY <2>2, Types DEF PoolInv, Team
  <2> QED
    BY <2>1, <2>2
<1>2. \A t \in Threads : pc[t] \in InGraph => Straggler(t)
  BY <1>1, InGraphLocal
<1>3. \A t \in Threads : pc[t] \notin {"reset", "release"}
  BY <1>2 DEF Straggler, InGraph, InBarrier
<1>4. Arrived = {}
  <2>1. ASSUME NEW t \in Threads, pc[t] = "wait" PROVE seen[t].passed # P
    <3>1. seen[t].passed < P /\ seen[t].passed \in Nat /\ P \in Nat
      BY <1>2, <2>1 DEF Straggler, InGraph, InBarrier, PoolInv, TypeOK, P
    <3> QED
      BY <3>1
  <2> QED
    BY <1>3, <2>1 DEF Arrived, Waiting
<1>5. n_barrier = 0
  BY <1>3, <1>4, FS_EmptySet DEF PoolInv, Counted
<1> QED
  BY <1>1, <1>2, <1>3, <1>4, <1>5

(* The kinds of nodes.                                                     *)
LEMMA KindType ==
    ASSUME TypeOK, NEW k \in Nat, k < NNodes
    PROVE  Kind(k) \in {"skip", "rows", "chunks"}
<1>1. \A call \in Calls : call.shape \in Seq({"skip", "rows", "chunks"})
  BY ThreadPoolAssumption
<1>2. cgraph \in Seq({"skip", "rows", "chunks"})
  <2>1. <<>> \in Seq({"skip", "rows", "chunks"})
    BY EmptySeq
  <2> QED
    BY <1>1, <2>1, ZenonT(60) DEF TypeOK
<1>3. k + 1 \in 1 .. Len(cgraph)
  BY <1>2, LenProperties DEF NNodes
<1> QED
  BY <1>2, <1>3, ElementOfSeq DEF Kind

(* No thread of a graph goes past its end.                                 *)
LEMMA NodeBound ==
    ASSUME PoolInv, NEW u \in Threads, ~Left(u)
    PROVE  Node(u) \in 0 .. NNodes
<1>1. node[u] \in Nat /\ NNodes \in Nat
  BY Types DEF PoolInv
<1>2. CASE ~Current(u) \/ pc[u] = "start"
  BY <1>1, <1>2 DEF Node
<1>3. CASE Current(u) /\ pc[u] # "start"
  <2>1. Local(u)
    BY <1>3, InGraphLocal DEF Left
  <2> QED
    BY <1>1, <1>3, <2>1 DEF Node, Local, Released, InBarrier
<1> QED
  BY <1>2, <1>3

(* A thread that the barrier holds is not past its node: neither it nor    *)
(* one inside a node can be passed, except at the last node by those that  *)
(* have finished it.                                                       *)
LEMMA Unpassable ==
    ASSUME PoolInv, NEW t \in Threads, pc[t] \in InGraph, ~Straggler(t),
           Held(t), NEW u \in Threads, ~Left(u), u \in Team
    PROVE  ~(Node(t) < Node(u))
<1>1. Current(t) /\ Local(t) /\ t \in Team /\ ~Left(t) /\ Near(t, u)
  BY InGraphLocal DEF PoolInv, AllNear
<1>2. Node(t) = node[t] /\ node[t] \in Nat /\ Node(u) \in Nat /\ NNodes \in Nat
  <2>1. node[t] \in Nat /\ node[u] \in Nat /\ NNodes \in Nat
    BY Types DEF PoolInv
  <2>2. pc[t] \in InBarrier /\ ~Released(t)
    BY DEF Held
  <2> QED
    BY <1>1, <2>1, <2>2 DEF Node, InBarrier
<1>3. SUFFICES ASSUME Node(t) < Node(u) PROVE FALSE
  OBVIOUS
<1>4. Passable(t, node[t])
  BY <1>1, <1>2, <1>3 DEF Near
<1>5. CASE ret[t] = "chunk"
  BY <1>1, <1>2, <1>4, <1>5 DEF Held, Passable, Local, Product, Conv, InBarrier
<1>6. CASE ret[t] = "next"
  BY <1>1, <1>2, <1>4, <1>6 DEF Held, Passable, Local
<1>7. CASE ret[t] = "exit"
  <2>1. node[t] = NNodes
    BY <1>1, <1>4, <1>7 DEF Held, Local, Passable
  <2>2. Node(u) <= NNodes
    BY <1>2, NodeBound
  <2> QED
    BY <1>2, <1>3, <2>1, <2>2
<1> QED
  BY <1>5, <1>6, <1>7 DEF PoolInv, TypeOK

(* No thread is further than the node another is inside, but for those     *)
(* that are at the end when that node is the last.                         *)
LEMMA InsideNear ==
    ASSUME PoolInv, NEW t \in Threads, Inside(t), NEW u \in Team, ~Left(u)
    PROVE  /\ Node(t) = node[t]
           /\ Node(t) < Node(u) => node[t] = NNodes - 1 /\ Node(u) = NNodes
<1>1. /\ pc[t] \in InGraph /\ ~Straggler(t) /\ ~Released(t) /\ pc[t] # "start"
  BY DEF Inside, InGraph, Straggler, Released
<1>2. Current(t) /\ Local(t) /\ t \in Team /\ ~Left(t) /\ Near(t, u)
  BY <1>1, InGraphLocal DEF PoolInv, AllNear
<1>3. Node(t) = node[t] /\ node[t] \in Nat /\ node[t] < NNodes /\ NNodes \in Nat
  BY <1>1, <1>2, Types DEF Node, PoolInv, Local
<1>4. Node(u) \in 0 .. NNodes
  BY NodeBound, Types DEF PoolInv
<1>5. ASSUME Node(t) < Node(u) PROVE node[t] = NNodes - 1
  <2>1. Passable(t, node[t])
    BY <1>2, <1>3, <1>4, <1>5 DEF Near
  <2>2. Kind(node[t]) # "skip"
    BY <1>2 DEF Local
  <2> QED
    BY <2>1, <2>2 DEF Passable
<1> QED
  BY <1>3, <1>4, <1>5

-----------------------------------------------------------------------------
(* Steps of one thread.                                                    *)

Only(t) ==
    \A u \in Threads \ {t} :
        /\ pc'[u] = pc[u] /\ last_graph'[u] = last_graph[u] /\ nth'[u] = nth[u]
        /\ node'[u] = node[u] /\ seen'[u] = seen[u] /\ ret'[u] = ret[u]

SameGraph == UNCHANGED <<n_graph, n_barrier_passed, cgraph>>

(* A step of one thread leaves the others where they are.                  *)
LEMMA Others ==
    ASSUME NEW t \in Threads, NEW u \in Threads, u # t, Only(t), SameGraph
    PROVE  /\ Current(u)' <=> Current(u)
           /\ Straggler(u)' <=> Straggler(u)
           /\ Left(u)' <=> Left(u)
           /\ Released(u)' <=> Released(u)
           /\ Held(u)' <=> Held(u)
           /\ Node(u)' = Node(u)
           /\ Conv(u)' <=> Conv(u)
           /\ abort' = abort /\ wdata'[u] = wdata[u] /\ Local(u) => Local(u)'
<1>1. /\ pc'[u] = pc[u] /\ last_graph'[u] = last_graph[u] /\ nth'[u] = nth[u]
      /\ node'[u] = node[u] /\ seen'[u] = seen[u] /\ ret'[u] = ret[u]
      /\ n_graph' = n_graph /\ P' = P /\ cgraph' = cgraph
  BY DEF Only, SameGraph, P
<1>2. NNodes' = NNodes /\ Kind(node[u])' = Kind(node[u])
  BY <1>1 DEF NNodes, Kind
<1>3. (Current(u)' <=> Current(u)) /\ (Released(u)' <=> Released(u)) /\ (Straggler(u)' <=> Straggler(u))
  BY <1>1 DEF Current, Released, Straggler
<1>4. (Left(u)' <=> Left(u)) /\ (Held(u)' <=> Held(u)) /\ Node(u)' = Node(u)
  BY <1>1, <1>3 DEF Left, Held, Node
<1>5. Product(u)' <=> Product(u)
  BY <1>1 DEF Product, Kind
<1>6. Conv(u)' <=> Conv(u)
  BY <1>1, <1>3, <1>4, <1>5 DEF Conv
<1>7. ASSUME abort' = abort, wdata'[u] = wdata[u], Local(u) PROVE Local(u)'
  <2>1. Team' = Team /\ N' = N /\ Kind(node[u])' = Kind(node[u]) /\ (Inside(u)' <=> Inside(u))
    BY <1>1, <1>2 DEF Team, N, Inside
  <2> QED
    BY <1>1, <1>2, <1>3, <1>5, <1>7, <2>1 DEF Local, Kind
<1> QED
  BY <1>3, <1>4, <1>6, <1>7

(* What a step of a thread may do to the work buffer and to the abort      *)
(* mark: write its own share while nobody computes from the buffer, and    *)
(* mark a node that no thread has come past.                               *)
DataKept(t) ==
    \/ wdata' = wdata
    \/ /\ \A u \in Threads \ {t} : wdata'[u] = wdata[u]
       /\ \A u \in Team : ~Conv(u)

AbortKept(t) ==
    \/ abort' = abort
    \/ /\ \A u \in Team : ~Left(u) => \A j \in 0 .. Node(u) - 1 : abort' # j
       /\ \A u \in Threads \ {t} : pc[u] \in InGraph /\ ~Straggler(u) => Local(u)'

Kept(t) == DataKept(t) /\ AbortKept(t)

(* Where the threads are counts, not how they got there.                   *)
LEMMA ViewKept ==
    ASSUME PoolInv, NEW t \in Threads, SameGraph, AbortKept(t),
           \A u \in Team : /\ Left(u)' <=> Left(u)
                           /\ Left(u) \/ Node(u)' = Node(u)
                           /\ Conv(u)' <=> Conv(u)
    PROVE  LeftTogether' /\ AllNear'
<1>1. Team' = Team /\ NNodes' = NNodes /\ cgraph' = cgraph
  BY DEF SameGraph, Team, N, NNodes
<1>2. LeftTogether'
  BY <1>1 DEF PoolInv, LeftTogether
<1>3. ASSUME NEW v \in Team, NEW u \in Team, ~Left(v), ~Left(u), Near(v, u) PROVE Near(v, u)'
  <2>1. Node(v) \in Nat /\ Node(u) \in Nat
    BY Types DEF PoolInv, Node
  <2>2. ASSUME NEW j \in Node(v) .. Node(u) - 1, Passable(v, j) PROVE Passable(v, j)'
    <3>1. abort # j /\ j \in 0 .. Node(u) - 1
      BY <2>1, <2>2 DEF Passable
    <3>2. abort' # j
      BY <1>3, <3>1 DEF AbortKept
    <3> QED
      BY <1>1, <1>3, <2>2, <3>2 DEF Passable, Kind
  <2> QED
    BY <1>3, <2>2 DEF Near
<1>4. AllNear'
  BY <1>1, <1>3 DEF PoolInv, AllNear
<1> QED
  BY <1>2, <1>4

(* The barrier is not concerned by a thread that it neither holds before   *)
(* nor after.                                                              *)
LEMMA BarrierKept ==
    ASSUME PoolInv, NEW t \in Threads, Only(t), SameGraph, n_barrier' = n_barrier,
           t \notin Arrived, pc[t] # "release",
           pc'[t] \notin {"reset", "release"}, ~(pc'[t] = "wait" /\ seen'[t].passed = P)
    PROVE  Counted' /\ LastAlone'
<1>1. \A u \in Threads \ {t} : pc'[u] = pc[u] /\ seen'[u] = seen[u]
  BY DEF Only
<1>2. P' = P /\ Team' = Team
  BY DEF SameGraph, P, Team, N
<1>3. Waiting' = Waiting /\ Arrived' = Arrived
  BY <1>1, <1>2 DEF Arrived, Waiting
<1>4. (\E u \in Threads : pc'[u] = "release") <=> (\E u \in Threads : pc[u] = "release")
  BY <1>1
<1>5. Counted'
  BY <1>3, <1>4 DEF PoolInv, Counted
<1>6. ASSUME NEW u \in Threads, pc'[u] \in {"reset", "release"}
      PROVE  Team' \ {u} \subseteq Waiting'
  BY <1>1, <1>2, <1>3, <1>6 DEF PoolInv, LastAlone
<1>7. LastAlone'
  BY <1>6 DEF LastAlone
<1> QED
  BY <1>5, <1>7

(* What is left to show of a step of one thread that stays where it is as  *)
(* far as the others can see.                                              *)
LEMMA OneThread ==
    ASSUME PoolInv, TypeOK', NEW t \in Threads, Only(t), SameGraph,
           UNCHANGED <<pool, n_threads>>, Kept(t),
           pc'[0] = "kick" => pc[0] = "kick" /\ nth'[0] = nth[0],
           last_graph'[t].graph <= n_graph.graph,
           pc'[t] \in InGraph => Straggler(t)' \/ (Current(t)' /\ Local(t)'),
           t \in Team => /\ Left(t)' <=> Left(t)
                         /\ Left(t) \/ Node(t)' = Node(t)
                         /\ Conv(t)' <=> Conv(t),
           Counted', LastAlone'
    PROVE  PoolInv'
<1>1. Team' = Team /\ Team \subseteq Threads
  BY Types DEF SameGraph, Team, N, PoolInv
<1>2. \A u \in Team : /\ Left(u)' <=> Left(u)
                      /\ Left(u) \/ Node(u)' = Node(u)
                      /\ Conv(u)' <=> Conv(u)
  BY <1>1, Others
<1>3. LeftTogether' /\ AllNear'
  BY <1>2, ViewKept DEF Kept
<1>4. Placed'
  <2>1. ASSUME NEW u \in Threads, u # t, pc'[u] \in InGraph
        PROVE  Straggler(u)' \/ (Current(u)' /\ Local(u)')
    <3>1. pc[u] \in InGraph
      BY <2>1 DEF Only
    <3>2. Straggler(u) \/ (Current(u) /\ Local(u))
      BY <3>1 DEF PoolInv, Placed
    <3>3. wdata'[u] = wdata[u]
      BY <2>1 DEF Kept, DataKept
    <3>4. ~Straggler(u) => Local(u)'
      BY <2>1, <3>1, <3>2, <3>3, Others DEF Kept, AbortKept
    <3> QED
      BY <2>1, <3>2, <3>4, Others
  <2> QED
    BY <2>1 DEF Placed
<1>5. Converted'
  <2>1. \A u \in Team : Conv(u) => ~Left(u)
    BY <1>1, ConvNotLeft
  <2> QED
    BY <1>1, <1>2, <2>1 DEF PoolInv, Converted, Kept, DataKept
<1>6. Numbered'
  <2>1. \A u \in Threads : last_graph'[u].graph <= n_graph.graph
    BY DEF PoolInv, Numbered, Only
  <2> QED
    BY <2>1 DEF PoolInv, Numbered, SameGraph
<1> QED
  BY <1>3, <1>4, <1>5, <1>6 DEF PoolInv

-----------------------------------------------------------------------------
(* Workers between graphs.                                                 *)

(* A worker that stays out of the graph, or is called into one it has not  *)
(* noticed before. One that is not called is not of the graph's team.      *)
LEMMA BetweenInv ==
    ASSUME PoolInv, NEW t \in Workers, Between(t) \/ SpuriousWakeup(t)
    PROVE  PoolInv'
<1> DEFINE Out == {"pause", "pauselock", "paused", "stop", "ended", "poll", "sleep", "asleep"}
<1>1. /\ t \in Threads /\ t # 0
      /\ pc \in [Threads -> Labels] /\ last_graph \in [Threads -> NGraphs] /\ n_graph \in NGraphs
  BY DEF Workers, PoolInv, TypeOK
<1>2. /\ UNCHANGED <<shared, frame, data>>
      /\ pc[t] \in Out
      /\ \/ /\ UNCHANGED last_graph
            /\ \E l \in Out : Goto(t, l)
         \/ /\ Notice(t)
            /\ \E l \in Out \cup {"start"} : Goto(t, l) /\ (l = "start" <=> Called(t))
  <2>1. CASE TestPause(t) \/ PauseSleep(t) \/ TestStop(t)
    BY <2>1 DEF TestPause, PauseSleep, TestStop
  <2>2. CASE Poll(t)
    BY <2>2 DEF Poll
  <2>3. CASE Sleep(t)
    BY <2>3 DEF Sleep
  <2>4. CASE SpuriousWakeup(t)
    BY <1>1, <2>4 DEF SpuriousWakeup, Awake
  <2> QED
    BY <2>1, <2>2, <2>3, <2>4 DEF Between
<1>3. /\ UNCHANGED <<pool, n_threads, abort, wdata, n_barrier, node, nth, seen, ret>>
      /\ UNCHANGED <<cgraph, n_graph, n_barrier_passed>>
  BY <1>2 DEF shared, pooled, barrier, request, frame, data
<1>4. SameGraph
  BY <1>3 DEF SameGraph
<1>5. PICK l \in Out \cup {"start"} :
           /\ Goto(t, l)
           /\ \/ UNCHANGED last_graph /\ l # "start"
              \/ Notice(t) /\ (l = "start" <=> Called(t))
  BY <1>2
<1>6. /\ pc'[t] = l /\ \A u \in Threads \ {t} : pc'[u] = pc[u]
      /\ last_graph' \in [Threads -> NGraphs]
      /\ last_graph'[t] \in {last_graph[t], n_graph}
      /\ \A u \in Threads \ {t} : last_graph'[u] = last_graph[u]
  BY <1>1, <1>5 DEF Goto, Notice
<1>7. Only(t)
  BY <1>3, <1>6 DEF Only
<1>8. TypeOK'
  <2>1. pc' \in [Threads -> Labels]
    BY <1>1, <1>5 DEF Goto, Labels
  <2> QED
    BY <1>2, <1>6, <2>1
       DEF PoolInv, TypeOK, shared, pooled, barrier, flags, request, frame, data, NNodes
<1>9. last_graph'[t].graph <= n_graph.graph
  <2>1. last_graph[t].graph <= n_graph.graph
    BY <1>1 DEF PoolInv, Numbered
  <2>2. n_graph.graph \in Nat
    BY <1>1, ThreadPoolAssumption DEF NGraphs
  <2> QED
    BY <1>6, <2>1, <2>2
<1>10. pc[t] \notin InGraph /\ pc[t] \notin {"start", "wait", "reset", "release"}
  BY <1>2 DEF InGraph, InBarrier
<1>11. l \notin {"wait", "reset", "release"} /\ (l # "start" => l \notin InGraph)
  BY DEF InGraph, InBarrier
<1>12. pc'[0] = "kick" => pc[0] = "kick" /\ nth'[0] = nth[0]
  BY <1>1, <1>3, <1>6, Types DEF PoolInv
<1>13. Counted' /\ LastAlone'
  BY <1>1, <1>3, <1>4, <1>6, <1>7, <1>10, <1>11, BarrierKept DEF Arrived, Waiting
<1>14. /\ ~Conv(t) /\ ~Conv(t)'
       /\ Left(t) <=> Current(t)
  BY <1>6, <1>10, <1>11
     DEF Conv, Released, Held, Left, InGraph, InBarrier
<1>15. CASE l = "start"
  <2>1. Called(t) /\ last_graph'[t] = n_graph
    BY <1>1, <1>5, <1>15 DEF Notice, Called
  <2>2. ~Current(t) /\ Current(t)' /\ t \in Team
    BY <1>1, <1>3, <2>1, Types DEF Called, Current, Team, N, PoolInv
  <2>3. Local(t)'
    <3>1. t \in Team'
      BY <1>3, <2>2 DEF Team, N
    <3> QED
      BY <1>6, <1>15, <3>1 DEF Local, Inside, InBarrier
  <2>4. ~Left(t)' /\ ~Left(t) /\ Node(t)' = 0 /\ Node(t) = 0
    BY <1>6, <1>14, <1>15, <2>2 DEF Left, Node, Straggler, InGraph
  <2> QED
    BY <1>1, <1>3, <1>4, <1>7, <1>8, <1>9, <1>12, <1>13, <1>14, <2>2, <2>3, <2>4, OneThread DEF Kept, DataKept, AbortKept
<1>16. CASE l # "start"
  <2>1. t \in Team => (Current(t)' <=> Current(t))
    <3>1. CASE UNCHANGED last_graph
      BY <1>3, <3>1 DEF Current
    <3>2. CASE Notice(t) /\ ~Called(t)
      BY <1>1, <1>3, <3>2, Types DEF Notice, Called, Current, Team, N, PoolInv
    <3> QED
      BY <1>5, <1>16, <3>1, <3>2
  <2>2. pc'[t] \notin InGraph
    BY <1>6, <1>11, <1>16
  <2>3. t \in Team => (Left(t)' <=> Left(t)) /\ Node(t)' = Node(t)
    BY <1>3, <1>6, <1>10, <1>11, <1>14, <1>16, <2>1, <2>2 DEF Left, Node, Released
  <2> QED
    BY <1>1, <1>3, <1>4, <1>7, <1>8, <1>9, <1>12, <1>13, <1>14, <2>2, <2>3, OneThread
     DEF Kept, DataKept, AbortKept
<1> QED
  BY <1>15, <1>16

-----------------------------------------------------------------------------
(* A thread in the graph.                                                  *)

(* What is left to show of a step that stays in the graph, at the place    *)
(* the others see, and out of the barrier's hold.                          *)
LEMMA InnerStep ==
    ASSUME PoolInv, TypeOK', NEW t \in Threads, Only(t), SameGraph,
           UNCHANGED <<pool, n_threads, n_barrier, last_graph>>, Kept(t),
           pc[t] \in InGraph, ~Straggler(t), t \notin Arrived, pc[t] # "release",
           pc'[t] \in InGraph \ {"wait", "reset", "release"},
           Local(t)', Node(t)' = Node(t), Conv(t)' <=> Conv(t)
    PROVE  PoolInv'
<1>1. Current(t) /\ ~Left(t)
  BY InGraphLocal
<1>2. Current(t)' /\ ~Left(t)'
  BY <1>1 DEF Current, SameGraph, Left, Straggler
<1>3. pc'[0] = "kick" => pc[0] = "kick" /\ nth'[0] = nth[0]
  BY Types DEF PoolInv, Only, InGraph, InBarrier
<1>4. last_graph'[t].graph <= n_graph.graph
  BY DEF PoolInv, Numbered
<1>5. Counted' /\ LastAlone'
  BY BarrierKept
<1> QED
  BY <1>1, <1>2, <1>3, <1>4, <1>5, OneThread

(* The head of the node loop, when the thread does not change node.        *)
LEMMA LoopInv ==
    ASSUME PoolInv, NEW t \in Threads,
           \/ Start(t)
           \/ NextNode(t) /\ Kind(node[t]) # "skip"
           \/ LeaveLoop(t)
    PROVE  PoolInv'
<1>1. /\ pc[t] \in {"start", "node"} /\ pc[t] \in InGraph /\ ~Straggler(t) /\ t \notin Arrived
      /\ UNCHANGED <<shared, last_graph, chunk, seen, data>>
  BY DEF Start, NextNode, LeaveLoop, InGraph, Straggler, Arrived, Waiting
<1>2. Current(t) /\ Local(t) /\ t \in Team /\ ~Left(t)
  BY <1>1, InGraphLocal
<1>3. /\ UNCHANGED <<pool, n_threads, abort, wdata, n_barrier, last_graph, seen>>
      /\ UNCHANGED <<cgraph, n_graph, n_barrier_passed>>
  BY <1>1 DEF shared, pooled, barrier, request, data
<1>4. SameGraph /\ NNodes' = NNodes /\ N' = N /\ Team' = Team
  BY <1>3 DEF SameGraph, NNodes, N, Team
<1>5. \A u \in Threads \ {t} : /\ pc'[u] = pc[u] /\ nth'[u] = nth[u]
                               /\ node'[u] = node[u] /\ ret'[u] = ret[u]
  BY SMTT(60) DEF Start, NextNode, LeaveLoop, Goto, PoolInv, TypeOK
<1>6. Only(t)
  BY <1>3, <1>5 DEF Only
<1>7. N \in 0 .. MaxThreads /\ NNodes \in Nat /\ node[t] \in Nat
  BY Types DEF PoolInv
<1>8. TypeOK'
  <2>1. pc' \in [Threads -> Labels]
    BY ZenonT(60) DEF Start, NextNode, LeaveLoop, Goto, PoolInv, TypeOK, Labels
  <2>2. nth' \in [Threads -> 0 .. MaxThreads]
    BY <1>7 DEF Start, NextNode, LeaveLoop, PoolInv, TypeOK, N
  <2>3. node' \in [Threads -> Nat]
    <3>1. CASE Start(t)
      BY <3>1 DEF Start, PoolInv, TypeOK
    <3>2. CASE NextNode(t) /\ Kind(node[t]) # "skip"
      <4>1. UNCHANGED node
        BY <3>2 DEF NextNode
      <4> QED
        BY <4>1 DEF PoolInv, TypeOK
    <3>3. CASE LeaveLoop(t)
      BY <3>3 DEF LeaveLoop, PoolInv, TypeOK
    <3> QED
      BY <3>1, <3>2, <3>3
  <2>4. ret' \in [Threads -> {"chunk", "next", "exit"}]
    BY DEF Start, NextNode, LeaveLoop, PoolInv, TypeOK
  <2> QED
    BY <1>1, <2>1, <2>2, <2>3, <2>4
       DEF PoolInv, TypeOK, shared, pooled, barrier, flags, request, data, NNodes
<1>9. ~Conv(t) /\ Current(t)'
  BY <1>1, <1>2, <1>3 DEF Conv, Released, Held, InBarrier, Current
<1>10. CASE Start(t)
  <2>1. pc[t] = "start" /\ pc'[t] = "node" /\ nth'[t] = N /\ node'[t] = 0
    BY <1>10 DEF Start, Goto, PoolInv, TypeOK, N
  <2>2. Local(t)'
    BY <1>2, <1>4, <1>7, <2>1 DEF Local, Inside, InBarrier
  <2>3. Node(t) = 0 /\ Node(t)' = 0 /\ ~Conv(t)'
    BY <1>2, <1>9, <2>1 DEF Node, Conv, Released, Held, InBarrier
  <2> QED
    BY <1>1, <1>3, <1>4, <1>6, <1>8, <1>9, <2>1, <2>2, <2>3, InnerStep
       DEF Kept, DataKept, AbortKept, InGraph
<1>11. CASE NextNode(t) /\ Kind(node[t]) # "skip"
  <2>1. /\ pc[t] = "node" /\ node[t] < NNodes /\ abort # node[t]
        /\ node'[t] = node[t] /\ nth'[t] = nth[t]
        /\ \/ Kind(node[t]) = "rows" /\ pc'[t] = "rows"
           \/ Kind(node[t]) = "chunks" /\ pc'[t] = "convert"
    BY <1>11 DEF NextNode, Goto, PoolInv, TypeOK
  <2>2. Kind(node[t])' = Kind(node[t])
    BY <1>3, <2>1 DEF Kind
  <2>3. Local(t)'
    BY <1>2, <1>3, <1>4, <2>1, <2>2 DEF Local, Inside, InBarrier, Product, Kind
  <2>4. Node(t) = node[t] /\ Node(t)' = node[t] /\ ~Conv(t)'
    BY <1>2, <1>9, <2>1 DEF Node, Conv, Released, Held, InBarrier
  <2> QED
    BY <1>1, <1>3, <1>4, <1>6, <1>8, <1>9, <2>1, <2>3, <2>4, InnerStep
       DEF Kept, DataKept, AbortKept, InGraph
<1>12. CASE LeaveLoop(t)
  <2>1. /\ pc[t] = "node" /\ (node[t] >= NNodes \/ abort = node[t])
        /\ node'[t] = node[t] /\ nth'[t] = nth[t] /\ pc'[t] = "enter" /\ ret'[t] = "exit"
    BY <1>12 DEF LeaveLoop, Goto, PoolInv, TypeOK
  <2>2. node[t] = NNodes \/ abort = node[t]
    BY <1>2, <1>7, <2>1 DEF Local
  <2>3. Local(t)'
    BY <1>2, <1>3, <1>4, <2>1, <2>2 DEF Local, Inside
  <2>4. Node(t) = node[t] /\ Node(t)' = node[t] /\ ~Conv(t)'
    BY <1>2, <1>9, <2>1 DEF Node, Conv, Released, Held
  <2> QED
    BY <1>1, <1>3, <1>4, <1>6, <1>8, <1>9, <2>1, <2>3, <2>4, InnerStep
       DEF Kept, DataKept, AbortKept, InGraph, InBarrier
<1> QED
  BY <1>10, <1>11, <1>12

(* The work inside a node.                                                 *)
LEMMA ComputeInv ==
    ASSUME PoolInv, NEW t \in Threads,
           Rows(t) \/ Chunk(t) \/ FetchChunk(t) \/ NoMoreChunks(t)
    PROVE  PoolInv'
<1>1. /\ pc[t] \in {"rows", "chunk", "fetch"}
      /\ pc[t] \in InGraph /\ ~Straggler(t) /\ t \notin Arrived
      /\ UNCHANGED <<pooled, n_graph, barrier, flags, cgraph, abort, ec>>
      /\ UNCHANGED <<last_graph, nth, node, seen, ret, wdata>>
  <2> DEFINE Frame == /\ UNCHANGED <<pooled, n_graph, barrier, flags, cgraph, abort, ec>>
                      /\ UNCHANGED <<last_graph, nth, node, seen, ret, wdata>>
  <2>1. Rows(t) => pc[t] = "rows" /\ Frame
    BY DEF Rows, shared, request, frame
  <2>2. Chunk(t) => pc[t] = "chunk" /\ Frame
    BY DEF Chunk, shared, request
  <2>3. FetchChunk(t) => pc[t] = "fetch" /\ Frame
    BY DEF FetchChunk, data
  <2>4. NoMoreChunks(t) => pc[t] = "chunk" /\ Frame
    BY DEF NoMoreChunks, shared, request, data
  <2>5. pc[t] \in {"rows", "chunk", "fetch"} /\ Frame
    BY <2>1, <2>2, <2>3, <2>4
  <2>6. pc[t] \in InGraph /\ ~Straggler(t) /\ t \notin Arrived
    BY <2>5 DEF InGraph, Straggler, Arrived, Waiting
  <2> QED
    BY <2>5, <2>6
<1>2. Current(t) /\ Local(t) /\ t \in Team /\ ~Left(t)
  BY <1>1, InGraphLocal
<1>3. /\ UNCHANGED <<pool, n_threads, n_barrier, n_barrier_passed>>
      /\ SameGraph /\ NNodes' = NNodes /\ N' = N /\ Team' = Team
  BY <1>1 DEF pooled, barrier, SameGraph, NNodes, N, Team
<1>4. PICK l \in {"computed", "chunk", "fetch"} :
          /\ pc' = [pc EXCEPT ![t] = l]
          /\ l \in {"chunk", "fetch"} => pc[t] \in {"chunk", "fetch"}
  <2>1. CASE Rows(t)
    BY <2>1 DEF Rows, Goto
  <2>2. CASE Chunk(t)
    BY <2>2 DEF Chunk, Goto
  <2>3. CASE FetchChunk(t)
    BY <2>3 DEF FetchChunk, Goto
  <2>4. CASE NoMoreChunks(t)
    BY <2>4 DEF NoMoreChunks, Goto
  <2> QED
    BY <2>1, <2>2, <2>3, <2>4
<1>5. pc'[t] = l /\ \A u \in Threads \ {t} : pc'[u] = pc[u]
  BY <1>4 DEF PoolInv, TypeOK
<1>6. Only(t)
  BY <1>1, <1>5 DEF Only
<1>7. TypeOK'
  <2>1. pc' \in [Threads -> Labels]
    BY <1>4 DEF PoolInv, TypeOK, Labels
  <2>2. chunk' \in [Threads -> Nat] /\ current_chunk' \in Nat
    <3>1. CASE Rows(t)
      BY <3>1 DEF Rows, shared, request, frame, PoolInv, TypeOK
    <3>2. CASE Chunk(t)
      BY <3>2 DEF Chunk, shared, request, PoolInv, TypeOK
    <3>3. CASE FetchChunk(t)
      BY <3>3 DEF FetchChunk, PoolInv, TypeOK
    <3>4. CASE NoMoreChunks(t)
      BY <3>4 DEF NoMoreChunks, shared, request, PoolInv, TypeOK
    <3> QED
      BY <3>1, <3>2, <3>3, <3>4
  <2> QED
    BY <1>1, <2>1, <2>2 DEF PoolInv, TypeOK, pooled, barrier, flags, NNodes
<1>8. /\ node[t] < NNodes /\ abort # node[t] /\ Kind(node[t]) # "skip"
      /\ pc[t] = "rows" => Kind(node[t]) = "rows"
      /\ pc[t] # "rows" => Product(t)
  BY <1>1, <1>2 DEF Local, Inside
<1>9. Kind(node[t])' = Kind(node[t]) /\ (Product(t)' <=> Product(t))
  BY <1>1 DEF Kind, Product
<1>10. Local(t)'
  BY <1>1, <1>2, <1>3, <1>4, <1>5, <1>8, <1>9 DEF Local, Inside, InBarrier
<1>11. Node(t) = node[t] /\ Node(t)' = node[t] /\ Current(t)'
  BY <1>1, <1>2, <1>5 DEF Node, Current, Released
<1>12. Conv(t)' <=> Conv(t)
  BY <1>1, <1>2, <1>4, <1>5, <1>8, <1>9, <1>11 DEF Conv, Released, Held, InBarrier, Product
<1> QED
  BY <1>1, <1>3, <1>5, <1>6, <1>7, <1>10, <1>11, <1>12, InnerStep
       DEF Kept, DataKept, AbortKept, InGraph, InBarrier

(* While a thread converts its share of an operand nobody computes from    *)
(* the work buffer: who is past the barrier of this product found every    *)
(* thread there, and who is at another could only be past this node.       *)
LEMMA BeforeProduct ==
    ASSUME PoolInv, NEW t \in Threads, pc[t] = "convert", NEW u \in Team, Conv(u)
    PROVE  FALSE
<1>1. Inside(t) /\ pc[t] \in InGraph /\ ~Straggler(t)
  BY DEF Inside, InGraph, Straggler
<1>2. Current(t) /\ Local(t) /\ t \in Team /\ ~Left(t)
  BY <1>1, InGraphLocal
<1>3. /\ node[t] \in Nat /\ NNodes \in Nat /\ node[t] < NNodes /\ Node(t) = node[t] /\ ~Conv(t)
      /\ Product(t)
  BY <1>1, <1>2, Types DEF PoolInv, Local, Node, Conv, Released, Held, InBarrier
<1>4. u \in Threads
  BY Types DEF PoolInv
<1>5. ~Left(u) /\ Current(u) /\ Local(u) /\ pc[u] \in InGraph
  BY <1>4, ConvNotLeft
<1>6. Node(u) # Node(t)
  BY <1>2, <1>3, <1>5 DEF PoolInv, AllNear, Near
<1>7. ~(Node(t) < Node(u))
  BY <1>2, <1>5 DEF PoolInv, AllNear, Near
<1>8. Node(u) \in Nat
  BY <1>3, <1>4, <1>5, NodeBound
<1>9. ~(Node(u) < Node(t))
  <2>1. SUFFICES ASSUME Node(u) < Node(t) PROVE FALSE
    OBVIOUS
  <2>2. Passable(u, Node(u))
    BY <1>2, <1>3, <1>5, <1>8, <2>1 DEF PoolInv, AllNear, Near
  <2>3. Kind(Node(u)) # "skip"
    <3>1. Node(u) = node[u]
      BY DEF Conv, Node, Released, Held, InBarrier
    <3>2. Kind(node[u]) = "chunks"
      BY <1>5 DEF Conv, Local, Product, Released, InBarrier
    <3> QED
      BY <3>1, <3>2
  <2> QED
    BY <1>3, <1>8, <2>1, <2>2, <2>3 DEF Passable
<1> QED
  BY <1>3, <1>6, <1>7, <1>8, <1>9

(* The share of a thread in converting the operand of a product.           *)
LEMMA ConvertInv ==
    ASSUME PoolInv, NEW t \in Threads, Convert(t)
    PROVE  PoolInv'
<1>1. /\ pc[t] = "convert" /\ Inside(t) /\ pc[t] \in InGraph /\ ~Straggler(t) /\ t \notin Arrived
      /\ UNCHANGED <<pooled, n_graph, barrier, flags, cgraph, abort, ec>>
      /\ UNCHANGED <<last_graph, nth, node, chunk, seen>>
  BY DEF Convert, Inside, InGraph, Straggler, Arrived, Waiting
<1>2. Current(t) /\ Local(t) /\ t \in Team /\ ~Left(t)
  BY <1>1, InGraphLocal
<1>3. /\ UNCHANGED <<pool, n_threads, n_barrier, n_barrier_passed>>
      /\ SameGraph /\ NNodes' = NNodes /\ N' = N /\ Team' = Team
  BY <1>1 DEF pooled, barrier, SameGraph, NNodes, N, Team
<1>4. /\ pc'[t] = "enter" /\ ret'[t] = "chunk" /\ wdata'[t] = node[t]
      /\ \A u \in Threads \ {t} : pc'[u] = pc[u] /\ ret'[u] = ret[u] /\ wdata'[u] = wdata[u]
  BY DEF Convert, Goto, PoolInv, TypeOK
<1>5. Only(t)
  BY <1>1, <1>4 DEF Only
<1>6. node[t] \in Nat /\ NNodes \in Nat
  BY Types DEF PoolInv
<1>7. TypeOK'
  <2>1. pc' \in [Threads -> Labels] /\ ret' \in [Threads -> {"chunk", "next", "exit"}]
    BY DEF Convert, Goto, PoolInv, TypeOK, Labels
  <2>2. wdata' \in [Threads -> Nat \cup {-1}]
    BY <1>6 DEF Convert, PoolInv, TypeOK
  <2>3. current_chunk' \in Nat
    <3>1. nth[t] \in Nat
      BY Types DEF PoolInv, TypeOK
    <3> QED
      BY <3>1 DEF Convert, PoolInv, TypeOK
  <2> QED
    BY <1>1, <2>1, <2>2, <2>3 DEF PoolInv, TypeOK, pooled, barrier, flags, NNodes
<1>8. /\ node[t] < NNodes /\ abort # node[t] /\ Kind(node[t]) # "skip" /\ Product(t)
  BY <1>1, <1>2 DEF Local
<1>9. Kind(node[t])' = Kind(node[t]) /\ (Product(t)' <=> Product(t))
  BY <1>1 DEF Kind, Product
<1>10. Local(t)'
  BY <1>1, <1>2, <1>3, <1>4, <1>8, <1>9 DEF Local, Inside
<1>11. Node(t) = node[t] /\ Node(t)' = node[t] /\ Current(t)'
  BY <1>1, <1>2, <1>4 DEF Node, Current, Released
<1>12. ~Conv(t) /\ ~Conv(t)'
  BY <1>1, <1>4 DEF Conv, Released, Held, InBarrier
<1>13. \A u \in Team : ~Conv(u)
  BY <1>1, BeforeProduct
<1>14. Kept(t)
  BY <1>1, <1>4, <1>13 DEF Kept, DataKept, AbortKept
<1> QED
  BY <1>1, <1>3, <1>4, <1>5, <1>7, <1>10, <1>11, <1>12, <1>14, InnerStep DEF InGraph, InBarrier

(* A thread that goes on to the next node without meeting the others: from *)
(* a node that is skipped, or from the last.                               *)
LEMMA Advance ==
    ASSUME PoolInv, TypeOK', NEW t \in Threads, Only(t), SameGraph,
           UNCHANGED <<pool, n_threads, n_barrier, last_graph, wdata, nth>>, AbortKept(t),
           pc[t] \in {"node", "computed"}, pc'[t] = "node", node'[t] = node[t] + 1,
           node[t] < NNodes, abort # node[t], abort' # node[t],
           \/ Kind(node[t]) = "skip" /\ pc[t] = "node"
           \/ node[t] = NNodes - 1 /\ Kind(node[t]) = "rows"
           \/ node[t] = NNodes - 1 /\ Conv(t)
    PROVE  PoolInv'
<1> DEFINE n == node[t]
<1>1. pc[t] \in InGraph /\ ~Straggler(t) /\ t \notin Arrived
  BY DEF InGraph, Straggler, Arrived, Waiting
<1>2. Current(t) /\ Local(t) /\ t \in Team /\ ~Left(t)
  BY <1>1, InGraphLocal
<1>3. /\ n \in Nat /\ NNodes \in Nat /\ Team \subseteq Threads
      /\ \A u \in Team : ~Left(u) => Node(u) \in 0 .. NNodes
  BY Types, NodeBound DEF PoolInv
<1>4. Team' = Team /\ N' = N /\ NNodes' = NNodes /\ cgraph' = cgraph
  BY DEF SameGraph, Team, N, NNodes
<1>5. Node(t) = n /\ Node(t)' = n + 1 /\ Current(t)' /\ ~Conv(t)' /\ ~Left(t)'
  BY <1>2 DEF SameGraph, Node, Current, Released, Conv, Held, Left, Straggler, InGraph, InBarrier
<1>6. \A u \in Team \ {t} : /\ Left(u)' <=> Left(u)
                            /\ Node(u)' = Node(u)
                            /\ Conv(u)' <=> Conv(u)
  BY <1>3, Others
<1>7. LeftTogether'
  BY <1>2, <1>4, <1>5, <1>6 DEF PoolInv, LeftTogether
<1>8. ASSUME NEW u \in Team, u # t, ~Left(u), NEW j \in 0 .. NNodes, j < Node(u)
      PROVE  abort # j => abort' # j
  BY <1>3, <1>8 DEF AbortKept
<1>9. ASSUME NEW u \in Team, u # t, ~Left(u) PROVE Near(t, u)' /\ Near(u, t)'
  <2>1. Node(u) \in 0 .. NNodes /\ Near(t, u) /\ Near(u, t)
    BY <1>2, <1>3, <1>9 DEF PoolInv, AllNear
  <2>2. n < Node(u) => ~Conv(u)
    BY <1>5, <2>1 DEF Near
  <2>3. ASSUME NEW j \in (n + 1) .. Node(u) - 1 PROVE Passable(t, j)'
    <3>1. Passable(t, j) /\ j \in 0 .. NNodes /\ j < Node(u) /\ Node(t) # j
      BY <1>3, <1>5, <2>1, <2>3 DEF Near
    <3>2. abort' # j
      BY <1>8, <1>9, <3>1 DEF Passable
    <3> QED
      BY <1>4, <3>1, <3>2 DEF Passable, Kind
  <2>4. Near(t, u)'
    BY <1>3, <1>5, <1>6, <1>9, <2>1, <2>2, <2>3 DEF Near
  <2>5. ASSUME NEW j \in Node(u) .. n PROVE Passable(u, j)'
    <3>1. CASE j < n
      <4>1. Passable(u, j)
        BY <1>3, <1>5, <2>1, <2>5, <3>1 DEF Near
      <4>2. abort' # j
        <5>1. abort' = abort \/ \A i \in 0 .. Node(t) - 1 : abort' # i
          BY <1>2 DEF AbortKept
        <5>2. j \in 0 .. Node(t) - 1
          BY <1>3, <1>5, <2>1, <2>5, <3>1
        <5> QED
          BY <4>1, <5>1, <5>2 DEF Passable
      <4> QED
        BY <1>4, <1>6, <1>9, <4>1, <4>2 DEF Passable, Kind
    <3>2. CASE j = n
      <4>1. CASE Node(u) = n
        <5>1. Conv(u) <=> Conv(t)
          BY <1>5, <2>1, <4>1 DEF Near
        <5> QED
          BY <1>4, <1>6, <1>9, <3>2, <4>1, <5>1 DEF Passable, Kind
      <4>2. CASE Node(u) < n
        <5>1. ~Conv(t)
          BY <1>5, <2>1, <4>2 DEF Near
        <5> QED
          BY <1>4, <3>2, <5>1 DEF Passable, Kind
      <4> QED
        BY <1>3, <2>1, <2>5, <3>2, <4>1, <4>2
    <3> QED
      BY <1>3, <2>1, <2>5, <3>1, <3>2
  <2>6. Near(u, t)'
    <3>1. Node(u) = n + 1 => ~Conv(u)
      BY <1>3, <2>2
    <3> QED
      BY <1>3, <1>5, <1>6, <1>9, <2>1, <2>5, <3>1 DEF Near
  <2> QED
    BY <2>4, <2>6
<1>10. AllNear'
  <2>1. Near(t, t)'
    BY <1>3, <1>5 DEF Near
  <2>2. ASSUME NEW u \in Team, NEW v \in Team, u # t, v # t, ~Left(u), ~Left(v)
        PROVE  Near(u, v)'
    <3>1. Near(u, v) /\ Node(u) \in 0 .. NNodes /\ Node(v) \in 0 .. NNodes
      BY <1>3, <2>2 DEF PoolInv, AllNear
    <3>2. ASSUME NEW j \in Node(u) .. Node(v) - 1, Passable(u, j) PROVE Passable(u, j)'
      <4>1. abort # j /\ j \in 0 .. NNodes /\ j < Node(v)
        BY <1>3, <3>1, <3>2 DEF Passable
      <4>2. abort' # j
        BY <1>8, <2>2, <4>1
      <4> QED
        BY <1>4, <1>6, <2>2, <3>2, <4>2 DEF Passable, Kind
    <3> QED
      BY <1>6, <2>2, <3>1, <3>2 DEF Near
  <2> QED
    BY <1>4, <1>5, <1>6, <1>9, <2>1, <2>2 DEF AllNear
<1>11. Local(t)'
  BY <1>2, <1>3, <1>4, <1>5 DEF Local, Inside, InBarrier
<1>12. Placed'
  <2>1. ASSUME NEW u \in Threads, u # t, pc'[u] \in InGraph
        PROVE  Straggler(u)' \/ (Current(u)' /\ Local(u)')
    <3>1. pc[u] \in InGraph
      BY <2>1 DEF Only
    <3>2. Straggler(u) \/ (Current(u) /\ Local(u))
      BY <3>1 DEF PoolInv, Placed
    <3>3. ~Straggler(u) => Local(u)'
      BY <2>1, <3>1, <3>2, Others DEF AbortKept
    <3> QED
      BY <2>1, <3>2, <3>3, Others
  <2> QED
    BY <1>5, <1>11, <2>1 DEF Placed
<1>13. Converted'
  BY <1>4, <1>5, <1>6 DEF PoolInv, Converted
<1>14. Counted' /\ LastAlone'
  BY <1>1, BarrierKept
<1>15. Numbered'
  BY Types DEF PoolInv, Numbered, SameGraph, Only
<1> QED
  BY <1>7, <1>10, <1>12, <1>13, <1>14, <1>15 DEF PoolInv

(* A node that is skipped.                                                 *)
LEMMA SkipInv ==
    ASSUME PoolInv, NEW t \in Threads, NextNode(t), Kind(node[t]) = "skip"
    PROVE  PoolInv'
<1>1. /\ pc[t] = "node" /\ node[t] < NNodes /\ abort # node[t]
      /\ node' = [node EXCEPT ![t] = @ + 1] /\ pc' = pc
      /\ UNCHANGED <<shared, last_graph, nth, chunk, seen, ret, data>>
  BY DEF NextNode
<1>2. /\ SameGraph /\ UNCHANGED <<pool, n_threads, n_barrier, last_graph, wdata, nth, abort>>
  BY <1>1 DEF SameGraph, shared, pooled, barrier, request, data
<1>3. node'[t] = node[t] + 1 /\ \A u \in Threads \ {t} : node'[u] = node[u]
  BY <1>1 DEF PoolInv, TypeOK
<1>4. Only(t)
  BY <1>1, <1>3 DEF Only
<1>5. TypeOK'
  <2>1. node' \in [Threads -> Nat]
    BY <1>1, SMTT(60) DEF PoolInv, TypeOK
  <2> QED
    BY <1>1, <2>1 DEF PoolInv, TypeOK, shared, pooled, barrier, flags, request, data, NNodes
<1>6. AbortKept(t)
  BY <1>2 DEF AbortKept
<1> QED
  BY <1>1, <1>2, <1>3, <1>4, <1>5, <1>6, Advance

(* The abort callback. When thread 0 marks the end of the node it has      *)
(* computed, no thread has come past that mark, and none is inside or      *)
(* about to compute the node that it marks.                                *)
LEMMA AbortAhead ==
    ASSUME PoolInv, NEW t \in Threads, Only(t), SameGraph, wdata' = wdata,
           Inside(t), abort' = node[t] + 1
    PROVE  AbortKept(t)
<1> DEFINE n == node[t]
<1>1. pc[t] \in InGraph /\ ~Straggler(t)
  BY DEF Inside, InGraph, Straggler
<1>2. Current(t) /\ Local(t) /\ t \in Team /\ ~Left(t)
  BY <1>1, InGraphLocal
<1>3. n \in Nat /\ NNodes \in Nat /\ n < NNodes /\ abort # n /\ Team \subseteq Threads
  BY <1>2, Types DEF PoolInv, Local
<1>4. ASSUME NEW u \in Team, ~Left(u)
      PROVE  /\ Node(t) = n
             /\ Node(u) \in 0 .. NNodes
             /\ Node(u) <= n \/ (n = NNodes - 1 /\ Node(u) = NNodes)
  <2>1. Node(t) = n /\ (Node(t) < Node(u) => n = NNodes - 1 /\ Node(u) = NNodes)
    BY <1>4, InsideNear
  <2>2. Node(u) \in 0 .. NNodes
    BY <1>3, <1>4, NodeBound
  <2> QED
    BY <1>3, <2>1, <2>2
<1>5. ASSUME NEW u \in Team, ~Left(u), NEW j \in 0 .. Node(u) - 1
      PROVE  abort' # j
  BY <1>3, <1>4, <1>5
<1>6. ASSUME NEW u \in Threads \ {t}, pc[u] \in InGraph, ~Straggler(u)
      PROVE  Local(u)'
  <2>1. Current(u) /\ Local(u) /\ u \in Team /\ ~Left(u)
    BY <1>6, InGraphLocal
  <2>2. node[u] \in Nat /\ Near(u, t)
    BY <1>2, <2>1, Types DEF PoolInv, AllNear
  <2>3. /\ pc'[u] = pc[u] /\ last_graph'[u] = last_graph[u] /\ nth'[u] = nth[u]
        /\ node'[u] = node[u] /\ seen'[u] = seen[u] /\ ret'[u] = ret[u]
        /\ n_graph' = n_graph /\ P' = P /\ cgraph' = cgraph
    BY DEF Only, SameGraph, P
  <2>4. /\ NNodes' = NNodes /\ Kind(node[u])' = Kind(node[u])
        /\ Team' = Team /\ N' = N
        /\ (Inside(u)' <=> Inside(u)) /\ (Released(u)' <=> Released(u))
        /\ (Product(u)' <=> Product(u))
    BY <2>3 DEF NNodes, Kind, Team, N, Inside, Released, Product
  <2>5. Inside(u) => abort' # node[u]
    <3>1. Inside(u) => Node(u) = node[u] /\ node[u] < NNodes
      BY <2>1 DEF Inside, Node, Released, Local
    <3> QED
      BY <1>3, <1>4, <2>1, <2>2, <3>1
  <2>6. pc[u] \in InBarrier /\ ret[u] = "chunk" => abort' # node[u]
    <3>1. pc[u] \in InBarrier /\ ret[u] = "chunk" => Node(u) = node[u] /\ node[u] < NNodes
      BY <2>1 DEF Node, Local, InBarrier
    <3> QED
      BY <1>3, <1>4, <2>1, <2>2, <3>1
  <2>7. pc[u] \in InBarrier /\ ret[u] = "next" /\ ~Released(u) => abort' # node[u]
    <3>1. pc[u] \in InBarrier /\ ret[u] = "next" /\ ~Released(u)
             => Node(u) = node[u] /\ node[u] + 1 < NNodes
      BY <2>1 DEF Node, Local, InBarrier
    <3> QED
      BY <1>3, <1>4, <2>1, <2>2, <3>1
  <2>8. pc[u] \in InBarrier /\ ret[u] = "exit" => node[u] = NNodes
    <3>1. SUFFICES ASSUME pc[u] \in InBarrier, ret[u] = "exit" PROVE node[u] = NNodes
      OBVIOUS
    <3>2. Node(u) = node[u] /\ (node[u] = NNodes \/ abort = node[u])
      BY <2>1, <3>1 DEF Node, Local, InBarrier
    <3>3. SUFFICES ASSUME abort = node[u], node[u] # NNodes PROVE FALSE
      BY <3>2
    <3>4. Node(u) < n
      BY <1>3, <1>4, <2>1, <2>2, <3>2, <3>3
    <3>5. Passable(u, Node(u))
      BY <1>3, <1>4, <2>1, <2>2, <3>2, <3>4 DEF Near
    <3> QED
      BY <3>2, <3>3, <3>5 DEF Passable
  <2> QED
    BY <2>1, <2>3, <2>4, <2>5, <2>6, <2>7, <2>8 DEF Local
<1> QED
  BY <1>5, <1>6 DEF AbortKept

(* After a node.                                                           *)
LEMMA AfterNodeInv ==
    ASSUME PoolInv, NEW t \in Threads, AfterNode(t)
    PROVE  PoolInv'
<1>1. /\ pc[t] = "computed" /\ Inside(t)
      /\ pc[t] \in InGraph /\ ~Straggler(t) /\ t \notin Arrived
      /\ abort' = abort \/ abort' = node[t] + 1
      /\ UNCHANGED <<pooled, n_graph, barrier, flags, cgraph, current_chunk>>
      /\ UNCHANGED <<last_graph, nth, chunk, seen, wdata>>
  BY DEF AfterNode, Inside, InGraph, Straggler, Arrived, Waiting, data
<1>2. Current(t) /\ Local(t) /\ t \in Team /\ ~Left(t)
  BY <1>1, InGraphLocal
<1>3. /\ UNCHANGED <<pool, n_threads, n_barrier, n_barrier_passed>>
      /\ SameGraph /\ NNodes' = NNodes /\ N' = N /\ Team' = Team
  BY <1>1 DEF pooled, barrier, SameGraph, NNodes, N, Team
<1>4. /\ node[t] \in Nat /\ NNodes \in Nat
      /\ node[t] < NNodes /\ abort # node[t] /\ Kind(node[t]) # "skip"
      /\ Node(t) = node[t]
  BY <1>1, <1>2, Types DEF PoolInv, Local, Node, Released
<1>5. /\ \A u \in Threads \ {t} : pc'[u] = pc[u] /\ ret'[u] = ret[u] /\ node'[u] = node[u]
  BY DEF AfterNode, Goto, PoolInv, TypeOK
<1>6. Only(t)
  BY <1>1, <1>5 DEF Only
<1>7. AbortKept(t)
  BY <1>1, <1>3, <1>6, AbortAhead DEF AbortKept
<1>8. TypeOK'
  <2>1. pc' \in [Threads -> Labels] /\ ret' \in [Threads -> {"chunk", "next", "exit"}]
    BY ZenonT(60) DEF AfterNode, Goto, PoolInv, TypeOK, Labels
  <2>2. node' \in [Threads -> Nat]
    <3>1. node' = node \/ node' = [node EXCEPT ![t] = @ + 1]
      BY DEF AfterNode
    <3>2. node \in [Threads -> Nat] /\ node[t] + 1 \in Nat
      BY <1>4, SMTT(60) DEF PoolInv, TypeOK
    <3> QED
      BY <3>1, <3>2
  <2>3. abort' \in -1 .. NNodes' /\ ec' \in {"success", "aborted"}
    BY <1>1, <1>3, <1>4, SMTT(60) DEF AfterNode, PoolInv, TypeOK
  <2> QED
    BY <1>1, <2>1, <2>2, <2>3 DEF PoolInv, TypeOK, pooled, barrier, flags, NNodes
<1>9. abort' # node[t]
  BY <1>1, <1>4
<1>10. CASE node[t] + 1 < NNodes
  <2>1. pc'[t] = "enter" /\ ret'[t] = "next" /\ node'[t] = node[t]
    BY <1>10 DEF AfterNode, Goto, PoolInv, TypeOK
  <2>2. Kind(node[t])' = Kind(node[t]) /\ (Product(t)' <=> Product(t))
    BY <1>1, <2>1 DEF Kind, Product
  <2>3. Local(t)'
    BY <1>1, <1>2, <1>3, <1>4, <1>9, <1>10, <2>1, <2>2 DEF Local, Inside
  <2>4. Node(t)' = node[t] /\ Current(t)'
    BY <1>1, <1>2, <2>1 DEF Node, Current, Released
  <2>5. Conv(t)' <=> Conv(t)
    BY <1>1, <1>2, <2>1, <2>2, <2>4 DEF Conv, Released, Held, InBarrier
  <2> QED
    BY <1>1, <1>3, <1>4, <1>6, <1>7, <1>8, <2>1, <2>3, <2>4, <2>5, InnerStep
       DEF Kept, DataKept, InGraph, InBarrier
<1>11. CASE ~(node[t] + 1 < NNodes)
  <2>1. pc'[t] = "node" /\ node'[t] = node[t] + 1
    BY <1>11 DEF AfterNode, Goto, PoolInv, TypeOK
  <2>2. node[t] = NNodes - 1
    BY <1>4, <1>11
  <2>3. Kind(node[t]) = "rows" \/ Conv(t)
    <3>1. Kind(node[t]) \in {"skip", "rows", "chunks"}
      BY <1>4, KindType DEF PoolInv
    <3> QED
      BY <1>1, <1>2, <1>4, <3>1 DEF Conv, Product
  <2> QED
    BY <1>1, <1>3, <1>4, <1>6, <1>7, <1>8, <1>9, <2>1, <2>2, <2>3, Advance
<1> QED
  BY <1>10, <1>11

-----------------------------------------------------------------------------
(* The barrier.                                                            *)

(* Where a thread is that leaves the barrier.                              *)
LEMMA Leaving ==
    ASSUME PoolInv, NEW t \in Threads, LeaveBarrier(t), UNCHANGED last_graph
    PROVE  /\ Only(t)
           /\ pc' \in [Threads -> Labels]
           /\ nth' \in [Threads -> 0 .. MaxThreads]
           /\ node' \in [Threads -> Nat] /\ chunk' \in [Threads -> Nat]
           /\ seen' \in [Threads -> [threads : 0 .. MaxThreads, passed : Nat]]
           /\ ret' \in [Threads -> {"chunk", "next", "exit"}]
           /\ ret[t] = "chunk" => /\ pc'[t] = "chunk"
                                  /\ node'[t] = node[t] /\ nth'[t] = nth[t]
           /\ ret[t] = "next" => /\ pc'[t] = "node"
                                 /\ node'[t] = node[t] + 1 /\ nth'[t] = nth[t]
           /\ ret[t] = "exit" => pc'[t] \in {"done", "pause"}
<1>1. /\ pc \in [Threads -> Labels] /\ nth \in [Threads -> 0 .. MaxThreads]
      /\ node \in [Threads -> Nat] /\ chunk \in [Threads -> Nat]
      /\ seen \in [Threads -> [threads : 0 .. MaxThreads, passed : Nat]]
      /\ ret \in [Threads -> {"chunk", "next", "exit"}]
      /\ MaxThreads \in Nat /\ t \in Nat
  BY Types DEF PoolInv, TypeOK
<1>2. NotSeen \in [threads : 0 .. MaxThreads, passed : Nat]
  BY <1>1 DEF NotSeen
<1>3. Only(t)
  BY <1>1 DEF LeaveBarrier, Goto, Only
<1>4. CASE ret[t] = "chunk"
  BY <1>1, <1>2, <1>3, <1>4 DEF LeaveBarrier, Goto, Labels
<1>5. CASE ret[t] = "next"
  BY <1>1, <1>2, <1>3, <1>5 DEF LeaveBarrier, Goto, Labels
<1>6. CASE ret[t] = "exit"
  BY <1>1, <1>2, <1>3, <1>6 DEF LeaveBarrier, Goto, Labels
<1> QED
  BY <1>1, <1>4, <1>5, <1>6

(* The thread that is alone in its graph, or has been let go, leaves.      *)
LEMMA WaitBarrierInv ==
    ASSUME PoolInv, NEW t \in Threads, WaitBarrier(t)
    PROVE  PoolInv'
<1>1. /\ pc[t] = "wait" /\ Released(t) /\ pc[t] \in InGraph
      /\ LeaveBarrier(t) /\ UNCHANGED <<shared, last_graph, data>>
  BY DEF WaitBarrier, Released, P, InGraph, InBarrier
<1>2. /\ SameGraph
      /\ UNCHANGED <<pool, n_threads, n_barrier, last_graph, wdata, abort>>
  BY <1>1 DEF SameGraph, shared, pooled, barrier, request, data
<1>3. TypeOK'
  BY <1>1, Leaving, ZenonT(60) DEF PoolInv, TypeOK, shared, pooled, barrier, flags, request, data, NNodes
<1>4. Only(t) /\ Kept(t)
  BY <1>1, <1>2, Leaving DEF Kept, DataKept, AbortKept
<1>5. NNodes' = NNodes /\ Team' = Team /\ N' = N /\ (Current(t)' <=> Current(t))
  BY <1>2 DEF SameGraph, NNodes, Team, N, Current
<1>6. t \notin Arrived /\ P \in Nat /\ seen[t].passed \in Nat
  BY <1>1, Types DEF PoolInv, TypeOK, Arrived, Waiting, Released
<1>7. pc'[0] = "kick" => pc[0] = "kick" /\ nth'[0] = nth[0]
  BY <1>1, <1>4, Types, Leaving, ZenonT(60) DEF PoolInv, Only, TypeOK
<1>8. last_graph'[t].graph <= n_graph.graph
  BY <1>2 DEF PoolInv, Numbered
<1>9. CASE Straggler(t)
  <2>1. pc'[t] \in {"done", "pause"} /\ pc'[t] \notin InGraph
    BY <1>1, <1>9, Leaving DEF Straggler, InGraph, InBarrier
  <2>2. Counted' /\ LastAlone'
    BY <1>1, <1>2, <1>4, <1>6, <2>1, BarrierKept
  <2>3. /\ Left(t)' <=> Left(t)
        /\ ~Conv(t) /\ ~Conv(t)'
    BY <1>1, <1>5, <1>9, <2>1 DEF Left, Conv, Straggler, Released, Held, InBarrier, InGraph
  <2>4. t \in Team => Left(t) \/ Node(t)' = Node(t)
    BY <1>5, <1>9 DEF Left, Node
  <2> QED
    BY <1>1, <1>2, <1>3, <1>4, <1>7, <1>8, <2>1, <2>2, <2>3, <2>4, OneThread
<1>10. CASE ~Straggler(t)
  <2>1. Current(t) /\ Local(t) /\ t \in Team /\ ~Left(t) /\ Current(t)'
    BY <1>1, <1>5, <1>10, InGraphLocal
  <2>2. ret[t] \in {"chunk", "next"}
    BY <1>1, <1>6, <1>10, <2>1 DEF Local, Straggler, Released, PoolInv, TypeOK
  <2>3. CASE ret[t] = "chunk"
    <3>1. pc'[t] = "chunk" /\ node'[t] = node[t] /\ nth'[t] = nth[t]
      BY <1>1, <2>3, Leaving
    <3>2. /\ node[t] < NNodes /\ abort # node[t] /\ Product(t)
          /\ nth[t] = N /\ node[t] <= NNodes
      BY <1>1, <2>1, <2>3 DEF Local, InBarrier
    <3>3. Kind(node[t])' = Kind(node[t]) /\ (Product(t)' <=> Product(t))
      BY <1>2, <3>1 DEF SameGraph, Kind, Product
    <3>4. Local(t)'
      BY <1>2, <1>5, <2>1, <3>1, <3>2, <3>3 DEF Local, Inside, InBarrier, Product
    <3>5. Node(t)' = Node(t) /\ Conv(t)' /\ Conv(t)
      BY <1>1, <2>1, <2>3, <3>1 DEF Node, Conv, Released
    <3> QED
      BY <1>1, <1>2, <1>3, <1>4, <1>6, <1>10, <3>1, <3>4, <3>5, InnerStep DEF InGraph
  <2>4. CASE ret[t] = "next"
    <3>1. pc'[t] = "node" /\ node'[t] = node[t] + 1 /\ nth'[t] = nth[t]
      BY <1>1, <2>4, Leaving
    <3>2. node[t] + 1 < NNodes /\ nth[t] = N
      BY <1>1, <2>1, <2>4 DEF Local, InBarrier
    <3>3. Local(t)'
      BY <1>5, <2>1, <3>1, <3>2, Types DEF Local, Inside, InBarrier, PoolInv
    <3>4. Node(t)' = Node(t) /\ ~Conv(t)' /\ ~Conv(t)
      BY <1>1, <2>1, <2>4, <3>1 DEF Node, Conv, Released, Held, InBarrier
    <3> QED
      BY <1>1, <1>2, <1>3, <1>4, <1>6, <1>10, <3>1, <3>3, <3>4, InnerStep DEF InGraph
  <2> QED
    BY <2>2, <2>3, <2>4
<1> QED
  BY <1>9, <1>10

(* A thread that leaves the barrier knows its next node.                   *)
LEMMA LeavingLocal ==
    ASSUME PoolInv, NEW t \in Threads, LeaveBarrier(t), Local(t), pc[t] \in InBarrier,
           UNCHANGED <<last_graph, n_graph, cgraph, abort, wdata>>
    PROVE  pc'[t] \in InGraph => Local(t)'
<1>1. NNodes' = NNodes /\ Team' = Team /\ N' = N /\ NNodes \in Nat /\ node[t] \in Nat
  BY Types DEF PoolInv, NNodes, Team, N
<1>2. nth[t] = N
  BY DEF Local, InBarrier
<1>3. CASE ret[t] = "chunk"
  <2>1. pc'[t] = "chunk" /\ node'[t] = node[t] /\ nth'[t] = nth[t]
    BY <1>3, Leaving
  <2>2. node[t] < NNodes /\ abort # node[t] /\ Product(t)
    BY <1>3 DEF Local
  <2>3. Kind(node[t])' = Kind(node[t]) /\ (Product(t)' <=> Product(t))
    BY <2>1 DEF Kind, Product
  <2> QED
    BY <1>1, <1>2, <2>1, <2>2, <2>3 DEF Local, Inside, InBarrier, Product
<1>4. CASE ret[t] = "next"
  <2>1. pc'[t] = "node" /\ node'[t] = node[t] + 1 /\ nth'[t] = nth[t]
    BY <1>4, Leaving
  <2>2. node[t] + 1 < NNodes
    BY <1>4 DEF Local
  <2> QED
    BY <1>1, <1>2, <2>1, <2>2 DEF Local, Inside, InBarrier
<1>5. CASE ret[t] = "exit"
  BY <1>5, Leaving DEF InGraph, InBarrier
<1> QED
  BY <1>3, <1>4, <1>5 DEF PoolInv, TypeOK

(* Reaching the barrier, which a thread alone in its graph goes through.   *)
LEMMA EnterBarrierInv ==
    ASSUME PoolInv, NEW t \in Threads, EnterBarrier(t)
    PROVE  PoolInv'
<1>1. /\ pc[t] = "enter" /\ pc[t] \in InGraph /\ pc[t] \in InBarrier
      /\ ~Straggler(t) /\ t \notin Arrived
      /\ UNCHANGED <<shared, last_graph, data>>
  BY DEF EnterBarrier, InGraph, InBarrier, Straggler, Arrived, Waiting
<1>2. Current(t) /\ Local(t) /\ t \in Team /\ ~Left(t)
  BY <1>1, InGraphLocal
<1>3. /\ UNCHANGED <<pool, n_threads, n_barrier, last_graph, wdata, abort>>
      /\ UNCHANGED <<n_graph, cgraph, n_barrier_passed>>
  BY <1>1 DEF shared, pooled, barrier, request, data
<1>4. /\ NNodes' = NNodes /\ Team' = Team /\ N' = N /\ P' = P /\ Current(t)' /\ SameGraph
  BY <1>2, <1>3 DEF SameGraph, NNodes, Team, N, P, Current
<1>5. /\ P \in Nat /\ N \in 0 .. MaxThreads /\ node[t] \in Nat /\ NNodes \in Nat /\ 0 \in Threads
      /\ Team \subseteq Threads
  BY Types DEF PoolInv
<1>6. CASE N # 1
  <2>1. /\ seen' = [seen EXCEPT ![t] = [threads |-> N, passed |-> P]]
        /\ Goto(t, "arrive") /\ UNCHANGED <<nth, node, chunk, ret>>
    BY <1>6 DEF EnterBarrier, N, P
  <2>2. /\ pc'[t] = "arrive" /\ seen'[t] = [threads |-> N, passed |-> P]
        /\ pc' \in [Threads -> Labels]
        /\ seen' \in [Threads -> [threads : 0 .. MaxThreads, passed : Nat]]
        /\ \A u \in Threads \ {t} : pc'[u] = pc[u] /\ seen'[u] = seen[u]
    BY <1>5, <2>1 DEF Goto, PoolInv, TypeOK, Labels
  <2>3. Only(t) /\ Kept(t)
    BY <1>3, <2>1, <2>2 DEF Only, Kept, DataKept, AbortKept
  <2>4. TypeOK'
    BY <1>1, <2>1, <2>2
       DEF PoolInv, TypeOK, shared, pooled, barrier, flags, request, data, NNodes
  <2>5. Kind(node[t])' = Kind(node[t]) /\ (Product(t)' <=> Product(t))
    BY <1>3, <2>1 DEF Kind, Product
  <2>6. Local(t)'
    BY <1>1, <1>2, <1>3, <1>4, <2>1, <2>2, <2>5 DEF Local, Inside, Released, Product, Kind
  <2>7. Node(t)' = Node(t) /\ (Conv(t)' <=> Conv(t))
    BY <1>1, <1>2, <1>4, <2>1, <2>2, <2>5 DEF Node, Conv, Released, Held, InBarrier
  <2> QED
    BY <1>1, <1>3, <1>4, <2>2, <2>3, <2>4, <2>6, <2>7, InnerStep DEF InGraph, InBarrier
<1>7. CASE N = 1
  <2>1. LeaveBarrier(t) /\ Team = {t}
    BY <1>2, <1>7 DEF EnterBarrier, N, Team
  <2>2. Only(t)
    BY <1>3, <2>1, Leaving
  <2>3. TypeOK'
    BY <1>1, <1>3, <2>1, Leaving, ZenonT(60)
       DEF PoolInv, TypeOK, shared, pooled, barrier, flags, request, data, NNodes
  <2>4. pc'[t] \in {"chunk", "node", "done", "pause"}
    BY <1>3, <2>1, Leaving DEF PoolInv, TypeOK
  <2>5. Counted' /\ LastAlone'
    BY <1>1, <1>3, <1>4, <2>2, <2>4, BarrierKept
  <2>6. pc'[t] \in InGraph => Current(t)' /\ Local(t)'
    BY <1>1, <1>2, <1>3, <1>4, <2>1, LeavingLocal
  <2>7. Placed'
    <3>1. ASSUME NEW u \in Threads, u # t, pc'[u] \in InGraph
          PROVE  Straggler(u)' \/ (Current(u)' /\ Local(u)')
      <4>1. pc[u] \in InGraph
        BY <2>2, <3>1 DEF Only
      <4>2. Straggler(u) \/ (Current(u) /\ Local(u))
        BY <4>1 DEF PoolInv, Placed
      <4> QED
        BY <1>3, <1>4, <2>2, <3>1, <4>2, Others
    <3> QED
      BY <2>6, <3>1 DEF Placed
  <2>8. LeftTogether'
    BY <1>4, <2>1 DEF LeftTogether
  <2>9. AllNear'
    <3>1. Node(t)' \in Nat
      <4>1. node'[t] \in Nat
        BY <2>3 DEF TypeOK
      <4> QED
        BY <4>1 DEF Node
    <3> QED
      BY <1>4, <2>1, <3>1 DEF AllNear, Near
  <2>10. Converted'
    <3>1. Conv(t)' => wdata'[t] = Node(t)'
      <4>1. CASE ret[t] = "chunk"
        <5>1. pc'[t] = "chunk" /\ node'[t] = node[t] /\ wdata[t] = node[t]
          BY <1>1, <1>2, <1>3, <2>1, <4>1, Leaving DEF Local
        <5> QED
          BY <1>3, <1>4, <5>1 DEF Node, Released
      <4>2. CASE ret[t] # "chunk"
        <5>1. pc'[t] \in {"node", "done", "pause"}
          BY <1>3, <2>1, <4>2, Leaving DEF PoolInv, TypeOK
        <5> QED
          BY <5>1 DEF Conv, Released, Held, InBarrier
      <4> QED
        BY <4>1, <4>2
    <3> QED
      BY <1>4, <2>1, <3>1 DEF Converted
  <2>11. Numbered'
    BY <1>3, <1>5, <2>2, <2>4 DEF PoolInv, Numbered, Only
  <2> QED
    BY <2>3, <2>5, <2>7, <2>8, <2>9, <2>10, <2>11 DEF PoolInv
<1> QED
  BY <1>6, <1>7

(* The barrier holds only threads of the graph, so while one of them has   *)
(* yet to arrive it has counted all but at most one of the others, none of *)
(* which is letting go.                                                    *)
LEMMA YetToArrive ==
    ASSUME PoolInv, NEW t \in Team, pc[t] = "arrive"
    PROVE  /\ Arrived \subseteq Team \ {t} /\ Arrived = Waiting
           /\ \A u \in Threads : pc[u] \notin {"reset", "release"}
           /\ IsFiniteSet(Arrived) /\ n_barrier = Cardinality(Arrived)
           /\ n_barrier <= N - 1
           /\ n_barrier = N - 1 => Arrived = Team \ {t}
<1>1. \A u \in Threads : pc[u] \notin {"reset", "release"}
  <2>1. SUFFICES ASSUME NEW u \in Threads, pc[u] \in {"reset", "release"} PROVE FALSE
    OBVIOUS
  <2>2. t \in Waiting
    BY <2>1 DEF PoolInv, LastAlone
  <2> QED
    BY <2>2 DEF Waiting
<1>2. Arrived = Waiting
  BY <1>1 DEF Arrived
<1>3. Arrived \subseteq Team \ {t}
  <2>1. ASSUME NEW u \in Waiting PROVE u \in Team /\ u # t
    <3>1. u \in Threads /\ pc[u] = "wait" /\ seen[u].passed = P /\ P \in Nat
      BY <2>1, Types DEF Waiting, PoolInv
    <3>2. pc[u] \in InGraph /\ ~Straggler(u)
      BY <3>1 DEF Straggler, InGraph, InBarrier
    <3> QED
      BY <3>1, <3>2, InGraphLocal
  <2> QED
    BY <1>2, <2>1
<1>4. N \in Nat /\ IsFiniteSet(Team) /\ Cardinality(Team) = N
  <2>1. N \in Nat
    BY Types DEF PoolInv
  <2>2. /\ IsFiniteSet(0 .. N - 1)
        /\ Cardinality(0 .. N - 1) = IF 0 > N - 1 THEN 0 ELSE N - 1 - 0 + 1
    <3> HIDE DEF N
    <3>1. 0 \in Int /\ N - 1 \in Int
      BY <2>1
    <3> QED
      BY <3>1, FS_Interval, Zenon
  <2> HIDE DEF N
  <2> QED
    BY <2>1, <2>2 DEF Team
<1>5. IsFiniteSet(Team \ {t}) /\ Cardinality(Team \ {t}) = N - 1
  BY <1>4, FS_RemoveElement
<1>6. /\ IsFiniteSet(Arrived) /\ Cardinality(Arrived) <= N - 1
      /\ Cardinality(Arrived) = N - 1 => Arrived = Team \ {t}
  BY <1>3, <1>5, FS_Subset
<1>7. n_barrier = Cardinality(Arrived)
  BY <1>1 DEF PoolInv, Counted
<1> QED
  BY <1>1, <1>2, <1>3, <1>6, <1>7

(* A step inside the barrier, which nobody but the barrier takes note of.  *)
LEMMA HeldStep ==
    ASSUME PoolInv, NEW t \in Threads, NEW l \in {"wait", "reset", "release"},
           pc[t] \in {"arrive", "reset"}, Goto(t, l), n_barrier' \in 0 .. MaxThreads,
           UNCHANGED <<pooled, n_graph, n_barrier_passed, flags, request,
                       last_graph, frame, data>>,
           l \in {"reset", "release"} => Team \ {t} \subseteq Waiting,
           Counted', LastAlone'
    PROVE  PoolInv'
<1>1. pc[t] \in InGraph /\ pc[t] \in InBarrier /\ ~Straggler(t)
  BY DEF InGraph, InBarrier, Straggler
<1>2. Current(t) /\ Local(t) /\ t \in Team /\ ~Left(t)
  BY <1>1, InGraphLocal
<1>3. /\ UNCHANGED <<pool, n_threads, last_graph, wdata, abort, nth, node, seen, ret>>
      /\ UNCHANGED <<n_graph, cgraph, n_barrier_passed>>
  BY DEF pooled, request, frame, data
<1>4. /\ NNodes' = NNodes /\ Team' = Team /\ N' = N /\ P' = P /\ Current(t)' /\ SameGraph
  BY <1>2, <1>3 DEF SameGraph, NNodes, Team, N, P, Current
<1>5. /\ pc'[t] = l /\ pc' \in [Threads -> Labels]
      /\ \A u \in Threads \ {t} : pc'[u] = pc[u]
  BY DEF Goto, PoolInv, TypeOK, Labels
<1>6. Only(t) /\ Kept(t)
  BY <1>3, <1>5 DEF Only, Kept, DataKept, AbortKept
<1>7. TypeOK'
  BY <1>5 DEF PoolInv, TypeOK, pooled, flags, request, frame, data, NNodes
<1>8. seen[t].passed = P /\ P \in Nat
  BY <1>2, Types DEF Local, PoolInv
<1>9. Kind(node[t])' = Kind(node[t]) /\ (Product(t)' <=> Product(t)) /\ ~Released(t) /\ ~Released(t)'
  BY <1>3, <1>4, <1>8 DEF Kind, Product, Released
<1>10. Local(t)' /\ ~Straggler(t)' /\ ~Left(t)' /\ pc'[t] \in InGraph
  <2>1. Local(t)'
    BY <1>1, <1>2, <1>3, <1>4, <1>5, <1>8, <1>9 DEF Local, Inside, Product, Kind, InBarrier
  <2>2. ~Straggler(t)'
    BY <1>3, <1>4, <1>8 DEF Straggler
  <2> QED
    BY <1>5, <2>1, <2>2 DEF Left, InGraph, InBarrier
<1>11. Node(t)' = Node(t) /\ (Conv(t)' <=> Conv(t))
  BY <1>1, <1>2, <1>3, <1>4, <1>5, <1>9 DEF Node, Conv, Held, InBarrier
<1>12. pc'[0] = "kick" => pc[0] = "kick" /\ nth'[0] = nth[0]
  BY <1>3, <1>5, Types DEF PoolInv
<1>13. last_graph'[t].graph <= n_graph.graph
  BY <1>3 DEF PoolInv, Numbered
<1> QED
  BY <1>2, <1>3, <1>4, <1>6, <1>7, <1>10, <1>11, <1>12, <1>13, OneThread

(* Arriving: the last to arrive finds all others waiting.                  *)
LEMMA ArriveInv ==
    ASSUME PoolInv, NEW t \in Threads, Arrive(t)
    PROVE  PoolInv'
<1> DEFINE l == IF n_barrier = N - 1 THEN "reset" ELSE "wait"
<1>1. pc[t] = "arrive" /\ pc[t] \in InGraph /\ ~Straggler(t)
  BY DEF Arrive, InGraph, InBarrier, Straggler
<1>2. Local(t) /\ t \in Team
  BY <1>1, InGraphLocal
<1>3. seen[t].threads = N /\ seen[t].passed = P
  BY <1>1, <1>2 DEF Local
<1>4. /\ Goto(t, l) /\ n_barrier' = n_barrier + 1
      /\ UNCHANGED <<pooled, n_graph, n_barrier_passed, flags, request,
                     last_graph, frame, data>>
  BY <1>3 DEF Arrive
<1>5. /\ pc'[t] = l /\ \A u \in Threads \ {t} : pc'[u] = pc[u]
      /\ seen' = seen /\ P' = P /\ Team' = Team
  BY <1>4 DEF Goto, PoolInv, TypeOK, frame, P, Team, N
<1>6. /\ Arrived \subseteq Team \ {t} /\ Arrived = Waiting
      /\ \A u \in Threads : pc[u] \notin {"reset", "release"}
      /\ IsFiniteSet(Arrived) /\ n_barrier = Cardinality(Arrived)
      /\ n_barrier <= N - 1
      /\ n_barrier = N - 1 => Arrived = Team \ {t}
  BY <1>1, <1>2, YetToArrive
<1>7. n_barrier' \in 0 .. MaxThreads
  <2>1. n_barrier \in Nat /\ N \in 0 .. MaxThreads /\ MaxThreads \in Nat
    BY Types, SMTT(60) DEF PoolInv, TypeOK
  <2> QED
    BY <1>4, <1>6, <2>1
<1>8. Arrived' = Arrived \cup {t}
  <2>1. t \in Arrived'
    BY <1>3, <1>5 DEF Arrived, Waiting
  <2>2. \A u \in Threads \ {t} : u \in Arrived' <=> u \in Arrived
    BY <1>5 DEF Arrived, Waiting
  <2>3. Arrived \subseteq Threads /\ Arrived' \subseteq Threads
    BY DEF Arrived, Waiting
  <2> QED
    BY <2>1, <2>2, <2>3
<1>9. Counted'
  <2>1. ~\E u \in Threads : pc'[u] = "release"
    BY <1>5, <1>6
  <2>2. Cardinality(Arrived') = Cardinality(Arrived) + 1
    BY <1>6, <1>8, FS_AddElement
  <2> QED
    BY <1>4, <1>6, <2>1, <2>2 DEF Counted
<1>10. l = "reset" => Team \ {t} \subseteq Waiting
  BY <1>6
<1>11. LastAlone'
  <2>1. ASSUME NEW u \in Threads, pc'[u] \in {"reset", "release"} PROVE Team' \ {u} \subseteq Waiting'
    <3>1. u = t /\ l = "reset"
      BY <1>5, <1>6, <2>1
    <3>2. Waiting \ {t} \subseteq Waiting'
      BY <1>5 DEF Waiting
    <3> QED
      BY <1>5, <1>10, <3>1, <3>2
  <2> QED
    BY <2>1 DEF LastAlone
<1>12. l \in {"wait", "reset", "release"} /\ (l \in {"reset", "release"} => l = "reset")
  OBVIOUS
<1> HIDE DEF l
<1> QED
  BY <1>1, <1>4, <1>7, <1>9, <1>10, <1>11, <1>12, HeldStep

(* The last to arrive sets the counter back before it lets the others go.  *)
LEMMA ResetBarrierInv ==
    ASSUME PoolInv, NEW t \in Threads, ResetBarrier(t)
    PROVE  PoolInv'
<1>1. /\ pc[t] = "reset" /\ n_barrier' = 0 /\ Goto(t, "release")
      /\ UNCHANGED <<pooled, n_graph, n_barrier_passed, flags, request,
                     last_graph, frame, data>>
  BY DEF ResetBarrier
<1>2. Team \ {t} \subseteq Waiting
  BY <1>1 DEF PoolInv, LastAlone
<1>3. /\ pc'[t] = "release" /\ \A u \in Threads \ {t} : pc'[u] = pc[u]
      /\ seen' = seen /\ P' = P /\ Team' = Team
  BY <1>1 DEF Goto, PoolInv, TypeOK, frame, P, Team, N
<1>4. n_barrier' \in 0 .. MaxThreads
  BY <1>1, Types DEF PoolInv
<1>5. Counted'
  BY <1>1, <1>3 DEF Counted
<1>6. LastAlone'
  <2>1. ASSUME NEW u \in Threads, pc'[u] \in {"reset", "release"} PROVE Team' \ {u} \subseteq Waiting'
    <3>1. u = t
      <4>1. SUFFICES ASSUME u # t PROVE FALSE
        OBVIOUS
      <4>2. t \in Team
        BY <1>1, InGraphLocal DEF InGraph, InBarrier, Straggler
      <4>3. t \in Waiting
        BY <1>3, <2>1, <4>1, <4>2 DEF PoolInv, LastAlone
      <4> QED
        BY <1>1, <4>3 DEF Waiting
    <3>2. Waiting \ {t} \subseteq Waiting'
      BY <1>3 DEF Waiting
    <3> QED
      BY <1>2, <1>3, <3>1, <3>2
  <2> QED
    BY <2>1 DEF LastAlone
<1> QED
  BY <1>1, <1>2, <1>4, <1>5, <1>6, HeldStep

(* When the barrier is about to let go, all threads of the graph are in    *)
(* the same one: at the same node and for the same reason.                 *)
LEMMA SameBarrier ==
    ASSUME PoolInv, NEW t \in Threads, pc[t] = "release"
    PROVE  /\ t \in Team
           /\ \A u \in Team : /\ Held(u) /\ Local(u) /\ Current(u) /\ ~Left(u)
                              /\ node[u] = node[t] /\ ret[u] = ret[t]
                              /\ u # t => pc[u] = "wait" /\ seen[u].passed = P
<1>1. /\ pc[t] \in InGraph /\ ~Straggler(t) /\ ~Released(t) /\ Held(t)
  BY DEF Straggler, Released, Held, InGraph, InBarrier
<1>2. t \in Team /\ Current(t) /\ Local(t) /\ ~Left(t) /\ Team \subseteq Threads
  BY <1>1, InGraphLocal, Types DEF PoolInv
<1>3. ASSUME NEW u \in Team, u # t
      PROVE  /\ pc[u] = "wait" /\ seen[u].passed = P
             /\ pc[u] \in InGraph /\ ~Straggler(u) /\ Held(u)
             /\ Local(u) /\ Current(u) /\ ~Left(u)
  <2>1. pc[u] = "wait" /\ seen[u].passed = P /\ P \in Nat
    BY <1>3, Types DEF PoolInv, LastAlone, Waiting
  <2>2. pc[u] \in InGraph /\ ~Straggler(u) /\ Held(u)
    BY <2>1 DEF InGraph, InBarrier, Straggler, Held, Released
  <2> QED
    BY <1>2, <2>1, <2>2, InGraphLocal
<1>4. ASSUME NEW u \in Team
      PROVE  /\ Node(u) = node[u] /\ node[u] \in Nat
             /\ Conv(u) <=> ret[u] = "next" /\ Product(u)
  <2>1. Held(u) /\ Current(u) /\ node[u] \in Nat
    BY <1>1, <1>2, <1>3, Types DEF PoolInv
  <2> QED
    BY <2>1 DEF Held, Node, Conv, InBarrier
<1>5. ASSUME NEW u \in Team, u # t PROVE node[u] = node[t] /\ ret[u] = ret[t]
  <2>1. ~(Node(u) < Node(t)) /\ ~(Node(t) < Node(u))
    BY <1>1, <1>2, <1>3, <1>5, Unpassable
  <2>2. node[u] = node[t]
    BY <1>2, <1>4, <2>1
  <2>3. Conv(u) <=> Conv(t)
    BY <1>2, <1>3, <1>4, <1>5, <2>2 DEF PoolInv, AllNear, Near
  <2>4. Product(u) <=> Product(t)
    BY <2>2 DEF Product
  <2>5. ret[u] \in {"chunk", "next", "exit"} /\ ret[t] \in {"chunk", "next", "exit"}
    BY <1>2 DEF PoolInv, TypeOK
  <2>6. ~(ret[u] = "chunk" /\ ret[t] = "next") /\ ~(ret[t] = "chunk" /\ ret[u] = "next")
    BY <1>1, <1>2, <1>3, <1>4, <1>5, <2>3, <2>4 DEF Held, Local
  <2>7. ret[u] = "exit" <=> ret[t] = "exit"
    <3>1. \A v \in {u, t} : /\ ret[v] = "exit" => node[t] = NNodes \/ abort = node[t]
                            /\ ret[v] = "chunk" => node[t] < NNodes /\ abort # node[t]
                            /\ ret[v] = "next" => node[t] + 1 < NNodes /\ abort # node[t]
      BY <1>1, <1>2, <1>3, <1>5, <2>2 DEF Held, Local
    <3>2. node[t] \in Nat /\ NNodes \in Nat
      BY Types DEF PoolInv
    <3> QED
      BY <2>5, <3>1, <3>2
  <2> QED
    BY <2>2, <2>5, <2>6, <2>7
<1> QED
  BY <1>1, <1>2, <1>3, <1>5

(* Letting go.                                                             *)
LEMMA ReleaseBarrierInv ==
    ASSUME PoolInv, NEW t \in Threads, ReleaseBarrier(t)
    PROVE  PoolInv'
<1>1. /\ pc[t] = "release" /\ P' = P + 1 /\ LeaveBarrier(t)
      /\ UNCHANGED <<pooled, n_graph, n_barrier, flags, request, last_graph, data>>
  BY DEF ReleaseBarrier, P
<1>2. /\ UNCHANGED <<pool, n_threads, n_barrier, last_graph, wdata, abort>>
      /\ UNCHANGED <<n_graph, cgraph>>
  BY <1>1 DEF pooled, request, data
<1>3. /\ NNodes' = NNodes /\ Team' = Team /\ N' = N
      /\ \A u \in Threads : Current(u)' <=> Current(u)
  BY <1>2 DEF NNodes, Team, N, Current
<1>4. /\ P \in Nat /\ Team \subseteq Threads /\ 0 \in Threads
      /\ \A u \in Threads : node[u] \in Nat /\ seen[u].passed \in Nat
      /\ ret[t] \in {"chunk", "next", "exit"}
  BY Types DEF PoolInv, TypeOK
<1>5. /\ t \in Team
      /\ \A u \in Team : /\ Held(u) /\ Local(u) /\ Current(u) /\ ~Left(u)
                         /\ node[u] = node[t] /\ ret[u] = ret[t]
                         /\ u # t => pc[u] = "wait" /\ seen[u].passed = P
  BY <1>1, SameBarrier
<1>6. Only(t)
  BY <1>1, <1>2, Leaving
<1>7. TypeOK'
  <2>1. n_barrier_passed' \in Nat
    BY <1>1, <1>4 DEF P
  <2> QED
    BY <1>1, <1>2, <2>1, Leaving, ZenonT(60) DEF PoolInv, TypeOK, pooled, flags, request, data, NNodes
<1>8. pc'[t] \in {"chunk", "node", "done", "pause"}
  BY <1>1, <1>2, <1>4, Leaving
<1>9. ASSUME NEW u \in Threads, u # t, pc'[u] \in InGraph
      PROVE  /\ pc'[u] = pc[u] /\ seen'[u] = seen[u] /\ ret'[u] = ret[u] /\ node'[u] = node[u]
             /\ Straggler(u) => Straggler(u)'
             /\ ~Straggler(u) => u \in Team /\ pc[u] = "wait" /\ seen[u].passed = P
             /\ pc'[u] \notin {"reset", "release"}
             /\ seen[u].passed # P'
  <2>1. /\ pc'[u] = pc[u] /\ seen'[u] = seen[u] /\ ret'[u] = ret[u] /\ node'[u] = node[u]
    BY <1>6, <1>9 DEF Only
  <2>2. CASE Straggler(u)
    BY <1>1, <1>4, <2>1, <2>2 DEF Straggler
  <2>3. CASE ~Straggler(u)
    <3>1. u \in Team
      BY <1>9, <2>1, <2>3, InGraphLocal
    <3> QED
      BY <1>1, <1>4, <1>5, <1>9, <2>1, <2>3, <3>1
  <2> QED
    BY <2>1, <2>2, <2>3
<1>10. Counted' /\ LastAlone'
  <2>1. \A u \in Threads : pc'[u] \notin {"reset", "release"}
    BY <1>8, <1>9 DEF InGraph, InBarrier
  <2>2. Arrived' = {}
    <3>1. ASSUME NEW u \in Threads, pc'[u] = "wait" PROVE seen'[u].passed # P'
      BY <1>8, <1>9, <3>1 DEF InGraph, InBarrier
    <3> QED
      BY <2>1, <3>1 DEF Arrived, Waiting
  <2>3. n_barrier' = 0
    BY <1>1, <1>2 DEF PoolInv, Counted
  <2> QED
    BY <2>1, <2>2, <2>3, FS_EmptySet DEF Counted, LastAlone
<1>11. Placed'
  <2>1. pc'[t] \in InGraph => Current(t)' /\ Local(t)'
    BY <1>1, <1>2, <1>3, <1>5, LeavingLocal DEF Held
  <2>2. ASSUME NEW u \in Threads, u # t, pc'[u] \in InGraph, ~Straggler(u)
        PROVE  Current(u)' /\ Local(u)'
    <3>1. /\ u \in Team /\ pc[u] = "wait" /\ seen[u].passed = P
          /\ pc'[u] = pc[u] /\ seen'[u] = seen[u] /\ ret'[u] = ret[u] /\ node'[u] = node[u]
          /\ nth'[u] = nth[u]
      BY <1>6, <1>9, <2>2 DEF Only
    <3>2. Released(u)' /\ seen'[u].passed <= P'
      BY <1>1, <1>4, <3>1 DEF Released
    <3>3. Kind(node[u])' = Kind(node[u]) /\ (Product(u)' <=> Product(u))
      BY <1>2, <3>1 DEF Kind, Product
    <3>4. Local(u) /\ Current(u)
      BY <1>5, <3>1
    <3>5. Local(u)'
      BY <1>2, <1>3, <3>1, <3>2, <3>3, <3>4 DEF Local, Inside, InBarrier, Product, Kind
    <3> QED
      BY <1>3, <3>4, <3>5
  <2> QED
    BY <1>9, <2>1, <2>2 DEF Placed
<1>12. ASSUME NEW u \in Team
       PROVE  /\ Current(u)'
              /\ Left(u)' <=> ret[t] = "exit"
              /\ Conv(u)' <=> ret[t] = "chunk"
              /\ ret[t] = "chunk" => Node(u)' = node[t]
              /\ ret[t] = "next" => Node(u)' = node[t] + 1
  <2>1. Current(u)'
    BY <1>3, <1>4, <1>5
  <2>2. CASE u = t
    <3>1. /\ ret[t] = "chunk" => pc'[t] = "chunk" /\ node'[t] = node[t]
          /\ ret[t] = "next" => pc'[t] = "node" /\ node'[t] = node[t] + 1
          /\ ret[t] = "exit" => pc'[t] \in {"done", "pause"}
      BY <1>1, <1>2, Leaving
    <3>2. CASE ret[t] = "chunk"
      BY <2>1, <2>2, <3>1, <3>2 DEF Left, Conv, Node, Straggler, Released, InGraph
    <3>3. CASE ret[t] = "next"
      BY <2>1, <2>2, <3>1, <3>3 DEF Left, Conv, Node, Straggler, Released, Held, InGraph, InBarrier
    <3>4. CASE ret[t] = "exit"
      BY <2>1, <2>2, <3>1, <3>4 DEF Left, Conv, Straggler, Released, Held, InGraph, InBarrier
    <3> QED
      BY <1>4, <3>2, <3>3, <3>4
  <2>3. CASE u # t
    <3>1. /\ pc[u] = "wait" /\ seen[u].passed = P /\ node[u] = node[t] /\ ret[u] = ret[t]
          /\ u \in Threads
      BY <1>4, <1>5, <2>3
    <3>2. /\ pc'[u] = "wait" /\ seen'[u].passed = P /\ node'[u] = node[t] /\ ret'[u] = ret[t]
      BY <1>6, <2>3, <3>1 DEF Only
    <3>3. Released(u)' /\ ~Held(u)' /\ (Straggler(u)' <=> ret[t] = "exit")
      BY <1>1, <1>4, <3>2 DEF Released, Held, Straggler
    <3> QED
      BY <1>4, <2>1, <3>2, <3>3 DEF Left, Conv, Node, InGraph, InBarrier
  <2> QED
    BY <2>1, <2>2, <2>3
<1>13. LeftTogether'
  BY <1>3, <1>12 DEF LeftTogether
<1>14. AllNear'
  <2>1. ASSUME NEW u \in Team, NEW v \in Team, ~Left(u)' PROVE Near(u, v)'
    <3>1. Node(u)' = Node(v)' /\ Node(u)' \in Nat /\ (Conv(u)' <=> Conv(v)')
      BY <1>4, <1>12, <2>1
    <3> QED
      BY <3>1 DEF Near
  <2> QED
    BY <1>3, <2>1 DEF AllNear
<1>15. Converted'
  <2>1. ASSUME NEW u \in Team, Conv(u)', NEW v \in Team PROVE wdata'[v] = Node(u)'
    <3>1. ret[t] = "chunk" /\ ret[v] = "chunk" /\ Node(u)' = node[t]
      BY <1>5, <1>12, <2>1
    <3>2. wdata[v] = node[t]
      BY <1>5, <3>1 DEF Local, Held
    <3> QED
      BY <1>2, <3>1, <3>2
  <2> QED
    BY <1>3, <2>1 DEF Converted
<1>16. Numbered'
  BY <1>2, <1>4, <1>6, <1>8 DEF PoolInv, Numbered, Only
<1> QED
  BY <1>7, <1>10, <1>11, <1>13, <1>14, <1>15, <1>16 DEF PoolInv

-----------------------------------------------------------------------------
(* The caller between graphs.                                              *)

(* A broadcast concerns only those who sleep.                              *)
LEMMA Awoken ==
    ASSUME TypeOK
    PROVE  /\ Awake(pc) \in [Threads -> Labels]
           /\ \A u \in Threads :
                  /\ Awake(pc)[u] \in InGraph => Awake(pc)[u] = pc[u]
                  /\ pc[u] \notin {"paused", "asleep"} => Awake(pc)[u] = pc[u]
BY SMTT(60) DEF TypeOK, Awake, Labels, InGraph, InBarrier

(* Between two graphs the caller may change what no thread looks at.       *)
LEMMA QuietStep ==
    ASSUME PoolInv, TypeOK', pc[0] \notin InGraph,
           UNCHANGED <<n_graph, n_barrier_passed, n_barrier, last_graph, seen, ret>>,
           \A u \in Threads : pc'[u] \in InGraph => pc'[u] = pc[u],
           pc'[0] = "kick" => nth'[0] \in 1 .. n_threads' /\ n_graph.graph < MaxGraphs,
           pool' # "none" => n_threads' >= 1
    PROVE  PoolInv'
<1>1. /\ \A t \in Threads : pc[t] \in InGraph => Straggler(t)
      /\ \A t \in Team : Left(t)
      /\ n_barrier = 0
  BY Quiet
<1>2. P' = P /\ Team' = Team /\ Team \subseteq Threads /\ P \in Nat
  BY Types DEF PoolInv, P, Team, N
<1>3. ASSUME NEW u \in Threads, pc'[u] \in InGraph
      PROVE  Straggler(u)' /\ pc'[u] = "wait" /\ seen'[u].passed # P'
  <2>1. Straggler(u)' /\ Straggler(u)
    BY <1>1, <1>2, <1>3 DEF Straggler
  <2>2. seen[u].passed \in Nat
    BY DEF PoolInv, TypeOK
  <2> QED
    BY <1>2, <2>1, <2>2 DEF Straggler
<1>4. Placed'
  BY <1>3 DEF Placed
<1>5. ASSUME NEW u \in Team PROVE Left(u)' /\ ~Conv(u)'
  <2>1. Left(u)'
    BY <1>1, <1>2, <1>3 DEF Left, Current
  <2>2. ~Conv(u)'
    BY <1>2, <1>3 DEF Conv, Released, Held, InGraph, InBarrier, Straggler
  <2> QED
    BY <2>1, <2>2
<1>6. LeftTogether' /\ AllNear' /\ Converted'
  BY <1>2, <1>5 DEF LeftTogether, AllNear, Converted
<1>7. \A u \in Threads : pc'[u] \notin {"reset", "release"}
  BY <1>3 DEF InGraph, InBarrier
<1>8. Arrived' = {}
  BY <1>3, <1>7 DEF Arrived, Waiting, InGraph, InBarrier
<1>9. Counted' /\ LastAlone'
  BY <1>1, <1>7, <1>8, FS_EmptySet DEF Counted, LastAlone
<1>10. Numbered'
  BY DEF PoolInv, Numbered
<1> QED
  BY <1>4, <1>6, <1>9, <1>10 DEF PoolInv

(* Pausing, resuming, dropping, stopping and freeing a pool.               *)
LEMMA ManageInv ==
    ASSUME PoolInv, PausePool \/ ResumePool \/ DropPool \/ StopPool \/ FreePool \/ GraphDone
    PROVE  PoolInv'
<1>1. /\ pc[0] \notin InGraph
      /\ UNCHANGED <<n_threads, n_graph, n_barrier_passed, n_barrier, request, last_graph, frame>>
      /\ pool' \in {pool, "none"} /\ stop' \in BOOLEAN /\ pause' \in BOOLEAN
      /\ wdata' \in [Threads -> Nat \cup {-1}]
  <2>1. PausePool => /\ pc[0] = "idle"
                     /\ UNCHANGED <<pooled, n_graph, barrier, stop, request, last_graph, frame, wdata>>
                     /\ pause' = TRUE
    BY DEF PausePool, data
  <2>2. ResumePool => /\ pc[0] = "idle"
                      /\ UNCHANGED <<pooled, n_graph, barrier, stop, request, last_graph, frame, wdata>>
                      /\ pause' = FALSE
    BY DEF ResumePool, data
  <2>3. DropPool => /\ pc[0] = "idle"
                    /\ UNCHANGED <<shared, last_graph, frame, wdata>>
    BY DEF DropPool, data
  <2>4. StopPool => /\ pc[0] = "free"
                    /\ UNCHANGED <<pooled, n_graph, barrier, request, last_graph, frame, wdata>>
                    /\ stop' = TRUE /\ pause' = FALSE
    BY DEF StopPool, data
  <2>5. FreePool => /\ pc[0] = "join"
                    /\ UNCHANGED <<n_threads, n_graph, barrier, flags, request, last_graph, frame, wdata>>
                    /\ pool' = "none"
    BY DEF FreePool, data
  <2>6. GraphDone => pc[0] = "done" /\ UNCHANGED <<shared, last_graph, frame>> /\ wdata' = Unfilled
    BY DEF GraphDone
  <2>7. Unfilled \in [Threads -> Nat \cup {-1}]
    BY DEF Unfilled
  <2> QED
    BY <2>1, <2>2, <2>3, <2>4, <2>5, <2>6, <2>7
       DEF PoolInv, TypeOK, shared, pooled, barrier, flags, frame, InGraph, InBarrier
<1>2. /\ pc' \in [Threads -> Labels]
      /\ \A u \in Threads : pc'[u] \in InGraph => pc'[u] = pc[u]
      /\ pc'[0] # "kick"
  <2>1. TypeOK /\ 0 \in Threads /\ pc \in [Threads -> Labels]
    BY Types DEF PoolInv, TypeOK
  <2>2. CASE PausePool \/ ResumePool
    <3>1. pc' = Awake(pc) /\ pc[0] = "idle"
      BY <2>2 DEF PausePool, ResumePool
    <3> QED
      BY <2>1, <3>1, Awoken
  <2>3. CASE StopPool
    <3>1. pc' = [Awake(pc) EXCEPT ![0] = "join"]
      BY <2>3 DEF StopPool
    <3> QED
      BY <2>1, <3>1, Awoken DEF Labels, InGraph, InBarrier
  <2>4. CASE DropPool \/ GraphDone
    <3>1. PICK l \in {"free", "idle"} : pc' = [pc EXCEPT ![0] = l]
      BY <2>4 DEF DropPool, GraphDone, Goto
    <3> QED
      BY <2>1, <3>1 DEF Labels, InGraph, InBarrier
  <2>5. CASE FreePool
    BY <2>1, <2>5 DEF FreePool, Labels, InGraph, InBarrier
  <2> QED
    BY <2>2, <2>3, <2>4, <2>5
<1>3. TypeOK'
  BY <1>1, <1>2 DEF PoolInv, TypeOK, request, frame, NNodes
<1>4. pool' # "none" => n_threads' >= 1
  BY <1>1 DEF PoolInv, Numbered
<1> QED
  BY <1>1, <1>2, <1>3, <1>4, QuietStep DEF frame

(* A call on a pool that is kept.                                          *)
LEMMA ComputeKeptInv ==
    ASSUME PoolInv, NEW call \in Calls, ComputeKept(call.shape, call.threads)
    PROVE  PoolInv'
<1> DEFINE n == IF call.threads > n_threads THEN n_threads ELSE call.threads
<1>1. /\ call.shape \in Seq({"skip", "rows", "chunks"}) /\ Len(call.shape) \in Nat
      /\ call.threads \in 1 .. MaxThreads
  BY ThreadPoolAssumption, LenProperties
<1>2. n_threads \in 1 .. MaxThreads /\ MaxThreads \in Nat
  BY Types DEF ComputeKept, PoolInv, TypeOK, Numbered
<1>3. n \in 1 .. n_threads /\ n \in 0 .. MaxThreads
  BY <1>1, <1>2
<1>4. /\ pc[0] = "idle" /\ n_graph.graph < MaxGraphs
      /\ cgraph' = call.shape /\ current_chunk' = 0 /\ abort' = -1 /\ ec' = "success"
      /\ nth' = [nth EXCEPT ![0] = n] /\ pc' = [pc EXCEPT ![0] = "kick"]
      /\ UNCHANGED <<pooled, n_graph, barrier, flags, last_graph, node, chunk, seen, ret, data>>
  BY DEF ComputeKept, Goto
<1>5. NNodes' \in Nat
  BY <1>1, <1>4 DEF NNodes
<1>6. pc' \in [Threads -> Labels] /\ nth' \in [Threads -> 0 .. MaxThreads]
  BY <1>3, <1>4 DEF PoolInv, TypeOK, Labels
<1>7. cgraph' \in {c.shape : c \in Calls} \cup {<<>>} /\ abort' \in -1 .. NNodes'
  BY <1>4, <1>5
<1>8. TypeOK'
  BY <1>4, <1>6, <1>7 DEF PoolInv, TypeOK, pooled, barrier, flags, data
<1>9. \A u \in Threads : pc'[u] \in InGraph => pc'[u] = pc[u]
  BY <1>4 DEF PoolInv, TypeOK, InGraph, InBarrier
<1>10. nth'[0] = n
  BY <1>4, Types DEF PoolInv, TypeOK
<1>11. n_threads' = n_threads /\ n_threads' >= 1
  BY <1>2, <1>4 DEF pooled
<1>12. pc[0] \notin InGraph
  BY <1>4 DEF InGraph, InBarrier
<1> HIDE DEF n
<1> QED
  BY <1>3, <1>4, <1>8, <1>9, <1>10, <1>11, <1>12, QuietStep DEF barrier

(* A new pool, kept or for one graph.                                      *)
LEMMA NewPoolInv ==
    ASSUME PoolInv, NEW kind \in {"kept", "disposable"}, NEW n \in 1 .. MaxThreads,
           NEW paused \in BOOLEAN, NEW main \in {"idle", "kick"},
           NewPool(kind, n, paused, main), UNCHANGED <<node, chunk, seen, ret, data>>,
           cgraph' \in {call.shape : call \in Calls} \cup {<<>>}, NNodes' \in Nat,
           nth' \in [Threads -> 0 .. MaxThreads], main = "kick" => nth'[0] = n
    PROVE  PoolInv'
<1>1. /\ pool' = kind /\ n_threads' = n
      /\ n_graph' = NoGraph /\ n_barrier' = 0 /\ n_barrier_passed' = 0
      /\ current_chunk' = 0 /\ stop' = FALSE /\ pause' = paused
      /\ abort' = -1 /\ ec' = "success"
      /\ last_graph' = [t \in Threads |-> NoGraph]
      /\ pc' = [t \in Threads |-> CASE t = 0 -> main
                                    [] t \in 1 .. n - 1 -> "pause"
                                    [] OTHER -> "none"]
  BY DEF NewPool
<1>2. MaxThreads \in Nat \ {0} /\ MaxGraphs \in Nat \ {0} /\ 0 \in Threads
  BY Types DEF PoolInv
<1>3. pc' \in [Threads -> Labels] /\ \A u \in Threads : pc'[u] \in {"idle", "kick", "pause", "none"}
  BY <1>1 DEF Labels
<1>4. NoGraph \in NGraphs
  BY <1>2 DEF NoGraph, NGraphs
<1>5. TypeOK'
  <2>1. /\ UNCHANGED <<node, chunk, seen, ret, wdata>>
        /\ node \in [Threads -> Nat] /\ chunk \in [Threads -> Nat]
        /\ seen \in [Threads -> [threads : 0 .. MaxThreads, passed : Nat]]
        /\ ret \in [Threads -> {"chunk", "next", "exit"}]
        /\ wdata \in [Threads -> Nat \cup {-1}]
    BY DEF data, PoolInv, TypeOK
  <2>2. /\ n_threads' \in 0 .. MaxThreads /\ n_graph' \in NGraphs
        /\ n_graph'.threads <= n_threads' /\ n_barrier' \in 0 .. MaxThreads
        /\ abort' \in -1 .. NNodes' /\ n_barrier_passed' \in Nat /\ current_chunk' \in Nat
    BY <1>1, <1>2, <1>4 DEF NoGraph
  <2>3. last_graph' \in [Threads -> NGraphs]
    BY <1>1, <1>4
  <2> QED
    BY <1>1, <1>3, <2>1, <2>2, <2>3 DEF TypeOK
<1>6. \A u \in Threads : pc'[u] \notin InGraph
  BY <1>3 DEF InGraph, InBarrier
<1>7. Team' = {}
  BY <1>1 DEF Team, N, NoGraph
<1>8. Placed' /\ LeftTogether' /\ AllNear' /\ Converted'
  BY <1>6, <1>7 DEF Placed, LeftTogether, AllNear, Converted
<1>9. Arrived' = {}
  BY <1>6 DEF Arrived, Waiting, InGraph, InBarrier
<1>10. Counted' /\ LastAlone'
  BY <1>1, <1>6, <1>9, FS_EmptySet DEF Counted, LastAlone, InGraph, InBarrier
<1>11. Numbered'
  BY <1>1, <1>2 DEF Numbered, NoGraph
<1> QED
  BY <1>5, <1>8, <1>10, <1>11 DEF PoolInv

(* The caller makes a pool to keep, or asks for a graph, with a pool of    *)
(* its own or on the one that is kept.                                     *)
LEMMA KeepPoolInv ==
    ASSUME PoolInv, KeepPool
    PROVE  PoolInv'
<1>1. PICK n \in 1 .. MaxThreads, paused \in BOOLEAN : NewPool("kept", n, paused, "idle")
  BY DEF KeepPool
<1>2. UNCHANGED <<cgraph, nth, node, chunk, seen, ret, data>>
  BY DEF KeepPool, frame
<1>3. /\ cgraph' \in {call.shape : call \in Calls} \cup {<<>>} /\ NNodes' \in Nat
      /\ nth' \in [Threads -> 0 .. MaxThreads]
  <2>1. NNodes' = NNodes /\ NNodes \in Nat
    BY <1>2, Types DEF NNodes, PoolInv
  <2> QED
    BY <1>2, <2>1 DEF PoolInv, TypeOK
<1> QED
  BY <1>1, <1>2, <1>3, NewPoolInv

LEMMA CallInv ==
    ASSUME PoolInv, Call
    PROVE  PoolInv'
<1>1. PICK call \in Calls : \/ ComputeDisposable(call.shape, call.threads)
                           \/ ComputeKept(call.shape, call.threads)
  BY DEF Call
<1>2. CASE ComputeKept(call.shape, call.threads)
  BY <1>2, ComputeKeptInv
<1>3. CASE ComputeDisposable(call.shape, call.threads)
  <2>1. /\ call.shape \in Seq({"skip", "rows", "chunks"}) /\ Len(call.shape) \in Nat
        /\ call.threads \in 1 .. MaxThreads
    BY ThreadPoolAssumption, LenProperties
  <2>2. /\ NewPool("disposable", call.threads, FALSE, "kick")
        /\ cgraph' = call.shape /\ nth' = [nth EXCEPT ![0] = call.threads]
        /\ UNCHANGED <<node, chunk, seen, ret, data>>
    BY <1>3 DEF ComputeDisposable
  <2>3. cgraph' \in {c.shape : c \in Calls} \cup {<<>>} /\ NNodes' \in Nat
    BY <2>1, <2>2 DEF NNodes
  <2>4. nth' \in [Threads -> 0 .. MaxThreads] /\ nth'[0] = call.threads
    <3>1. nth \in [Threads -> 0 .. MaxThreads] /\ 0 \in Threads /\ MaxThreads \in Nat
      BY Types DEF PoolInv, TypeOK
    <3> QED
      BY <2>1, <2>2, <3>1
  <2> QED
    BY <2>1, <2>2, <2>3, <2>4, NewPoolInv
<1> QED
  BY <1>1, <1>2, <1>3

(* The caller starts a graph: no worker has noticed it yet, and those that *)
(* are still at the last barrier of an earlier graph have been let go.     *)
LEMMA KickoffInv ==
    ASSUME PoolInv, Kickoff
    PROVE  PoolInv'
<1> DEFINE n == nth[0]
           g == n_graph.graph
<1>1. /\ pc[0] = "kick"
      /\ n_graph' = [graph |-> g + 1, threads |-> n]
      /\ pause' = FALSE
      /\ pc' = [Awake(pc) EXCEPT ![0] = "start"]
      /\ UNCHANGED <<pooled, barrier, stop, request, last_graph, frame, wdata>>
  BY DEF Kickoff
<1>2. /\ n \in 1 .. n_threads /\ n_threads \in 0 .. MaxThreads /\ g \in Nat /\ g < MaxGraphs
      /\ MaxThreads \in Nat /\ MaxGraphs \in Nat /\ P \in Nat /\ 0 \in Threads /\ NNodes \in Nat
  BY <1>1, Types, SMTT(60) DEF PoolInv, TypeOK, Numbered, NGraphs, P
<1>3. /\ \A t \in Threads : pc[t] \in InGraph => Straggler(t)
      /\ \A t \in Threads : pc[t] \notin {"reset", "release"}
      /\ Arrived = {} /\ n_barrier = 0
  BY <1>1, Quiet DEF InGraph, InBarrier
<1>4. /\ pc' \in [Threads -> Labels] /\ pc'[0] = "start"
      /\ \A u \in Threads \ {0} : pc'[u] \in InGraph => pc'[u] = pc[u]
  <2>1. pc \in [Threads -> Labels]
    BY DEF PoolInv, TypeOK
  <2>2. /\ Awake(pc) \in [Threads -> Labels]
        /\ \A u \in Threads : Awake(pc)[u] \in InGraph => Awake(pc)[u] = pc[u]
    BY Awoken DEF PoolInv
  <2> QED
    BY <1>1, <1>2, <2>2 DEF Labels
<1>5. N' = n /\ P' = P /\ NNodes' = NNodes /\ Team' = 0 .. n - 1 /\ Team' \subseteq Threads
  BY <1>1, <1>2 DEF N, P, NNodes, Team, barrier, request, Threads
<1>6. \A u \in Threads \ {0} : ~Current(u)'
  <2>1. ASSUME NEW u \in Threads PROVE last_graph[u] # n_graph'
    <3>1. last_graph[u].graph <= g /\ last_graph[u].graph \in Nat
      BY DEF PoolInv, TypeOK, Numbered, NGraphs
    <3>2. n_graph'.graph = g + 1
      BY <1>1
    <3> QED
      BY <1>2, <3>1, <3>2
  <2> QED
    BY <1>1, <2>1 DEF Current
<1>7. \A u \in Threads \ {0} : pc'[u] \in InGraph => Straggler(u)'
  BY <1>1, <1>3, <1>4, <1>5 DEF Straggler, frame
<1>8. Placed'
  <2>1. Current(0)' /\ Local(0)'
    BY <1>2, <1>4, <1>5 DEF Current, Local, Inside, InBarrier
  <2> QED
    BY <1>7, <2>1 DEF Placed
<1>9. \A u \in Threads : ~Left(u)' /\ Node(u)' = 0 /\ ~Conv(u)'
  <2>1. ~Left(0)' /\ Node(0)' = 0 /\ ~Conv(0)'
    BY <1>4 DEF Left, Node, Conv, Straggler, InGraph, InBarrier, Released, Held
  <2> QED
    BY <1>6, <2>1 DEF Left, Node, Conv
<1>10. LeftTogether' /\ AllNear' /\ Converted'
  <2>1. LeftTogether' /\ Converted'
    BY <1>5, <1>9 DEF LeftTogether, Converted
  <2>2. \A t, u \in Team' : Near(t, u)'
    BY <1>5, <1>9 DEF Near
  <2> QED
    BY <2>1, <2>2 DEF AllNear
<1>11. \A u \in Threads : pc'[u] \notin {"reset", "release"}
  BY <1>4, <1>7 DEF Straggler, InGraph, InBarrier
<1>12. Arrived' = {}
  <2>1. ASSUME NEW u \in Threads, pc'[u] = "wait" PROVE seen'[u].passed # P'
    <3>1. u # 0 /\ pc'[u] \in InGraph
      BY <1>4, <2>1 DEF InGraph, InBarrier
    <3>2. seen'[u].passed < P' /\ seen'[u].passed \in Nat
      BY <1>1, <1>7, <3>1 DEF Straggler, frame, PoolInv, TypeOK
    <3> QED
      BY <1>2, <1>5, <3>2
  <2> QED
    BY <1>11, <2>1 DEF Arrived, Waiting
<1>13. Counted' /\ LastAlone'
  <2>1. n_barrier' = 0
    BY <1>1, <1>3 DEF barrier
  <2> QED
    BY <1>11, <1>12, <2>1, FS_EmptySet DEF Counted, LastAlone
<1>14. Numbered'
  <2>1. \A t \in Threads : last_graph'[t].graph <= n_graph'.graph
    <3>1. \A t \in Threads : last_graph[t].graph <= g /\ last_graph[t].graph \in Nat
      BY DEF PoolInv, TypeOK, Numbered, NGraphs
    <3>2. n_graph'.graph = g + 1 /\ last_graph' = last_graph
      BY <1>1
    <3> QED
      BY <1>2, <3>1, <3>2
  <2>2. pool' = pool /\ n_threads' = n_threads
    BY <1>1 DEF pooled
  <2> QED
    BY <1>4, <2>1, <2>2 DEF Numbered, PoolInv
<1>15. TypeOK'
  <2>1. n_graph' \in NGraphs /\ n_graph'.threads <= n_threads
    BY <1>1, <1>2 DEF NGraphs
  <2>2. UNCHANGED <<pooled, barrier, stop, request, last_graph, frame, wdata>> /\ pause' \in BOOLEAN
    BY <1>1
  <2> QED
    BY <1>4, <1>5, <2>1, <2>2 DEF PoolInv, TypeOK, pooled, barrier, request, frame
<1> QED
  BY <1>8, <1>10, <1>13, <1>14, <1>15 DEF PoolInv

-----------------------------------------------------------------------------
(* The whole program.                                                      *)

LEMMA InitInv == Init => PoolInv
<1> SUFFICES ASSUME Init PROVE PoolInv
  OBVIOUS
<1>1. MaxThreads \in Nat \ {0} /\ MaxGraphs \in Nat \ {0} /\ 0 \in Threads
  BY ThreadPoolAssumption DEF Threads
<1>2. NNodes = 0
  BY EmptySeq, Zenon DEF Init, NNodes
<1>3. /\ pc = [t \in Threads |-> IF t = 0 THEN "idle" ELSE "none"]
      /\ n_graph = NoGraph /\ NoGraph \in NGraphs
      /\ last_graph = [t \in Threads |-> NoGraph]
  BY <1>1 DEF Init, NoGraph, NGraphs
<1>4. TypeOK
  <2>1. NoGraph.threads = 0 /\ NotSeen \in [threads : 0 .. MaxThreads, passed : Nat]
    BY <1>1 DEF NoGraph, NotSeen
  <2>2. pc \in [Threads -> Labels] /\ last_graph \in [Threads -> NGraphs]
    BY <1>3 DEF Labels
  <2>3. /\ nth \in [Threads -> 0 .. MaxThreads] /\ node \in [Threads -> Nat]
        /\ chunk \in [Threads -> Nat] /\ ret \in [Threads -> {"chunk", "next", "exit"}]
        /\ wdata \in [Threads -> Nat \cup {-1}]
    BY <1>1 DEF Init, Unfilled
  <2>4. seen \in [Threads -> [threads : 0 .. MaxThreads, passed : Nat]]
    BY <2>1 DEF Init
  <2>5. /\ pool \in {"none", "disposable", "kept"} /\ n_threads \in 0 .. MaxThreads
        /\ cgraph \in {call.shape : call \in Calls} \cup {<<>>}
        /\ n_barrier \in 0 .. MaxThreads /\ n_barrier_passed \in Nat /\ current_chunk \in Nat
        /\ stop \in BOOLEAN /\ pause \in BOOLEAN /\ ec \in {"success", "aborted"}
        /\ n_threads = 0
    BY <1>1 DEF Init
  <2>6. abort \in -1 .. NNodes
    BY <1>2 DEF Init
  <2> QED
    BY <1>3, <2>1, <2>2, <2>3, <2>4, <2>5, <2>6 DEF TypeOK
<1>5. \A t \in Threads : pc[t] \in {"idle", "none"}
  BY <1>3
<1>6. Team = {}
  BY <1>3 DEF Team, N, NoGraph
<1>7. Placed /\ LeftTogether /\ AllNear /\ Converted
  BY <1>5, <1>6 DEF Placed, LeftTogether, AllNear, Converted, InGraph, InBarrier
<1>8. Arrived = {}
  BY <1>5 DEF Arrived, Waiting
<1>9. n_barrier = 0
  BY DEF Init
<1>10. Counted /\ LastAlone
  BY <1>5, <1>8, <1>9, FS_EmptySet DEF Counted, LastAlone
<1>11. Numbered
  BY <1>1, <1>3 DEF Numbered, NoGraph, Init
<1> QED
  BY <1>4, <1>7, <1>10, <1>11 DEF PoolInv

(* A step that changes nothing.                                            *)
LEMMA StutterInv ==
    ASSUME PoolInv, UNCHANGED vars
    PROVE  PoolInv'
<1>1. /\ UNCHANGED <<pool, n_threads, cgraph, n_graph, n_barrier, n_barrier_passed, current_chunk>>
      /\ UNCHANGED <<stop, pause, abort, ec, pc, last_graph, nth, node, chunk, seen, ret, wdata>>
  BY DEF vars, shared, pooled, barrier, flags, request, frame, data
<1>2. TypeOK'
  BY <1>1 DEF PoolInv, TypeOK, NNodes
<1>3. /\ Team' = Team /\ Waiting' = Waiting /\ Arrived' = Arrived /\ P' = P /\ N' = N
      /\ \A t : (Current(t)' <=> Current(t)) /\ (Straggler(t)' <=> Straggler(t)) /\ (Released(t)' <=> Released(t))
      /\ \A t : (Product(t)' <=> Product(t)) /\ (Inside(t)' <=> Inside(t))
  BY <1>1 DEF Team, Waiting, Arrived, P, N, Current, Straggler, Released, Product, Kind, Inside
<1>4. \A t : (Left(t)' <=> Left(t)) /\ (Held(t)' <=> Held(t)) /\ Node(t)' = Node(t)
  BY <1>1, <1>3 DEF Left, Held, Node
<1>5. \A t : Conv(t)' <=> Conv(t)
  BY <1>1, <1>3, <1>4 DEF Conv
<1>6. \A t : Local(t)' <=> Local(t)
  BY <1>1, <1>3 DEF Local, NNodes, Kind
<1>7. \A t, j : Passable(t, j)' <=> Passable(t, j)
  BY <1>1, <1>4, <1>5 DEF Passable, NNodes, Kind
<1>8. \A t, u : Near(t, u)' <=> Near(t, u)
  BY <1>4, <1>5, <1>7 DEF Near
<1>9. Placed' /\ LeftTogether' /\ AllNear' /\ Converted'
  BY <1>1, <1>3, <1>4, <1>5, <1>6, <1>8 DEF PoolInv, Placed, LeftTogether, AllNear, Converted
<1>10. Counted' /\ LastAlone' /\ Numbered'
  BY <1>1, <1>3 DEF PoolInv, Counted, LastAlone, Numbered
<1> QED
  BY <1>2, <1>9, <1>10 DEF PoolInv

(* No step of the program breaks the invariant.                            *)
LEMMA NextInv ==
    ASSUME PoolInv, [Next]_vars
    PROVE  PoolInv'
<1>1. CASE Manage
  BY <1>1, KeepPoolInv, ManageInv DEF Manage
<1>2. CASE Call
  BY <1>2, CallInv
<1>3. CASE Serve
  BY <1>3, KickoffInv, ManageInv DEF Serve
<1>4. ASSUME NEW t \in Workers, Between(t) \/ SpuriousWakeup(t) PROVE PoolInv'
  BY <1>4, BetweenInv
<1>5. ASSUME NEW t \in Threads, Compute(t) PROVE PoolInv'
  <2>1. CASE Start(t) \/ NextNode(t) \/ LeaveLoop(t)
    BY <2>1, LoopInv, SkipInv
  <2>2. CASE Rows(t) \/ Chunk(t) \/ FetchChunk(t) \/ NoMoreChunks(t)
    BY <2>2, ComputeInv
  <2>3. CASE Convert(t) \/ AfterNode(t)
    BY <2>3, ConvertInv, AfterNodeInv
  <2>4. CASE EnterBarrier(t) \/ Arrive(t) \/ ResetBarrier(t) \/ ReleaseBarrier(t) \/ WaitBarrier(t)
    BY <2>4, EnterBarrierInv, ArriveInv, ResetBarrierInv, ReleaseBarrierInv, WaitBarrierInv
  <2> QED
    BY <1>5, <2>1, <2>2, <2>3, <2>4 DEF Compute
<1>6. CASE UNCHANGED vars
  BY <1>6, StutterInv
<1> QED
  BY <1>1, <1>2, <1>3, <1>4, <1>5, <1>6 DEF Next

(* The inductive invariant holds throughout: the threads of a graph are    *)
(* where ggml_barrier puts them, and its counter is right whenever it is   *)
(* read.                                                                   *)
THEOREM Invariance == Spec => []PoolInv
<1>1. PoolInv /\ [Next]_vars => PoolInv'
  BY NextInv
<1> QED
  BY InitInv, <1>1, PTL DEF Spec

(* Every variable of the pool holds a value of its type: n_barrier, for    *)
(* one, never counts more threads than a pool may have.                    *)
THEOREM TypesHold == Spec => []TypeOK
<1>1. PoolInv => TypeOK
  BY DEF PoolInv
<1> QED
  BY Invariance, <1>1, PTL

(* The threads of a graph go through it together, and mul_mat multiplies   *)
(* only by an operand that all of them have converted.                     *)
THEOREM BarriersKeepStep == Spec => []Lockstep
<1>1. ASSUME PoolInv, NEW t \in Threads, Inside(t)
      PROVE  /\ Current(t) /\ Local(t) /\ t \in Team /\ ~Left(t)
             /\ Node(t) = node[t] /\ node[t] \in Nat /\ node[t] < NNodes /\ NNodes \in Nat
  <2>1. pc[t] \in InGraph /\ ~Straggler(t)
    BY <1>1 DEF Inside, InGraph, Straggler
  <2>2. Current(t) /\ Local(t) /\ t \in Team /\ ~Left(t)
    BY <1>1, <2>1, InGraphLocal
  <2>3. Node(t) = node[t]
    BY <1>1, <2>2, InsideNear
  <2> QED
    BY <1>1, <2>2, <2>3, Types DEF Local, PoolInv
<1>2. ASSUME PoolInv, NEW t \in Threads, NEW u \in Threads, Inside(t), Inside(u)
      PROVE  node[t] = node[u]
  <2>1. Node(t) < Node(u) => Node(u) = NNodes
    BY <1>1, <1>2, InsideNear
  <2>2. Node(u) < Node(t) => Node(t) = NNodes
    BY <1>1, <1>2, InsideNear
  <2> QED
    BY <1>1, <1>2, <2>1, <2>2
<1>3. ASSUME PoolInv, NEW t \in Threads, pc[t] = "chunk", NEW u \in 0 .. nth[t] - 1
      PROVE  wdata[u] = node[t]
  <2>1. Inside(t)
    BY <1>3 DEF Inside
  <2>2. Current(t) /\ Local(t) /\ t \in Team /\ Node(t) = node[t]
    BY <1>1, <1>3, <2>1
  <2>3. Conv(t) /\ u \in Team
    BY <1>3, <2>2 DEF Conv, Local, Team
  <2> QED
    BY <1>3, <2>2, <2>3 DEF PoolInv, Converted
<1>4. PoolInv => Lockstep
  BY <1>2, <1>3 DEF Lockstep
<1> QED
  BY Invariance, <1>4, PTL

(* When ggml_graph_compute resets the pool for the next graph, no worker   *)
(* reads what it resets: those still at a barrier have been let go of it.  *)
THEOREM ResetsUnseen == Spec => []QuietBetweenGraphs
<1>1. PoolInv => QuietBetweenGraphs
  <2> SUFFICES ASSUME PoolInv, pc[0] \notin InGraph, NEW t \in Workers, pc[t] \in InGraph
               PROVE  pc[t] = "wait" /\ ret[t] = "exit" /\ seen[t].passed # n_barrier_passed
    BY DEF QuietBetweenGraphs
  <2>1. t \in Threads
    BY DEF Workers
  <2>2. Straggler(t)
    BY <2>1, Quiet
  <2>3. seen[t].passed \in Nat /\ P \in Nat
    BY <2>1 DEF PoolInv, TypeOK, P
  <2> QED
    BY <2>2, <2>3 DEF Straggler, P
<1> QED
  BY Invariance, <1>1, PTL

-----------------------------------------------------------------------------
(***************************************************************************)
(* The refinement: the thread pool computes every graph as GraphRun        *)
(* promises, for any size of the pool, any number of graphs of any shape   *)
(* and any division of a product into chunks.                              *)
(***************************************************************************)

(* A thread beyond node k; one past the barrier of the product that is     *)
(* node k; one that has computed its node and not yet gone on; one whose   *)
(* part in node k is done; and the chunk a thread has been given.          *)
Beyond(t, k) == IF Left(t) THEN abort = -1 \/ k < abort ELSE k < Node(t)
Busy(t, k) == Conv(t) /\ Node(t) = k
Finished(t) == Current(t) /\ (pc[t] = "computed" \/ (Held(t) /\ ret[t] = "next"))
RowsDone(t, k) == Beyond(t, k) \/ (Finished(t) /\ Node(t) = k)
Holds(t, p) ==
    /\ Current(t)
    /\ \/ pc[t] = "chunk" /\ chunk[t] = p
       \/ Released(t) /\ ret[t] = "chunk" /\ p = t

NodeNumbers == 0 .. NNodes - 1
ChunkNumbers == 0 .. NChunks(N) - 1

(* The parts of the invariant of a graph that is being computed. What has  *)
(* been computed follows from where the threads are: the rows of a thread  *)
(* once it is done with their node; a chunk once it has been given out and *)
(* nobody holds it, and all chunks once the product is behind a thread. No *)
(* chunk is given out twice, and who finds none left leaves none. Nobody   *)
(* has come past the node at which the graph is aborted.                   *)
Shaped ==
    /\ DOMAIN work = NodeNumbers
    /\ \A k \in NodeNumbers : work[k] \in [Parts(k, N) -> {0, 1}]
RowsCounted ==
    \A k \in NodeNumbers : Kind(k) = "rows" =>
        \A p \in Team : work[k][p] = 1 <=> RowsDone(p, k)
ChunksCounted ==
    \A k \in NodeNumbers : Kind(k) = "chunks" =>
        \A p \in ChunkNumbers :
            work[k][p] = 1 <=>
                IF \E t \in Team : Busy(t, k)
                THEN p < current_chunk /\ \A t \in Team : ~Holds(t, p)
                ELSE \E t \in Team : Beyond(t, k)
GivenOnce ==
    \A t \in Team, p \in Nat : Holds(t, p) =>
        p < current_chunk /\ \A u \in Team \ {t} : ~Holds(u, p)
GivenOut ==
    \A t \in Team : Conv(t) =>
        /\ current_chunk >= N
        /\ Finished(t) => current_chunk >= NChunks(N)
CounterSet == Held(0) /\ ret[0] = "chunk" => current_chunk = N
NotPast == \A t \in Team : ~Left(t) => \A j \in 0 .. Node(t) - 1 : abort # j
Marked ==
    /\ abort # -1 =>
         \/ pc[0] = "node" /\ node[0] = abort
         \/ pc[0] \in InBarrier /\ (ret[0] = "exit" \/ (ret[0] = "next" /\ node[0] + 1 = abort))
    /\ ec = IF abort = -1 THEN "success" ELSE "aborted"

Manned == 0 \in Team

Counts == Shaped /\ RowsCounted /\ ChunksCounted
Chunked == GivenOnce /\ GivenOut /\ CounterSet

WorkInv ==
    /\ Running => Manned /\ Counts /\ Chunked /\ NotPast /\ Marked
    /\ pc[0] = "kick" => abort = -1 /\ ec = "success"

(* A step of the abstract run, or none.                                    *)
RunStep == Run!Next \/ UNCHANGED Run!graphVars

Good == WorkInv' /\ RunStep

-----------------------------------------------------------------------------
(* Facts about a state.                                                    *)

LEMMA RunningTeam ==
    ASSUME PoolInv, WorkInv, Running
    PROVE  /\ N \in Nat \ {0} /\ N <= MaxThreads /\ NNodes \in Nat /\ 0 \in Team
           /\ Team \subseteq Threads /\ Team \subseteq Nat
           /\ abort \in -1 .. NNodes /\ current_chunk \in Nat /\ NChunks(N) \in Nat \ {0}
           /\ NodeNumbers \subseteq Nat /\ ChunkNumbers \subseteq Nat
           /\ \A t \in Team : chunk[t] \in Nat /\ node[t] \in Nat
<1>1. N \in 0 .. MaxThreads /\ NNodes \in Nat /\ MaxThreads \in Nat /\ Team \subseteq Threads
  BY Types DEF PoolInv
<1>2. 0 \in Team
  BY DEF WorkInv, Manned
<1>3. N \in Nat \ {0} /\ Team \subseteq Nat
  BY <1>1, <1>2 DEF Team
<1>4. NChunks(N) \in Nat \ {0}
  BY <1>3, ThreadPoolAssumption DEF NChunks
<1> QED
  BY <1>1, <1>2, <1>3, <1>4, SMTT(60) DEF PoolInv, TypeOK, NodeNumbers, ChunkNumbers

(* Where one thread is past the barrier of a product, all that are past a  *)
(* barrier in the middle of a node are past this one.                      *)
LEMMA OneProduct ==
    ASSUME PoolInv, NEW t \in Team, NEW u \in Team, Conv(t), Conv(u)
    PROVE  Node(t) = Node(u)
BY DEF PoolInv, Converted

(* A thread that has been given a chunk is past the barrier, and so is one *)
(* that has finished a product.                                            *)
LEMMA HoldsConv ==
    ASSUME NEW t, NEW p, Holds(t, p)
    PROVE  Conv(t) /\ ~Finished(t)
BY DEF Holds, Conv, Finished, Held, Released, InBarrier

LEMMA FinishedThere ==
    ASSUME PoolInv, NEW t \in Threads, Finished(t)
    PROVE  /\ ~Left(t) /\ t \in Team /\ Local(t) /\ Node(t) = node[t]
           /\ Conv(t) <=> Product(t)
<1>1. pc[t] \in InGraph /\ ~Straggler(t)
  BY DEF Finished, Held, Released, InBarrier, InGraph, Straggler, PoolInv, TypeOK
<1>2. Current(t) /\ Local(t) /\ t \in Team /\ ~Left(t)
  BY <1>1, InGraphLocal
<1> QED
  BY <1>2 DEF Finished, Node, Conv, Held, Released, InBarrier

(* A thread that is inside a node: nobody has left the graph, and nothing  *)
(* before that node or the node itself is where the graph was aborted.     *)
LEMMA AtWork ==
    ASSUME PoolInv, WorkInv, Running, NEW t \in Threads, Inside(t)
    PROVE  /\ Current(t) /\ Local(t) /\ t \in Team /\ ~Left(t)
           /\ \A u \in Team : ~Left(u)
           /\ Node(t) = node[t] /\ node[t] \in NodeNumbers /\ nth[t] = N
           /\ abort = -1 \/ node[t] < abort
<1>1. pc[t] \in InGraph /\ ~Straggler(t)
  BY DEF Inside, InGraph, Straggler
<1>2. Current(t) /\ Local(t) /\ t \in Team /\ ~Left(t)
  BY <1>1, InGraphLocal
<1>3. \A u \in Team : ~Left(u)
  BY <1>2 DEF PoolInv, LeftTogether
<1>4. /\ Node(t) = node[t] /\ node[t] \in NodeNumbers /\ nth[t] = N /\ abort # node[t]
  BY <1>2, RunningTeam DEF Inside, Node, Released, Local, NodeNumbers
<1>5. \A j \in 0 .. node[t] - 1 : abort # j
  BY <1>2, <1>4 DEF WorkInv, NotPast
<1>6. abort = -1 \/ node[t] < abort
  BY <1>4, <1>5, RunningTeam DEF NodeNumbers
<1> QED
  BY <1>2, <1>3, <1>4, <1>6

(* Everything before the node that a thread is inside has been computed.   *)
LEMMA EarlierDone ==
    ASSUME PoolInv, WorkInv, Running, NEW t \in Threads, Inside(t),
           NEW j \in NodeNumbers, j < node[t], NEW p \in DOMAIN work[j]
    PROVE  work[j][p] = 1
<1>1. /\ \A u \in Team : ~Left(u)
      /\ t \in Team /\ Node(t) = node[t] /\ node[t] \in NodeNumbers
  BY AtWork
<1>2. NNodes \in Nat /\ Team \subseteq Threads /\ j \in Nat /\ node[t] \in Nat /\ j < NNodes
  BY <1>1, RunningTeam DEF NodeNumbers
<1>3. Kind(j) = "skip" \/ (\A u \in Team : Node(u) > j)
  <2>1. SUFFICES ASSUME NEW u \in Team, ~(Node(u) > j) PROVE Kind(j) = "skip"
    OBVIOUS
  <2>2. Node(u) \in 0 .. NNodes
    BY <1>1, <1>2, NodeBound
  <2>3. Passable(u, j)
    BY <1>1, <1>2, <2>1, <2>2 DEF PoolInv, AllNear, Near
  <2> QED
    BY <1>1, <1>2, <2>3 DEF Passable, NodeNumbers
<1>4. work[j] \in [Parts(j, N) -> {0, 1}]
  BY DEF WorkInv, Counts, Shaped
<1>5. Kind(j) \in {"skip", "rows", "chunks"}
  BY <1>2, KindType DEF PoolInv
<1>6. CASE Kind(j) = "skip"
  BY <1>4, <1>6 DEF Parts
<1>7. CASE Kind(j) = "rows"
  <2>1. p \in Team /\ Beyond(p, j)
    BY <1>1, <1>2, <1>3, <1>4, <1>7 DEF Parts, Team, Beyond
  <2> QED
    BY <1>7, <2>1 DEF WorkInv, Counts, RowsCounted, RowsDone
<1>8. CASE Kind(j) = "chunks"
  <2>1. p \in ChunkNumbers
    BY <1>4, <1>8 DEF Parts, ChunkNumbers
  <2>2. \A u \in Team : ~Busy(u, j) /\ Beyond(u, j)
    BY <1>1, <1>2, <1>3, <1>8 DEF Busy, Beyond
  <2> QED
    BY <1>1, <1>8, <2>1, <2>2 DEF WorkInv, Counts, ChunksCounted
<1> QED
  BY <1>5, <1>6, <1>7, <1>8

-----------------------------------------------------------------------------
(* Steps that the work cannot tell.                                        *)

SameWork == UNCHANGED <<n_graph, cgraph, abort, ec, current_chunk, work>>

(* Where the invariant sees a thread: in a step that keeps it there, it    *)
(* may still let go of a chunk that does not exist.                        *)
SameView(t) ==
    /\ Left(t)' <=> Left(t)
    /\ Left(t) \/ Node(t)' = Node(t)
    /\ Conv(t)' <=> Conv(t)
    /\ \/ Finished(t)' <=> Finished(t)
       \/ Conv(t) /\ Product(t) /\ Node(t) = node[t] /\ current_chunk >= NChunks(N)
    /\ \A p \in Nat : Holds(t, p)' => Holds(t, p)
    /\ \A p \in ChunkNumbers : Holds(t, p) => Holds(t, p)'

LEMMA Unseen ==
    ASSUME Running, Running', work' = work, abort' = abort
    PROVE  RunStep
BY DEF RunStep, Run!graphVars

LEMMA UnseenOutside ==
    ASSUME ~Running, pc'[0] = pc[0], abort' = abort, ec' = ec
    PROVE  WorkInv => Good
<1>1. ~Running'
  BY DEF Running
<1>2. UNCHANGED Run!graphVars
  BY <1>1 DEF Run!graphVars
<1>3. WorkInv => WorkInv'
  BY <1>1 DEF WorkInv
<1> QED
  BY <1>2, <1>3 DEF Good, RunStep

LEMMA InvKept ==
    ASSUME PoolInv, WorkInv, Running, Running',
           UNCHANGED <<n_graph, cgraph, current_chunk, work>>,
           abort' = abort \/ (NotPast' /\ \A u \in Team : ~Left(u)),
           \A u \in Team : SameView(u), CounterSet', Marked'
    PROVE  WorkInv'
<1>1. /\ NNodes' = NNodes /\ N' = N /\ Team' = Team /\ NodeNumbers' = NodeNumbers
      /\ ChunkNumbers' = ChunkNumbers /\ NChunks(N)' = NChunks(N)
      /\ \A k : Kind(k)' = Kind(k) /\ Parts(k, N)' = Parts(k, N)
  BY DEF NNodes, N, Team, NodeNumbers, ChunkNumbers, NChunks, Kind, Parts
<1>2. NodeNumbers \subseteq Nat /\ ChunkNumbers \subseteq Nat
  BY RunningTeam
<1>3. current_chunk' = current_chunk /\ work' = work
  OBVIOUS
<1>4. Team \subseteq Threads /\ \A u \in Team : Conv(u) => ~Left(u)
  BY RunningTeam, ConvNotLeft
<1>5. ASSUME NEW u \in Team, NEW k \in NodeNumbers
      PROVE  /\ Beyond(u, k)' <=> Beyond(u, k)
             /\ Busy(u, k)' <=> Busy(u, k)
             /\ Kind(k) = "rows" => (RowsDone(u, k)' <=> RowsDone(u, k))
  <2>1. (Beyond(u, k)' <=> Beyond(u, k)) /\ (Busy(u, k)' <=> Busy(u, k))
    BY <1>3, <1>4 DEF SameView, Beyond, Busy
  <2>2. ASSUME Kind(k) = "rows" PROVE RowsDone(u, k)' <=> RowsDone(u, k)
    <3>1. CASE Finished(u)' <=> Finished(u)
      <4>1. Finished(u) => ~Left(u)
        BY <1>4, FinishedThere
      <4> QED
        BY <2>1, <3>1, <4>1 DEF RowsDone, SameView
    <3>2. CASE Conv(u) /\ Product(u) /\ Node(u) = node[u]
      BY <1>4, <2>1, <2>2, <3>2 DEF RowsDone, SameView, Product
    <3> QED
      BY <3>1, <3>2 DEF SameView
  <2> QED
    BY <2>1, <2>2
<1>6. Counts'
  <2>1. Shaped'
    BY <1>1, <1>3 DEF WorkInv, Counts, Shaped
  <2>2. RowsCounted'
    BY <1>1, <1>3, <1>5 DEF WorkInv, Counts, RowsCounted
  <2>3. ChunksCounted'
    BY <1>1, <1>3, <1>5, <1>2 DEF WorkInv, Counts, ChunksCounted, SameView
  <2> QED
    BY <2>1, <2>2, <2>3 DEF Counts
<1>7. Chunked'
  <2>1. GivenOnce'
    BY <1>1, <1>3 DEF WorkInv, Chunked, GivenOnce, SameView
  <2>2. GivenOut'
    BY <1>1, <1>3 DEF WorkInv, Chunked, GivenOut, SameView
  <2> QED
    BY <2>1, <2>2 DEF Chunked
<1>8. NotPast'
  BY <1>1, <1>3 DEF WorkInv, NotPast, SameView
<1>9. Manned' /\ pc'[0] # "kick"
  BY <1>1 DEF WorkInv, Manned, Running, InGraph, InBarrier
<1> QED
  BY <1>6, <1>7, <1>8, <1>9 DEF WorkInv

LEMMA WorkKept ==
    ASSUME PoolInv, WorkInv, Running, Running', SameWork,
           \A u \in Team : SameView(u), CounterSet', Marked'
    PROVE  Good
<1>1. UNCHANGED <<n_graph, cgraph, current_chunk, work>> /\ abort' = abort
  BY DEF SameWork
<1> QED
  BY <1>1, InvKept, Unseen DEF Good

(* A step of one thread leaves the view of the others.                     *)
LEMMA OthersView ==
    ASSUME NEW t \in Threads, NEW u \in Threads, u # t, Only(t), SameGraph,
           chunk'[u] = chunk[u]
    PROVE  /\ Finished(u)' <=> Finished(u)
           /\ \A p : Holds(u, p)' <=> Holds(u, p)
           /\ SameView(u)
<1>1. /\ Current(u)' <=> Current(u)
      /\ Left(u)' <=> Left(u)
      /\ Released(u)' <=> Released(u)
      /\ Held(u)' <=> Held(u)
      /\ Node(u)' = Node(u)
      /\ Conv(u)' <=> Conv(u)
  BY Others
<1>2. pc'[u] = pc[u] /\ ret'[u] = ret[u]
  BY DEF Only
<1>3. Finished(u)' <=> Finished(u)
  BY <1>1, <1>2 DEF Finished
<1>4. \A p : Holds(u, p)' <=> Holds(u, p)
  BY <1>1, <1>2 DEF Holds
<1> QED
  BY <1>1, <1>3, <1>4 DEF SameView

LEMMA ViewStep ==
    ASSUME PoolInv, WorkInv, Running, Running', NEW t \in Threads, Only(t), SameGraph,
           SameWork, \A u \in Threads \ {t} : chunk'[u] = chunk[u],
           t \in Team => SameView(t),
           t = 0 => CounterSet' /\ Marked'
    PROVE  Good
<1>1. \A u \in Team : SameView(u)
  BY RunningTeam, OthersView
<1>2. t # 0 => CounterSet' /\ Marked'
  <2>1. SUFFICES ASSUME t # 0 PROVE CounterSet' /\ Marked'
    OBVIOUS
  <2>2. (Held(0)' <=> Held(0)) /\ pc'[0] = pc[0] /\ node'[0] = node[0] /\ ret'[0] = ret[0]
    BY <2>1, Others, RunningTeam DEF Only
  <2>3. current_chunk' = current_chunk /\ N' = N /\ abort' = abort /\ ec' = ec
    BY DEF SameWork, N
  <2> QED
    BY <2>2, <2>3 DEF WorkInv, Chunked, CounterSet, Marked
<1> QED
  BY <1>1, <1>2, WorkKept

-----------------------------------------------------------------------------
(* Workers, and the head of the node loop.                                 *)

(* What the workers do while no graph is computed.                         *)
LEMMA AsideRun ==
    ASSUME PoolInv, WorkInv, ~Running, NEW t \in Workers,
           Compute(t) \/ Between(t) \/ SpuriousWakeup(t)
    PROVE  Good
<1>1. t \in Threads /\ t # 0 /\ pc \in [Threads -> Labels] /\ 0 \in Threads
  BY Types DEF Workers, PoolInv, TypeOK
<1>2. (\E l : Goto(t, l)) => pc'[0] = pc[0]
  BY <1>1 DEF Goto
<1>3. pc'[0] = pc[0] /\ abort' = abort /\ ec' = ec
  <2>1. CASE Between(t)
    <3>1. UNCHANGED request /\ \E l : Goto(t, l)
      BY <2>1 DEF Between, TestPause, PauseSleep, TestStop, Poll, Sleep, shared
    <3> QED
      BY <1>2, <3>1 DEF request
  <2>2. CASE SpuriousWakeup(t)
    <3>1. UNCHANGED request /\ \E l : Goto(t, l)
      BY <2>2 DEF SpuriousWakeup, shared
    <3> QED
      BY <1>2, <3>1 DEF request
  <2>3. CASE Start(t) \/ NextNode(t) \/ LeaveLoop(t)
    BY <1>1, <1>2, <2>3 DEF Start, NextNode, LeaveLoop, shared, request
  <2>4. CASE Rows(t) \/ Convert(t) \/ Chunk(t) \/ FetchChunk(t) \/ NoMoreChunks(t)
    BY <1>2, <2>4 DEF Rows, Convert, Chunk, FetchChunk, NoMoreChunks, shared, request
  <2>5. CASE AfterNode(t)
    <3>1. abort' = abort /\ ec' = ec
      BY <1>1, <2>5 DEF AfterNode
    <3>2. \E l : Goto(t, l)
      BY <2>5 DEF AfterNode
    <3> QED
      BY <1>2, <3>1, <3>2
  <2>6. CASE EnterBarrier(t)
    <3>1. UNCHANGED request /\ \E l : Goto(t, l)
      BY <2>6 DEF EnterBarrier, LeaveBarrier, shared
    <3> QED
      BY <1>2, <3>1 DEF request
  <2>7. CASE Arrive(t) \/ ResetBarrier(t) \/ ReleaseBarrier(t)
    <3>1. UNCHANGED request /\ \E l : Goto(t, l)
      BY <2>7 DEF Arrive, ResetBarrier, ReleaseBarrier, LeaveBarrier
    <3> QED
      BY <1>2, <3>1 DEF request
  <2>8. CASE WaitBarrier(t)
    <3>1. UNCHANGED request /\ \E l : Goto(t, l)
      BY <2>8 DEF WaitBarrier, LeaveBarrier, shared
    <3> QED
      BY <1>2, <3>1 DEF request
  <2> QED
    BY <2>1, <2>2, <2>3, <2>4, <2>5, <2>6, <2>7, <2>8 DEF Compute
<1> QED
  BY <1>3, UnseenOutside

(* A worker outside the graph, or called into it.                          *)
LEMMA BetweenRun ==
    ASSUME PoolInv, WorkInv, Running, NEW t \in Workers, Between(t) \/ SpuriousWakeup(t)
    PROVE  Good
<1> DEFINE Out == {"pause", "pauselock", "paused", "stop", "ended", "poll", "sleep", "asleep"}
<1>1. /\ t \in Threads /\ t # 0 /\ 0 \in Threads
      /\ pc \in [Threads -> Labels] /\ last_graph \in [Threads -> NGraphs]
  BY Types DEF Workers, PoolInv, TypeOK
<1>2. /\ UNCHANGED <<shared, frame, data>>
      /\ pc[t] \in Out
      /\ \/ /\ UNCHANGED last_graph
            /\ \E l \in Out : Goto(t, l)
         \/ /\ Notice(t)
            /\ \E l \in Out \cup {"start"} : Goto(t, l) /\ (l = "start" <=> Called(t))
  <2>1. CASE TestPause(t) \/ PauseSleep(t) \/ TestStop(t)
    BY <2>1 DEF TestPause, PauseSleep, TestStop
  <2>2. CASE Poll(t)
    BY <2>2 DEF Poll
  <2>3. CASE Sleep(t)
    BY <2>3 DEF Sleep
  <2>4. CASE SpuriousWakeup(t)
    BY <1>1, <2>4 DEF SpuriousWakeup, Awake
  <2> QED
    BY <2>1, <2>2, <2>3, <2>4 DEF Between
<1>3. UNCHANGED <<nth, node, seen, ret, chunk, cgraph, n_graph, n_barrier_passed, abort, ec, current_chunk, work>>
  BY <1>2 DEF shared, barrier, request, frame, data
<1>4. SameGraph /\ SameWork
  BY <1>3 DEF SameGraph, SameWork
<1>5. PICK l \in Out \cup {"start"} :
           /\ Goto(t, l)
           /\ \/ UNCHANGED last_graph /\ l # "start"
              \/ Notice(t) /\ (l = "start" <=> Called(t))
  BY <1>2
<1>6. /\ pc'[t] = l /\ \A u \in Threads \ {t} : pc'[u] = pc[u]
      /\ \A u \in Threads \ {t} : last_graph'[u] = last_graph[u]
  BY <1>1, <1>5 DEF Goto, Notice
<1>7. Only(t) /\ Running'
  BY <1>1, <1>3, <1>6 DEF Only, Running
<1>8. /\ pc[t] \notin InGraph /\ pc[t] \notin {"start", "computed", "chunk", "fetch"} \cup InBarrier
      /\ l \notin {"computed", "chunk", "fetch"} \cup InBarrier
  BY <1>2 DEF InGraph, InBarrier
<1>9. /\ ~Conv(t) /\ ~Conv(t)' /\ ~Finished(t) /\ ~Finished(t)'
      /\ \A p : ~Holds(t, p) /\ ~Holds(t, p)'
      /\ ~Released(t) /\ ~Released(t)'
      /\ Left(t) <=> Current(t)
  BY <1>6, <1>8 DEF Conv, Finished, Holds, Released, Held, Left, InBarrier
<1>10. CASE l = "start"
  <2>1. Called(t) /\ last_graph'[t] = n_graph
    BY <1>1, <1>5, <1>10 DEF Notice, Called
  <2>2. ~Current(t)
    BY <1>1, <2>1 DEF Called, Current
  <2>3. ~Left(t)' /\ ~Left(t) /\ Node(t)' = 0 /\ Node(t) = 0
    BY <1>6, <1>9, <1>10, <2>2 DEF Left, Node, Straggler, InGraph
  <2>4. SameView(t)
    BY <1>9, <2>3 DEF SameView
  <2> QED
    BY <1>1, <1>3, <1>4, <1>7, <2>4, ViewStep
<1>11. CASE l # "start"
  <2>1. t \in Team => (Current(t)' <=> Current(t))
    <3>1. CASE UNCHANGED last_graph
      BY <1>3, <3>1 DEF Current
    <3>2. CASE Notice(t) /\ ~Called(t)
      BY <1>1, <1>3, <3>2, Types DEF Notice, Called, Current, Team, N, PoolInv
    <3> QED
      BY <1>5, <1>11, <3>1, <3>2
  <2>2. pc'[t] \notin InGraph
    BY <1>6, <1>11 DEF InGraph, InBarrier
  <2>3. t \in Team => (Left(t)' <=> Left(t)) /\ (Left(t) \/ Node(t)' = Node(t))
    BY <1>9, <2>1, <2>2 DEF Left, Node
  <2>4. t \in Team => SameView(t)
    BY <1>9, <2>3 DEF SameView
  <2> QED
    BY <1>1, <1>3, <1>4, <1>7, <2>4, ViewStep
<1> QED
  BY <1>10, <1>11

(* The head of the node loop, when the thread does not change node.        *)
LEMMA LoopRun ==
    ASSUME PoolInv, WorkInv, Running, NEW t \in Threads,
           \/ Start(t)
           \/ NextNode(t) /\ Kind(node[t]) # "skip"
           \/ LeaveLoop(t)
    PROVE  Good
<1>1. /\ pc[t] \in {"start", "node"} /\ pc[t] \in InGraph /\ ~Straggler(t)
      /\ UNCHANGED <<shared, last_graph, chunk, seen, data>>
  BY DEF Start, NextNode, LeaveLoop, InGraph, Straggler
<1>2. Current(t) /\ Local(t) /\ t \in Team /\ ~Left(t)
  BY <1>1, InGraphLocal
<1>3. UNCHANGED <<last_graph, chunk, seen, cgraph, n_graph, n_barrier_passed, abort, ec, current_chunk, work>>
  BY <1>1 DEF shared, barrier, request, data
<1>4. SameGraph /\ SameWork
  BY <1>3 DEF SameGraph, SameWork
<1>5. \A u \in Threads \ {t} : /\ pc'[u] = pc[u] /\ nth'[u] = nth[u]
                               /\ node'[u] = node[u] /\ ret'[u] = ret[u]
  BY SMTT(60) DEF Start, NextNode, LeaveLoop, Goto, PoolInv, TypeOK
<1>6. Only(t)
  BY <1>3, <1>5 DEF Only
<1>7. PICK l \in {"node", "rows", "convert", "enter"} :
          /\ pc'[t] = l
          /\ node'[t] = IF pc[t] = "start" THEN 0 ELSE node[t]
          /\ l = "enter" => ret'[t] = "exit"
          /\ pc[t] = "start" \/ l = "enter" \/ abort # node[t]
  BY DEF Start, NextNode, LeaveLoop, Goto, PoolInv, TypeOK
<1>8. /\ ~Straggler(t)' /\ ~Released(t) /\ ~Released(t)'
      /\ Current(t)' /\ ~Left(t)' /\ Node(t)' = Node(t)
      /\ ~Conv(t) /\ ~Conv(t)' /\ ~Finished(t) /\ ~Finished(t)'
      /\ \A p : ~Holds(t, p) /\ ~Holds(t, p)'
  <2>1. ~Straggler(t)' /\ ~Released(t) /\ ~Released(t)' /\ Current(t)' /\ pc'[t] \in InGraph
    BY <1>1, <1>2, <1>3, <1>7 DEF Straggler, Released, Current, InGraph, InBarrier
  <2>2. ~Left(t)' /\ Node(t)' = Node(t)
    BY <1>1, <1>2, <1>7, <2>1 DEF Left, Node
  <2> QED
    BY <1>1, <1>7, <2>1, <2>2 DEF Conv, Finished, Holds, Held, InBarrier
<1>9. SameView(t)
  BY <1>2, <1>8 DEF SameView
<1>10. Running'
  BY <1>5, <1>7, RunningTeam DEF Running, InGraph, InBarrier
<1>11. t = 0 => CounterSet' /\ Marked'
  <2>1. t = 0 => CounterSet'
    BY <1>7 DEF CounterSet, Held, InBarrier
  <2>2. t = 0 /\ pc'[t] # "enter" => abort = -1
    BY <1>1, <1>7 DEF WorkInv, Marked, InBarrier
  <2>3. t = 0 => Marked'
    BY <1>3, <1>7, <2>2 DEF WorkInv, Marked, InBarrier
  <2> QED
    BY <2>1, <2>3
<1> QED
  BY <1>3, <1>4, <1>6, <1>9, <1>10, <1>11, ViewStep

-----------------------------------------------------------------------------
(* The barrier, as one thread goes through it.                             *)

(* A step inside the barrier.                                              *)
LEMMA HeldRun ==
    ASSUME PoolInv, WorkInv, Running, NEW t \in Threads,
           \/ EnterBarrier(t) /\ N # 1
           \/ Arrive(t)
           \/ ResetBarrier(t)
    PROVE  Good
<1>1. /\ pc[t] \in {"enter", "arrive", "reset"} /\ pc[t] \in InGraph /\ ~Straggler(t)
      /\ UNCHANGED <<pooled, n_graph, n_barrier_passed, flags, request,
                     last_graph, nth, node, chunk, ret, data>>
      /\ \A u \in Threads \ {t} : pc'[u] = pc[u] /\ seen'[u] = seen[u]
  <2>1. CASE EnterBarrier(t) /\ N # 1
    BY <2>1 DEF EnterBarrier, N, Goto, PoolInv, TypeOK, InGraph, InBarrier, Straggler,
                shared, barrier
  <2>2. CASE Arrive(t) \/ ResetBarrier(t)
    BY <2>2 DEF Arrive, ResetBarrier, Goto, PoolInv, TypeOK, InGraph, InBarrier, Straggler, frame
  <2> QED
    BY <2>1, <2>2
<1>2. Current(t) /\ Local(t) /\ t \in Team /\ ~Left(t)
  BY <1>1, InGraphLocal
<1>3. /\ pc'[t] \in {"arrive", "wait", "reset", "release"}
      /\ pc'[t] = "wait" => seen'[t].passed = P
  <2>1. CASE EnterBarrier(t) /\ N # 1
    BY <2>1 DEF EnterBarrier, N, Goto, PoolInv, TypeOK
  <2>2. CASE Arrive(t)
    BY <1>2, <2>2 DEF Arrive, Local, Goto, PoolInv, TypeOK, frame
  <2>3. CASE ResetBarrier(t)
    BY <2>3 DEF ResetBarrier, Goto, PoolInv, TypeOK
  <2> QED
    BY <2>1, <2>2, <2>3
<1>4. UNCHANGED <<n_graph, n_barrier_passed, cgraph, abort, ec, current_chunk, work>>
  BY <1>1 DEF request, data
<1>5. SameGraph /\ SameWork /\ Only(t)
  BY <1>1, <1>4 DEF SameGraph, SameWork, Only
<1>6. /\ ~Released(t) /\ ~Released(t)' /\ ~Straggler(t)' /\ Held(t) /\ Held(t)' /\ Current(t)'
      /\ pc'[t] \in InGraph /\ P' = P /\ N' = N
  BY <1>1, <1>2, <1>3, <1>4, Types DEF Released, Straggler, Held, Current, InBarrier, InGraph, P, N, PoolInv
<1>7. Product(t)' <=> Product(t)
  BY <1>1, <1>4 DEF Product, Kind
<1>8. SameView(t)
  BY <1>1, <1>2, <1>3, <1>6, <1>7 DEF SameView, Left, Node, Conv, Finished, Holds, InBarrier
<1>9. Running'
  BY <1>1, <1>6, RunningTeam DEF Running
<1>10. t = 0 => CounterSet' /\ Marked'
  BY <1>1, <1>3, <1>4, <1>6 DEF WorkInv, Chunked, CounterSet, Marked, InBarrier
<1> QED
  BY <1>1, <1>5, <1>8, <1>9, <1>10, ViewStep

(* Thread 0 returns once all threads are through with all that is wanted.  *)
LEMMA ReturnRun ==
    ASSUME PoolInv, WorkInv, Running, pc'[0] = "done", ec' = ec,
           \A u \in Team : /\ ~Conv(u) /\ ~Finished(u)
                           /\ \A k \in NodeNumbers : Beyond(u, k) <=> (abort = -1 \/ k < abort)
    PROVE  Good
<1>1. ~Running' /\ WorkInv' /\ ~(pc[0] = "done")
  BY DEF Running, InGraph, InBarrier, WorkInv
<1>2. 0 \in Team /\ NodeNumbers \subseteq Nat /\ NNodes \in Nat
  BY RunningTeam
<1>3. ASSUME NEW k \in NodeNumbers, NEW p \in DOMAIN work[k]
      PROVE  work[k][p] = IF abort = -1 \/ k < abort THEN 1 ELSE 0
  <2>1. work[k] \in [Parts(k, N) -> {0, 1}]
    BY DEF WorkInv, Counts, Shaped
  <2>2. Kind(k) \in {"skip", "rows", "chunks"}
    BY <1>2, KindType DEF PoolInv, NodeNumbers
  <2>3. CASE Kind(k) = "skip"
    BY <1>3, <2>1, <2>3 DEF Parts
  <2>4. CASE Kind(k) = "rows"
    <3>1. p \in Team
      BY <1>3, <2>1, <2>4 DEF Parts, Team
    <3>2. work[k][p] = 1 <=> (abort = -1 \/ k < abort)
      BY <2>4, <3>1 DEF WorkInv, Counts, RowsCounted, RowsDone
    <3> QED
      BY <1>3, <2>1, <3>2
  <2>5. CASE Kind(k) = "chunks"
    <3>1. p \in ChunkNumbers
      BY <1>3, <2>1, <2>5 DEF Parts, ChunkNumbers
    <3>2. work[k][p] = 1 <=> (abort = -1 \/ k < abort)
      BY <1>2, <2>5, <3>1 DEF WorkInv, Counts, ChunksCounted, Busy
    <3> QED
      BY <1>3, <2>1, <3>2
  <2> QED
    BY <2>2, <2>3, <2>4, <2>5
<1>4. DOMAIN work = NodeNumbers /\ ec = IF abort = -1 THEN "success" ELSE "aborted"
  BY DEF WorkInv, Counts, Shaped, Marked
<1>5. Run!Return
  BY <1>1, <1>3, <1>4 DEF Run!Return, Run!Wanted, Run!Done, Run!Untouched
<1> QED
  BY <1>1, <1>5 DEF Good, RunStep, Run!Next

(* A thread at the last barrier has done what is wanted.                   *)
LEMMA AtExit ==
    ASSUME PoolInv, WorkInv, Running, NEW u \in Team, Held(u), Local(u), Current(u), ~Left(u),
           ret[u] = "exit"
    PROVE  /\ ~Conv(u) /\ ~Finished(u)
           /\ \A k \in NodeNumbers : Beyond(u, k) <=> (abort = -1 \/ k < abort)
<1>1. Node(u) = node[u] /\ ~Conv(u) /\ ~Finished(u)
  BY DEF Held, Node, Conv, Finished, InBarrier
<1>2. node[u] = NNodes \/ abort = node[u]
  BY DEF Held, Local
<1>3. \A j \in 0 .. node[u] - 1 : abort # j
  BY <1>1 DEF WorkInv, NotPast
<1>4. node[u] \in Nat /\ NNodes \in Nat /\ abort \in -1 .. NNodes
  BY RunningTeam
<1>5. (abort = -1 /\ node[u] = NNodes) \/ abort = node[u]
  BY <1>2, <1>3, <1>4
<1>6. \A k \in NodeNumbers : k \in Nat /\ k < NNodes
  BY <1>4 DEF NodeNumbers
<1> QED
  BY <1>1, <1>4, <1>5, <1>6 DEF Beyond

(* The thread that has been let go leaves.                                 *)
LEMMA WaitBarrierRun ==
    ASSUME PoolInv, WorkInv, Running, NEW t \in Threads, WaitBarrier(t)
    PROVE  Good
<1>1. /\ pc[t] = "wait" /\ Released(t) /\ pc[t] \in InGraph
      /\ LeaveBarrier(t) /\ UNCHANGED <<shared, last_graph, data>>
  BY DEF WaitBarrier, Released, P, InGraph, InBarrier
<1>2. UNCHANGED <<n_graph, n_barrier_passed, cgraph, abort, ec, current_chunk, work, last_graph>>
  BY <1>1 DEF shared, barrier, request, data
<1>3. SameGraph /\ SameWork /\ Only(t)
  BY <1>1, <1>2, Leaving DEF SameGraph, SameWork
<1>4. /\ P \in Nat /\ seen[t].passed \in Nat /\ ret[t] \in {"chunk", "next", "exit"}
      /\ t \in Nat /\ (Current(t)' <=> Current(t)) /\ NNodes \in Nat
  BY <1>1, <1>2, Types DEF PoolInv, TypeOK, Current
<1>5. /\ \A u \in Threads \ {t} : chunk'[u] = chunk[u]
      /\ ret[t] = "chunk" => chunk'[t] = t
  BY <1>1 DEF LeaveBarrier, PoolInv, TypeOK
<1>6. ~Held(t) /\ ~Finished(t)
  BY <1>1 DEF Held, Finished
<1>7. ret[t] = "exit" => Straggler(t)
  BY <1>1, <1>4 DEF Straggler, Released, PoolInv, Placed, Local
<1>8. CASE ret[t] = "exit" /\ t = 0
  <2>1. pc'[0] = "done" /\ ec' = ec
    BY <1>1, <1>2, <1>8, RunningTeam DEF LeaveBarrier, Goto, PoolInv, TypeOK
  <2>2. Left(0)
    BY <1>7, <1>8 DEF Left, Current
  <2>3. \A u \in Team : Left(u)
    BY <2>2, RunningTeam DEF PoolInv, LeftTogether
  <2>4. \A u \in Team : ~Conv(u) /\ ~Finished(u)
    BY <2>3, ConvNotLeft, FinishedThere, RunningTeam
  <2> QED
    BY <2>1, <2>3, <2>4, ReturnRun DEF Beyond
<1>9. CASE ret[t] = "exit" /\ t # 0
  <2>1. pc'[t] = "pause"
    BY <1>1, <1>9 DEF LeaveBarrier, Goto, PoolInv, TypeOK
  <2>2. Running'
    BY <1>3, <1>9, RunningTeam DEF Running, Only
  <2>3. /\ ~Conv(t) /\ ~Conv(t)' /\ ~Finished(t)'
        /\ \A p : ~Holds(t, p) /\ ~Holds(t, p)'
    BY <1>1, <1>9, <2>1 DEF Conv, Finished, Holds, Held, Released, InBarrier
  <2>4. t \in Team => (Left(t)' <=> Left(t)) /\ (Left(t) \/ Node(t)' = Node(t))
    BY <1>4, <1>7, <1>9, <2>1 DEF Left, Node, InGraph, InBarrier
  <2>5. t \in Team => SameView(t)
    BY <1>6, <2>3, <2>4 DEF SameView
  <2> QED
    BY <1>3, <1>5, <1>9, <2>2, <2>5, ViewStep
<1>10. CASE ret[t] # "exit"
  <2>1. Current(t) /\ Local(t) /\ t \in Team /\ ~Left(t) /\ Current(t)'
    BY <1>1, <1>4, <1>10, InGraphLocal DEF Straggler
  <2>2. /\ ret[t] = "chunk" => pc'[t] = "chunk" /\ node'[t] = node[t]
        /\ ret[t] = "next" => pc'[t] = "node" /\ node'[t] = node[t] + 1
    BY <1>1, <1>2, Leaving
  <2>3. SameView(t)
    <3>1. ~Left(t)' /\ ~Released(t)' /\ ~Held(t)' /\ ~Finished(t)' /\ Node(t)' = Node(t)
      BY <1>1, <1>4, <1>10, <2>1, <2>2
         DEF Left, Released, Held, Finished, Node, InGraph, InBarrier, Straggler
    <3>2. Conv(t)' <=> Conv(t)
      BY <1>1, <1>4, <1>10, <2>1, <2>2, <3>1 DEF Conv, Held, InBarrier
    <3>3. \A p : Holds(t, p)' <=> Holds(t, p)
      BY <1>1, <1>4, <1>5, <1>10, <2>1, <2>2, <3>1 DEF Holds
    <3> QED
      BY <1>6, <2>1, <3>1, <3>2, <3>3 DEF SameView
  <2>4. Running'
    BY <1>3, <1>4, <1>10, <2>2, RunningTeam DEF Running, Only, InGraph
  <2>5. t = 0 => CounterSet' /\ Marked'
    <3>1. CounterSet' \/ t # 0
      BY <1>4, <1>10, <2>2 DEF CounterSet, Held, InBarrier
    <3>2. t = 0 => Marked'
      BY <1>1, <1>2, <1>4, <1>10, <2>2 DEF WorkInv, Marked, InBarrier
    <3> QED
      BY <3>1, <3>2
  <2> QED
    BY <1>3, <1>5, <2>3, <2>4, <2>5, ViewStep
<1> QED
  BY <1>8, <1>9, <1>10

-----------------------------------------------------------------------------
(* The work inside a node.                                                 *)

(* What the steps inside a node leave alone.                               *)
LEMMA InsideFrame ==
    ASSUME PoolInv, WorkInv, Running, NEW t \in Threads,
           \/ Rows(t) \/ Convert(t) \/ Chunk(t) \/ FetchChunk(t) \/ NoMoreChunks(t)
    PROVE  /\ Inside(t) /\ Only(t) /\ SameGraph /\ UNCHANGED <<n_graph, abort, ec, cgraph>>
           /\ UNCHANGED <<last_graph, nth, node, seen>>
           /\ \A u \in Threads \ {t} : chunk'[u] = chunk[u]
           /\ pc'[t] \in InGraph /\ Running'
           /\ Current(t)' /\ ~Left(t)' /\ Node(t)' = node[t] /\ (Product(t)' <=> Product(t))
           /\ ~Released(t) /\ ~Released(t)'
           /\ pc[t] # "convert" => ret' = ret
<1>1. /\ Inside(t)
      /\ UNCHANGED <<pooled, n_graph, barrier, flags, cgraph, abort, ec>>
      /\ UNCHANGED <<last_graph, nth, node, seen>>
      /\ \A u \in Threads \ {t} : pc'[u] = pc[u] /\ ret'[u] = ret[u] /\ chunk'[u] = chunk[u]
      /\ pc'[t] \in {"computed", "chunk", "fetch", "enter"}
      /\ pc[t] # "convert" => ret' = ret
  <2>1. CASE Rows(t)
    BY <2>1 DEF Rows, Inside, Goto, PoolInv, TypeOK, shared, request, frame
  <2>2. CASE Convert(t)
    BY <2>2 DEF Convert, Inside, Goto, PoolInv, TypeOK
  <2>3. CASE Chunk(t)
    BY <2>3 DEF Chunk, Inside, Goto, PoolInv, TypeOK, shared, request
  <2>4. CASE FetchChunk(t)
    BY <2>4 DEF FetchChunk, Inside, Goto, PoolInv, TypeOK
  <2>5. CASE NoMoreChunks(t)
    BY <2>5 DEF NoMoreChunks, Inside, Goto, PoolInv, TypeOK, shared, request
  <2> QED
    BY <2>1, <2>2, <2>3, <2>4, <2>5
<1>2. Only(t) /\ SameGraph
  BY <1>1 DEF Only, SameGraph, barrier
<1>3. pc'[t] \in InGraph /\ Running'
  BY <1>1, RunningTeam DEF InGraph, InBarrier, Running
<1>4. Current(t)
  BY <1>1, AtWork
<1>5. Current(t)' /\ ~Released(t) /\ ~Released(t)' /\ ~Straggler(t)'
  BY <1>1, <1>4 DEF Current, Released, Inside, Straggler
<1>6. ~Left(t)' /\ Node(t)' = node[t] /\ (Product(t)' <=> Product(t))
  BY <1>1, <1>3, <1>5 DEF Left, Node, Product, Kind
<1> QED
  BY <1>1, <1>2, <1>3, <1>5, <1>6

(* No chunk is left.                                                       *)
LEMMA NoMoreChunksRun ==
    ASSUME PoolInv, WorkInv, Running, NEW t \in Threads, NoMoreChunks(t)
    PROVE  Good
<1>1. /\ Inside(t) /\ Only(t) /\ SameGraph /\ Running'
      /\ \A u \in Threads \ {t} : chunk'[u] = chunk[u]
      /\ Current(t)' /\ ~Left(t)' /\ Node(t)' = node[t] /\ (Product(t)' <=> Product(t))
      /\ ~Released(t) /\ ~Released(t)'
  BY InsideFrame
<1>2. Current(t) /\ Local(t) /\ t \in Team /\ ~Left(t) /\ Node(t) = node[t] /\ nth[t] = N
  BY <1>1, AtWork
<1>3. /\ pc[t] = "chunk" /\ chunk[t] >= NChunks(N) /\ pc'[t] = "computed"
      /\ UNCHANGED <<n_graph, abort, ec, cgraph, current_chunk, work>>
  BY <1>2 DEF NoMoreChunks, Goto, PoolInv, TypeOK, shared, request, data
<1>4. Product(t) /\ Conv(t) /\ Conv(t)' /\ SameWork
  BY <1>1, <1>2, <1>3 DEF Local, Conv, SameWork
<1>5. current_chunk >= NChunks(N)
  <2>1. chunk[t] < current_chunk
    BY <1>2, <1>3, RunningTeam DEF WorkInv, Chunked, GivenOnce, Holds
  <2> QED
    BY <1>2, <1>3, <2>1, RunningTeam
<1>6. /\ \A p : ~Holds(t, p)'
      /\ \A p \in ChunkNumbers : ~Holds(t, p)
  <2>1. \A p \in ChunkNumbers : p \in Nat /\ p < NChunks(N)
    BY RunningTeam DEF ChunkNumbers
  <2> QED
    BY <1>1, <1>2, <1>3, <2>1, RunningTeam DEF Holds
<1>7. SameView(t)
  BY <1>1, <1>2, <1>4, <1>5, <1>6 DEF SameView
<1>8. t = 0 => CounterSet' /\ Marked'
  BY <1>3 DEF CounterSet, Held, WorkInv, Marked, InBarrier
<1> QED
  BY <1>1, <1>4, <1>7, <1>8, ViewStep

(* A part of a node is computed, once the earlier nodes are.               *)
LEMMA PartDone ==
    ASSUME PoolInv, WorkInv, Running, Running', NEW t \in Threads, Inside(t),
           UNCHANGED <<n_graph, cgraph, abort>>,
           NEW p \in DOMAIN work[node[t]], work[node[t]][p] = 0, Done(t, p)
    PROVE  /\ RunStep /\ Shaped'
           /\ \A k \in NodeNumbers : \A q \in Parts(k, N) :
                  work'[k][q] = IF k = node[t] /\ q = p THEN 1 ELSE work[k][q]
<1> DEFINE n == node[t]
<1>1. n \in NodeNumbers /\ (abort = -1 \/ n < abort)
  BY AtWork
<1>2. DOMAIN work = NodeNumbers /\ \A k \in NodeNumbers : work[k] \in [Parts(k, N) -> {0, 1}]
  BY DEF WorkInv, Counts, Shaped
<1>3. work' = [work EXCEPT ![n][p] = 1]
  BY DEF Done
<1>4. Run!ComputePart(n, p)
  <2>1. \A j \in NodeNumbers : j < n => \A q \in DOMAIN work[j] : work[j][q] = 1
    BY EarlierDone
  <2> QED
    BY <1>1, <1>2, <1>3, <2>1 DEF Run!ComputePart, Run!Pending, Run!Wanted, Run!Done
<1>5. RunStep
  BY <1>1, <1>2, <1>4 DEF RunStep, Run!Next
<1>6. NodeNumbers' = NodeNumbers /\ \A k : Parts(k, N)' = Parts(k, N)
  BY DEF NodeNumbers, NNodes, Parts, N, Kind, NChunks
<1>7. \A k \in NodeNumbers : \A q \in Parts(k, N) :
          work'[k][q] = IF k = n /\ q = p THEN 1 ELSE work[k][q]
  BY <1>1, <1>2, <1>3
<1>8. DOMAIN work' = NodeNumbers /\ \A k \in NodeNumbers : work'[k] \in [Parts(k, N) -> {0, 1}]
  BY <1>1, <1>2, <1>3
<1>9. Shaped'
  BY <1>6, <1>8 DEF Shaped
<1> QED
  BY <1>5, <1>7, <1>9

LEMMA SameSizes ==
    ASSUME UNCHANGED <<n_graph, cgraph>>
    PROVE  /\ NNodes' = NNodes /\ N' = N /\ Team' = Team /\ NodeNumbers' = NodeNumbers
           /\ ChunkNumbers' = ChunkNumbers /\ NChunks(N)' = NChunks(N)
           /\ \A k : Kind(k)' = Kind(k) /\ Parts(k, N)' = Parts(k, N)
BY DEF NNodes, N, Team, NodeNumbers, ChunkNumbers, NChunks, Kind, Parts

(* What the other threads are doing, in a step inside a node.              *)
LEMMA OthersInside ==
    ASSUME PoolInv, WorkInv, Running, NEW t \in Threads,
           \/ Rows(t) \/ Convert(t) \/ Chunk(t) \/ FetchChunk(t) \/ NoMoreChunks(t),
           NEW u \in Team, u # t
    PROVE  /\ ~Left(u) /\ ~Left(u)' /\ Node(u)' = Node(u)
           /\ Conv(u)' <=> Conv(u)
           /\ Finished(u)' <=> Finished(u)
           /\ \A p : Holds(u, p)' <=> Holds(u, p)
           /\ \A k : /\ Beyond(u, k)' <=> Beyond(u, k)
                     /\ Busy(u, k)' <=> Busy(u, k)
                     /\ RowsDone(u, k)' <=> RowsDone(u, k)
<1>1. Inside(t) /\ Only(t) /\ SameGraph /\ chunk'[u] = chunk[u]
  BY InsideFrame, RunningTeam
<1>2. ~Left(u) /\ u \in Threads
  BY <1>1, AtWork, RunningTeam
<1>3. /\ ~Left(u)' /\ Node(u)' = Node(u) /\ (Conv(u)' <=> Conv(u))
      /\ Finished(u)' <=> Finished(u)
      /\ \A p : Holds(u, p)' <=> Holds(u, p)
  BY <1>1, <1>2, Others, OthersView
<1> QED
  BY <1>2, <1>3 DEF Beyond, Busy, RowsDone

(* What remains of the invariant, when nobody but the thread of the step   *)
(* can have changed it.                                                    *)
LEMMA InsideRest ==
    ASSUME PoolInv, WorkInv, Running, NEW t \in Threads,
           \/ Rows(t) \/ Convert(t) \/ Chunk(t) \/ FetchChunk(t) \/ NoMoreChunks(t)
    PROVE  NotPast' /\ Manned' /\ Marked' /\ pc'[0] # "kick"
<1>1. /\ Inside(t) /\ Only(t) /\ Running' /\ UNCHANGED <<n_graph, abort, ec, cgraph>>
      /\ ~Left(t)' /\ Node(t)' = node[t] /\ UNCHANGED node
  BY InsideFrame
<1>2. ~Left(t) /\ Node(t) = node[t] /\ t \in Team
  BY <1>1, AtWork
<1>3. Team' = Team
  BY <1>1, SameSizes
<1>4. NotPast'
  <2>1. \A u \in Team : ~Left(u)' /\ ~Left(u) /\ Node(u)' = Node(u)
    BY <1>1, <1>2, OthersInside
  <2> QED
    BY <1>1, <1>3, <2>1 DEF WorkInv, NotPast
<1>5. Manned' /\ pc'[0] # "kick"
  BY <1>1, <1>3 DEF WorkInv, Manned, Running, InGraph, InBarrier
<1>6. Marked'
  <2>1. CASE t = 0
    <3>1. abort = -1
      BY <1>1, <2>1 DEF WorkInv, Marked, Inside, InBarrier
    <3> QED
      BY <1>1, <3>1 DEF WorkInv, Marked
  <2>2. CASE t # 0
    <3>1. pc'[0] = pc[0] /\ node'[0] = node[0] /\ ret'[0] = ret[0]
      BY <1>1, <2>2, RunningTeam DEF Only
    <3> QED
      BY <1>1, <3>1 DEF WorkInv, Marked
  <2> QED
    BY <2>1, <2>2
<1> QED
  BY <1>4, <1>5, <1>6

(* The rows of a thread.                                                   *)
LEMMA RowsRun ==
    ASSUME PoolInv, WorkInv, Running, NEW t \in Threads, Rows(t)
    PROVE  Good
<1> DEFINE n == node[t]
<1>1. /\ Inside(t) /\ Only(t) /\ SameGraph /\ Running' /\ UNCHANGED <<n_graph, abort, ec, cgraph>>
      /\ Current(t)' /\ ~Left(t)' /\ Node(t)' = n /\ (Product(t)' <=> Product(t))
      /\ ~Released(t) /\ ~Released(t)'
  BY InsideFrame
<1>2. /\ Current(t) /\ Local(t) /\ t \in Team /\ ~Left(t) /\ Node(t) = n
      /\ n \in NodeNumbers
  BY <1>1, AtWork
<1>3. /\ pc[t] = "rows" /\ pc'[t] = "computed" /\ Done(t, t) /\ current_chunk' = current_chunk
      /\ Kind(n) = "rows"
  BY <1>2 DEF Rows, Goto, PoolInv, TypeOK, Local, shared, request
<1>4. /\ NNodes' = NNodes /\ N' = N /\ Team' = Team /\ NodeNumbers' = NodeNumbers
      /\ ChunkNumbers' = ChunkNumbers /\ NChunks(N)' = NChunks(N)
      /\ \A k : Kind(k)' = Kind(k) /\ Parts(k, N)' = Parts(k, N)
  BY <1>1, SameSizes
<1>5. NodeNumbers \subseteq Nat /\ n \in Nat
  BY <1>2, RunningTeam
<1>6. /\ ~Conv(t) /\ ~Conv(t)' /\ ~Finished(t) /\ Finished(t)'
      /\ \A p : ~Holds(t, p) /\ ~Holds(t, p)'
      /\ \A k : Beyond(t, k)' <=> Beyond(t, k)
      /\ \A k \in NodeNumbers : RowsDone(t, k)' <=> RowsDone(t, k) \/ k = n
      /\ ~RowsDone(t, n)
  <2>1. ~Conv(t) /\ ~Finished(t) /\ \A p : ~Holds(t, p) /\ ~Holds(t, p)'
    BY <1>1, <1>3 DEF Conv, Finished, Holds, Held, InBarrier
  <2>2. ~Conv(t)' /\ Finished(t)'
    BY <1>1, <1>3 DEF Conv, Finished, Held, InBarrier, Product
  <2>3. \A k : (Beyond(t, k)' <=> Beyond(t, k))
    BY <1>1, <1>2 DEF Beyond
  <2> QED
    BY <1>1, <1>2, <1>5, <2>1, <2>2, <2>3 DEF RowsDone, Beyond
<1>7. \A k \in NodeNumbers : Kind(k) = "rows" => Parts(k, N) = Team
  BY DEF Parts, Team
<1>8. work[n][t] = 0 /\ t \in DOMAIN work[n]
  BY <1>2, <1>3, <1>6, <1>7 DEF WorkInv, Counts, Shaped, RowsCounted
<1>9. /\ RunStep /\ Shaped'
      /\ \A k \in NodeNumbers : \A q \in Parts(k, N) :
             work'[k][q] = IF k = n /\ q = t THEN 1 ELSE work[k][q]
  BY <1>1, <1>3, <1>8, PartDone
<1>10. RowsCounted'
  <2>1. ASSUME NEW k \in NodeNumbers, Kind(k) = "rows", NEW p \in Team
        PROVE  (work'[k][p] = 1) <=> RowsDone(p, k)'
    <3>1. work'[k][p] = IF k = n /\ p = t THEN 1 ELSE work[k][p]
      BY <1>7, <1>9, <2>1
    <3>2. work[k][p] = 1 <=> RowsDone(p, k)
      BY <2>1 DEF WorkInv, Counts, RowsCounted
    <3>3. p # t => (RowsDone(p, k)' <=> RowsDone(p, k))
      BY <2>1, OthersInside
    <3> QED
      BY <1>6, <2>1, <3>1, <3>2, <3>3
  <2> QED
    BY <1>4, <2>1 DEF RowsCounted
<1>11. ChunksCounted'
  <2>1. ASSUME NEW k \in NodeNumbers, Kind(k) = "chunks", NEW p \in ChunkNumbers
        PROVE  work'[k][p] = work[k][p]
    <3>1. p \in Parts(k, N)
      BY <2>1 DEF Parts, ChunkNumbers
    <3> QED
      BY <1>3, <1>9, <2>1, <3>1
  <2>2. \A u \in Team, k \in NodeNumbers :
            /\ Busy(u, k)' <=> Busy(u, k)
            /\ Beyond(u, k)' <=> Beyond(u, k)
            /\ \A p : Holds(u, p)' <=> Holds(u, p)
    BY <1>6, OthersInside DEF Busy
  <2>3. ASSUME NEW k \in NodeNumbers, Kind(k) = "chunks", NEW p \in ChunkNumbers
        PROVE  (work'[k][p] = 1) <=>
                   IF \E u \in Team : Busy(u, k)'
                   THEN p < current_chunk' /\ \A u \in Team : ~Holds(u, p)'
                   ELSE \E u \in Team : Beyond(u, k)'
    BY <1>3, <2>1, <2>2, <2>3 DEF WorkInv, Counts, ChunksCounted
  <2> QED
    BY <1>4, <2>3 DEF ChunksCounted
<1>12. Chunked'
  <2>1. \A u \in Team : /\ Conv(u)' <=> Conv(u)
                        /\ Conv(u) => (Finished(u)' <=> Finished(u))
                        /\ \A p : Holds(u, p)' <=> Holds(u, p)
    BY <1>6, OthersInside
  <2>2. GivenOnce' /\ GivenOut'
    BY <1>3, <1>4, <2>1 DEF WorkInv, Chunked, GivenOnce, GivenOut
  <2>3. CounterSet'
    <3>1. CASE t = 0
      BY <1>3, <3>1 DEF CounterSet, Held, InBarrier
    <3>2. CASE t # 0
      <4>1. (Held(0)' <=> Held(0)) /\ ret'[0] = ret[0]
        BY <1>1, <3>2, Others, RunningTeam DEF Only
      <4> QED
        BY <1>3, <1>4, <4>1 DEF WorkInv, Chunked, CounterSet
    <3> QED
      BY <3>1, <3>2
  <2> QED
    BY <2>2, <2>3 DEF Chunked
<1> QED
  BY <1>9, <1>10, <1>11, <1>12, InsideRest DEF Good, WorkInv, Counts

(* A chunk of the product.                                                 *)
LEMMA ChunkRun ==
    ASSUME PoolInv, WorkInv, Running, NEW t \in Threads, Chunk(t)
    PROVE  Good
<1> DEFINE n == node[t]
           c == chunk[t]
<1>1. /\ Inside(t) /\ Only(t) /\ SameGraph /\ Running' /\ UNCHANGED <<n_graph, abort, ec, cgraph>>
      /\ Current(t)' /\ ~Left(t)' /\ Node(t)' = n /\ (Product(t)' <=> Product(t))
      /\ ~Released(t) /\ ~Released(t)' /\ UNCHANGED node
  BY InsideFrame
<1>2. /\ Current(t) /\ Local(t) /\ t \in Team /\ ~Left(t) /\ Node(t) = n
      /\ n \in NodeNumbers /\ nth[t] = N
  BY <1>1, AtWork
<1>3. /\ pc[t] = "chunk" /\ c < NChunks(N) /\ Done(t, c) /\ current_chunk' = current_chunk
      /\ pc'[t] = IF N >= NChunks(N) THEN "computed" ELSE "fetch"
      /\ Kind(n) = "chunks" /\ Product(t)
  BY <1>2 DEF Chunk, Goto, PoolInv, TypeOK, Local, Product, shared, request
<1>4. /\ NNodes' = NNodes /\ N' = N /\ Team' = Team /\ NodeNumbers' = NodeNumbers
      /\ ChunkNumbers' = ChunkNumbers /\ NChunks(N)' = NChunks(N)
      /\ \A k : Kind(k)' = Kind(k) /\ Parts(k, N)' = Parts(k, N)
  BY <1>1, SameSizes
<1>5. /\ NodeNumbers \subseteq Nat /\ n \in Nat /\ c \in Nat /\ c \in ChunkNumbers
      /\ N \in Nat /\ NChunks(N) \in Nat /\ current_chunk \in Nat /\ ChunkNumbers \subseteq Nat
  BY <1>2, <1>3, RunningTeam DEF ChunkNumbers
<1>6. /\ Conv(t) /\ Conv(t)' /\ Busy(t, n) /\ Busy(t, n)'
      /\ Finished(t)' => N >= NChunks(N)
      /\ \A p : (Holds(t, p) <=> p = c) /\ ~Holds(t, p)'
      /\ \A k : Beyond(t, k)' <=> Beyond(t, k)
      /\ \A k : k # n => (RowsDone(t, k)' <=> RowsDone(t, k)) /\ ~Busy(t, k) /\ ~Busy(t, k)'
  <2>1. Conv(t) /\ Conv(t)'
    BY <1>1, <1>2, <1>3 DEF Conv
  <2>2. Finished(t)' => N >= NChunks(N)
    BY <1>3 DEF Finished, Held, InBarrier
  <2>3. \A p : (Holds(t, p) <=> p = c) /\ ~Holds(t, p)'
    BY <1>1, <1>2, <1>3 DEF Holds
  <2>4. \A k : (Beyond(t, k)' <=> Beyond(t, k))
    BY <1>1, <1>2 DEF Beyond
  <2>5. Busy(t, n) /\ Busy(t, n)' /\ \A k : k # n => ~Busy(t, k) /\ ~Busy(t, k)'
    BY <1>1, <1>2, <2>1 DEF Busy
  <2>6. \A k : k # n => (RowsDone(t, k)' <=> RowsDone(t, k))
    BY <1>1, <1>2, <2>4 DEF RowsDone
  <2> QED
    BY <2>1, <2>2, <2>3, <2>4, <2>5, <2>6
<1>7. work[n][c] = 0 /\ c \in DOMAIN work[n]
  <2>1. work[n] \in [Parts(n, N) -> {0, 1}] /\ c \in Parts(n, N)
    BY <1>2, <1>3, <1>5 DEF WorkInv, Counts, Shaped, Parts, ChunkNumbers
  <2>2. work[n][c] # 1
    BY <1>2, <1>3, <1>5, <1>6 DEF WorkInv, Counts, ChunksCounted
  <2> QED
    BY <2>1, <2>2
<1>8. /\ RunStep /\ Shaped'
      /\ \A k \in NodeNumbers : \A q \in Parts(k, N) :
             work'[k][q] = IF k = n /\ q = c THEN 1 ELSE work[k][q]
  BY <1>1, <1>3, <1>7, PartDone
<1>9. RowsCounted'
  <2>1. ASSUME NEW k \in NodeNumbers, Kind(k) = "rows", NEW p \in Team
        PROVE  (work'[k][p] = 1) <=> RowsDone(p, k)'
    <3>1. k # n /\ p \in Parts(k, N)
      BY <1>3, <2>1 DEF Parts, Team
    <3>2. work'[k][p] = work[k][p]
      BY <1>8, <2>1, <3>1
    <3>3. work[k][p] = 1 <=> RowsDone(p, k)
      BY <2>1 DEF WorkInv, Counts, RowsCounted
    <3>4. RowsDone(p, k)' <=> RowsDone(p, k)
      BY <1>6, <2>1, <3>1, OthersInside
    <3> QED
      BY <3>2, <3>3, <3>4
  <2> QED
    BY <1>4, <2>1 DEF RowsCounted
<1>10. \A u \in Team : /\ Conv(u)' <=> Conv(u)
                       /\ \A p : Holds(u, p)' <=> Holds(u, p) /\ p # c
                       /\ \A k : Busy(u, k)' <=> Busy(u, k)
                       /\ \A k : Beyond(u, k)' <=> Beyond(u, k)
  <2>1. \A u \in Team \ {t} : ~Holds(u, c)
    BY <1>2, <1>5, <1>6 DEF WorkInv, Chunked, GivenOnce
  <2> QED
    BY <1>6, <2>1, OthersInside
<1>11. ChunksCounted'
  <2>1. ASSUME NEW k \in NodeNumbers, Kind(k) = "chunks", NEW p \in ChunkNumbers
        PROVE  (work'[k][p] = 1) <=>
                   IF \E u \in Team : Busy(u, k)'
                   THEN p < current_chunk' /\ \A u \in Team : ~Holds(u, p)'
                   ELSE \E u \in Team : Beyond(u, k)'
    <3>1. work'[k][p] = IF k = n /\ p = c THEN 1 ELSE work[k][p]
      <4>1. p \in Parts(k, N)
        BY <2>1 DEF Parts, ChunkNumbers
      <4> QED
        BY <1>8, <2>1, <4>1
    <3>2. work[k][p] = 1 <=>
             IF \E u \in Team : Busy(u, k)
             THEN p < current_chunk /\ \A u \in Team : ~Holds(u, p)
             ELSE \E u \in Team : Beyond(u, k)
      BY <2>1 DEF WorkInv, Counts, ChunksCounted
    <3>3. CASE k = n /\ p = c
      <4>1. c < current_chunk
        BY <1>2, <1>5, <1>6 DEF WorkInv, Chunked, GivenOnce
      <4> QED
        BY <1>2, <1>3, <1>6, <1>10, <3>1, <3>3, <4>1
    <3>4. CASE k = n /\ p # c
      BY <1>2, <1>3, <1>6, <1>10, <3>1, <3>2, <3>4
    <3>5. CASE k # n
      <4>1. \A u \in Team : ~Busy(u, k)
        BY <1>2, <1>6, <3>5, OneProduct DEF Busy
      <4> QED
        BY <1>10, <3>1, <3>2, <3>5, <4>1
    <3> QED
      BY <3>3, <3>4, <3>5
  <2> QED
    BY <1>4, <2>1 DEF ChunksCounted
<1>12. Chunked'
  <2>1. GivenOnce'
    BY <1>3, <1>4, <1>10 DEF WorkInv, Chunked, GivenOnce
  <2>2. GivenOut'
    <3>1. \A u \in Team \ {t} : Finished(u)' <=> Finished(u)
      BY OthersInside
    <3>2. current_chunk >= N
      BY <1>2, <1>6 DEF WorkInv, Chunked, GivenOut
    <3> QED
      BY <1>3, <1>4, <1>5, <1>6, <1>10, <3>1, <3>2 DEF WorkInv, Chunked, GivenOut
  <2>3. CounterSet'
    <3>1. CASE t = 0
      BY <1>3, <3>1 DEF CounterSet, Held, InBarrier
    <3>2. CASE t # 0
      <4>1. (Held(0)' <=> Held(0)) /\ ret'[0] = ret[0]
        BY <1>1, <3>2, Others, RunningTeam DEF Only
      <4> QED
        BY <1>3, <1>4, <4>1 DEF WorkInv, Chunked, CounterSet
    <3> QED
      BY <3>1, <3>2
  <2> QED
    BY <2>1, <2>2, <2>3 DEF Chunked
<1> QED
  BY <1>8, <1>9, <1>11, <1>12, InsideRest DEF Good, WorkInv, Counts

(* While a thread is past the barrier of a product, none is held there.    *)
LEMMA NoneHeldThere ==
    ASSUME PoolInv, NEW t \in Team, Conv(t), NEW u \in Team, Held(u), ret[u] = "chunk", Current(u)
    PROVE  FALSE
<1>1. t \in Threads /\ u \in Threads
  BY Types DEF PoolInv
<1>2. pc[u] \in InGraph /\ ~Straggler(u)
  BY DEF Held, InBarrier, InGraph, Straggler
<1>3. Local(u) /\ ~Left(u) /\ ~Left(t)
  BY <1>1, <1>2, InGraphLocal, ConvNotLeft
<1>4. Node(u) = node[u] /\ wdata[u] = node[u] /\ ~Conv(u)
  BY <1>3 DEF Held, Node, Local, Conv, InBarrier
<1>5. Node(t) = Node(u)
  BY <1>4 DEF PoolInv, Converted
<1> QED
  BY <1>3, <1>4, <1>5 DEF PoolInv, AllNear, Near

(* A chunk is given out.                                                   *)
LEMMA FetchRun ==
    ASSUME PoolInv, WorkInv, Running, NEW t \in Threads, FetchChunk(t)
    PROVE  Good
<1> DEFINE c == current_chunk
<1>1. /\ Inside(t) /\ Only(t) /\ SameGraph /\ Running' /\ UNCHANGED <<n_graph, abort, ec, cgraph>>
      /\ Current(t)' /\ ~Left(t)' /\ Node(t)' = node[t] /\ (Product(t)' <=> Product(t))
      /\ ~Released(t) /\ ~Released(t)'
  BY InsideFrame
<1>2. /\ Current(t) /\ Local(t) /\ t \in Team /\ ~Left(t) /\ Node(t) = node[t]
      /\ node[t] \in NodeNumbers
  BY <1>1, AtWork
<1>3. /\ pc[t] = "fetch" /\ pc'[t] = "chunk" /\ work' = work
      /\ current_chunk' = c + 1 /\ chunk'[t] = c
      /\ Product(t)
  BY <1>2 DEF FetchChunk, Goto, PoolInv, TypeOK, Local, data
<1>4. /\ NNodes' = NNodes /\ N' = N /\ Team' = Team /\ NodeNumbers' = NodeNumbers
      /\ ChunkNumbers' = ChunkNumbers /\ NChunks(N)' = NChunks(N)
      /\ \A k : Kind(k)' = Kind(k) /\ Parts(k, N)' = Parts(k, N)
  BY <1>1, SameSizes
<1>5. c \in Nat /\ N \in Nat /\ NChunks(N) \in Nat /\ ChunkNumbers \subseteq Nat /\ Team \subseteq Threads
  BY RunningTeam
<1>6. /\ Conv(t) /\ Conv(t)' /\ ~Finished(t) /\ ~Finished(t)'
      /\ \A p : ~Holds(t, p) /\ (Holds(t, p)' <=> p = c)
  <2>1. Conv(t) /\ Conv(t)'
    BY <1>1, <1>2, <1>3 DEF Conv
  <2>2. ~Finished(t) /\ ~Finished(t)'
    BY <1>3 DEF Finished, Held, InBarrier
  <2>3. \A p : ~Holds(t, p) /\ (Holds(t, p)' <=> p = c)
    BY <1>1, <1>2, <1>3 DEF Holds
  <2> QED
    BY <2>1, <2>2, <2>3
<1>7. \A k : /\ Beyond(t, k)' <=> Beyond(t, k)
             /\ Busy(t, k)' <=> Busy(t, k)
             /\ RowsDone(t, k)' <=> RowsDone(t, k)
  BY <1>1, <1>2, <1>6 DEF Beyond, Busy, RowsDone
<1>8. \A u \in Team : /\ Conv(u)' <=> Conv(u)
                      /\ Finished(u)' <=> Finished(u)
                      /\ \A p : Holds(u, p)' <=> Holds(u, p) \/ (u = t /\ p = c)
                      /\ \A k : /\ Beyond(u, k)' <=> Beyond(u, k)
                                /\ Busy(u, k)' <=> Busy(u, k)
                                /\ RowsDone(u, k)' <=> RowsDone(u, k)
  BY <1>6, <1>7, OthersInside
<1>9. Shaped' /\ RowsCounted'
  BY <1>3, <1>4, <1>8 DEF WorkInv, Counts, Shaped, RowsCounted
<1>10. ChunksCounted'
  <2>1. ASSUME NEW k \in NodeNumbers, Kind(k) = "chunks", NEW p \in ChunkNumbers
        PROVE  (work'[k][p] = 1) <=>
                   IF \E u \in Team : Busy(u, k)'
                   THEN p < current_chunk' /\ \A u \in Team : ~Holds(u, p)'
                   ELSE \E u \in Team : Beyond(u, k)'
    <3>1. work[k][p] = 1 <=>
             IF \E u \in Team : Busy(u, k)
             THEN p < c /\ \A u \in Team : ~Holds(u, p)
             ELSE \E u \in Team : Beyond(u, k)
      BY <2>1 DEF WorkInv, Counts, ChunksCounted
    <3>2. (p < c /\ \A u \in Team : ~Holds(u, p))
             <=> (p < c + 1 /\ \A u \in Team : ~Holds(u, p)')
      <4>1. p \in Nat
        BY <1>5
      <4> QED
        BY <1>2, <1>5, <1>8, <4>1
    <3> QED
      BY <1>3, <1>8, <3>1, <3>2
  <2> QED
    BY <1>4, <2>1 DEF ChunksCounted
<1>11. GivenOnce'
  <2>1. ASSUME NEW u \in Team, NEW p \in Nat, Holds(u, p)'
        PROVE  p < c + 1 /\ \A v \in Team \ {u} : ~Holds(v, p)'
    <3>1. \A v \in Team, q \in Nat : Holds(v, q) => q < c /\ \A w \in Team \ {v} : ~Holds(w, q)
      BY DEF WorkInv, Chunked, GivenOnce
    <3>2. CASE Holds(u, p)
      BY <1>5, <1>8, <2>1, <3>1, <3>2
    <3>3. CASE u = t /\ p = c
      BY <1>5, <1>8, <2>1, <3>1, <3>3
    <3> QED
      BY <1>8, <2>1, <3>2, <3>3
  <2> QED
    BY <1>3, <1>4, <2>1 DEF GivenOnce
<1>12. GivenOut'
  BY <1>3, <1>4, <1>5, <1>8 DEF WorkInv, Chunked, GivenOut
<1>13. CounterSet'
  <2>1. CASE t = 0
    BY <1>3, <2>1 DEF CounterSet, Held, InBarrier
  <2>2. CASE t # 0
    <3>1. (Held(0)' <=> Held(0)) /\ ret'[0] = ret[0]
      BY <1>1, <2>2, Others, RunningTeam DEF Only
    <3>2. ~(Held(0) /\ ret[0] = "chunk")
      BY <1>2, <1>6, NoneHeldThere, RunningTeam DEF Current
    <3> QED
      BY <3>1, <3>2 DEF CounterSet
  <2> QED
    BY <2>1, <2>2
<1>14. RunStep
  BY <1>1, <1>3, Unseen
<1> QED
  BY <1>9, <1>10, <1>11, <1>12, <1>13, <1>14, InsideRest DEF Good, WorkInv, Counts, Chunked

(* Converting: the counter is reset while nobody uses it.                  *)
LEMMA ConvertRun ==
    ASSUME PoolInv, WorkInv, Running, NEW t \in Threads, Convert(t)
    PROVE  Good
<1>1. /\ Inside(t) /\ Only(t) /\ SameGraph /\ Running' /\ UNCHANGED <<n_graph, abort, ec, cgraph>>
      /\ Current(t)' /\ ~Left(t)' /\ Node(t)' = node[t] /\ (Product(t)' <=> Product(t))
      /\ ~Released(t) /\ ~Released(t)'
  BY InsideFrame
<1>2. /\ Current(t) /\ Local(t) /\ t \in Team /\ ~Left(t) /\ Node(t) = node[t] /\ nth[t] = N
  BY <1>1, AtWork
<1>3. /\ pc[t] = "convert" /\ pc'[t] = "enter" /\ work' = work /\ ret'[t] = "chunk"
      /\ current_chunk' = IF t = 0 THEN N ELSE current_chunk
  BY <1>2 DEF Convert, Goto, PoolInv, TypeOK
<1>4. /\ NNodes' = NNodes /\ N' = N /\ Team' = Team /\ NodeNumbers' = NodeNumbers
      /\ ChunkNumbers' = ChunkNumbers /\ NChunks(N)' = NChunks(N)
      /\ \A k : Kind(k)' = Kind(k) /\ Parts(k, N)' = Parts(k, N)
  BY <1>1, SameSizes
<1>5. /\ ~Conv(t) /\ ~Conv(t)' /\ ~Finished(t) /\ ~Finished(t)'
      /\ \A p : ~Holds(t, p)'
  BY <1>1, <1>3 DEF Conv, Finished, Holds, Held, InBarrier
<1>6. \A k : /\ Beyond(t, k)' <=> Beyond(t, k)
             /\ RowsDone(t, k)' <=> RowsDone(t, k)
  BY <1>1, <1>2, <1>5 DEF Beyond, RowsDone
<1>7. \A u \in Team : ~Conv(u) /\ ~Conv(u)'
  BY <1>3, <1>5, BeforeProduct, OthersInside
<1>8. \A u \in Team : /\ \A p : ~Holds(u, p)'
                      /\ \A k : /\ Beyond(u, k)' <=> Beyond(u, k)
                                /\ ~Busy(u, k) /\ ~Busy(u, k)'
                                /\ RowsDone(u, k)' <=> RowsDone(u, k)
  <2>1. \A u \in Team : \A p : ~Holds(u, p)
    BY <1>7, HoldsConv
  <2>2. \A u \in Team : \A k : ~Busy(u, k) /\ ~Busy(u, k)'
    BY <1>7 DEF Busy
  <2> QED
    BY <1>5, <1>6, <2>1, <2>2, OthersInside
<1>9. Shaped' /\ RowsCounted'
  BY <1>3, <1>4, <1>8 DEF WorkInv, Counts, Shaped, RowsCounted
<1>10. ChunksCounted'
  BY <1>3, <1>4, <1>8 DEF WorkInv, Counts, ChunksCounted
<1>11. GivenOnce' /\ GivenOut'
  BY <1>4, <1>7, <1>8 DEF GivenOnce, GivenOut
<1>12. CounterSet'
  <2>1. CASE t = 0
    BY <1>3, <1>4, <2>1 DEF CounterSet
  <2>2. CASE t # 0
    <3>1. (Held(0)' <=> Held(0)) /\ ret'[0] = ret[0]
      BY <1>1, <2>2, Others, RunningTeam DEF Only
    <3> QED
      BY <1>3, <1>4, <2>2, <3>1 DEF WorkInv, Chunked, CounterSet
  <2> QED
    BY <2>1, <2>2
<1>13. RunStep
  BY <1>1, <1>3, Unseen
<1> QED
  BY <1>9, <1>10, <1>11, <1>12, <1>13, InsideRest DEF Good, WorkInv, Counts, Chunked

-----------------------------------------------------------------------------
(* On to the next node.                                                    *)

(* A thread goes on without meeting the others: from a node that is        *)
(* skipped, or from the last.                                              *)
LEMMA MoveOn ==
    ASSUME PoolInv, WorkInv, Running, NEW t \in Threads, Only(t), SameGraph, AbortKept(t),
           UNCHANGED <<n_graph, cgraph, current_chunk, work, last_graph, chunk>>,
           pc[t] \in {"node", "computed"}, pc'[t] = "node", node'[t] = node[t] + 1,
           node[t] < NNodes, abort' # node[t],
           \/ Kind(node[t]) = "skip" /\ pc[t] = "node"
           \/ node[t] = NNodes - 1 /\ pc[t] = "computed",
           Marked'
    PROVE  WorkInv'
<1>1. pc[t] \in InGraph /\ ~Straggler(t)
  BY DEF InGraph, Straggler
<1>2. Current(t) /\ Local(t) /\ t \in Team /\ ~Left(t)
  BY <1>1, InGraphLocal
<1>3. /\ node[t] \in Nat /\ NNodes \in Nat /\ NodeNumbers \subseteq Nat /\ node[t] \in NodeNumbers
      /\ Team \subseteq Threads /\ 0 \in Team
      /\ current_chunk \in Nat /\ NChunks(N) \in Nat /\ ChunkNumbers \subseteq Nat
  BY <1>2, RunningTeam DEF NodeNumbers
<1>4. /\ NNodes' = NNodes /\ N' = N /\ Team' = Team /\ NodeNumbers' = NodeNumbers
      /\ ChunkNumbers' = ChunkNumbers /\ NChunks(N)' = NChunks(N)
      /\ \A k : Kind(k)' = Kind(k) /\ Parts(k, N)' = Parts(k, N)
  BY SameSizes
<1>5. \A u \in Team : ~Left(u)
  BY <1>2 DEF PoolInv, LeftTogether
<1>6. Node(t) = node[t] /\ Node(t)' = node[t] + 1 /\ Current(t)' /\ ~Left(t)'
  BY <1>2 DEF Node, Current, Released, Left, Straggler, InGraph
<1>7. /\ ~Conv(t)' /\ ~Finished(t)'
      /\ \A p : ~Holds(t, p) /\ ~Holds(t, p)'
      /\ pc[t] = "computed" => Finished(t) /\ (Conv(t) <=> Product(t))
      /\ pc[t] = "node" => ~Finished(t) /\ ~Conv(t)
  BY <1>2 DEF Conv, Finished, Holds, Held, Released, InBarrier
<1>8. \A u \in Team \ {t} :
          /\ ~Left(u)' /\ Node(u)' = Node(u)
          /\ Conv(u)' <=> Conv(u)
          /\ Finished(u)' <=> Finished(u)
          /\ \A p : Holds(u, p)' <=> Holds(u, p)
          /\ \A k : /\ Beyond(u, k)' <=> Beyond(u, k)
                    /\ Busy(u, k)' <=> Busy(u, k)
                    /\ RowsDone(u, k)' <=> RowsDone(u, k)
  <2>1. \A u \in Team \ {t} :
            /\ ~Left(u)' /\ Node(u)' = Node(u)
            /\ Conv(u)' <=> Conv(u)
            /\ Finished(u)' <=> Finished(u)
            /\ \A p : Holds(u, p)' <=> Holds(u, p)
    BY <1>3, <1>5, Others, OthersView
  <2> QED
    BY <1>5, <2>1 DEF Beyond, Busy, RowsDone
<1>9. \A k \in NodeNumbers : /\ Beyond(t, k)' <=> (Beyond(t, k) \/ k = node[t])
                             /\ ~Busy(t, k)'
                             /\ k # node[t] => (RowsDone(t, k)' <=> RowsDone(t, k)) /\ ~Busy(t, k)
                             /\ k = node[t] => RowsDone(t, k)'
  <2>1. \A k \in NodeNumbers : Beyond(t, k)' <=> (Beyond(t, k) \/ k = node[t])
    BY <1>2, <1>3, <1>6 DEF Beyond
  <2> QED
    BY <1>6, <1>7, <2>1 DEF Busy, RowsDone
<1>10. Shaped'
  BY <1>4 DEF WorkInv, Counts, Shaped
<1>11. RowsCounted'
  <2>1. ASSUME NEW k \in NodeNumbers, Kind(k) = "rows", NEW p \in Team
        PROVE  RowsDone(p, k)' <=> RowsDone(p, k)
    <3>1. CASE p = t /\ k = node[t]
      <4>1. Finished(t) /\ Node(t) = k
        BY <1>6, <1>7, <2>1, <3>1
      <4> QED
        BY <1>9, <2>1, <3>1, <4>1 DEF RowsDone
    <3> QED
      BY <1>8, <1>9, <2>1, <3>1
  <2> QED
    BY <1>4, <2>1 DEF WorkInv, Counts, RowsCounted
<1>12. ChunksCounted'
  <2>1. ASSUME NEW k \in NodeNumbers, Kind(k) = "chunks", NEW p \in ChunkNumbers
        PROVE  (work[k][p] = 1) <=>
                   IF \E u \in Team : Busy(u, k)'
                   THEN p < current_chunk /\ \A u \in Team : ~Holds(u, p)'
                   ELSE \E u \in Team : Beyond(u, k)'
    <3>1. work[k][p] = 1 <=>
             IF \E u \in Team : Busy(u, k)
             THEN p < current_chunk /\ \A u \in Team : ~Holds(u, p)
             ELSE \E u \in Team : Beyond(u, k)
      BY <2>1 DEF WorkInv, Counts, ChunksCounted
    <3>2. \A u \in Team : Holds(u, p)' <=> Holds(u, p)
      BY <1>7, <1>8
    <3>3. CASE k # node[t]
      BY <1>8, <1>9, <2>1, <3>1, <3>2, <3>3
    <3>4. CASE k = node[t]
      <4>1. Finished(t) /\ Conv(t) /\ Busy(t, k) /\ Beyond(t, k)'
        BY <1>6, <1>7, <1>9, <2>1, <3>4 DEF Product, Busy
      <4>2. p < current_chunk
        <5>1. current_chunk >= NChunks(N)
          BY <1>2, <4>1 DEF WorkInv, Chunked, GivenOut
        <5>2. p < NChunks(N) /\ p \in Nat
          BY <1>3 DEF ChunkNumbers
        <5> QED
          BY <1>3, <5>1, <5>2
      <4>3. CASE \E u \in Team : Busy(u, k)'
        BY <1>2, <3>1, <3>2, <4>1, <4>3
      <4>4. CASE ~(\E u \in Team : Busy(u, k)')
        <5>1. ASSUME NEW u \in Team, Holds(u, p) PROVE FALSE
          <6>1. Conv(u) /\ u # t
            BY <1>7, <5>1, HoldsConv
          <6>2. Node(u) = k
            BY <1>2, <1>6, <3>4, <4>1, <6>1, OneProduct
          <6>3. Busy(u, k)
            BY <6>1, <6>2 DEF Busy
          <6> QED
            BY <1>8, <4>4, <6>1, <6>3
        <5> QED
          BY <1>2, <3>1, <4>1, <4>2, <4>4, <5>1
      <4> QED
        BY <4>3, <4>4
    <3> QED
      BY <3>3, <3>4
  <2> QED
    BY <1>4, <2>1 DEF ChunksCounted
<1>13. Chunked'
  <2>1. \A u \in Team : /\ Conv(u)' => Conv(u) /\ (Finished(u)' <=> Finished(u))
                        /\ \A p : Holds(u, p)' <=> Holds(u, p)
    BY <1>7, <1>8
  <2>2. GivenOnce' /\ GivenOut'
    BY <1>4, <2>1 DEF WorkInv, Chunked, GivenOnce, GivenOut
  <2>3. CounterSet'
    <3>1. CASE t = 0
      BY <3>1 DEF CounterSet, Held, InBarrier
    <3>2. CASE t # 0
      <4>1. (Held(0)' <=> Held(0)) /\ ret'[0] = ret[0]
        BY <3>2, Others, RunningTeam DEF Only
      <4> QED
        BY <1>4, <4>1 DEF WorkInv, Chunked, CounterSet
    <3> QED
      BY <3>1, <3>2
  <2> QED
    BY <2>2, <2>3 DEF Chunked
<1>14. NotPast'
  <2>1. ASSUME NEW u \in Team, NEW j \in 0 .. Node(u) - 1 PROVE abort' # j
    BY <1>5, <2>1 DEF WorkInv, NotPast, AbortKept
  <2>2. \A u \in Team \ {t} : \A j \in 0 .. Node(u)' - 1 : abort' # j
    BY <1>8, <2>1
  <2>3. \A j \in 0 .. Node(t)' - 1 : abort' # j
    BY <1>2, <1>3, <1>6, <2>1
  <2> QED
    BY <1>4, <2>2, <2>3 DEF NotPast
<1>15. Manned' /\ pc'[0] # "kick"
  <2>1. pc'[0] # "kick"
    BY <1>3 DEF Only, Running, InGraph, InBarrier
  <2> QED
    BY <1>3, <1>4, <2>1 DEF Manned
<1> QED
  BY <1>10, <1>11, <1>12, <1>13, <1>14, <1>15 DEF WorkInv, Counts

(* A node that is skipped.                                                 *)
LEMMA SkipRun ==
    ASSUME PoolInv, WorkInv, Running, NEW t \in Threads, NextNode(t), Kind(node[t]) = "skip"
    PROVE  Good
<1>1. /\ pc[t] = "node" /\ node[t] < NNodes /\ abort # node[t]
      /\ node' = [node EXCEPT ![t] = @ + 1] /\ pc' = pc
      /\ UNCHANGED <<shared, last_graph, nth, chunk, seen, ret, data>>
  BY DEF NextNode
<1>2. UNCHANGED <<n_graph, cgraph, n_barrier_passed, current_chunk, work, last_graph, chunk, abort, ec, ret>>
  BY <1>1 DEF shared, barrier, request, data
<1>3. node'[t] = node[t] + 1 /\ \A u \in Threads \ {t} : node'[u] = node[u]
  BY <1>1 DEF PoolInv, TypeOK
<1>4. Only(t) /\ SameGraph /\ AbortKept(t) /\ Running'
  BY <1>1, <1>2, <1>3 DEF Only, SameGraph, AbortKept, Running
<1>5. Marked'
  <2>1. CASE t = 0
    <3>1. abort = -1
      BY <1>1, <2>1 DEF WorkInv, Marked, InBarrier
    <3> QED
      BY <1>2, <3>1 DEF WorkInv, Marked
  <2>2. CASE t # 0
    BY <1>1, <1>2, <1>3, <2>2, RunningTeam DEF WorkInv, Marked
  <2> QED
    BY <2>1, <2>2
<1>6. WorkInv'
  BY <1>1, <1>2, <1>3, <1>4, <1>5, MoveOn
<1> QED
  BY <1>2, <1>4, <1>6, Unseen DEF Good

(* Aborting after a node: what comes before it is done, and nothing after  *)
(* it has been begun.                                                      *)
LEMMA AbortRun ==
    ASSUME PoolInv, WorkInv, Running, Running', Inside(0), abort = -1, abort' = node[0] + 1,
           work' = work
    PROVE  RunStep
<1>1. /\ 0 \in Threads /\ 0 \in Team /\ Team \subseteq Threads /\ NNodes \in Nat
      /\ NodeNumbers \subseteq Nat
  BY RunningTeam, Types DEF PoolInv
<1>2. node[0] \in NodeNumbers /\ node[0] < NNodes /\ Node(0) = node[0] /\ \A u \in Team : ~Left(u)
  BY <1>1, AtWork DEF NodeNumbers
<1>3. DOMAIN work = NodeNumbers /\ \A k \in NodeNumbers : work[k] \in [Parts(k, N) -> {0, 1}]
  BY DEF WorkInv, Counts, Shaped
<1>4. ASSUME NEW j \in NodeNumbers, j > node[0], NEW p \in DOMAIN work[j] PROVE work[j][p] = 0
  <2>1. ASSUME NEW u \in Team PROVE Node(u) < j
    <3>1. Node(0) < Node(u) => node[0] = NNodes - 1 /\ Node(u) = NNodes
      BY <1>1, <1>2, InsideNear
    <3>2. Node(u) \in 0 .. NNodes
      BY <1>1, <1>2, NodeBound
    <3>3. j \in Nat /\ j < NNodes /\ node[0] \in Nat
      BY <1>1, <1>2 DEF NodeNumbers
    <3> QED
      BY <1>1, <1>2, <1>4, <3>1, <3>2, <3>3
  <2>2. \A u \in Team : ~Beyond(u, j) /\ ~Busy(u, j) /\ ~RowsDone(u, j)
    <3>1. \A u \in Team : Node(u) \in 0 .. NNodes
      BY <1>1, <1>2, NodeBound
    <3> QED
      BY <1>1, <1>2, <2>1, <3>1 DEF Beyond, Busy, RowsDone
  <2>3. work[j] \in [Parts(j, N) -> {0, 1}] /\ Kind(j) \in {"skip", "rows", "chunks"}
    BY <1>1, <1>3, KindType DEF PoolInv, NodeNumbers
  <2>4. CASE Kind(j) = "skip"
    BY <1>4, <2>3, <2>4 DEF Parts
  <2>5. CASE Kind(j) = "rows"
    <3>1. p \in Team
      BY <1>4, <2>3, <2>5 DEF Parts, Team
    <3> QED
      BY <1>4, <2>2, <2>3, <2>5, <3>1 DEF WorkInv, Counts, RowsCounted
  <2>6. CASE Kind(j) = "chunks"
    <3>1. p \in ChunkNumbers
      BY <1>4, <2>3, <2>6 DEF Parts, ChunkNumbers
    <3> QED
      BY <1>4, <2>2, <2>3, <2>6, <3>1 DEF WorkInv, Counts, ChunksCounted
  <2> QED
    BY <2>3, <2>4, <2>5, <2>6
<1>5. \A j \in NodeNumbers : j < node[0] => \A p \in DOMAIN work[j] : work[j][p] = 1
  BY <1>1, EarlierDone
<1>6. Run!Abort(node[0])
  BY <1>3, <1>4, <1>5 DEF Run!Abort, Run!Done, Run!Untouched
<1> QED
  BY <1>2, <1>3, <1>6 DEF RunStep, Run!Next

(* After a node.                                                           *)
LEMMA AfterNodeRun ==
    ASSUME PoolInv, WorkInv, Running, NEW t \in Threads, AfterNode(t)
    PROVE  Good
<1>1. /\ pc[t] = "computed" /\ Inside(t)
      /\ \/ abort' = abort /\ ec' = ec
         \/ t = 0 /\ abort' = node[t] + 1 /\ ec' = "aborted"
      /\ UNCHANGED <<n_graph, n_barrier_passed, cgraph, current_chunk, last_graph, nth, chunk, seen, work>>
  BY DEF AfterNode, Inside, data, barrier
<1>2. /\ Current(t) /\ Local(t) /\ t \in Team /\ ~Left(t) /\ Node(t) = node[t]
      /\ node[t] \in NodeNumbers /\ \A u \in Team : ~Left(u)
  BY <1>1, AtWork
<1>3. \A u \in Threads \ {t} : pc'[u] = pc[u] /\ ret'[u] = ret[u] /\ node'[u] = node[u]
  BY SMTT(60) DEF AfterNode, Goto, PoolInv, TypeOK
<1>4. SameGraph /\ Only(t)
  BY <1>1, <1>3 DEF SameGraph, Only
<1>5. /\ node[t] \in Nat /\ NNodes \in Nat /\ node[t] < NNodes /\ abort # node[t]
      /\ 0 \in Team /\ Team \subseteq Threads /\ abort' # node[t]
  BY <1>1, <1>2, RunningTeam DEF Local, NodeNumbers
<1>6. AbortKept(t)
  <2>1. wdata' = wdata
    BY DEF AfterNode, data
  <2> QED
    BY <1>1, <1>4, <2>1, AbortAhead DEF AbortKept
<1>7. /\ node[t] + 1 < NNodes => pc'[t] = "enter" /\ ret'[t] = "next" /\ node'[t] = node[t]
      /\ ~(node[t] + 1 < NNodes) => pc'[t] = "node" /\ node'[t] = node[t] + 1
  BY SMTT(60) DEF AfterNode, Goto, PoolInv, TypeOK
<1>8. Running'
  BY <1>3, <1>5, <1>7 DEF Running, InGraph, InBarrier
<1>9. t = 0 => abort = -1
  BY <1>1 DEF WorkInv, Marked, InBarrier
<1>10. Marked'
  <2>1. CASE t = 0
    <3>1. pc'[0] = "node" \/ (pc'[0] \in InBarrier /\ ret'[0] = "next")
      BY <1>7, <2>1 DEF InBarrier
    <3>2. CASE abort' = abort /\ ec' = ec
      BY <1>9, <2>1, <3>2 DEF WorkInv, Marked
    <3>3. CASE abort' = node[t] + 1 /\ ec' = "aborted"
      <4>1. abort' # -1
        BY <1>5, <3>3
      <4> QED
        BY <1>7, <2>1, <3>3, <4>1 DEF Marked, InBarrier
    <3> QED
      BY <1>1, <3>2, <3>3
  <2>2. CASE t # 0
    BY <1>1, <1>3, <1>5, <2>2 DEF WorkInv, Marked
  <2> QED
    BY <2>1, <2>2
<1>11. RunStep
  BY <1>1, <1>8, <1>9, AbortRun, Unseen
<1>12. CASE node[t] + 1 < NNodes
  <2>1. /\ Current(t)' /\ ~Released(t) /\ ~Released(t)' /\ Held(t)' /\ ~Left(t)'
        /\ Product(t)' <=> Product(t)
    BY <1>1, <1>2, <1>7, <1>12
       DEF Current, Released, Held, Left, Straggler, InGraph, InBarrier, Product, Kind
  <2>2. Finished(t) /\ Finished(t)' /\ (Conv(t)' <=> Conv(t)) /\ Node(t)' = Node(t)
    BY <1>1, <1>2, <1>7, <1>12, <2>1 DEF Finished, Conv, Node, InBarrier, Held
  <2>3. \A p : ~Holds(t, p) /\ ~Holds(t, p)'
    BY <1>1, <1>7, <1>12, <2>1 DEF Holds
  <2>4. SameView(t)
    BY <1>2, <2>1, <2>2, <2>3 DEF SameView
  <2>5. \A u \in Team : SameView(u)
    BY <1>1, <1>4, <1>5, <2>4, OthersView
  <2>6. NotPast'
    <3>1. \A u \in Team : Node(u)' = Node(u)
      BY <1>2, <2>5 DEF SameView
    <3>2. ASSUME NEW u \in Team, NEW j \in 0 .. Node(u) - 1 PROVE abort' # j
      BY <1>2, <1>6, <3>2 DEF WorkInv, NotPast, AbortKept
    <3>3. Team' = Team
      BY <1>1, SameSizes
    <3> QED
      BY <3>1, <3>2, <3>3 DEF NotPast
  <2>7. CounterSet'
    <3>1. CASE t = 0
      BY <1>7, <1>12, <3>1 DEF CounterSet
    <3>2. CASE t # 0
      <4>1. (Held(0)' <=> Held(0)) /\ ret'[0] = ret[0] /\ N' = N
        BY <1>1, <1>3, <1>4, <1>5, <3>2, Others DEF N
      <4> QED
        BY <1>1, <4>1 DEF WorkInv, Chunked, CounterSet
    <3> QED
      BY <3>1, <3>2
  <2>8. WorkInv'
    BY <1>1, <1>2, <1>8, <1>10, <2>5, <2>6, <2>7, InvKept
  <2> QED
    BY <1>11, <2>8 DEF Good
<1>13. CASE ~(node[t] + 1 < NNodes)
  <2>1. node[t] = NNodes - 1
    BY <1>5, <1>13
  <2>2. WorkInv'
    BY <1>1, <1>4, <1>5, <1>6, <1>7, <1>10, <1>13, <2>1, MoveOn
  <2> QED
    BY <1>11, <2>2 DEF Good
<1> QED
  BY <1>12, <1>13

-----------------------------------------------------------------------------
(* The barrier, as it lets all threads go.                                 *)

(* All threads of the graph are in the same barrier, which one of them     *)
(* leaves and lets the others go.                                          *)
LetsGo(t) ==
    /\ LeaveBarrier(t)
    /\ UNCHANGED <<n_graph, cgraph, last_graph, abort, ec, current_chunk, work>>
    /\ \A u \in Team : /\ Held(u) /\ Local(u) /\ Current(u) /\ ~Left(u)
                       /\ node[u] = node[t] /\ ret[u] = ret[t]
                       /\ u # t => pc[u] = "wait" /\ seen[u].passed = P /\ P' = P + 1

LEMMA LetGo ==
    ASSUME PoolInv, WorkInv, Running, NEW t \in Team, LetsGo(t), NEW u \in Team
    PROVE  /\ Current(u)' /\ ~Held(u)' /\ ~Finished(u)'
           /\ ret[t] = "chunk" => ~Left(u)' /\ Conv(u)' /\ Node(u)' = node[t]
                                  /\ \A p : Holds(u, p)' <=> p = u
           /\ ret[t] # "chunk" => ~Conv(u)' /\ \A p : ~Holds(u, p)'
           /\ ret[t] = "next" => ~Left(u)' /\ Node(u)' = node[t] + 1
           /\ ret[t] = "exit" => Left(u)'
<1>1. /\ LeaveBarrier(t) /\ UNCHANGED <<n_graph, last_graph>>
      /\ Held(u) /\ Current(u) /\ node[u] = node[t] /\ ret[u] = ret[t]
      /\ u # t => pc[u] = "wait" /\ seen[u].passed = P /\ P' = P + 1
  BY DEF LetsGo
<1>2. /\ t \in Threads /\ u \in Threads /\ u \in Nat /\ P \in Nat /\ node[t] \in Nat
      /\ ret[t] \in {"chunk", "next", "exit"}
  BY RunningTeam, Types, SMTT(60) DEF PoolInv, TypeOK
<1>3. Only(t) /\ Current(u)'
  BY <1>1, <1>2, Leaving DEF Current
<1>4. CASE u = t
  <2>1. /\ ret[t] = "chunk" => pc'[t] = "chunk" /\ node'[t] = node[t] /\ chunk'[t] = t
        /\ ret[t] = "next" => pc'[t] = "node" /\ node'[t] = node[t] + 1
        /\ ret[t] = "exit" => pc'[t] \in {"done", "pause"}
    BY <1>1, <1>2 DEF LeaveBarrier, Goto, PoolInv, TypeOK
  <2>2. pc'[t] \in {"chunk", "node", "done", "pause"}
    BY <1>2, <2>1
  <2>3. ~Held(t)' /\ ~Finished(t)' /\ ~Released(t)' /\ ~Straggler(t)'
    BY <2>2 DEF Held, Finished, Released, Straggler, InBarrier
  <2>4. CASE ret[t] = "chunk"
    BY <1>3, <1>4, <2>1, <2>3, <2>4 DEF Left, Conv, Node, Holds, InGraph
  <2>5. CASE ret[t] = "next"
    BY <1>3, <1>4, <2>1, <2>3, <2>5 DEF Left, Conv, Node, Holds, InGraph
  <2>6. CASE ret[t] = "exit"
    BY <1>3, <1>4, <2>1, <2>3, <2>6 DEF Left, Conv, Holds, InGraph, InBarrier
  <2> QED
    BY <1>2, <2>4, <2>5, <2>6
<1>5. CASE u # t
  <2>1. /\ pc'[u] = "wait" /\ seen'[u].passed = P /\ P' = P + 1
        /\ node'[u] = node[t] /\ ret'[u] = ret[t]
    BY <1>1, <1>2, <1>3, <1>5 DEF Only
  <2>2. Released(u)' /\ ~Held(u)' /\ ~Finished(u)' /\ (Straggler(u)' <=> ret[t] = "exit")
    BY <1>2, <2>1 DEF Released, Held, Finished, Straggler
  <2>3. Left(u)' <=> ret[t] = "exit"
    BY <1>3, <2>1, <2>2 DEF Left, InGraph, InBarrier
  <2>4. (Conv(u)' <=> ret[t] = "chunk") /\ \A p : Holds(u, p)' <=> ret[t] = "chunk" /\ p = u
    BY <1>3, <2>1, <2>2 DEF Conv, Holds
  <2>5. Node(u)' = IF ret[t] = "next" THEN node[t] + 1 ELSE node[t]
    BY <1>3, <2>1, <2>2 DEF Node
  <2> QED
    BY <1>2, <1>3, <2>2, <2>3, <2>4, <2>5
<1> QED
  BY <1>4, <1>5

(* To the product: every thread starts on the chunk of its own number.     *)
LEMMA LetGoChunk ==
    ASSUME PoolInv, WorkInv, Running, Running', NEW t \in Team, LetsGo(t), ret[t] = "chunk"
    PROVE  Good
<1>1. \A u \in Team :
          /\ Held(u) /\ Local(u) /\ Current(u) /\ ~Left(u) /\ node[u] = node[t] /\ ret[u] = "chunk"
  BY DEF LetsGo
<1>2. UNCHANGED <<n_graph, cgraph, last_graph, abort, ec, current_chunk, work>>
  BY DEF LetsGo
<1>3. /\ NNodes' = NNodes /\ N' = N /\ Team' = Team /\ NodeNumbers' = NodeNumbers
      /\ ChunkNumbers' = ChunkNumbers /\ NChunks(N)' = NChunks(N)
      /\ \A k : Kind(k)' = Kind(k) /\ Parts(k, N)' = Parts(k, N)
  BY <1>2, SameSizes
<1>4. /\ 0 \in Team /\ N \in Nat \ {0} /\ Team = 0 .. N - 1 /\ NodeNumbers \subseteq Nat
      /\ node[t] \in Nat /\ ChunkNumbers \subseteq Nat
  BY RunningTeam DEF Team
<1>5. \A u \in Team : Node(u) = node[t] /\ ~Conv(u) /\ ~Finished(u)
  BY <1>1 DEF Held, Node, Conv, Finished, InBarrier
<1>6. \A u \in Team : /\ ~Held(u)' /\ ~Finished(u)' /\ ~Left(u)' /\ Conv(u)'
                      /\ Node(u)' = Node(u)
                      /\ \A p : Holds(u, p)' <=> p = u
  BY <1>5, LetGo
<1>7. current_chunk = N
  BY <1>1, <1>4 DEF WorkInv, Chunked, CounterSet
<1>8. \A u \in Team, k \in NodeNumbers :
          /\ Beyond(u, k) <=> k < node[t]
          /\ Beyond(u, k)' <=> k < node[t]
          /\ RowsDone(u, k)' <=> RowsDone(u, k)
          /\ ~Busy(u, k)
          /\ Busy(u, k)' <=> k = node[t]
  <2>1. \A u \in Team, k \in NodeNumbers :
            (Beyond(u, k) <=> k < node[t]) /\ (Beyond(u, k)' <=> k < node[t])
    BY <1>1, <1>5, <1>6 DEF Beyond
  <2>2. \A u \in Team, k \in NodeNumbers : RowsDone(u, k)' <=> RowsDone(u, k)
    BY <1>5, <1>6, <2>1 DEF RowsDone
  <2>3. \A u \in Team, k \in NodeNumbers : ~Busy(u, k) /\ (Busy(u, k)' <=> k = node[t])
    BY <1>5, <1>6 DEF Busy
  <2> QED
    BY <2>1, <2>2, <2>3
<1>9. Shaped' /\ RowsCounted'
  BY <1>2, <1>3, <1>8 DEF WorkInv, Counts, Shaped, RowsCounted
<1>10. ChunksCounted'
  <2>1. ASSUME NEW k \in NodeNumbers, Kind(k) = "chunks", NEW p \in ChunkNumbers
        PROVE  (work[k][p] = 1) <=>
                   IF \E u \in Team : Busy(u, k)'
                   THEN p < N /\ \A u \in Team : ~Holds(u, p)'
                   ELSE \E u \in Team : Beyond(u, k)'
    <3>1. work[k][p] = 1 <=> k < node[t]
      BY <1>4, <1>8, <2>1 DEF WorkInv, Counts, ChunksCounted
    <3>2. ~(p < N /\ \A u \in Team : ~Holds(u, p)')
      BY <1>4, <1>6
    <3> QED
      BY <1>4, <1>8, <3>1, <3>2
  <2> QED
    BY <1>2, <1>3, <1>7, <2>1 DEF ChunksCounted
<1>11. Chunked'
  <2>1. GivenOnce'
    BY <1>2, <1>3, <1>4, <1>6, <1>7 DEF GivenOnce
  <2>2. GivenOut' /\ CounterSet'
    BY <1>2, <1>3, <1>4, <1>6, <1>7 DEF GivenOut, CounterSet
  <2> QED
    BY <2>1, <2>2 DEF Chunked
<1>12. NotPast'
  BY <1>1, <1>2, <1>3, <1>6 DEF WorkInv, NotPast
<1>13. Marked'
  <2>1. abort = -1
    BY <1>1, <1>4 DEF WorkInv, Marked, Held, InBarrier
  <2> QED
    BY <1>2, <2>1 DEF WorkInv, Marked
<1>14. Manned' /\ pc'[0] # "kick"
  BY <1>3, <1>4 DEF Manned, Running, InGraph, InBarrier
<1>15. WorkInv'
  BY <1>9, <1>10, <1>11, <1>12, <1>13, <1>14 DEF WorkInv, Counts
<1> QED
  BY <1>2, <1>15, Unseen DEF Good

(* To the next node: every thread has finished this one.                   *)
LEMMA LetGoNext ==
    ASSUME PoolInv, WorkInv, Running, Running', NEW t \in Team, LetsGo(t), ret[t] = "next"
    PROVE  Good
<1>1. \A u \in Team :
          /\ Held(u) /\ Local(u) /\ Current(u) /\ ~Left(u) /\ node[u] = node[t] /\ ret[u] = "next"
  BY DEF LetsGo
<1>2. UNCHANGED <<n_graph, cgraph, last_graph, abort, ec, current_chunk, work>>
  BY DEF LetsGo
<1>3. /\ NNodes' = NNodes /\ N' = N /\ Team' = Team /\ NodeNumbers' = NodeNumbers
      /\ ChunkNumbers' = ChunkNumbers /\ NChunks(N)' = NChunks(N)
      /\ \A k : Kind(k)' = Kind(k) /\ Parts(k, N)' = Parts(k, N)
  BY <1>2, SameSizes
<1>4. /\ 0 \in Team /\ NodeNumbers \subseteq Nat /\ Team \subseteq Threads
      /\ node[t] \in Nat /\ ChunkNumbers \subseteq Nat
      /\ current_chunk \in Nat /\ NChunks(N) \in Nat
  BY RunningTeam
<1>5. \A u \in Team : /\ Node(u) = node[t] /\ Finished(u) /\ (Conv(u) <=> Product(u))
                      /\ \A p : ~Holds(u, p)
  BY <1>1 DEF Held, Node, Conv, Finished, Holds, InBarrier
<1>6. \A u \in Team : /\ ~Held(u)' /\ ~Finished(u)' /\ ~Left(u)' /\ ~Conv(u)'
                      /\ Node(u)' = node[t] + 1
                      /\ \A p : ~Holds(u, p)'
  BY LetGo
<1>7. \A u \in Team, k \in NodeNumbers :
          /\ Beyond(u, k) <=> k < node[t]
          /\ Beyond(u, k)' <=> k < node[t] + 1
          /\ ~Busy(u, k)'
          /\ Busy(u, k) <=> k = node[t] /\ Product(u)
  BY <1>1, <1>5, <1>6 DEF Beyond, Busy
<1>8. \A u \in Team, k \in NodeNumbers : RowsDone(u, k)' <=> RowsDone(u, k)
  BY <1>4, <1>5, <1>6, <1>7 DEF RowsDone
<1>9. Shaped' /\ RowsCounted'
  BY <1>2, <1>3, <1>8 DEF WorkInv, Counts, Shaped, RowsCounted
<1>10. ChunksCounted'
  <2>1. ASSUME NEW k \in NodeNumbers, Kind(k) = "chunks", NEW p \in ChunkNumbers
        PROVE  (work[k][p] = 1) <=> k < node[t] + 1
    <3>1. work[k][p] = 1 <=>
             IF \E u \in Team : Busy(u, k)
             THEN p < current_chunk /\ \A u \in Team : ~Holds(u, p)
             ELSE \E u \in Team : Beyond(u, k)
      BY <2>1 DEF WorkInv, Counts, ChunksCounted
    <3>2. CASE k = node[t]
      <4>1. Conv(t) /\ Finished(t) /\ Busy(t, k)
        BY <1>5, <1>7, <2>1, <3>2 DEF Product
      <4>2. current_chunk >= NChunks(N)
        BY <4>1 DEF WorkInv, Chunked, GivenOut
      <4>3. p < current_chunk
        BY <1>4, <4>2 DEF ChunkNumbers
      <4> QED
        BY <1>4, <1>5, <3>1, <3>2, <4>1, <4>3
    <3>3. CASE k # node[t]
      BY <1>4, <1>7, <3>1, <3>3
    <3> QED
      BY <3>2, <3>3
  <2> QED
    BY <1>2, <1>3, <1>4, <1>7, <2>1 DEF ChunksCounted
<1>11. Chunked'
  BY <1>3, <1>4, <1>6 DEF Chunked, GivenOnce, GivenOut, CounterSet
<1>12. NotPast'
  <2>1. \A j \in 0 .. node[t] - 1 : abort # j
    BY <1>1, <1>5 DEF WorkInv, NotPast
  <2>2. abort # node[t]
    BY <1>1 DEF Local, Held
  <2> QED
    BY <1>2, <1>3, <1>4, <1>6, <2>1, <2>2 DEF NotPast
<1>13. Marked'
  <2>1. abort # -1 => node[0] + 1 = abort
    BY <1>1, <1>4 DEF WorkInv, Marked, Held, InBarrier
  <2>2. CASE t = 0
    <3>1. pc'[0] = "node" /\ node'[0] = node[0] + 1
      BY <1>2, <1>4, <2>2, Leaving DEF LetsGo
    <3> QED
      BY <1>2, <2>1, <3>1 DEF WorkInv, Marked
  <2>3. CASE t # 0
    <3>1. Only(t) /\ 0 \in Threads
      BY <1>2, <1>4, Leaving DEF LetsGo
    <3>2. pc'[0] = pc[0] /\ ret'[0] = ret[0] /\ node'[0] = node[0]
      BY <2>3, <3>1 DEF Only
    <3> QED
      BY <1>2, <3>2 DEF WorkInv, Marked
  <2> QED
    BY <2>2, <2>3
<1>14. Manned' /\ pc'[0] # "kick"
  BY <1>3, <1>4 DEF Manned, Running, InGraph, InBarrier
<1>15. WorkInv'
  BY <1>9, <1>10, <1>11, <1>12, <1>13, <1>14 DEF WorkInv, Counts
<1> QED
  BY <1>2, <1>15, Unseen DEF Good

(* To the end of the graph.                                                *)
LEMMA LetGoExit ==
    ASSUME PoolInv, WorkInv, Running, NEW t \in Team, LetsGo(t), ret[t] = "exit"
    PROVE  Good
<1>1. \A u \in Team : Held(u) /\ Local(u) /\ Current(u) /\ ~Left(u) /\ ret[u] = "exit"
  BY DEF LetsGo
<1>2. UNCHANGED <<n_graph, cgraph, last_graph, abort, ec, current_chunk, work>>
  BY DEF LetsGo
<1>3. \A u \in Team : /\ ~Conv(u) /\ ~Finished(u)
                      /\ \A k \in NodeNumbers : Beyond(u, k) <=> (abort = -1 \/ k < abort)
  BY <1>1, AtExit
<1>4. 0 \in Team /\ Team \subseteq Threads
  BY RunningTeam
<1>5. CASE t = 0
  <2>1. pc'[0] = "done"
    BY <1>4, <1>5 DEF LetsGo, LeaveBarrier, Goto, PoolInv, TypeOK
  <2> QED
    BY <1>2, <1>3, <2>1, ReturnRun
<1>6. CASE t # 0
  <2>1. Only(t)
    BY <1>2, <1>4, Leaving DEF LetsGo
  <2>2. pc'[0] = pc[0] /\ ret'[0] = ret[0] /\ node'[0] = node[0] /\ Running'
    BY <1>4, <1>6, <2>1 DEF Only, Running
  <2>3. /\ NNodes' = NNodes /\ N' = N /\ Team' = Team /\ NodeNumbers' = NodeNumbers
        /\ ChunkNumbers' = ChunkNumbers /\ NChunks(N)' = NChunks(N)
        /\ \A k : Kind(k)' = Kind(k) /\ Parts(k, N)' = Parts(k, N)
    BY <1>2, SameSizes
  <2>4. \A u \in Team : /\ ~Held(u)' /\ ~Finished(u)' /\ Left(u)' /\ ~Conv(u)'
                        /\ \A p : ~Holds(u, p)'
    BY LetGo
  <2>5. \A u \in Team, k \in NodeNumbers :
            /\ Beyond(u, k)' <=> Beyond(u, k)
            /\ RowsDone(u, k)' <=> RowsDone(u, k)
            /\ ~Busy(u, k) /\ ~Busy(u, k)'
    BY <1>2, <1>3, <2>4 DEF Beyond, RowsDone, Busy
  <2>6. Counts'
    BY <1>2, <2>3, <2>5 DEF WorkInv, Counts, Shaped, RowsCounted, ChunksCounted
  <2>7. Chunked' /\ NotPast'
    BY <1>4, <2>3, <2>4 DEF Chunked, GivenOnce, GivenOut, CounterSet, NotPast
  <2>8. Marked'
    BY <1>2, <2>2 DEF WorkInv, Marked
  <2>9. Manned' /\ pc'[0] # "kick"
    BY <1>4, <2>2, <2>3 DEF Manned, Running, InGraph, InBarrier
  <2>10. WorkInv'
    BY <2>6, <2>7, <2>8, <2>9 DEF WorkInv
  <2> QED
    BY <1>2, <2>2, <2>10, Unseen DEF Good
<1> QED
  BY <1>5, <1>6

(* Letting go, and the barrier of a thread that is alone in its graph.     *)
LEMMA ReleaseRun ==
    ASSUME PoolInv, WorkInv, Running, NEW t \in Threads,
           ReleaseBarrier(t) \/ (EnterBarrier(t) /\ N = 1)
    PROVE  Good
<1>1. t \in Team /\ LetsGo(t)
  <2>1. CASE ReleaseBarrier(t)
    <3>1. /\ pc[t] = "release" /\ P' = P + 1 /\ LeaveBarrier(t)
          /\ UNCHANGED <<n_graph, cgraph, last_graph, abort, ec, current_chunk, work>>
      BY <2>1 DEF ReleaseBarrier, P, request, data
    <3> QED
      BY <3>1, SameBarrier DEF LetsGo
  <2>2. CASE EnterBarrier(t) /\ N = 1
    <3>1. /\ pc[t] = "enter" /\ LeaveBarrier(t)
          /\ UNCHANGED <<n_graph, cgraph, last_graph, abort, ec, current_chunk, work>>
      BY <2>2 DEF EnterBarrier, N, shared, request, data
    <3>2. pc[t] \in InGraph /\ ~Straggler(t) /\ Held(t)
      BY <3>1 DEF InGraph, InBarrier, Straggler, Held, Released
    <3>3. Current(t) /\ Local(t) /\ t \in Team /\ ~Left(t)
      BY <3>2, InGraphLocal
    <3>4. Team = {t}
      BY <2>2, <3>3 DEF Team
    <3> QED
      BY <3>1, <3>2, <3>3, <3>4 DEF LetsGo
  <2> QED
    BY <2>1, <2>2
<1>2. UNCHANGED <<n_graph, last_graph>> /\ ret[t] \in {"chunk", "next", "exit"} /\ 0 \in Threads
  BY <1>1, Types DEF LetsGo, PoolInv, TypeOK
<1>3. ret[t] # "exit" => Running'
  <2>1. /\ Only(t)
        /\ ret[t] = "chunk" => pc'[t] = "chunk"
        /\ ret[t] = "next" => pc'[t] = "node"
    BY <1>1, <1>2, Leaving DEF LetsGo
  <2> QED
    BY <1>2, <2>1 DEF Only, Running, InGraph
<1> QED
  BY <1>1, <1>2, <1>3, LetGoChunk, LetGoNext, LetGoExit

-----------------------------------------------------------------------------
(* The caller.                                                             *)

(* What the caller does of itself, between graphs or to begin one.         *)
LEMMA CallerRun ==
    ASSUME PoolInv, WorkInv, Manage \/ Call \/ Serve
    PROVE  Good
<1>1. pc \in [Threads -> Labels] /\ 0 \in Threads
  BY Types DEF PoolInv, TypeOK
<1>2. CASE Kickoff
  <2>1. /\ pc[0] = "kick" /\ pc'[0] = "start"
        /\ n_graph' = [graph |-> n_graph.graph + 1, threads |-> nth[0]]
        /\ work' = [k \in 0 .. NNodes - 1 |-> [p \in Parts(k, nth[0]) |-> 0]]
        /\ UNCHANGED <<cgraph, current_chunk, abort, ec, last_graph, n_barrier_passed>>
    <3>1. Awake(pc) \in [Threads -> Labels]
      BY Awoken DEF PoolInv
    <3> QED
      BY <1>1, <1>2, <3>1 DEF Kickoff, request, barrier
  <2>2. ~Running /\ Running' /\ abort = -1 /\ ec = "success"
    BY <2>1 DEF WorkInv, Running, InGraph, InBarrier
  <2>3. nth[0] \in Nat \ {0} /\ nth[0] <= MaxThreads /\ MaxThreads \in Nat /\ NNodes \in Nat
    BY <2>1, Types, SMTT(60) DEF PoolInv, TypeOK, Numbered
  <2>4. N' = nth[0] /\ 0 \in Team' /\ NNodes' = NNodes /\ \A k : Parts(k, N)' = Parts(k, nth[0])
    BY <2>1, <2>3 DEF N, Team, NNodes, Parts, Kind, NChunks
  <2>5. PoolInv'
    BY <1>2, KickoffInv
  <2>6. \A t \in Threads : t # 0 => ~Current(t)'
    <3>1. \A t \in Threads : last_graph[t].graph \in Nat /\ last_graph[t].graph <= n_graph.graph
      BY DEF PoolInv, Numbered, TypeOK, NGraphs
    <3>2. n_graph.graph \in Nat /\ n_graph'.graph = n_graph.graph + 1
      BY <2>1, Types DEF PoolInv, TypeOK, NGraphs
    <3> QED
      BY <2>1, <3>1, <3>2 DEF Current
  <2>7. \A t \in Team' : /\ ~Left(t)' /\ Node(t)' = 0 /\ ~Conv(t)' /\ ~Finished(t)'
                         /\ \A p : ~Holds(t, p)'
    <3>1. Team' \subseteq Threads
      BY <2>3, <2>4 DEF Team, Threads
    <3>2. /\ ~Left(0)' /\ Node(0)' = 0 /\ ~Conv(0)' /\ ~Finished(0)' /\ \A p : ~Holds(0, p)'
      BY <2>1 DEF Left, Node, Conv, Finished, Holds, Held, Released, Straggler, InGraph, InBarrier
    <3> QED
      BY <2>6, <3>1, <3>2 DEF Left, Node, Conv, Finished, Holds
  <2>8. \A t \in Team', k \in NodeNumbers' : ~Beyond(t, k)' /\ ~Busy(t, k)' /\ ~RowsDone(t, k)'
    BY <2>7 DEF Beyond, Busy, RowsDone, NodeNumbers
  <2>9. Shaped' /\ \A k \in NodeNumbers' : \A p \in Parts(k, N)' : work'[k][p] = 0
    BY <2>1, <2>4 DEF Shaped, NodeNumbers
  <2>10. Counts'
    <3>1. RowsCounted'
      BY <2>8, <2>9 DEF RowsCounted, Parts, Team
    <3>2. ChunksCounted'
      BY <2>8, <2>9 DEF ChunksCounted, Parts, ChunkNumbers
    <3> QED
      BY <2>9, <3>1, <3>2 DEF Counts
  <2>11. Chunked' /\ NotPast'
    BY <2>1, <2>7 DEF Chunked, GivenOnce, GivenOut, CounterSet, NotPast, Held, InBarrier
  <2>12. Manned' /\ Marked'
    BY <2>1, <2>2, <2>4 DEF Manned, Marked
  <2>13. Run!Begin
    BY <2>1, <2>2 DEF Run!Begin
  <2> QED
    BY <2>1, <2>10, <2>11, <2>12, <2>13 DEF Good, WorkInv, RunStep, Run!Next
<1>3. CASE GraphDone
  <2>1. pc[0] = "done" /\ pc'[0] \in {"free", "idle"} /\ ec \in {"success", "aborted"}
    BY <1>1, <1>3 DEF GraphDone, Goto, PoolInv, TypeOK
  <2>2. ~Running /\ ~Running'
    BY <2>1 DEF Running, InGraph, InBarrier
  <2>3. Run!Collect
    BY <2>1, <2>2 DEF Run!Collect
  <2> QED
    BY <2>1, <2>2, <2>3 DEF Good, RunStep, Run!Next, WorkInv
<1>4. CASE ~Kickoff /\ ~GraphDone
  <2>1. /\ pc[0] \in {"idle", "free", "join"} /\ pc'[0] \in {"idle", "kick", "free", "join"}
        /\ pc'[0] = "kick" => abort' = -1 /\ ec' = "success"
    <3>1. \A u \in {0} : Awake(pc)[u] \in {pc[u], "pause", "sleep"}
                         /\ (pc[u] \notin {"paused", "asleep"} => Awake(pc)[u] = pc[u])
      BY <1>1 DEF Awake
    <3>2. CASE KeepPool
      BY <1>1, <3>2 DEF KeepPool, NewPool
    <3>3. CASE PausePool \/ ResumePool
      BY <1>1, <3>1, <3>3 DEF PausePool, ResumePool
    <3>4. CASE DropPool
      BY <1>1, <3>4 DEF DropPool, Goto
    <3>5. CASE Call
      BY <1>1, <3>5 DEF Call, ComputeDisposable, ComputeKept, NewPool, Goto
    <3>6. CASE StopPool
      <4>1. Awake(pc) \in [Threads -> Labels]
        BY Awoken DEF PoolInv
      <4> QED
        BY <1>1, <3>6, <4>1 DEF StopPool
    <3>7. CASE FreePool
      BY <1>1, <3>7 DEF FreePool
    <3> QED
      BY <1>4, <3>2, <3>3, <3>4, <3>5, <3>6, <3>7 DEF Manage, Serve
  <2>2. ~Running /\ ~Running' /\ pc[0] # "done" /\ pc'[0] # "done"
    BY <2>1 DEF Running, InGraph, InBarrier
  <2>3. WorkInv' /\ UNCHANGED Run!graphVars
    BY <2>1, <2>2 DEF WorkInv, Run!graphVars
  <2> QED
    BY <2>3 DEF Good, RunStep
<1> QED
  BY <1>2, <1>3, <1>4

LEMMA StutterRun ==
    ASSUME PoolInv, WorkInv, UNCHANGED vars
    PROVE  Good
<1>1. /\ UNCHANGED <<pool, n_threads, cgraph, n_graph, n_barrier, n_barrier_passed, current_chunk>>
      /\ UNCHANGED <<stop, pause, abort, ec, pc, last_graph, nth, node, chunk, seen, ret, work>>
  BY DEF vars, shared, pooled, barrier, flags, request, frame, data
<1>2. Running' <=> Running
  BY <1>1 DEF Running
<1>3. CASE ~Running
  BY <1>1, <1>3, UnseenOutside
<1>4. CASE Running
  <2>1. SameWork
    BY <1>1 DEF SameWork
  <2>2. \A t : /\ Current(t)' <=> Current(t)
               /\ Straggler(t)' <=> Straggler(t)
               /\ Released(t)' <=> Released(t)
               /\ Product(t)' <=> Product(t)
    BY <1>1 DEF Current, Straggler, Released, Product, Kind, P, N, Team
  <2>3. \A t : (Left(t)' <=> Left(t)) /\ (Held(t)' <=> Held(t)) /\ Node(t)' = Node(t)
    BY <1>1, <2>2 DEF Left, Held, Node
  <2>4. \A t : /\ Conv(t)' <=> Conv(t)
               /\ Finished(t)' <=> Finished(t)
               /\ \A p : Holds(t, p)' <=> Holds(t, p)
    BY <1>1, <2>2, <2>3 DEF Conv, Finished, Holds
  <2>5. \A t \in Team : SameView(t)
    BY <1>1, <2>3, <2>4 DEF SameView
  <2>6. CounterSet' /\ Marked'
    BY <1>1, <1>4, <2>3 DEF WorkInv, Chunked, CounterSet, Marked, N
  <2> QED
    BY <1>2, <1>4, <2>1, <2>5, <2>6, WorkKept
<1> QED
  BY <1>3, <1>4

LEMMA InitWork ==
    ASSUME Init
    PROVE  WorkInv /\ Run!Init
<1>1. pc[0] = "idle"
  BY ThreadPoolAssumption DEF Init, Threads
<1> QED
  BY <1>1 DEF WorkInv, Run!Init, Running, InGraph, InBarrier

(* A step of a thread in the graph.                                        *)
LEMMA ComputeRun ==
    ASSUME PoolInv, WorkInv, NEW t \in Threads, Compute(t)
    PROVE  Good
<1>1. CASE ~Running
  <2>1. t # 0
    BY <1>1 DEF Running, InGraph, InBarrier, Compute, Start, NextNode, LeaveLoop, AfterNode,
         Rows, Convert, Chunk, FetchChunk, NoMoreChunks, EnterBarrier, Arrive,
         ResetBarrier, ReleaseBarrier, WaitBarrier
  <2> QED
    BY <1>1, <2>1, AsideRun DEF Workers
<1>2. CASE Running
  <2>1. CASE Start(t) \/ NextNode(t) \/ LeaveLoop(t)
    BY <1>2, <2>1, LoopRun, SkipRun
  <2>2. CASE Rows(t) \/ Chunk(t) \/ FetchChunk(t) \/ NoMoreChunks(t)
    BY <1>2, <2>2, RowsRun, ChunkRun, FetchRun, NoMoreChunksRun
  <2>3. CASE Convert(t) \/ AfterNode(t)
    BY <1>2, <2>3, ConvertRun, AfterNodeRun
  <2>4. CASE EnterBarrier(t) \/ Arrive(t) \/ ResetBarrier(t)
    BY <1>2, <2>4, HeldRun, ReleaseRun
  <2>5. CASE ReleaseBarrier(t) \/ WaitBarrier(t)
    BY <1>2, <2>5, ReleaseRun, WaitBarrierRun
  <2> QED
    BY <2>1, <2>2, <2>3, <2>4, <2>5 DEF Compute
<1> QED
  BY <1>1, <1>2

(* Every step of the program keeps the invariant and is a step of the      *)
(* abstract run, or none of its.                                           *)
LEMMA NextRun ==
    ASSUME PoolInv, WorkInv, [Next]_vars
    PROVE  Good
<1>1. CASE Manage \/ Call \/ Serve
  BY <1>1, CallerRun
<1>2. ASSUME NEW t \in Workers, Between(t) \/ SpuriousWakeup(t) PROVE Good
  BY <1>2, AsideRun, BetweenRun
<1>3. ASSUME NEW t \in Threads, Compute(t) PROVE Good
  BY <1>3, ComputeRun
<1>4. CASE UNCHANGED vars
  BY <1>4, StutterRun
<1> QED
  BY <1>1, <1>2, <1>3, <1>4 DEF Next

-----------------------------------------------------------------------------
(* What has been computed of a graph follows from where the threads are,   *)
(* at every moment: no part of a node is computed twice, no chunk of a     *)
(* product is given to two threads of mul_mat, and no thread comes past    *)
(* the node at which the abort callback stops the graph.                   *)
THEOREM WorkIsCounted == Spec => []WorkInv
<1>1. PoolInv /\ WorkInv /\ [Next]_vars => WorkInv'
  BY NextRun DEF Good
<1>2. Init => WorkInv
  BY InitWork
<1> QED
  BY <1>1, <1>2, Invariance, PTL DEF Spec

(* The pool computes every graph as GraphRun says: the nodes one after the *)
(* other, every part once, and ggml_graph_compute returns when all are     *)
(* done, or all up to the one after which the graph was aborted.           *)
THEOREM GraphRunImplemented == Spec => ImplementsGraphRun
<1>1. Init => Run!Init
  BY InitWork
<1>2. PoolInv /\ WorkInv /\ [Next]_vars => [Run!Next]_(Run!graphVars)
  BY NextRun DEF Good, RunStep
<1> QED
  BY <1>1, <1>2, Invariance, WorkIsCounted, PTL DEF Spec, ImplementsGraphRun, Run!Spec
=============================================================================
