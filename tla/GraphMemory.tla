---------------------------- MODULE GraphMemory -----------------------------
(***************************************************************************)
(* Computing a graph in the memory the graph allocator planned for it: the *)
(* allocator (GraphAlloc) decides where the tensors live, the caller fills *)
(* in the inputs, and the graph is computed as the thread pool promises    *)
(* (GraphRun). Memory is a set of cells, each of which remembers whose     *)
(* value was written to it last, so that a tensor overwritten too early    *)
(* and a plan that does not fit its graph show.                            *)
(*                                                                         *)
(* A map (add, scale, gelu, ...) computes each cell from the same cell of  *)
(* its operands, a matrix product each from all cells of its operands.     *)
(***************************************************************************)
EXTENDS GraphAlloc

CONSTANTS MaxParts     \* the most parts a node is cut into

(* A plan is kept for any graph that does not outgrow it, whatever its     *)
(* operations are. So an allocator must be given graphs of one making, as  *)
(* whisper_sched_graph_init gives each of them those of one builder, which *)
(* differ in sizes, and in those as one: what has the layout of its        *)
(* operand in one has it in the other.                                     *)
Alike(g, h) ==
    \A t \in DOMAIN g.tensors :
        LET x == g.tensors[t]
            y == h.tensors[t]
        IN  /\ y = [x EXCEPT !.size = y.size]
            /\ \A j \in DOMAIN x.src :
                   x.inplace /\ g.tensors[x.src[j]].size = x.size =>
                       h.tensors[x.src[j]].size = y.size

Planned(g) ==
    [leafs |-> g.leafs,
     tensors |-> [t \in DOMAIN g.tensors |->
                    [size_max |-> SizeOf(g.tensors[t]), src |-> g.tensors[t].src]]]

ASSUME GraphMemoryAssumption ==
    /\ MaxParts \in Nat \ {0}
    /\ \A g, h \in Graphs : Outgrows(h, Planned(g)) \/ Alike(g, h)

VARIABLES
    mem,                   \* whose value each cell of the buffer holds, or 0
    status, parts, limit   \* the run of the graph, see GraphRun

Run == INSTANCE GraphRun

vars == <<allocVars, mem, status, parts, limit>>

Init == AllocInit /\ mem = <<>> /\ Run!Init

-----------------------------------------------------------------------------
Cell(t, i) == <<Data(t).chunk, Data(t).offset + i>>
Cells == UNION {{<<c, x>> : x \in 0 .. buffer[c] - 1} : c \in DOMAIN buffer}
Indexes(t) == 0 .. T(t).size - 1

(* The tensor of a node, and its cells in part p of n (ggml_compute_params *)
(* ith and nth).                                                           *)
Result(k) == graph.leafs + k + 1

Share(t, p, n) ==
    LET rows == (T(t).size + n - 1) \div n
    IN  {i \in Indexes(t) : i \div rows = p}

(* Leafs (GGML_OP_NONE) and views are not computed.                        *)
Computed(t) == T(t).op \in {"map", "mul_mat"}

(* The caller sets the inputs and calls ggml_graph_compute.                *)
Compute(n) ==
    /\ goal = "ready"
    /\ parts' = [k \in 0 .. Len(graph.tensors) - graph.leafs - 1 |->
                   [p \in IF Computed(Result(k)) THEN 0 .. n - 1 ELSE {} |-> 0]]
    /\ Run!Begin
    /\ LET inputs == {t \in 1 .. graph.leafs : ~T(t).external}
       IN  mem' = [x \in Cells |->
                     LET here == {t \in inputs : \E i \in Indexes(t) : Cell(t, i) = x}
                     IN  IF here = {} THEN 0 ELSE CHOOSE t \in here : TRUE]
    /\ UNCHANGED allocVars

(* A part of a node is written over whatever was there.                    *)
ComputePart(k, p) ==
    LET t == Result(k)
        written == {Cell(t, i) : i \in Share(t, p, Cardinality(DOMAIN parts[k]))}
    IN  /\ Run!ComputePart(k, p)
        /\ mem' = [x \in DOMAIN mem |-> IF x \in written THEN t ELSE mem[x]]
        /\ UNCHANGED allocVars

(* The run is aborted, or returns.                                         *)
Steer ==
    /\ Run!Return \/ \E k \in DOMAIN parts : Run!Abort(k)
    /\ UNCHANGED <<allocVars, mem>>

(* The caller has read the outputs; the next graph is built anew.          *)
Collect ==
    /\ Run!Collect
    /\ goal' = "none" /\ graph' = NoTensors /\ mem' = <<>>
    /\ UNCHANGED <<chunks, hash, at, plan, buffer>>

Plan == status = "idle" /\ AllocNext /\ UNCHANGED <<mem, status, parts, limit>>

Next ==
    \/ Plan \/ Steer \/ Collect
    \/ \E n \in 1 .. MaxParts : Compute(n)
    \/ \E k \in DOMAIN parts : \E p \in DOMAIN parts[k] : ComputePart(k, p)

Spec == Init /\ [][Next]_vars

-----------------------------------------------------------------------------
(* The cell of a tensor holds its value: it has been written, and nothing  *)
(* has been written over it.                                               *)
Root(t) == IF T(t).view = 0 THEN t ELSE T(t).view

Intact(t, i) ==
    T(Root(t)).external \/ (Cell(t, i) \in DOMAIN mem /\ mem[Cell(t, i)] = Root(t))

(* The cells of operand o that the cells of result t depend on. A smaller  *)
(* operand is repeated.                                                    *)
Reads(t, o, share) ==
    IF T(t).op = "mul_mat" THEN Indexes(o) ELSE {i % T(o).size : i \in share}

(* Whatever part of a node is still to be computed, all it reads is there: *)
(* the memory of an operand is never given to another tensor too early,    *)
(* and a result computed in place destroys nothing another part needs      *)
(* (ggml_gallocr_allocate_node, _free_node; the plan of another graph kept *)
(* by ggml_gallocr_needs_realloc).                                         *)
SourcesIntact ==
    \A k \in DOMAIN parts : \A p \in DOMAIN parts[k] :
        Run!Pending(k, p) =>
            LET t == Result(k)
                share == Share(t, p, Cardinality(DOMAIN parts[k]))
            IN  \A j \in DOMAIN T(t).src : \A i \in Reads(t, T(t).src[j], share) :
                    Intact(T(t).src[j], i)

(* When a graph has been computed, its outputs and its last node hold      *)
(* their values, all of them: "output tensors are never freed and never    *)
(* overwritten" (ggml-alloc.h).                                            *)
OutputsIntact ==
    status = "success" =>
        \A t \in All : Computed(t) /\ (T(t).output \/ t = Len(graph.tensors)) =>
            \A i \in Indexes(t) : Intact(t, i)
=============================================================================
