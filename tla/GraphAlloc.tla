----------------------------- MODULE GraphAlloc -----------------------------
(***************************************************************************)
(* ggml_gallocr (ggml-alloc.c): where the tensors of a graph live. Memory  *)
(* is planned by walking the graph once, giving each tensor an address     *)
(* when it is needed first and taking it back after its last use, so that  *)
(* tensors that are never needed together share memory. An operation may   *)
(* also write its result over an operand nobody needs any more. The plan   *)
(* is kept and used again for later graphs that fit it.                    *)
(*                                                                         *)
(* A graph is a sequence of tensors, the leafs first and then the nodes in *)
(* the order they are computed in. There is one buffer type, as in the     *)
(* app, and the backend's allocation of buffers is taken to succeed. The   *)
(* operators that stand before another and are named for what they get     *)
(* wrong are faulty variants.                                              *)
(* Inputs are leafs, and every leaf a node uses is among the graph's       *)
(* leafs, so the loop that places leafs has placed what the code looks for *)
(* again while it counts and before it places a node.                      *)
(***************************************************************************)
EXTENDS DynTallocr, FiniteSets

CONSTANTS Graphs      \* the graphs that are reserved, allocated and computed

(* src: operands; view: the tensor a view looks into, else 0; external:    *)
(* its data is set already (weights, caches); inplace: ggml_op_can_inplace *)
(* holds of its operation; output: GGML_TENSOR_FLAG_OUTPUT.                *)
Tensors == [op : {"none", "view", "map", "mul_mat"}, src : Seq(Nat \ {0}),
            view : Nat, size : Nat \ {0}, external : BOOLEAN,
            inplace : BOOLEAN, output : BOOLEAN]

(* Where a tensor is used: by which node, and as which of its operands.    *)
MaxSrc == 10    \* GGML_MAX_SRC

Uses(g, t) == {use \in (DOMAIN g.tensors) \X (1 .. MaxSrc) :
                  /\ use[2] \in DOMAIN g.tensors[use[1]].src
                  /\ g.tensors[use[1]].src[use[2]] = t}
NChildren(g, t) == Cardinality(Uses(g, t))

(* A leaf is there because a node needs it (ggml_visit_parents_graph), a   *)
(* view lies within its tensor (ggml_new_tensor_impl), and no operation of *)
(* ggml_op_can_inplace is a product. No tensor is larger than the endless  *)
(* chunk: half of what a size_t holds is more than any address space.      *)
WellFormed(g) ==
    /\ g.leafs \in 0 .. Len(g.tensors)
    /\ g.tensors \in Seq(Tensors)
    /\ \A t \in DOMAIN g.tensors :
           /\ Len(g.tensors[t].src) <= MaxSrc
           /\ \A j \in DOMAIN g.tensors[t].src : g.tensors[t].src[j] < t
           /\ g.tensors[t].view < t
           /\ g.tensors[t].op = "view" <=> g.tensors[t].view # 0
           /\ g.tensors[t].view # 0 =>
                  LET of == g.tensors[g.tensors[t].view]
                  IN  of.view = 0 /\ g.tensors[t].size <= of.size
           /\ g.tensors[t].inplace => g.tensors[t].op = "map"
           /\ g.tensors[t].op = "none" <=> t <= g.leafs
           /\ t <= g.leafs => g.tensors[t].src = <<>> /\ NChildren(g, t) > 0
           /\ Aligned(g.tensors[t].size) <= Endless

ASSUME GraphAllocAssumption == \A g \in Graphs : WellFormed(g)

VARIABLES
    graph,     \* the graph being planned, or ready to be computed
    chunks,    \* the dynamic allocator
    hash,      \* galloc->hash_values: what is known of each tensor
    at,        \* how far the walk is: a tensor, and which of its operands
    plan,      \* node_allocs and leaf_allocs
    buffer,    \* the sizes of the buffer's chunks
    goal       \* "none", "reserve", "alloc", or "ready": tensors have addresses

allocVars == <<graph, chunks, hash, at, plan, buffer, goal>>

T(t) == graph.tensors[t]
All == DOMAIN graph.tensors
NoTensors == [leafs |-> 0, tensors |-> <<>>]
WalkStart == [tensor |-> 1, src |-> 0]
NoPlan == [leafs |-> -1, tensors |-> <<>>]
Nowhere == [chunk |-> 0, offset |-> 0]

AllocInit ==
    /\ graph = NoTensors
    /\ chunks = <<>> /\ hash = <<>> /\ at = WalkStart
    /\ plan = NoPlan /\ buffer = <<>> /\ goal = "none"

-----------------------------------------------------------------------------
(* ggml_gallocr_alloc_graph_impl: the walk.                                *)

NViews(g, t) == Cardinality({n \in DOMAIN g.tensors : g.tensors[n].view = t})

(* The counts of children and views, before anything is placed.            *)
Counted(g) ==
    [t \in DOMAIN g.tensors |->
        [n_children |-> NChildren(g, t), n_views |-> NViews(g, t),
         allocated |-> FALSE, addr |-> Nowhere]]

Walk(g, for) ==
    /\ goal \in {"none", "ready"}
    /\ graph' = g /\ goal' = for
    /\ chunks' = <<>> /\ hash' = Counted(g) /\ at' = WalkStart
    /\ UNCHANGED <<plan, buffer>>

(* ggml_gallocr_allocate_node places tensors that are not views and whose  *)
(* data is not set elsewhere.                                              *)
Placed(t) == ~T(t).external /\ T(t).view = 0

(* An operand whose memory the result may take over: placed by this        *)
(* allocator, not an output, of the same layout, and used by nothing else. *)
(* Tensors of one size stand for tensors of one layout, so nothing of the  *)
(* operand is left over for ggml_gallocr_free_extra_space. A view is never *)
(* own, so the code's case of a view as operand cannot come up.            *)
ReusableOutput(t, p) ==
    /\ hash[p].allocated
    /\ T(p).size = T(t).size
    /\ hash[p].n_children = 1 /\ hash[p].n_views = 0

Reusable(t, p) ==
    /\ hash[p].allocated /\ ~T(p).output
    /\ T(p).size = T(t).size
    /\ hash[p].n_children = 1 /\ hash[p].n_views = 0

AllocateNode(t) ==
    LET reuse == {j \in DOMAIN T(t).src : T(t).inplace /\ Reusable(t, T(t).src[j])}
        first == T(t).src[CHOOSE j \in reuse : \A i \in reuse : j <= i]
        new == AllocBytes(chunks, T(t).size)
    IN  IF ~Placed(t) THEN UNCHANGED <<chunks, hash>>
        ELSE IF reuse # {}
        THEN /\ hash' = [hash EXCEPT ![t].allocated = TRUE,
                                     ![t].addr = hash[first].addr,
                                     ![first].allocated = FALSE]
             /\ UNCHANGED chunks
        ELSE /\ hash' = [hash EXCEPT ![t].allocated = TRUE, ![t].addr = new.addr]
             /\ chunks' = new.chunks

Walking == goal \in {"reserve", "alloc"} /\ at.tensor <= Len(graph.tensors)

PlaceLeaf ==
    /\ Walking /\ at.tensor <= graph.leafs
    /\ AllocateNode(at.tensor)
    /\ at' = [at EXCEPT !.tensor = @ + 1]
    /\ UNCHANGED <<graph, plan, buffer, goal>>

PlaceNode ==
    /\ Walking /\ at.tensor > graph.leafs /\ at.src = 0
    /\ AllocateNode(at.tensor)
    /\ at' = [at EXCEPT !.src = 1]
    /\ UNCHANGED <<graph, plan, buffer, goal>>

(* ggml_gallocr_free_node, unless it is an output.                         *)
FreeNode(h, t) ==
    IF T(t).output THEN hash' = h /\ UNCHANGED chunks
    ELSE /\ hash' = [h EXCEPT ![t].allocated = FALSE]
         /\ chunks' = FreeBytes(chunks, h[t].addr, T(t).size)

DropParentOfViews ==
    LET p == T(at.tensor).src[at.src]
        used == [hash EXCEPT ![p].n_children = @ - 1]
    IN  /\ Walking /\ at.src \in DOMAIN T(at.tensor).src
        /\ IF used[p].n_children = 0 /\ used[p].allocated
           THEN FreeNode(used, p)
           ELSE hash' = used /\ UNCHANGED chunks
        /\ at' = [at EXCEPT !.src = @ + 1]
        /\ UNCHANGED <<graph, plan, buffer, goal>>

(* After a node one operand after the other has a child less; one nobody   *)
(* needs any more is freed, or the tensor it was the last view of.         *)
DropParent ==
    LET p == T(at.tensor).src[at.src]
        v == T(p).view
        used == [hash EXCEPT ![p].n_children = @ - 1]
        unseen == [used EXCEPT ![v].n_views = @ - 1]
    IN  /\ Walking /\ at.src \in DOMAIN T(at.tensor).src
        /\ IF used[p].n_children # 0 \/ used[p].n_views # 0
           THEN hash' = used /\ UNCHANGED chunks
           ELSE IF v # 0
           THEN IF unseen[v].n_views = 0 /\ unseen[v].n_children = 0
                   /\ unseen[v].allocated
                THEN FreeNode(unseen, v)
                ELSE hash' = unseen /\ UNCHANGED chunks
           ELSE IF used[p].allocated
                THEN FreeNode(used, p)
                ELSE hash' = used /\ UNCHANGED chunks
        /\ at' = [at EXCEPT !.src = @ + 1]
        /\ UNCHANGED <<graph, plan, buffer, goal>>

NodeDone ==
    /\ Walking /\ at.src = Len(T(at.tensor).src) + 1
    /\ at' = [tensor |-> at.tensor + 1, src |-> 0]
    /\ UNCHANGED <<graph, chunks, hash, plan, buffer, goal>>

-----------------------------------------------------------------------------
(* ggml_gallocr_reserve: the walk, the plan it gives, and a new buffer     *)
(* when some chunk has become too small.                                   *)
Reserve(g) == Walk(g, "reserve")

(* What is recorded as a tensor's size_max: 0 if it is not placed.         *)
SizeOf(x) == IF x.external \/ x.view # 0 THEN 0 ELSE x.size

MaxSizes == [c \in DOMAIN chunks |-> chunks[c].max_size]
TooSmall(c) == c \notin DOMAIN buffer \/ buffer[c] < chunks[c].max_size

FinishReserve ==
    /\ goal \in {"reserve", "alloc"} /\ at.tensor > Len(graph.tensors)
    /\ plan' = [leafs |-> graph.leafs,
                tensors |-> [t \in All |->
                    [addr |-> IF Placed(t) THEN hash[t].addr ELSE Nowhere,
                     size_max |-> SizeOf(T(t)), src |-> T(t).src]]]
    /\ buffer' = IF buffer = <<>> \/ \E c \in DOMAIN chunks : TooSmall(c)
                 THEN MaxSizes ELSE buffer
    /\ goal' = IF goal = "alloc" THEN "ready" ELSE "none"
    /\ graph' = IF goal = "alloc" THEN graph ELSE NoTensors
    /\ chunks' = <<>> /\ hash' = <<>> /\ at' = WalkStart

(* ggml_gallocr_needs_realloc: another number of nodes or of leafs, or a   *)
(* node, or an operand of one, that is larger than what was planned in its *)
(* place. Which tensors the operands are is not compared.                  *)
Outgrows(g, planned) ==
    \/ planned.leafs # g.leafs \/ Len(planned.tensors) # Len(g.tensors)
    \/ \E n \in g.leafs + 1 .. Len(g.tensors) :
           LET new == g.tensors[n]
               old == planned.tensors[n]
           IN  \/ old.size_max < SizeOf(new)
               \/ \E j \in DOMAIN new.src :
                      LET size == SizeOf(g.tensors[new.src[j]])
                      IN  IF j \in DOMAIN old.src
                          THEN planned.tensors[old.src[j]].size_max < size
                          ELSE size > 0

NeedsRealloc(g) == Outgrows(g, plan)

(* ggml_gallocr_alloc_graph: a graph that fits the plan is given its       *)
(* addresses; any other is planned first.                                  *)
AllocGraph(g) ==
    IF NeedsRealloc(g)
    THEN Walk(g, "alloc")
    ELSE /\ goal \in {"none", "ready"}
         /\ graph' = g /\ goal' = "ready"
         /\ UNCHANGED <<chunks, hash, at, plan, buffer>>

(* The address of a tensor's data, once the graph is ready.                *)
Data(t) == plan.tensors[IF T(t).view = 0 THEN t ELSE T(t).view].addr

AllocStep == PlaceLeaf \/ PlaceNode \/ DropParent \/ NodeDone \/ FinishReserve

AllocNext == AllocStep \/ \E g \in Graphs : Reserve(g) \/ AllocGraph(g)

AllocSpec == AllocInit /\ [][AllocNext]_allocVars
-----------------------------------------------------------------------------
Own(t) == t \in DOMAIN hash /\ hash[t].allocated
From(t) == hash[t].addr.offset
To(t) == From(t) + Aligned(T(t).size)
In(t, c) == Own(t) /\ hash[t].addr.chunk = c

(* At every point of the walk the memory handed out and the free blocks    *)
(* divide each chunk between them: no two tensors that own memory overlap, *)
(* none lies in a free block, nothing below max_size is lost, and free     *)
(* blocks that touch have been merged (ggml_dyn_tallocr_alloc, _free).     *)
FreeSpaceExact ==
    goal \in {"reserve", "alloc"} => \A c \in DOMAIN chunks :
        /\ \A a, b \in chunks[c].free :
               a # b => End(a) < b.offset \/ End(b) < a.offset
        /\ \A t \in All : In(t, c) =>
               /\ To(t) <= chunks[c].max_size
               /\ \A b \in chunks[c].free : To(t) <= b.offset \/ End(b) <= From(t)
               /\ \A u \in All : In(u, c) /\ u # t =>
                      To(t) <= From(u) \/ To(u) <= From(t)
        /\ \A x \in 0 .. chunks[c].max_size - 1 :
               \/ \E b \in chunks[c].free : b.offset <= x /\ x < End(b)
               \/ \E t \in All : In(t, c) /\ From(t) <= x /\ x < To(t)
=============================================================================
