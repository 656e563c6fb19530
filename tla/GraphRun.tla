------------------------------ MODULE GraphRun ------------------------------
(***************************************************************************)
(* What ggml_graph_compute promises, whatever the threads that do it: the  *)
(* nodes of a graph are computed one after the other, every part of a node *)
(* once, and the run returns when all of them are done, or all of those up *)
(* to the node after which it was aborted.                                 *)
(***************************************************************************)
EXTENDS Integers

VARIABLES
    status,   \* "idle", "running", or what the run has returned
    parts,    \* how often each part of each node has been computed
    limit     \* nodes to compute in an aborted run, -1 in any other

graphVars == <<status, parts, limit>>

Done(k) == \A p \in DOMAIN parts[k] : parts[k][p] = 1
Untouched(k) == \A p \in DOMAIN parts[k] : parts[k][p] = 0
Wanted(k) == limit = -1 \/ k < limit

Init == status = "idle" /\ parts = <<>> /\ limit = -1

Begin ==
    /\ status = "idle" /\ status' = "running"
    /\ \A k \in DOMAIN parts' : \A p \in DOMAIN parts'[k] : parts'[k][p] = 0
    /\ UNCHANGED limit

(* The parts that may be computed now are those of the first node that is  *)
(* not done.                                                               *)
Pending(k, p) ==
    /\ status = "running" /\ Wanted(k) /\ parts[k][p] = 0
    /\ \A j \in DOMAIN parts : j < k => Done(j)

ComputePart(k, p) ==
    /\ Pending(k, p)
    /\ parts' = [parts EXCEPT ![k][p] = 1]
    /\ UNCHANGED <<status, limit>>

(* Aborting after node k leaves the rest of k to be computed.              *)
Abort(k) ==
    /\ status = "running" /\ limit = -1
    /\ \A j \in DOMAIN parts : (j < k => Done(j)) /\ (j > k => Untouched(j))
    /\ limit' = k + 1
    /\ UNCHANGED <<status, parts>>

Return ==
    /\ status = "running"
    /\ \A k \in DOMAIN parts : IF Wanted(k) THEN Done(k) ELSE Untouched(k)
    /\ status' = IF limit = -1 THEN "success" ELSE "aborted"
    /\ parts' = <<>> /\ limit' = -1

Collect ==
    /\ status \in {"success", "aborted"} /\ status' = "idle"
    /\ UNCHANGED <<parts, limit>>

Next ==
    \/ Begin \/ Return \/ Collect
    \/ \E k \in DOMAIN parts :
           Abort(k) \/ \E p \in DOMAIN parts[k] : ComputePart(k, p)

Spec == Init /\ [][Next]_graphVars
=============================================================================
