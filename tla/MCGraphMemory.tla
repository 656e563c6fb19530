--------------------------- MODULE MCGraphMemory ----------------------------
(* Small instances of GraphMemory for TLC.                                 *)
EXTENDS GraphMemory

Tensor(op, src, bytes) ==
    [op |-> op, src |-> src, view |-> 0, size |-> bytes, external |-> FALSE,
     inplace |-> op = "map", output |-> FALSE]
Weights(bytes) == [Tensor("none", <<>>, bytes) EXCEPT !.external = TRUE]
View(of, bytes) == [Tensor("view", <<of>>, bytes) EXCEPT !.view = of]
Output(tensor) == [tensor EXCEPT !.output = TRUE]

(* A layer over n columns: the input is used twice, a view keeps the first *)
(* product alive, a sum is written over an operand.                        *)
Layer(n) ==
    [leafs |-> 2,
     tensors |-> <<Tensor("none", <<>>, n), Weights(2),
                   Tensor("mul_mat", <<2, 1>>, n + 1), View(3, n + 1),
                   Tensor("mul_mat", <<2, 1>>, n + 1),
                   Tensor("map", <<4, 5>>, n + 1)>>]

(* An output in the middle of a graph, and operands freed in an order that *)
(* leaves gaps.                                                            *)
Kept(n) ==
    [leafs |-> 1,
     tensors |-> <<Tensor("none", <<>>, n),
                   Output(Tensor("map", <<1>>, n)),
                   Tensor("mul_mat", <<1, 2>>, 2),
                   Tensor("map", <<2>>, n),
                   Tensor("map", <<4, 3>>, 2),
                   Tensor("mul_mat", <<5, 4>>, 4)>>]

(* More than one chunk holds, and a tensor larger than a chunk.            *)
Wide(n) ==
    [leafs |-> 3,
     tensors |-> <<Tensor("none", <<>>, 5), Tensor("none", <<>>, n),
                   Tensor("none", <<>>, 3), Tensor("map", <<1, 3>>, 5),
                   Tensor("mul_mat", <<2, 4>>, 3), Tensor("map", <<5, 2>>, 3)>>]

MCGraphs == {Layer(1), Layer(2), Layer(3), Kept(1), Kept(3), Wide(2), Wide(7)}
=============================================================================
