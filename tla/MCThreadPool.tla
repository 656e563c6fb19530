---------------------------- MODULE MCThreadPool ----------------------------
(* A small instance of ThreadPool for TLC.                                 *)
EXTENDS ThreadPool

(* A node every thread has rows of, a node that is skipped, a matrix       *)
(* product and another node by rows.                                       *)
Layer == <<"rows", "skip", "chunks", "rows">>

MCCalls == [shape : {Layer}, threads : {2, 3}] \cup
           [shape : {<<"chunks">>}, threads : {1, 2}]
=============================================================================
