--------------------------- MODULE MCConsultation ---------------------------
(* Small instances of Consultation for TLC.                                *)
EXTENDS Consultation, TLC

MCClientOf == [k \in Cases |-> CHOOSE c \in Clients : TRUE]
MCSymmetry == Permutations(Sessions) \cup Permutations(Jobs)
=============================================================================
