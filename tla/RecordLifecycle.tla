-------------------------- MODULE RecordLifecycle --------------------------
(***************************************************************************)
(* What Sub Rosa promises about the record of a consultation, with no      *)
(* screens, jobs or files: a record grows while it is in progress, is      *)
(* sealed at most once, and is gone for good once deleted.  facts is what  *)
(* its notes hold, speech the sessions its lines were spoken in.           *)
(***************************************************************************)
CONSTANT Sessions
VARIABLES status, facts, speech

vars == <<status, facts, speech>>

Init ==
    /\ status = [s \in Sessions |-> "ABSENT"]
    /\ facts = [s \in Sessions |-> {}]
    /\ speech = [s \in Sessions |-> {}]

(* A pass, or sealing, writes the record: nothing learned is dropped and   *)
(* nothing of another session enters.                                      *)
Write(s, to) ==
    /\ status[s] \in {"ABSENT", "IN_PROGRESS"}
    /\ status' = [status EXCEPT ![s] = to]
    /\ \E F \in SUBSET {s}, L \in SUBSET {s} :
           /\ facts[s] \subseteq F
           /\ facts' = [facts EXCEPT ![s] = F]
           /\ speech' = [speech EXCEPT ![s] = L]

Save(s) == Write(s, "IN_PROGRESS")
Seal(s) == Write(s, "SEALED")

(* Deleting a consultation, or its case with all of its consultations.     *)
Delete(S) ==
    /\ \A s \in S : status[s] \in {"IN_PROGRESS", "SEALED"}
    /\ status' = [s \in Sessions |-> IF s \in S THEN "DELETED" ELSE status[s]]
    /\ facts' = [s \in Sessions |-> IF s \in S THEN {} ELSE facts[s]]
    /\ speech' = [s \in Sessions |-> IF s \in S THEN {} ELSE speech[s]]

Next ==
    \/ \E s \in Sessions : Save(s) \/ Seal(s)
    \/ \E S \in SUBSET Sessions : Delete(S)

Spec == Init /\ [][Next]_vars
=============================================================================
