------------------------------- MODULE MCApic -------------------------------
(***************************************************************************)
(* Each of the two vcpus is a destination of its own.  Two settings: in    *)
(* "shared", every pin has one device, all pins share a vector, and the    *)
(* pin Used moves between the vcpus; in "nested", Used has several         *)
(* devices, and on vcpu 0 MSIs of a higher priority come and the task      *)
(* priority changes.                                                       *)
(***************************************************************************)
EXTENDS Apic

CONSTANT Settings

VARIABLE setting

MCDests == {{0}, {1}}

Used == 10

MCInit == Init /\ setting \in Settings

MCNext ==
    /\ Next
    /\ setting = "shared" => /\ tpr' = tpr
                             /\ \A v \in Vcpus : irr'[v] \cap MsiVectors = {}
                             /\ \A p \in Pins : rtbl'[p].acnt <= 1
                             /\ \A p \in Pins \ {Used} : rtbl'[p].dest = {0}
    /\ setting = "nested" => /\ \A v \in Vcpus \ {0} :
                                  tpr'[v] = tpr[v] /\ irr'[v] \cap MsiVectors = {}
                             /\ \A v \in Vcpus : arg'[v] \notin Pins \ {Used}
                             /\ \A p \in Pins \ {Used} : rtbl'[p] = rtbl[p]
    /\ UNCHANGED setting

MCSpec == MCInit /\ [][MCNext]_<<vars, setting>>
=============================================================================
