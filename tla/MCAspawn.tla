------------------------------ MODULE MCAspawn ------------------------------
(* Small instances of Aspawn for TLC.                                      *)
EXTENDS AspawnInv, TLC

CONSTANTS t1, t2

(* t1 runs with nothing blocked and may be cancelled, t2 with signal 1     *)
(* blocked and cancellation disabled; or none of them may be cancelled.    *)
MCInitMask == [t \in Thread |-> IF t = t1 THEN {} ELSE {1}]
MCInitCancel == [t \in Thread |-> IF t = t1 THEN "enabled" ELSE "disabled"]
NoCancel == [t \in Thread |-> "disabled"]

(* Signal 1 is caught by the process, the others are ignored.              *)
MCInitDisp == [s \in Sig |-> IF s = 1 THEN "handler" ELSE "ign"]

(* Every build and kernel; a kernel, a build without clone3.               *)
AnyHost == HostType
OldKernel == {[build |-> TRUE, kernel |-> FALSE]}
OldBuild == {[build |-> FALSE, kernel |-> TRUE]}

Symmetry == Permutations(Call) \cup Permutations(Stack)
=============================================================================
