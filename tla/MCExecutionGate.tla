---------------------------- MODULE MCExecutionGate ----------------------------
(* Instances of ExecutionGate for TLC. *)
EXTENDS ExecutionGate

\* Windows keep their order: MEDIUM decays before HIGH and CRITICAL do.
ShortWindows == [MEDIUM |-> 1, CRITICAL |-> 2]
=============================================================================
