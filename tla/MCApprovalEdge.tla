---------------------------- MODULE MCApprovalEdge ----------------------------
(* Instances of ApprovalEdge for TLC. *)
EXTENDS ApprovalEdge, TLC

Symmetry == Permutations(Threads) \cup Permutations(Approvals)
=============================================================================
