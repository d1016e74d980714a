---------------------------- MODULE MCGovernance ----------------------------
(* Instances of GovernanceControlPlane for TLC. *)
EXTENDS GovernanceClaims, TLC

CONSTANTS MaxSideRows, MaxUsed

\* Callers and nonces are interchangeable: no action or property orders them.
\* Used by the runs that check no liveness property.
Interchangeable == Permutations(Callers) \cup Permutations(Nonces)

\* Audit, intent and rejection rows change nothing but the length of the
\* ledger: at most MaxSideRows of them are explored, at any place.
FewSideRows ==
  Cardinality({i \in 1 .. Len(rows) :
     rows[i].kind \in {"AUDIT", "INTENT_TRANSITION", "OPERATOR_REJECTED",
                       "MODE_TRANSITION_REJECTED"}}) <= MaxSideRows

\* A nonce whose row could not be written may be used again once the ring has
\* forgotten it, without end: MaxUsed uses in one boot are explored.
FewUses == Len(used) <= MaxUsed
=============================================================================
