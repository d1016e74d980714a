-------------------------- MODULE GovernanceClaims --------------------------
(***************************************************************************)
(* Statements the repository's comments and docstrings make about the      *)
(* control plane which the code does not keep.  Each is the property of    *)
(* one run whose counterexample shows how.                                 *)
(***************************************************************************)
EXTENDS GovernanceControlPlane

\* operator_consent.py: the nonce is "replay-rejected by the validator after
\* first use within the freshness window".  The ring is memory of one
\* process: after a restart an envelope that is still fresh is honoured
\* again.
NonceUsedOncePerWindow ==
  \A i, j \in 1 .. Len(rows) :
    /\ OfKind(rows, i, "OPERATOR_CONSENT_ACCEPTED")
    /\ OfKind(rows, j, "OPERATOR_CONSENT_ACCEPTED")
    /\ rows[i].nonce = rows[j].nonce
    => i = j

\* state_transition_manager.py: the readiness gate "blocks CANARY/LIVE/AUTO
\* unless the runtime readiness validator confirms" the required level.
EntryAtRequiredReadiness ==
  [][\A c \in Callers :
       Passes(c) /\ pend[c].target \in GatedTargets =>
         /\ readiness # None
         /\ ReadinessRank[readiness]
              >= ReadinessRank[RequiredReadiness[pend[c].target]]]_vars

=============================================================================
