------------------------------- MODULE ModeFSM -------------------------------
(***************************************************************************)
(* The pure part of the mode FSM: the forward ratchet, the legal edges,    *)
(* the consent-required edges and the policy half of the transition gate.  *)
(* No state: the modules that keep a mode extend this one.                 *)
(***************************************************************************)
EXTENDS Integers

\* _FORWARD_CHAIN, as the index _chain_index returns (LOCKED has none).
ChainIndex ==
  [SAFE |-> 0, PAPER |-> 1, CANARY |-> 2, LIVE |-> 3, AUTO |-> 4]

Chain == {"SAFE", "PAPER", "CANARY", "LIVE", "AUTO"}

\* SystemMode; the integer behind each member orders the policy gate.
Modes == Chain \cup {"LOCKED"}

ModeValue ==
  [SAFE |-> 0, PAPER |-> 1, CANARY |-> 3, LIVE |-> 4, AUTO |-> 5,
   LOCKED |-> 99]

OK == "OK"

Forward(prev, target) ==
  /\ prev \in Chain
  /\ target \in Chain
  /\ ChainIndex[target] = ChainIndex[prev] + 1

Backward(prev, target) ==
  /\ prev \in Chain
  /\ target \in Chain
  /\ ChainIndex[target] < ChainIndex[prev]

\* Mutant: the kill edge exists only from an executing mode.
IsLegalEdge_NoLockFromSafe(prev, target) ==
  /\ prev # target
  /\ \/ target = "LOCKED" /\ prev # "SAFE"
     \/ prev = "LOCKED" /\ target = "SAFE"
     \/ Forward(prev, target)
     \/ Backward(prev, target)

\* The edges _is_legal_edge accepts.
IsLegalEdge(prev, target) ==
  /\ prev # target
  /\ \/ target = "LOCKED"
     \/ prev = "LOCKED" /\ target = "SAFE"
     \/ Forward(prev, target)
     \/ Backward(prev, target)

\* The rejection code of _is_legal_edge, OK for a legal edge.
FsmCode(prev, target) ==
  CASE prev = target                -> "FSM_NO_OP"
    [] IsLegalEdge(prev, target)    -> OK
    [] prev = "LOCKED"              -> "FSM_LOCKED_ONLY_TO_SAFE"
    [] OTHER                        -> "FSM_FORWARD_SKIP"

\* CONSENT_REQUIRED_EDGES / edge_requires_consent.
EdgeRequiresConsent(prev, target) ==
  <<prev, target>> \in {<<"SAFE", "PAPER">>, <<"LIVE", "AUTO">>}

\* _GATED_FORWARD_TARGETS of the promotion gates; the readiness gate names
\* the same three targets.
GatedTargets == {"CANARY", "LIVE", "AUTO"}

\* Mutant: the forward check on LIVE and AUTO is lost.
PolicyCode_ConstraintsOnly(prev, target, authorized, requireOperator) ==
  IF ~authorized /\ target \in requireOperator
  THEN "POLICY_OPERATOR_REQUIRED"
  ELSE OK

\* PolicyEngine.permit_mode_transition. requireOperator is the set of modes
\* a REQUIRE_OPERATOR constraint is scoped to.
PolicyCode(prev, target, authorized, requireOperator) ==
  IF /\ ~authorized
     /\ \/ /\ target \in {"LIVE", "AUTO"}
           /\ prev # "LOCKED"
           /\ ModeValue[target] > ModeValue[prev]
        \/ target \in requireOperator
  THEN "POLICY_OPERATOR_REQUIRED"
  ELSE OK

\* PolicyEngine.permit_operator_action: the compiled decision table.
OperatorActionCode(action, current) ==
  CASE current = "LOCKED" /\ action # "UNLOCK" -> "POLICY_LOCKED"
    [] current # "LOCKED" /\ action = "UNLOCK" -> "POLICY_NOT_LOCKED"
    [] OTHER                                   -> OK

\* operator_auth_required of the mode-effects table.
OperatorAuthRequired == {"CANARY", "LIVE", "AUTO"}

\* _DOWNGRADE_CHAIN of the drift oracle: AUTO, LIVE and CANARY step down.
DowngradeTarget ==
  [AUTO |-> "LIVE", LIVE |-> "CANARY", CANARY |-> "PAPER"]

\* OperationalReadiness levels in the order str.__lt__ gives their values.
ReadinessOrder ==
  [CANARY_READY |-> 1, LIVE_READY |-> 2, NOT_READY |-> 3, PAPER_READY |-> 4]

\* The same levels in the order the readiness contract lists them.
ReadinessRank ==
  [NOT_READY |-> 0, PAPER_READY |-> 1, CANARY_READY |-> 2, LIVE_READY |-> 3]

ReadinessLevels == DOMAIN ReadinessRank

\* _READINESS_REQUIRED_MODES.
RequiredReadiness ==
  [CANARY |-> "CANARY_READY", LIVE |-> "LIVE_READY", AUTO |-> "LIVE_READY"]
==============================================================================
