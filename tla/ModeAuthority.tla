---------------------------- MODULE ModeAuthority ----------------------------
(***************************************************************************)
(* What the governance control plane promises about the system mode, with  *)
(* no threads, ledger or checks: the mode moves along the edges of the     *)
(* FSM, one step up at a time; a step up over a consent edge uses up one   *)
(* consent that is not among the last ones used; anything may lock, and    *)
(* LOCKED leads only to SAFE.                                              *)
(***************************************************************************)
EXTENDS ModeFSM, Sequences

CONSTANTS
  Nonces,     \* consents operators may give
  BootModes,  \* modes the process may boot in
  Memory      \* how many of the consents used last are remembered

VARIABLES
  mode,       \* the system mode
  spent       \* consents used since the last boot, in order

Init ==
  /\ mode \in BootModes
  /\ spent = <<>>

\* Consent n is not among the last ones used.
Usable(n) == \A i \in 1 .. Len(spent) : i + Memory > Len(spent) => spent[i] # n

Lock ==
  /\ mode # "LOCKED"
  /\ mode' = "LOCKED"
  /\ UNCHANGED spent

Unlock ==
  /\ mode = "LOCKED"
  /\ mode' = "SAFE"
  /\ UNCHANGED spent

StepBack(m) ==
  /\ Backward(mode, m)
  /\ mode' = m
  /\ UNCHANGED spent

StepForward(m) ==
  /\ Forward(mode, m)
  /\ ~EdgeRequiresConsent(mode, m)
  /\ mode' = m
  /\ UNCHANGED spent

StepForwardWithConsent(m, n) ==
  /\ Forward(mode, m)
  /\ EdgeRequiresConsent(mode, m)
  /\ Usable(n)
  /\ mode' = m
  /\ spent' = Append(spent, n)

\* A consent is accepted but its transition is never recorded.
Waste(n) ==
  /\ Usable(n)
  /\ spent' = Append(spent, n)
  /\ UNCHANGED mode

Boot(m) ==
  /\ mode' = m
  /\ spent' = <<>>

Next ==
  \/ Lock
  \/ Unlock
  \/ \E m \in Chain : StepBack(m) \/ StepForward(m)
  \/ \E m \in Chain, n \in Nonces : StepForwardWithConsent(m, n)
  \/ \E n \in Nonces : Waste(n)
  \/ \E m \in BootModes : Boot(m)

Spec == Init /\ [][Next]_<<mode, spent>>
=============================================================================
