---------------------------- MODULE MCEventLedger ----------------------------
(* Instances of EventLedger for TLC. *)
EXTENDS EventLedger
=============================================================================
