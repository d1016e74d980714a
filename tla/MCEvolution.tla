----------------------------- MODULE MCEvolution -----------------------------
(* Instances of EvolutionLifecycle for TLC. *)
EXTENDS EvolutionLifecycle, TLC

Symmetry == Permutations(Proposals) \cup Permutations(Operators)
=============================================================================
