-------------------------- MODULE MCFallbackChain --------------------------
(* Small instances of FallbackChain for TLC.                               *)
EXTENDS FallbackChain, TLC

(* Chains are interchangeable: sound for the safety properties only.       *)
Symmetry == Permutations(Request)
=============================================================================
