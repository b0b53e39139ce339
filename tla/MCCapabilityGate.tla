-------------------------- MODULE MCCapabilityGate --------------------------
(* Instances of CapabilityGate for TLC.                                    *)
EXTENDS CapabilityGate, TLC

(* Requests, applies and switchers are interchangeable.                    *)
Symmetry ==
  Permutations(Requests) \union Permutations(Applies) \union Permutations(Switchers)

=============================================================================
