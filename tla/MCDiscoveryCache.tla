-------------------------- MODULE MCDiscoveryCache --------------------------
(* Instances of DiscoveryCache for TLC.                                    *)
EXTENDS DiscoveryCache, TLC

(* Callers and switchers are interchangeable.                              *)
Symmetry == Permutations(Callers) \union Permutations(Switchers)

=============================================================================
