------------------------ MODULE MCMetricsDiscoverer ------------------------
(* Instances of MetricsDiscoverer for TLC.                                 *)
EXTENDS MetricsDiscoverer, TLC

(* Polls and switchers are interchangeable.                                *)
Symmetry == Permutations(Polls) \union Permutations(Switchers)

=============================================================================
