-------------------------- MODULE MCResponseCache --------------------------
(* Instances of ResponseCache for TLC.                                     *)
EXTENDS ResponseCache, TLC

CONSTANT RouteTTL

TTLs == [p \in Routes |-> RouteTTL]

(* Requests and switchers are interchangeable; contexts and routes have no *)
(* symmetry declared.                                                      *)
Symmetry == Permutations(Requests) \union Permutations(Switchers)

=============================================================================
