\* Two callers against two overlapping switches.
SPECIFICATION Spec
CONSTANTS
  Contexts = {a, b}
  UnknownNames = {empty}
  Switchers = {s1, s2}
  InCluster = FALSE
  NoContext = none
  Callers = {d1, d2}
  DiscoveryTTL = 1
  MaxCall = 1
  MaxTime = 3
SYMMETRY Symmetry
INVARIANTS
  IndInv
  NothingFromBeforeSwap
  OldDiscoveryWindow
