\* Two polls against one switch and a pod that is replaced twice.
SPECIFICATION Spec
CONSTANTS
  Contexts = {a, b}
  UnknownNames = {empty}
  Switchers = {s1}
  InCluster = FALSE
  NoContext = none
  Polls = {p1, p2}
  MaxRestarts = 2
SYMMETRY Symmetry
INVARIANTS
  IndInv
  RefsFromThisSwitch
PROPERTIES
  HealedByOneRetry
