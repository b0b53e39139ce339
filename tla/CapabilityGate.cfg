\* One detection, one apply and one switch, until the switch is long past.
SPECIFICATION Spec
CONSTANTS
  Contexts = {a, b}
  UnknownNames = {empty}
  Switchers = {s1}
  InCluster = FALSE
  NoContext = none
  Enabled = {a}
  Requests = {r1}
  Applies = {p1}
  CapTTL = 1
  ResponseTTL = 2
  MaxHandler = 1
  MaxTime = 6
INVARIANTS
  IndInv
  CapabilitiesAge
PROPERTIES
  GateHonoured
