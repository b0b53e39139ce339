\* After the switch, apply writes to a cluster whose gate is off.
SPECIFICATION Spec
CONSTANTS
  Contexts = {a, b}
  UnknownNames = {empty}
  Switchers = {s1}
  InCluster = FALSE
  NoContext = none
  Enabled = {a}
  Requests = {r1}
  Applies = {p1}
  CapTTL = 1
  ResponseTTL = 2
  MaxHandler = 1
  MaxTime = 3
PROPERTIES
  AppliedWhereEnabled
