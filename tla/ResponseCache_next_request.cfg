\* A request that begins after the switch is answered from the old cluster.
SPECIFICATION Spec
CONSTANTS
  Contexts = {a, b}
  UnknownNames = {empty}
  Switchers = {s1}
  InCluster = FALSE
  NoContext = none
  Requests = {r1, r2}
  Routes = {rgds}
  CapRoutes = {}
  RefreshFlags = {FALSE}
  RouteTTL = 1
  TTL <- TTLs
  CapTTL = 1
  MaxHandler = 1
  MaxTime = 1
SYMMETRY Symmetry
PROPERTIES
  NextRequestHitsNewCluster
