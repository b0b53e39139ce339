\* A switch against two requests for the capabilities, over several lifetimes of an entry and of capCache.
\* One context is enough: what the bounds tell apart is the clients, and a switch to it builds new ones.
SPECIFICATION Spec
CONSTANTS
  Contexts = {a}
  UnknownNames = {empty}
  Switchers = {s1}
  InCluster = FALSE
  NoContext = none
  Requests = {r1, r2}
  Routes = {capabilities}
  CapRoutes = {capabilities}
  RefreshFlags = {FALSE}
  RouteTTL = 1
  TTL <- TTLs
  CapTTL = 1
  MaxHandler = 1
  MaxTime = 5
SYMMETRY Symmetry
INVARIANTS
  IndInv
PROPERTIES
  ReadsThrough
  OldClusterWindow
  PurgeTakesOnlyExpired
