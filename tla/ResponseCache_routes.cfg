\* One reader of a plain route and of the capabilities, a purge that runs for ever, and a switch.
SPECIFICATION FairSpec
CONSTANTS
  Contexts = {a}
  UnknownNames = {empty}
  Switchers = {s1}
  InCluster = FALSE
  NoContext = none
  Requests = {r1}
  Routes = {rgds, capabilities}
  CapRoutes = {capabilities}
  RefreshFlags = {FALSE}
  RouteTTL = 1
  TTL <- TTLs
  CapTTL = 1
  MaxHandler = 1
  MaxTime = 3
PROPERTIES
  OldClusterWindow
  ExpiredGoesAway
