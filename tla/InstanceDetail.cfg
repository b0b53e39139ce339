\* Two routes of two RGDs, two polls in flight per route.
SPECIFICATION FairSpec
CONSTANTS
  i1 = i1
  i2 = i2
  g1 = g1
  g2 = g2
  Routes = {i1, i2}
  NoRoute = none
  MaxInFlight = 2
  RGDs = {g1, g2}
  RgdOf <- OwnRGDs
  NoRGD = none
  MaxSide = 1
INVARIANTS
  PollingInv
  LoadingHasFetch
PROPERTIES
  OnlyNavigationUnsettles
  SettlesOnRoute
  NotFoundIsTold
