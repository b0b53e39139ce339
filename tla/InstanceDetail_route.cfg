\* Another instance is shown on a route.
SPECIFICATION Spec
CONSTANTS
  i1 = i1
  i2 = i2
  g1 = g1
  g2 = g2
  Routes = {i1, i2}
  NoRoute = none
  MaxInFlight = 2
  RGDs = {g1, g2}
  RgdOf <- OwnRGDs
  NoRGD = none
  MaxSide = 1
INVARIANTS
  ShowsItsRoute
