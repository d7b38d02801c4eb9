SPECIFICATION Spec
CONSTANTS
  c1 = c1
  c2 = c2
  None = None
  Listings <- MCListings
  Bands <- MCBands
  Calls = {c1, c2}
  Readings <- MCReadings
  Prices <- MCPrices
  MaxSession = 1
  MaxTime = 1
  MaxRestarts = 1
SYMMETRY Interchangeable
VIEW WithoutPastCards
INVARIANTS
  DeploymentIsTheCeiling
PROPERTIES
  GatedInAWindow
  MovesAreBounded
CHECK_DEADLOCK FALSE
