SPECIFICATION DesktopSpec
SYMMETRY DesktopSymmetry
CONSTANTS
  Closer = {c1, c2}
  MaxPairs = 4
  MaxOpen = 1
INVARIANT HealthyStartOpens
CHECK_DEADLOCK FALSE
