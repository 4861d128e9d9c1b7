SPECIFICATION Spec
CONSTANTS
  SymBits = 2
  CodeBits = 8
  Ops <- MCOps
  Icdf <- MCIcdf
  Sizes = {4, 6, 8}
  MaxPuts = 3
  MaxShrinks = 1
CHECK_DEADLOCK FALSE
INVARIANT RoundTrip
