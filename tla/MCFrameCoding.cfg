SPECIFICATION CodingSpec
CONSTANTS
  SymBits = 2
  CodeBits = 8
  Ops <- MCOps
  Icdf <- MCIcdf
  Sizes = {4, 6, 8}
  MaxPuts = 3
  MaxShrinks = 1
  Clips <- MCClips
  Talks <- MCTalks
INVARIANT RoundTripUnlessBuried
INVARIANT InStep
INVARIANT PacketsSound
INVARIANT SymbolsMirror
INVARIANT EnergyInStep
INVARIANT PitchFiltersPaired
INVARIANT SilkMirrors
INVARIANT QuantisersInStep
PROPERTY SizeSpares
PROPERTY ConcealmentFades
CHECK_DEADLOCK FALSE
