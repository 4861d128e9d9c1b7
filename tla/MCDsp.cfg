SPECIFICATION Spec
CONSTANTS
  P = 15361
  G = 7
  BaseN = 1920
  Overlap = 120
  Transforms <- MCTransforms
  Calls <- MCCalls
  Filters <- MCFilters
  Sweeps <- MCSweeps
  Cosine = 2901
  Sine = 9807
  Bands <- MCBands
  Books <- MCBooks
  Frames <- MCFrames
  Jobs <- MCJobs
  Durations <- MCDurations
  Sounds <- MCSounds
  Horizon = 840
INVARIANT TransformsExact
INVARIANT LoopsExact
INVARIANT FiltersExact
INVARIANT RecursionsExact
INVARIANT PulsesExact
INVARIANT AllocationMirrors
INVARIANT AnalysisInStep
PROPERTY BurgIsLattice
CHECK_DEADLOCK FALSE
