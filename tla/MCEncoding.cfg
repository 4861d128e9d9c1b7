SPECIFICATION EncodingSpec
CONSTANTS
  Fs = {16000, 48000}
  Layouts = {1, 2}
  Apps = {"voip", "audio"}
  Bitrates = {24000, 56000}
  Halves = {5, 20, 40, 120, 200}
  Warmup = 2
  Kinds <- MCKinds
  Calls <- MCCalls
  N = 4
  Requested = 3
  Cores = 2
  Nothing = Nothing
  NoStream = NoStream
  Requests <- SmallCalls
  Processors = 2
INVARIANT NoDoubleWork
INVARIANT ReturnsAll
INVARIANT OutputComplete
INVARIANT RequestCoded
INVARIANT PausesBounded
INVARIANT CapsKept
PROPERTY Settles
PROPERTY ImplementsBatch
PROPERTY CallsReturn
CHECK_DEADLOCK FALSE
