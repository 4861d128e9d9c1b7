SPECIFICATION CodecSpec
CONSTANTS
  StreamChannels = {1, 2}
  Recoveries = {TRUE, FALSE}
  Uses <- MCUses
  Packets <- MCPackets
  Channels = 1
  Inputs <- MCInputs
  Losses = {TRUE, FALSE}
  Fits = {TRUE}
  Empties = {TRUE, FALSE}
  Fresh = Fresh
  Other = Other
INVARIANT SilkFreshWithoutFec
INVARIANT ResamplersMatch
INVARIANT CeltInSync
PROPERTY SwitchSmoothed
PROPERTY CeltHandedOver
PROPERTY Resyncs
PROPERTY FadesOnce
PROPERTY SilkStraysAfterCelt
