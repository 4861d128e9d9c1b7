SPECIFICATION Spec
CONSTANTS
  StreamChannels = {1, 2}
  Recoveries = {TRUE}
  Uses <- MCUses
  Packets <- MCPackets
  Fresh = Fresh
  Other = Other
INVARIANT SilkFreshAfterCelt
