SPECIFICATION LinkSpec
CONSTANTS
  StreamChannels = {1}
  Recoveries = {FALSE}
  Uses <- MCUses
  Packets <- MCPackets
  Channels = 1
  Inputs <- MCInputs
  Losses = {FALSE}
  Fits = {TRUE}
  Empties = {FALSE}
  Fresh = Fresh
  Other = Other
INVARIANT SilkInSync
