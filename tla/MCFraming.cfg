SPECIFICATION FramingSpec
CONSTANTS
  Junk = Junk
  NoPacket = NoPacket
  Settings <- MCSettings
  Layouts <- Surrounds
  Payloads <- MCPayloads
  Toc <- MCToc
INVARIANT WritersExact
INVARIANT PacketsCutAlike
INVARIANT StreamsFound
INVARIANT ChannelsInPlace
PROPERTY RepadExact
CHECK_DEADLOCK FALSE
