SPECIFICATION FramingSpec
CONSTANTS
  Junk = Junk
  NoPacket = NoPacket
  Settings <- MCSettings
  Layouts <- Surrounds
  Payloads <- MCPayloads
  Toc <- MCToc
INVARIANT EachStreamPlayed
