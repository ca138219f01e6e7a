SPECIFICATION Spec
CONSTANTS
  ByteSize = 4
  DefaultMss = 9960
  Bits = 4
  Tokens <- MCTokens
  Requests <- MCRequests
  Hellos <- MCHellos
  Texts <- MCTexts
  OptionLists <- MCOptionLists
  IpPackets <- MCIpPackets
  DnsMessages <- MCDnsMessages
  Ranges <- MCRanges
INVARIANTS
  RequestRewritten
  ServerNameFound
  ChecksumVerifies
  OptionsUnderstood
  HandlerFitsPacket
  NamesRead
  RangeCovered
CHECK_DEADLOCK FALSE
