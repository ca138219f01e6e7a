SPECIFICATION FairSpec
CONSTANTS
  SeqSpace = 64
  Ports = {"other"}
  RemoteStart = 13
  LocalStart = 60
  Segments <- SinglesAndPair
  SynData = {0}
  MaxSegment = 2
  Windows = {1}
  MaxDown = 0
  Mss = 2
  BufferHalf = 3
  ScaleUnit = 1
  WindowField = 10
  Request = 2
  UrlPrefix = 1
  InitTimeout = 1
  IdleTimeout = 2
  CloseTimeout = 1
  KeepTimeout = 1
  MaxSessions = 10
  SessionCounts = {1, 10}
  Faults = {"partial", "tun", "resend", "open"}
PROPERTIES
  HeadForwarded
  KeepsPromise
CHECK_DEADLOCK FALSE
