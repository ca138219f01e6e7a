SPECIFICATION TimedSpec
CONSTANTS
  SeqSpace = 64
  Ports = {"other", "https"}
  RemoteStart = 13
  LocalStart = 60
  Segments <- OneByte
  SynData = {0}
  MaxSegment = 2
  Windows = {1}
  MaxDown = 2
  Mss = 2
  BufferHalf = 3
  ScaleUnit = 1
  WindowField = 10
  Request = 2
  UrlPrefix = 1
  InitTimeout = 0
  IdleTimeout = 0
  CloseTimeout = 0
  KeepTimeout = 0
  MaxSessions = 10
  SessionCounts = {1}
  Faults = {"reset", "resend", "tun"}
PROPERTIES
  SilentSessionFreed
  KeepsPromise
CHECK_DEADLOCK FALSE
