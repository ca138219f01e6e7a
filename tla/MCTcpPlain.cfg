SPECIFICATION Spec
CONSTANTS
  SeqSpace = 64
  Ports = {"other", "http"}
  RemoteStart = 13
  LocalStart = 60
  Segments <- SinglesAndPair
  SynData = {0}
  MaxSegment = 2
  Windows = {1, 2}
  MaxDown = 2
  Mss = 2
  BufferHalf = 4
  ScaleUnit = 1
  WindowField = 10
  Request = 2
  UrlPrefix = 1
  InitTimeout = 0
  IdleTimeout = 0
  CloseTimeout = 0
  KeepTimeout = 0
  MaxSessions = 10
  SessionCounts = {1}
  Faults = {"reset", "tun", "epoll", "open", "resend", "loss"}
INVARIANTS
  TypeOK
  SocketMatchesState
  UpstreamInOrder
  AckedReachesUpstream
  NeverAcksUnsent
  WithinWindow
  QueueInOrder
  NothingStranded
  EventsKnown
PROPERTY
  ClosingIsFinal
CHECK_DEADLOCK FALSE
