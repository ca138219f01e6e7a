SPECIFICATION Spec
CONSTANTS
  s1 = s1
  s2 = s2
  s3 = s3
  Ids = {s1, s2, s3}
  UdpFlows = {"web", "dns"}
  DnsFlows = {"dns"}
  Pings = {"ping"}
  EchoIds = {1}
  MaxSessions = 2
  UdpTimeout = 2
  DnsTimeout = 1
  IcmpTimeout = 1
  KeepTimeout = 1
  EpollTimeout = 4
  MaxAge = 4
  MaxInbox = 1
  Faults = {"err"}
SYMMETRY Addresses
INVARIANTS
  TypeOK
  EventsHaveSessions
  SocketsAccounted
  OneSessionPerFlow
  ActiveIsWatched
  IdleClosedInTime
CHECK_DEADLOCK FALSE
