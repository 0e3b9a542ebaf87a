CONSTANTS
  Conns = {c1}
  Handles = {h1}
  NoHandle = NoHandle
  NoConn = NoConn
  MaxConnects = 1
  MaxSends = 1
  Chunks = 1
  MaxFragments = 1
  CorruptStreams = TRUE
  HardClose = FALSE
  WakeupMayFail = FALSE
SPECIFICATION FairSpec

PROPERTY ConnectIsReported PeerCloseIsReported SendsAreWritten DestructorEnds
