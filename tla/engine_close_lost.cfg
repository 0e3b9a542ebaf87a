CONSTANTS
  Conns = {c1}
  Handles = {h1}
  NoHandle = NoHandle
  NoConn = NoConn
  MaxConnects = 1
  MaxSends = 1
  Chunks = 2
  MaxFragments = 0
  CorruptStreams = FALSE
  HardClose = FALSE
  WakeupMayFail = FALSE
SPECIFICATION Spec
PROPERTY GracefulCloseSendsAll
