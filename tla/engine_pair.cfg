CONSTANTS
  Conns = {c1,c2}
  Handles = {h1}
  NoHandle = NoHandle
  NoConn = NoConn
  MaxConnects = 1
  MaxSends = 0
  Chunks = 1
  MaxFragments = 1
  CorruptStreams = TRUE
  HardClose = TRUE
  WakeupMayFail = FALSE
SPECIFICATION Spec
INVARIANT OwnSocketOnly
SYMMETRY ConnSymmetry
VIEW Undelivered
