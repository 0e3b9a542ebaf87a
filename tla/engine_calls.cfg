CONSTANTS
  Conns = {c1}
  Handles = {h1,h2}
  NoHandle = NoHandle
  NoConn = NoConn
  MaxConnects = 2
  MaxSends = 1
  Chunks = 2
  MaxFragments = 1
  CorruptStreams = TRUE
  HardClose = TRUE
  WakeupMayFail = TRUE
SPECIFICATION Spec
INVARIANT TypeOK WorkerOwnership CloseIsQuiescent ReportsInOrder LeavesOnRequest
PROPERTY DeferredHalfCloseIsLast
SYMMETRY ConnSymmetry
VIEW OfFirstAttempts
