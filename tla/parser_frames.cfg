CONSTANTS
  ByteBase = 4
  OneByteLimit = 2
  MaxBody = 3
  MaxFragment = 4
  MaxBytes = 5
  None = None
SPECIFICATION Spec
INVARIANT TypeOK PacketsAreFramed NothingHeldBack RefsMatchHolders NoUnusedBuffers
CHECK_DEADLOCK FALSE
