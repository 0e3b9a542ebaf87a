CONSTANTS
  ByteBase = 4
  OneByteLimit = 2
  MaxBody = 3
  MaxFragment = 3
  MaxBytes = 3
  None = None
SPECIFICATION Spec
INVARIANT CursorInItsFragment
CHECK_DEADLOCK FALSE
