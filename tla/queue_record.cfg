CONSTANTS
  Pairs = {p1, p2}
  NoPair = NoPair
  Dead = Dead
  BlockPairs = 3
  MinSlots = 8
  MaxLength = 8
SPECIFICATION Spec
INVARIANT TypeOK SlotsAreBounded
PROPERTY IsFifo
