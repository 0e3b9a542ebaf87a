SPECIFICATION FairSpec
CONSTANTS
    KeyIds = {0, 1, 2}
    MaxLogins = 3
    MaxSeeds = 5
    MaxFaults = 3
    None = None
INVARIANTS HandshakeTypeOK AnswersFit KeysFitTheCopy PacketsAreReadable NullOnlyAfterRefusal
PROPERTIES EveryWaitEnds
CHECK_DEADLOCK FALSE
