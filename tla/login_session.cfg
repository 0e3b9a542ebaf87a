SPECIFICATION FlowSpec
CONSTANTS
    Links = {1, 2, 3}
    AuthAddresses = 2
    Worlds = {w1, w2}
    Addresses <- MCAddresses
    Characters = {c1, c2, c3}
    WorldOf <- MCWorldOf
    Account = {c1}
    Open <- MCOpen
    Playable <- MCPlayable
    MaxSlots = 2
    MaxSections = 4
    MaxChunks = 2
    ListRoom = 3
    MaxCalls = 3
    MaxFaults = 3
    MaxActs = 4
    None = None
    w1 = w1
    w2 = w2
    c1 = c1
    c2 = c2
    c3 = c3
INVARIANTS FlowTypeOK EveryCharacterIsListed OutcomesAreAsked ProfileIsWhole RequestsNeedASession
PROPERTIES OnlyTheWishIsSent RemovedRowsAreDeleted EveryRequestIsAnswered
CHECK_DEADLOCK FALSE
