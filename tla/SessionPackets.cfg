SPECIFICATION Spec
CONSTANTS
    MaxPackets = 4
    MaxProcessed = 2
INVARIANTS
    NothingLost
    HandledInOrder
PROPERTIES
    ProcessedUnlessStarved
