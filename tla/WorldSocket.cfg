SPECIFICATION Spec
CONSTANTS
    Net = Net
    Map1 = Map1
    Map2 = Map2
    Producers <- MCProducers
    Consumer = Net
    Elements <- MCElements
    Dummy = Dummy
    None = None
    MaxPackets = 3
    MaxInput = 3
INVARIANTS
    SentInOrder
    NoUseAfterFree
    SessionNotDangling
    ConnectionWatched
PROPERTIES
    RejectionEnds
