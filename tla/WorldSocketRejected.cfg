SPECIFICATION Spec
CONSTANTS
    Net = Net
    Map1 = Map1
    Map2 = Map2
    Producers = {Net}
    Consumer = Net
    Elements <- MCElements
    Dummy = Dummy
    None = None
    MaxPackets = 3
    MaxInput = 1
PROPERTIES
    RejectedIsTold
