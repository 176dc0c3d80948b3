SPECIFICATION Spec
CONSTANTS
    MaxPackets = 3
    MaxProcessed = 1
PROPERTIES
    LeftoverProcessed
