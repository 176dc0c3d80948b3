SPECIFICATION Spec
CONSTANTS
    Null = Null
    LFG = LFG
    w1 = w1
    w2 = w2
    world = world
    dungeon = dungeon
    i1 = i1
    i2 = i2
    Workers = {w1, w2}
    BaseMaps = {world, dungeon}
    InstanceMaps = {i1, i2}
    Parent <- MCParent
INVARIANTS
    PendingExact
    SerialExclusion
    NoDanglingRequest
    UpdatedOncePerTick
PROPERTIES
    TickEnds
    DeactivateEnds
    RefinesBarrier
