SPECIFICATION Spec
CONSTANTS
    Null = Null
    w1 = w1
    w2 = w2
    o1 = o1
    o2 = o2
    o3 = o3
    Workers = {w1}
    Ops = {o1}
    MaxOpenFailures = 0
INVARIANTS
    SavedBeforeClose
