SPECIFICATION Spec
CONSTANTS
    Null = Null
    a1 = a1
    a2 = a2
    s1 = s1
    t1 = t1
    t2 = t2
    AsyncConns = {a1}
    SynchConns = {}
    Txs = {t1}
    Size <- MCSize
    LoopBreaker = 2
    Attempts = 2
    MaxDeadlocks = 0
    MaxRefusals = 0
    MaxLosses = 1
    MaxIgnored = 0
INVARIANTS
    AllOrNothing
