SPECIFICATION Spec
CONSTANTS
    Null = Null
    a1 = a1
    a2 = a2
    s1 = s1
    t1 = t1
    t2 = t2
    AsyncConns = {a1, a2}
    SynchConns = {s1}
    Txs = {t1, t2}
    Size <- MCSize
    LoopBreaker = 2
    Attempts = 2
    MaxDeadlocks = 2
    MaxRefusals = 1
    MaxLosses = 1
    MaxIgnored = 1
INVARIANTS
    AtomicWhileConnected
    HonestOutcome
    SessionClean
PROPERTIES
    TaskEnds
