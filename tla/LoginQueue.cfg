SPECIFICATION Spec
CONSTANTS
    Null = Null
    accA = accA
    accB = accB
    accC = accC
    a1 = a1
    a2 = a2
    b1 = b1
    c1 = c1
    x = x
    y = y
    Sessions = {a1, a2, b1, c1}
    Accounts = {accA, accB, accC}
    Account <- MCAccount
    Characters <- NoCharacters
    Limit = 1
    Skippers = {}
    Tolerance = FALSE
    RealmLogin = {TRUE, FALSE}
    MaxLogins = 1
    Times = {0, 1}
    SaveTime = 2
    Elapsed = {0, 1, 2}
INVARIANTS
    QueueIsOnline
    NoVainWait
    WithinLimit
    ToldPosition
    AdmittedIsAnswered
    ShutdownNotLost
