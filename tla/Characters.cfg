SPECIFICATION Spec
CONSTANTS
    Null = Null
    accA = accA
    accB = accB
    accC = accC
    a1 = a1
    a2 = a2
    b1 = b1
    c1 = c1
    x = x
    y = y
    Sessions = {a1, a2}
    Accounts = {accA}
    Account <- MCAccount
    Characters <- MCCharacters
    Limit = 0
    Skippers = {}
    Tolerance = TRUE
    RealmLogin = {TRUE}
    MaxLogins = 1
    Times = {}
    SaveTime = 2
    Elapsed = {0}
INVARIANTS
    SessionsAccounted
    OneCharacter
    OneOnlineCharacter
    AllLoggedOut
PROPERTIES
    OfflineEnds
