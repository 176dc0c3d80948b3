SPECIFICATION Spec
CONSTANTS
    home = home
    office = office
    c1 = c1
    c2 = c2
    c3 = c3
    Machines = {home, office}
    Conns = {c1, c2, c3}
    Owner <- MCOwner
    MaxCommands <- MCMaxCommands
INVARIANTS
    AnswersInOrder
PROPERTIES
    AnsweredOrClosed
    NoStaleReconnect
    
