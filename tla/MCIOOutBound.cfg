CONSTANTS
    c1 = c1
    c2 = c2
    c3 = c3
    Clients <- MCClients
    NoClient = NoClient
    MaxConnects = 4

SPECIFICATION Spec

INVARIANTS
    TypeOK
    NoClientPooledTwice

PROPERTIES
    PendingResolved
