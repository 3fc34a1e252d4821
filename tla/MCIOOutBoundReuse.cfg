CONSTANTS
    c1 = c1
    c2 = c2
    c3 = c3
    Clients <- MCClients
    NoClient = NoClient
    MaxConnects = 3

SPECIFICATION Spec

INVARIANTS
    EstablishedNotPooled
