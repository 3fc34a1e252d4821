CONSTANTS
    MaxConn = 3
    MaxConnects = 5

SPECIFICATION Spec

INVARIANTS
    TypeOK

PROPERTIES
    NoLeakedSlot
