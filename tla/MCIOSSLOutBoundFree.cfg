CONSTANTS
    MaxConn = 2
    MaxConnects = 4

SPECIFICATION Spec

INVARIANTS
    NoUseAfterFree
