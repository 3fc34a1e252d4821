CONSTANTS
    c1 = c1
    c2 = c2
    c3 = c3
    c4 = c4
    Clients <- MCClients
    NoClient = NoClient
    MaxConnection = 3
    HostEndpoint = HostEndpoint
    MaxNonces = 5
    Remotes <- MCRemotes
    AllowMasks <- MCAllowMasks

SPECIFICATION Spec

INVARIANTS
    TypeOK
    AcceptorHasClient
    PoolAccounting
    AdmittedOnlyAllowed

PROPERTIES
    HttpSessionsRefined
