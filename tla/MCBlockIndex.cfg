CONSTANTS
    MaxBlocks = 5

SPECIFICATION Spec

\* the index only grows; every behaviour ends when MaxBlocks blocks are indexed
CHECK_DEADLOCK FALSE

INVARIANTS
    TypeOK
    LinkMatchesPath
    OriginIsNearestOriginBlock
