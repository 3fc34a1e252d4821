CONSTANTS
    t1 = t1
    t2 = t2
    Null = Null
    Txs = {t1, t2}
    NullHash = Null
    MaxTx = 6
    ProofLens = {1, 252, 253, 65535, 65536}
    MintSize = 100

SPECIFICATION Spec

INVARIANTS
    TypeOK
    MerkleMatchesReference
