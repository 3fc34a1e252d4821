------------------------------- MODULE Block -------------------------------
(***************************************************************************)
(* The transaction list of CBlock (src/common/block.h) and the Merkle tree *)
(* built over it.  A hash is abstracted as an injective constructor:       *)
(* CryptoHash(x, y) is the pair <<x, y>>, and a transaction's hash is the   *)
(* transaction itself, so two roots are equal exactly when the trees that  *)
(* produced them are.  NullHash stands for uint256 0.                      *)
(***************************************************************************)
EXTENDS Naturals, Sequences, SequencesExt

CONSTANTS
    Txs,        \* transaction hashes tx.GetHash()
    NullHash,   \* uint256 0
    MaxTx,      \* bound: length of vtx
    ProofLens,  \* the vchProof sizes a block maker may give
    MintSize    \* serialized size of txMint

ASSUME NullHash \notin Txs

VARIABLES
    vtx,       \* CBlock::vtx, as the hashes of its transactions
    nProof     \* vchProof.size()

(***************************************************************************)
(* Serialized sizes (walleve stream, not in src/): a fixed-width field is  *)
(* its sizeof; a vector is a compact-size count (1 byte below 253, then    *)
(* 3 or 5 bytes; the 9-byte form needs 2^32 elements) followed by its     *)
(* elements.                                                               *)
(***************************************************************************)
CompactSizeLen(n) ==
    CASE n < 253    -> 1
      [] n <= 65535 -> 3
      [] OTHER      -> 5

VecSize(n, elemSize) == CompactSizeLen(n) + n * elemSize

\* GetTxSerializedOffset: the sizeof of the fixed header fields plus
\* GetSerializeSize(vchProof)
GetTxSerializedOffset(proofLen) == 2 + 2 + 4 + 32 + 32 + VecSize(proofLen, 1)

CryptoHash(x, y) == <<x, y>>

LesserOf(x, y) == IF x <= y THEN x ELSE y

(***************************************************************************)
(* BuildMerkleTree: vMerkleTree starts as the leaf hashes; each pass of    *)
(* the outer loop appends the next level, pairing entries i and            *)
(* min(i+1, nSize-1) of the current level (starting at j), so an odd last *)
(* entry is paired with itself; j then moves past the level.               *)
(***************************************************************************)
\* Mutation of Levels: the next level size computed as nSize / 2
RECURSIVE LevelsHalved(_, _, _)
LevelsHalved(tree, j, nSize) ==
    IF nSize <= 1 THEN tree
    ELSE LET next  == (nSize + 1) \div 2
             level == [k \in 1..next |->
                          LET i  == 2 * (k - 1)
                              i2 == LesserOf(i + 1, nSize - 1)
                          IN  CryptoHash(tree[j + i + 1], tree[j + i2 + 1])]
         IN  LevelsHalved(tree \o level, j + nSize, nSize \div 2)

RECURSIVE Levels(_, _, _)
Levels(tree, j, nSize) ==
    IF nSize <= 1 THEN tree
    ELSE LET next  == (nSize + 1) \div 2
             level == [k \in 1..next |->
                          LET i  == 2 * (k - 1)
                              i2 == LesserOf(i + 1, nSize - 1)
                          IN  CryptoHash(tree[j + i + 1], tree[j + i2 + 1])]
         IN  Levels(tree \o level, j + nSize, next)

BuildMerkleTree(txs) == Levels(txs, 0, Len(txs))

\* "return (vMerkleTree.empty() ? 0 : vMerkleTree.back())"
CalcMerkleTreeRoot(txs) ==
    LET tree == BuildMerkleTree(txs) IN
    IF tree = <<>> THEN NullHash ELSE Last(tree)

(***************************************************************************)
(* The reference: spec section 4.4's tree, level by level, pairing         *)
(* consecutive hashes and duplicating an odd last one.                     *)
(***************************************************************************)
PairUp(level) ==
    [k \in 1..((Len(level) + 1) \div 2) |->
        CryptoHash(level[2 * k - 1],
                   IF 2 * k <= Len(level) THEN level[2 * k] ELSE level[2 * k - 1])]

RECURSIVE RootOfLevel(_)
RootOfLevel(level) ==
    IF Len(level) = 1 THEN level[1] ELSE RootOfLevel(PairUp(level))

MerkleRoot(txs) == IF txs = <<>> THEN NullHash ELSE RootOfLevel(txs)

(***************************************************************************)
(* The transaction list: callers append transactions to vtx; SetNull      *)
(* clears it.                                                              *)
(***************************************************************************)
Init == vtx = <<>> /\ nProof = 0

AddTx(t) ==
    /\ Len(vtx) < MaxTx
    /\ vtx' = Append(vtx, t)
    /\ UNCHANGED nProof

\* a block maker (not in src/) fills vchProof
SetProof(n) ==
    /\ nProof' = n
    /\ UNCHANGED vtx

\* Mutation of SetNull: the list reset to one null transaction, not emptied
SetNullKeepsMint == vtx' = <<NullHash>> /\ nProof' = 0

\* SetNull: vchProof and vtx cleared (the scalar fields are not modelled)
SetNull == vtx' = <<>> /\ nProof' = 0

Next == (\E t \in Txs : AddTx(t)) \/ (\E n \in ProofLens : SetProof(n)) \/ SetNull

Spec == Init /\ [][Next]_<<vtx, nProof>>

TypeOK == vtx \in BoundedSeq(Txs, MaxTx) /\ nProof \in ProofLens \cup {0}

(***************************************************************************)
(* PROPERTIES                                                              *)
(***************************************************************************)

\* CalcMerkleTreeRoot's flat, index-arithmetic construction computes the
\* root of spec section 4.4 for every transaction list (empty list: null
\* root; odd levels: last hash duplicated).
MerkleMatchesReference == CalcMerkleTreeRoot(vtx) = MerkleRoot(vtx)

=============================================================================
