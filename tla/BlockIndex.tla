----------------------------- MODULE BlockIndex -----------------------------
(***************************************************************************)
(* The chain index of src/common/block.h: a CBlockIndex per accepted block, *)
(* built by the constructor from the CBlock, then linked to its            *)
(* predecessor.  The linking (pPrev, nHeight, nChainTrust, pOrigin) is     *)
(* done by the world-line code, which is not in src/; it follows spec      *)
(* section 4.5, with a node that has no predecessor keeping the            *)
(* constructor's zero trust (the example of spec section 8: 0, 1, 2).      *)
(* Nodes are numbered in creation order and a node's number stands for its *)
(* block hash; 0 stands for a null pointer and for hash 0.                 *)
(***************************************************************************)
EXTENDS Naturals, Sequences

CONSTANTS
    MaxBlocks   \* bound: number of blocks indexed

\* CBlock's type enumeration
BLOCK_GENESIS    == 65535
BLOCK_ORIGIN     == 65280
BLOCK_PRIMARY    == 1
BLOCK_SUBSIDIARY == 2
BLOCK_EXTENDED   == 4

\* the mint transaction types CTransaction::TX_WORK and TX_STAKE
MintTypes == {"work", "stake"}

\* the fields of a CBlock the index reads: nType, txMint.nType, and whether
\* vchProof is non-empty
Blocks(types) == [type : types, mint : MintTypes, proof : BOOLEAN]

VARIABLE index   \* node number -> CBlockIndex fields

\* CBlock::IsProofOfWork and CBlock::GetBlockTrust
BlockIsProofOfWork(blk) == blk.mint = "work"

\* Mutation of GetBlockTrust: a proof-of-work block with a proof counted as 0
GetBlockTrustNoWork(blk) == IF ~blk.proof THEN 1 ELSE 0

GetBlockTrust(blk) ==
    IF ~blk.proof THEN 1
    ELSE IF BlockIsProofOfWork(blk) THEN 1
    ELSE 0

\* Mutation of IsOrigin: the primary bit read instead of the high bit
IsOriginLowBit(node) == node.type % 2 = 1

\* CBlockIndex::IsOrigin: nType >> 15 of a uint16
IsOrigin(node) == node.type \div 32768 # 0

\* Mutation of the CBlockIndex constructor: pOrigin left null
NewIndexNullOrigin(id, blk) ==
    [type |-> blk.type, mint |-> blk.mint, proof |-> blk.proof,
     prev |-> 0, origin |-> 0, height |-> 0, trust |-> 0]

\* CBlockIndex(block, nFile, nOffset): fields copied from the block, pOrigin
\* this, pPrev null, height and trust 0
NewIndex(id, blk) ==
    [type |-> blk.type, mint |-> blk.mint, proof |-> blk.proof,
     prev |-> 0, origin |-> id, height |-> 0, trust |-> 0]

\* the world-line's linking of node id (built from blk) after node p
LinkIndex(id, p, blk) ==
    LET node == NewIndex(id, blk) IN
    [node EXCEPT !.prev   = p,
                 !.height = index[p].height + 1,
                 !.trust  = index[p].trust + GetBlockTrust(blk),
                 !.origin = IF IsOrigin(node) THEN id ELSE index[p].origin]

\* GetOriginHash: pOrigin->GetBlockHash()
GetOriginHash(n) == index[n].origin

\* GetParentHash: the origin hash of the chain the node's origin forked from
GetParentHash(n) ==
    LET o == index[n].origin IN
    IF index[o].prev = 0 THEN 0 ELSE GetOriginHash(index[o].prev)

Init == index = <<>>

\* the genesis block, the only node without a predecessor
AddGenesis(blk) ==
    /\ index = <<>>
    /\ index' = <<NewIndex(1, blk)>>

\* a block accepted after node p is indexed and linked
AddBlock(p, blk) ==
    /\ Len(index) < MaxBlocks
    /\ index' = Append(index, LinkIndex(Len(index) + 1, p, blk))

Next ==
    \/ \E blk \in Blocks({BLOCK_GENESIS}) : AddGenesis(blk)
    \/ \E p \in DOMAIN index,
          blk \in Blocks({BLOCK_ORIGIN, BLOCK_PRIMARY, BLOCK_SUBSIDIARY, BLOCK_EXTENDED}) :
          AddBlock(p, blk)

Spec == Init /\ [][Next]_index

Node == [type : {BLOCK_GENESIS, BLOCK_ORIGIN, BLOCK_PRIMARY, BLOCK_SUBSIDIARY, BLOCK_EXTENDED},
         mint : MintTypes, proof : BOOLEAN, prev : 0..MaxBlocks,
         origin : 1..MaxBlocks, height : 0..MaxBlocks, trust : 0..MaxBlocks]

TypeOK == index \in Seq(Node) /\ Len(index) <= MaxBlocks

(***************************************************************************)
(* Reference definitions from the spec, over the path of predecessors.     *)
(***************************************************************************)
\* spec 4.4 trust_contribution
TrustContribution(node) == IF ~node.proof \/ node.mint = "work" THEN 1 ELSE 0

\* the nodes from n back to the genesis block
RECURSIVE PathOf(_)
PathOf(n) == IF index[n].prev = 0 THEN <<n>> ELSE <<n>> \o PathOf(index[n].prev)

\* an origin block is one of type genesis or origin (spec 3)
IsOriginBlock(n) == index[n].type \in {BLOCK_GENESIS, BLOCK_ORIGIN}

\* the nearest origin block on the path from n
RECURSIVE NearestOrigin(_)
NearestOrigin(n) ==
    IF IsOriginBlock(n) \/ index[n].prev = 0 THEN n ELSE NearestOrigin(index[n].prev)

(***************************************************************************)
(* PROPERTIES                                                              *)
(***************************************************************************)

\* The per-link arithmetic of the chain index agrees with the whole path:
\* height is the number of blocks after genesis, and nChainTrust, built from
\* CBlock::GetBlockTrust one link at a time, is the sum of spec 4.4's
\* trust contributions of those blocks (spec 8).
LinkMatchesPath ==
    \A n \in DOMAIN index :
        LET path == PathOf(n) IN
        /\ index[n].height = Len(path) - 1
        /\ index[n].trust =
              LET RECURSIVE SumFrom(_)
                  SumFrom(i) == IF i >= Len(path) THEN 0
                                ELSE TrustContribution(index[path[i]]) + SumFrom(i + 1)
              IN  SumFrom(1)

\* GetOriginHash, read through the pOrigin pointer set at link time, is the
\* hash of the nearest genesis or origin block on the node's path: forked
\* chains are identified by where they started.
OriginIsNearestOriginBlock ==
    \A n \in DOMAIN index : GetOriginHash(n) = NearestOrigin(n)

=============================================================================
