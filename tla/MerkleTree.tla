----------------------------- MODULE MerkleTree -----------------------------
(***************************************************************************)
(* The stored tree of one log, one leaf at a time: Store.append_leaf over  *)
(* the log_nodes table.  `leaves' is the ghost the table commits to; the   *)
(* properties compare everything computed from `nodes' with the reference  *)
(* definition of RFC 9162 over `leaves'.                                   *)
(***************************************************************************)
EXTENDS Merkle

CONSTANTS
    Data,        \* the label documents a leaf can hold
    MaxLeaves,   \* bound: leaves appended
    MaxForged,   \* bound: elements of a made-up proof
    ForgedSize,  \* bound: leaves of the trees proofs are made up for
    TileHeight   \* TILE_HEIGHT

ASSUME MerkleTreeAssumption == {MaxLeaves, MaxForged, ForgedSize} \subseteq Nat /\ TileHeight \in Nat \ {0}

VARIABLES leaves, nodes

tree == <<leaves, nodes>>

\* Store.log_size: one more than the largest index stored at level 0.
LogSize(stored) == Max({-1} \union {k[2] : k \in {key \in DOMAIN stored : key[1] = 0}}) + 1

TreeInit == leaves = <<>> /\ nodes = [key \in {} |-> EmptyRoot]

AppendLeaf(data) ==
    LET new == AppendedNodes(LogSize(nodes), LeafHash(data), nodes)
    IN  /\ Len(leaves) < MaxLeaves
        /\ leaves' = Append(leaves, data)
        /\ nodes' = [key \in DOMAIN nodes \union {<<t[1], t[2]>> : t \in new} |->
                        IF key \in DOMAIN nodes THEN nodes[key]
                        ELSE (CHOOSE t \in new : <<t[1], t[2]>> = key)[3]]

Appending == \E data \in Data : AppendLeaf(data)

TreeSpec == TreeInit /\ [][Appending]_tree

-----------------------------------------------------------------------------
(***************************************************************************)
(* The tiles of the log (tiles.py): `count' nodes of one stored level, and *)
(* bundles of entries checked against the leaves.                          *)
(***************************************************************************)
TileWidth == Pow2[TileHeight]

\* Mutant: a partial node at the right edge counts.
AvailableRoundedUp(level, index, count) ==
    index * TileWidth + count <= (LogSize(nodes) + Pow2[TileHeight * level] - 1) \div Pow2[TileHeight * level]

Available(level, index, count) ==
    index * TileWidth + count <= LogSize(nodes) \div Pow2[TileHeight * level]

\* Refused when a node is missing: the database is not the log's.
HashTile(level, index, count) ==
    LET stored(i) == <<TileHeight * level, index * TileWidth + i - 1>>
    IN  IF \A i \in 1..count : stored(i) \in DOMAIN nodes
        THEN [i \in 1..count |-> nodes[stored(i)]] ELSE <<"integrity">>

EntryBundle(index, count) ==
    LET entries == SubSeq(leaves, index * TileWidth + 1, index * TileWidth + count)
    IN  IF \A i \in 1..count : nodes[<<0, index * TileWidth + i - 1>>] = LeafHash(entries[i])
        THEN entries ELSE <<"integrity">>

\* audit, with the head kept from the run before and a proof between the two.
AuditPasses(kept, head, proof) ==
    CASE head.size < kept.size -> FALSE
      [] head.size = kept.size -> head.root = kept.root
      [] head.size > kept.size -> VerifyConsistency(kept.size, head.size, proof, kept.root, head.root)

-----------------------------------------------------------------------------
(* RFC 9162 section 2.1.1, by definition: the reference.                    *)
Roots(hashes) ==
    LET root[n \in Nat] == [start \in Nat |->
            LET k == CHOOSE p \in 1..n - 1 : IsPowerOfTwo(p) /\ 2 * p >= n
            IN  IF n = 0 THEN EmptyRoot
                ELSE IF n = 1 THEN hashes[start + 1]
                ELSE NodeHash(root[k][start], root[n - k][start + k])]
    IN  root

MTH(d) == Roots([i \in DOMAIN d |-> LeafHash(d[i])])[Len(d)][0]

Size == Len(leaves)

PrefixRoot(n) == MTH(SubSeq(leaves, 1, n))

\* Only complete subtrees are stored, each at the position it covers.
TreeType ==
    /\ leaves \in BoundedSeq(Data, MaxLeaves)
    /\ DOMAIN nodes = {key \in (0..MaxLeaves) \X (0..MaxLeaves) : (key[2] + 1) * Pow2[key[1]] <= Size}

(***************************************************************************)
(* Every head the log ever signed stays servable: the root of each earlier *)
(* size, computed from the stored subtrees and the right spine, is the RFC *)
(* root of that prefix (merkle.py:9-11, tree_root and Logbook.root_at).    *)
(***************************************************************************)
RootsMatchReference == \A n \in 0..Size : TreeRoot(n, nodes) = PrefixRoot(n)

(***************************************************************************)
(* c2sp.org/tlog-tiles: a tile is served exactly when the log has all the  *)
(* leaves under it, its hashes are the roots of the subtrees it names, and *)
(* a bundle holds the entries of its leaves.                               *)
(***************************************************************************)
TilesMatchReference ==
    \A level \in 0..2, index \in 0..MaxLeaves, count \in 1..TileWidth :
        LET width == Pow2[TileHeight * level]
            first == index * TileWidth
        IN  /\ Available(level, index, count) <=> (first + count) * width <= Size
            /\ Available(level, index, count) =>
                  /\ HashTile(level, index, count) =
                        [i \in 1..count |-> MTH(SubSeq(leaves, (first + i - 1) * width + 1, (first + i) * width))]
                  /\ level = 0 => EntryBundle(index, count) = SubSeq(leaves, first + 1, first + count)

HeadOf(d) == [size |-> Len(d), root |-> MTH(d)]
Prefix(n) == SubSeq(leaves, 1, n)

(***************************************************************************)
(* Every proof the log hands out is accepted by the verifier a stranger    *)
(* runs: an auditor who kept any earlier head accepts any later one, and   *)
(* every label is in every tree that holds it (/log/proof endpoints).      *)
(***************************************************************************)
ProofsVerify ==
    \A n \in 1..Size :
        /\ \A i \in 0..(n - 1) :
              VerifyInclusion(LeafHash(leaves[i + 1]), i, n, InclusionProof(i, n, nodes), PrefixRoot(n))
        /\ \A m \in 1..n :
              AuditPasses(HeadOf(Prefix(m)), HeadOf(Prefix(n)), ConsistencyProof(m, n, nodes))

\* Every hash somebody who knows the tree of d could put into a proof.
HashesOf(d) == {MTH(SubSeq(d, i, j)) : i \in 1..Len(d), j \in 1..Len(d)} \ {EmptyRoot}

Forged(pool) == BoundedSeq(pool, MaxForged)

(***************************************************************************)
(* An accepted inclusion proof binds the leaf: whatever hashes a proof is  *)
(* made of, no other document verifies at that index under that root.      *)
(***************************************************************************)
InclusionBinds ==
    Size <= ForgedSize => \A data \in Data, i \in 0..(Size - 1) :
        data # leaves[i + 1] =>
            \A proof \in Forged(HashesOf(leaves) \union {LeafHash(d) : d \in Data}) :
                ~ VerifyInclusion(LeafHash(data), i, Size, proof, PrefixRoot(Size))

(***************************************************************************)
(* An auditor who kept the head of another history, of any size, fails the *)
(* log (logbook.py:3-6: nothing was removed or rewritten), whatever hashes *)
(* of the two trees the proof it is shown is made of.                      *)
(***************************************************************************)
ConsistencyBinds ==
    Size <= ForgedSize =>
        LET now == HeadOf(leaves)
            mine == HashesOf(leaves)
        IN  /\ \A m \in 1..Size : \A rival \in [1..m -> Data] : rival # Prefix(m) =>
                  LET kept == HeadOf(rival)
                      pool == mine \union HashesOf(rival)
                  IN  \A proof \in Forged(pool) : ~ AuditPasses(kept, now, proof)
            /\ \A data \in Data : ~ AuditPasses(HeadOf(Append(leaves, data)), now, <<>>)

\* What verifies is what is so, and all of it.
ProofsAreSound == ProofsVerify /\ InclusionBinds /\ ConsistencyBinds

\* What is stored is the tree of RFC 9162.
StoredTreeIsTheTree == TreeType /\ RootsMatchReference /\ TilesMatchReference
=============================================================================
