----------------------------- MODULE Published -----------------------------
(***************************************************************************)
(* What a stranger can check or download: proofs and tiles of the log's    *)
(* tree (MerkleTree), the receipts log (Receipts) and the dataset          *)
(* (Dataset).  The three have tables, heads and locks of their own, so a   *)
(* behaviour is of one of them.                                            *)
(***************************************************************************)
EXTENDS MerkleTree, Receipts, Dataset

VARIABLE part

published == <<tree, receipts, dataset, part>>

PublishedInit == TreeInit /\ ReceiptsInit /\ DatasetInit /\ part \in {"tree", "receipts", "dataset"}

PublishedNext ==
    \/ part = "tree" /\ Appending /\ UNCHANGED <<receipts, dataset, part>>
    \/ part = "receipts" /\ Anchoring /\ UNCHANGED <<tree, dataset, part>>
    \/ part = "dataset" /\ Exporting /\ UNCHANGED <<tree, receipts, part>>

PublishedSpec == PublishedInit /\ [][PublishedNext]_published

Symmetry ==
    Permutations(Requests) \cup Permutations(Issuers) \cup Permutations(Digests) \cup Permutations(ToolSets)

=============================================================================
