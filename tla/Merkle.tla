------------------------------- MODULE Merkle -------------------------------
(***************************************************************************)
(* The RFC 9162 tree of histor/merkle.py: roots and proofs computed from   *)
(* the stored complete subtrees, and the verifiers a stranger runs.        *)
(*                                                                         *)
(* A SHA-256 value is the term that was hashed, so two hashes are equal    *)
(* exactly when their inputs are: the collision-free hash every Merkle     *)
(* argument assumes.  The leading tag is the 0x00 / 0x01 prefix.  What the *)
(* code computes for a range by recursion is here a function of the        *)
(* range's width, and then of where it starts.                             *)
(***************************************************************************)
EXTENDS Integers, Sequences, FiniteSetsExt, SequencesExt

EmptyRoot == <<"empty">>

LeafHash(data) == <<"leaf", data>>

NodeHash(left, right) == <<"node", left, right>>

Pow2[e \in Nat] == IF e = 0 THEN 1 ELSE 2 * Pow2[e - 1]

IsPowerOfTwo(n) == \E e \in 0..n : Pow2[e] = n

\* n.bit_length() - 1, of a power of two.
Log2(n) == CHOOSE e \in 0..n : Pow2[e] = n

\* Largest power of two strictly less than n, for n >= 2.
Split(n) == Pow2[Max({e \in 0..n : Pow2[e] < n})]

(***************************************************************************)
(* Every complete-subtree node that the leaf at `index' completes: the     *)
(* climb goes on while the position is a right child, whose left sibling   *)
(* is stored already; that is, to every level whose width divides the new  *)
(* number of leaves.                                                       *)
(***************************************************************************)
Position(level, size) == size \div Pow2[level] - 1

Climb(index, leaf, nodes) ==
    LET current[level \in Nat] ==
            IF level = 0 THEN leaf
            ELSE NodeHash(nodes[<<level - 1, Position(level - 1, index + 1) - 1>>], current[level - 1])
    IN  current

AppendedNodes(index, leaf, nodes) ==
    {<<level, Position(level, index + 1), Climb(index, leaf, nodes)[level]>> :
        level \in {l \in 0..index : (index + 1) % Pow2[l] = 0}}

\* MTH(D[start:end]) read from the stored subtrees.
Stored(n, start) == IsPowerOfTwo(n) /\ start % n = 0

SubtreeRoots(nodes) ==
    LET root[n \in Nat] == [start \in Nat |->
            IF n = 0 THEN EmptyRoot
            ELSE IF Stored(n, start) THEN nodes[<<Log2(n), start \div n>>]
            ELSE NodeHash(root[Split(n)][start], root[n - Split(n)][start + Split(n)])]
    IN  root

SubtreeRoot(start, end, nodes) == SubtreeRoots(nodes)[end - start][start]

TreeRoot(size, nodes) == SubtreeRoot(0, size, nodes)

\* PATH(m, D[start:end]), RFC 9162 section 2.1.3.1, from the roots of ranges; m is relative to start.
InclusionPaths(root) ==
    LET path[n \in Nat] == [m \in Nat |-> [start \in Nat |->
            LET k == Split(n)
            IN  IF n <= 1 THEN <<>>
                ELSE IF m < k
                THEN Append(path[k][m][start], root[n - k][start + k])
                ELSE Append(path[n - k][m - k][start + k], root[k][start])]]
    IN  path

InclusionProof(index, size, nodes) == InclusionPaths(SubtreeRoots(nodes))[size][index][0]

\* SUBPROOF(m, D[start:end], whole), RFC 9162 section 2.1.4.1; m is n at most.
Subproofs(root) ==
    LET proof[n \in Nat] == [m \in Nat \ {0} |-> [start \in Nat |-> [whole \in BOOLEAN |->
            LET k == Split(n)
            IN  IF n <= m THEN (IF whole THEN <<>> ELSE <<root[n][start]>>)
                ELSE IF m <= k
                THEN Append(proof[k][m][start][whole], root[n - k][start + k])
                ELSE Append(proof[n - k][m - k][start + k][FALSE], root[k][start])]]]
    IN  proof

ConsistencyProof(first, second, nodes) == Subproofs(SubtreeRoots(nodes))[second][first][0][TRUE]

-----------------------------------------------------------------------------
(* The verifiers: one run over the proof, with the two bit cursors of the   *)
(* RFC.  A proof element met after sn reached 0 is a refusal.  For an       *)
(* inclusion proof only `sr' matters.                                       *)

\* Both cursors shifted until the first is odd, or 0.
Strip[n \in Nat] == [sn \in Nat |->
    IF n = 0 \/ n % 2 = 1 THEN [fn |-> n, sn |-> sn] ELSE Strip[n \div 2][sn \div 2]]

\* The element stands to the left of what the verifier holds.
FromLeft(s) == s.fn % 2 = 1 \/ s.fn = s.sn

Advance(s, c) ==
    LET at == IF FromLeft(s) THEN Strip[s.fn][s.sn] ELSE s
    IN  [fn |-> at.fn \div 2,
         sn |-> at.sn \div 2,
         fr |-> IF FromLeft(s) THEN NodeHash(c, s.fr) ELSE s.fr,
         sr |-> IF FromLeft(s) THEN NodeHash(c, s.sr) ELSE NodeHash(s.sr, c),
         ok |-> s.ok /\ s.sn # 0]

Run(start, proof) ==
    LET after[i \in Nat] == IF i = 0 THEN start ELSE Advance(after[i - 1], proof[i])
    IN  after

Begin(fn, sn, hash) == [fn |-> fn, sn |-> sn, fr |-> hash, sr |-> hash, ok |-> TRUE]

VerifyInclusion(leaf, index, size, proof, root) ==
    /\ 0 <= index /\ index < size
    /\ LET s == Run(Begin(index, size - 1, leaf), proof)[Len(proof)]
       IN  s.ok /\ s.sn = 0 /\ s.sr = root

\* Mutant: the reconstructed old root is not compared.
AcceptsNewRoot(s, firstRoot, secondRoot) == s.ok /\ s.sn = 0 /\ s.sr = secondRoot

Accepts(s, firstRoot, secondRoot) == s.ok /\ s.sn = 0 /\ s.fr = firstRoot /\ s.sr = secondRoot

\* The trailing ones of first - 1, which go first, are the trailing zeros of first.
VerifyConsistency(first, second, proof, firstRoot, secondRoot) ==
    IF first = second THEN proof = <<>> /\ firstRoot = secondRoot
    ELSE /\ 0 < first /\ first < second /\ proof # <<>>
         /\ LET path == IF IsPowerOfTwo(first) THEN <<firstRoot>> \o proof ELSE proof
                at == Strip[first][second - 1]
            IN  Accepts(Run(Begin(at.fn - 1, at.sn, Head(path)), Tail(path))[Len(path) - 1], firstRoot, secondRoot)
=============================================================================
