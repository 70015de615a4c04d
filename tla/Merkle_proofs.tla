---------------------------- MODULE Merkle_proofs ----------------------------
(***************************************************************************)
(* Theorems about Merkle and MerkleTree: for every set of documents, every *)
(* number of appends and every width of a tile, the stored subtrees are    *)
(* the tree of RFC 9162, the proofs computed from them are accepted, and   *)
(* what the verifiers accept is so, whatever the proof is made of.         *)
(***************************************************************************)
EXTENDS MerkleTree, WellFoundedInduction, SequenceTheorems, TLAPS

-----------------------------------------------------------------------------
(* Induction.  The prover has none: that a set of numbers is all of them,  *)
(* and that a recursive definition defines a function, is derived from the *)
(* order of the numbers (NatLessThanWellFounded).                          *)

\* A set of numbers that is not empty has a least one.
LEMMA LeastNatural ==
    ASSUME NEW T \in SUBSET Nat, T # {}
    PROVE  \E m \in T : \A k \in T : m <= k
<1> DEFINE R == {ss \in Nat \X Nat : ss[1] < ss[2]}
<1>1. IsWellFoundedOn(R, Nat)
  BY NatLessThanWellFounded DEF OpToRel
<1>2. \E x \in T : \A y \in T : ~ (<<y, x>> \in R)
  <2> HIDE DEF R
  <2> QED BY <1>1, WFMin
<1>3. PICK x \in T : \A y \in T : ~ (<<y, x>> \in R)
  BY <1>2
<1>4. \A y \in T : ~(y < x)
  BY <1>3
<1> QED BY <1>4

\* Induction: a set that has every number whose predecessors it has, has all of them.
LEMMA AllNaturals ==
    ASSUME NEW T \in SUBSET Nat, \A n \in Nat : (\A k \in 0..n - 1 : k \in T) => n \in T
    PROVE  \A n \in Nat : n \in T
<1> SUFFICES ASSUME Nat \ T # {} PROVE FALSE
  OBVIOUS
<1>1. PICK m \in Nat \ T : \A k \in Nat \ T : m <= k
  BY LeastNatural
<1>2. \A k \in 0..m - 1 : k \in T
  BY <1>1
<1> QED BY <1>1, <1>2

\* Whatever hashes there are to begin with, there is a set of all that can be made of them.
LEMMA AllHashes ==
    ASSUME NEW B
    PROVE  \E V : B \subseteq V /\ \A x, y \in V : NodeHash(x, y) \in V
<1> DEFINE Made(S) == S \cup {NodeHash(x, y) : x, y \in S}
           E(g, n) == IF n = 0 THEN B ELSE Made(g[n - 1])
<1>2. \A n \in Nat : \A g, h : (\A i \in 0..n - 1 : g[i] = h[i]) => E(g, n) = E(h, n)
  OBVIOUS
<1> HIDE DEF E
<1> DEFINE Q(n, g) == \A i \in 0..n : g[i] = E(g, i)
<1>3. ASSUME NEW n \in Nat, NEW m \in Nat, m <= n, NEW g, NEW h, Q(m, g), Q(n, h)
      PROVE  \A i \in 0..m : g[i] = h[i]
  <2> DEFINE T == {i \in Nat : i <= m => g[i] = h[i]}
  <2>1. ASSUME NEW i \in Nat, \A k \in 0..i - 1 : k \in T PROVE i \in T
    <3>1. CASE i <= m
      <4>1. \A k \in 0..i - 1 : g[k] = h[k]
        BY <2>1, <3>1
      <4>2. E(g, i) = E(h, i)
        BY <1>2, <4>1
      <4> QED BY <4>2, <3>1, <1>3
    <3> QED BY <3>1
  <2>2. \A i \in Nat : i \in T
    <3> T \subseteq Nat
      OBVIOUS
    <3> HIDE DEF T
    <3> QED BY <2>1, AllNaturals
  <2> QED BY <2>2
<1>4. ASSUME NEW n \in Nat PROVE \E g : Q(n, g)
  <2> DEFINE T == {i \in Nat : \E g : Q(i, g)}
  <2>1. ASSUME NEW i \in Nat, \A k \in 0..i - 1 : k \in T PROVE i \in T
    <3>1. \E g : \A k \in 0..i - 1 : g[k] = E(g, k)
      <4>1. CASE i = 0
        BY <4>1
      <4>2. CASE i > 0
        <5>1. i - 1 \in 0..i - 1
          BY <4>2
        <5>2. PICK g : Q(i - 1, g)
          BY <5>1, <2>1
        <5> QED BY <5>2
      <4> QED BY <4>1, <4>2
    <3>2. PICK g : \A k \in 0..i - 1 : g[k] = E(g, k)
      BY <3>1
    <3> DEFINE h == [k \in 0..i |-> IF k = i THEN E(g, i) ELSE g[k]]
    <3>3. \A k \in 0..i - 1 : h[k] = g[k]
      OBVIOUS
    <3>4. h[i] = E(g, i)
      OBVIOUS
    <3> HIDE DEF h
    <3>5. ASSUME NEW k \in 0..i PROVE h[k] = E(h, k)
      <4>1. E(g, k) = E(h, k)
        BY <1>2, <3>3
      <4> QED BY <4>1, <3>2, <3>3, <3>4
    <3>6. Q(i, h)
      BY <3>5
    <3> QED BY <3>6
  <2>2. \A i \in Nat : i \in T
    <3> T \subseteq Nat
      OBVIOUS
    <3> HIDE DEF T
    <3> QED BY <2>1, AllNaturals
  <2> QED BY <2>2
<1> DEFINE G(n) == CHOOSE g : Q(n, g)
           F == [n \in Nat |-> G(n)[n]]
<1>5. \A n \in Nat : Q(n, G(n))
  BY <1>4
<1> HIDE DEF Q, G
<1>6. ASSUME NEW n \in Nat PROVE F[n] = E(F, n)
  <2>1. \A i \in 0..n : G(i)[i] = G(n)[i]
    BY <1>3, <1>5
  <2>2. E(F, n) = E(G(n), n)
    BY <2>1, <1>2
  <2> QED BY <2>2, <1>5 DEF Q
<1>7. F = [n \in Nat |-> E(F, n)]
  BY <1>6
<1> HIDE DEF F
<1>8. F[0] = B /\ \A n \in Nat : F[n + 1] = Made(F[n])
  <2>1. F[0] = E(F, 0)
    BY <1>6
  <2>3. E(F, 0) = B
    BY DEF E
  <2>2. ASSUME NEW n \in Nat PROVE F[n + 1] = Made(F[n])
    <3>1. n + 1 \in Nat /\ n + 1 # 0 /\ (n + 1) - 1 = n
      OBVIOUS
    <3>2. F[n + 1] = E(F, n + 1)
      BY <1>6, <3>1
    <3> QED BY <3>1, <3>2 DEF E
  <2> QED BY <2>1, <2>2, <2>3
<1> DEFINE V == UNION {F[n] : n \in Nat}
<1>9. ASSUME NEW n \in Nat, NEW m \in Nat, m <= n PROVE F[m] \subseteq F[n]
  <2> DEFINE T == {i \in Nat : m <= i => F[m] \subseteq F[i]}
  <2>1. ASSUME NEW i \in Nat, \A k \in 0..i - 1 : k \in T PROVE i \in T
    <3>1. CASE m < i
      <4>1. i - 1 \in T /\ i - 1 \in Nat /\ m <= i - 1 /\ (i - 1) + 1 = i
        BY <2>1, <3>1
      <4>2. F[m] \subseteq F[i - 1]
        BY <4>1
      <4>3. F[i] = Made(F[i - 1])
        BY <4>1, <1>8
      <4> QED BY <4>2, <4>3
    <3>2. CASE ~(m < i)
      BY <3>2
    <3> QED BY <3>1, <3>2
  <2>2. \A i \in Nat : i \in T
    <3> T \subseteq Nat
      OBVIOUS
    <3> HIDE DEF T
    <3> QED BY <2>1, AllNaturals
  <2>3. n \in T
    BY <2>2
  <2> QED BY <2>3, <1>9
<1>10. ASSUME NEW x \in V, NEW y \in V PROVE NodeHash(x, y) \in V
  <2>1. PICK n \in Nat, m \in Nat : x \in F[n] /\ y \in F[m]
    OBVIOUS
  <2>2. PICK p \in Nat : n <= p /\ m <= p
    BY <2>1
  <2>3. x \in F[p] /\ y \in F[p]
    BY <2>1, <2>2, <1>9
  <2>4. NodeHash(x, y) \in F[p + 1]
    BY <2>3, <1>8
  <2> QED BY <2>4
<1>11. B \subseteq V
  BY <1>8
<1> QED BY <1>10, <1>11

\* H gives a value at each number, in terms of the values before.
Recursive(A, H) ==
    /\ H \in [Nat -> [[Nat -> A] -> A]]
    /\ \A n \in Nat : \A g, h \in [Nat -> A] : (\A i \in 0..n - 1 : g[i] = h[i]) => H[n][g] = H[n][h]

\* There is such a function.
HasValues(A, H) == \E f \in [Nat -> A] : \A n \in Nat : f[n] = H[n][f]

\* What is given at each number in terms of what comes before is a function.
LEMMA Recursion ==
    ASSUME NEW A, NEW a \in A, NEW H, Recursive(A, H)
    PROVE  HasValues(A, H)
<1> USE DEF Recursive, HasValues
<1> DEFINE Q(n, g) == g \in [Nat -> A] /\ \A i \in 0..n : g[i] = H[i][g]
<1>1. ASSUME NEW n \in Nat, NEW m \in Nat, m <= n, NEW g, NEW h, Q(m, g), Q(n, h)
      PROVE  \A i \in 0..m : g[i] = h[i]
  <2> DEFINE T == {i \in Nat : i <= m => g[i] = h[i]}
  <2>1. ASSUME NEW i \in Nat, \A k \in 0..i - 1 : k \in T PROVE i \in T
    <3>1. CASE i <= m
      <4>1. \A k \in 0..i - 1 : g[k] = h[k]
        BY <2>1, <3>1
      <4>2. H[i][g] = H[i][h]
        BY <1>1, <4>1
      <4> QED BY <4>2, <3>1, <1>1
    <3> QED BY <3>1
  <2>2. \A i \in Nat : i \in T
    <3> T \subseteq Nat
      OBVIOUS
    <3> HIDE DEF T
    <3> QED BY <2>1, AllNaturals
  <2> QED BY <2>2
<1>2. ASSUME NEW n \in Nat PROVE \E g : Q(n, g)
  <2> DEFINE T == {i \in Nat : \E g : Q(i, g)}
  <2>1. ASSUME NEW i \in Nat, \A k \in 0..i - 1 : k \in T PROVE i \in T
    <3>1. \E g \in [Nat -> A] : \A k \in 0..i - 1 : g[k] = H[k][g]
      <4>1. CASE i = 0
        <5>1. [k \in Nat |-> a] \in [Nat -> A]
          OBVIOUS
        <5>2. 0..i - 1 = {}
          BY <4>1
        <5> QED BY <5>1, <5>2
      <4>2. CASE i > 0
        <5>1. i - 1 \in 0..i - 1
          BY <4>2
        <5>2. PICK g : Q(i - 1, g)
          BY <5>1, <2>1
        <5> QED BY <5>2
      <4> QED BY <4>1, <4>2
    <3>2. PICK g \in [Nat -> A] : \A k \in 0..i - 1 : g[k] = H[k][g]
      BY <3>1
    <3> DEFINE h == [k \in Nat |-> IF k = i THEN H[i][g] ELSE g[k]]
    <3>3. h \in [Nat -> A] /\ (\A k \in 0..i - 1 : h[k] = g[k]) /\ h[i] = H[i][g]
      OBVIOUS
    <3> HIDE DEF h
    <3>4. ASSUME NEW k \in 0..i PROVE h[k] = H[k][h]
      <4>1. h[k] = H[k][g]
        BY k = i \/ k \in 0..i - 1, <3>2, <3>3
      <4>2. k \in Nat /\ \A l \in 0..k - 1 : g[l] = h[l]
        BY <3>3
      <4>3. H[k][g] = H[k][h]
        BY <4>2, <3>3
      <4> QED BY <4>1, <4>3
    <3>5. Q(i, h)
      BY <3>3, <3>4
    <3> QED BY <3>5
  <2>2. \A i \in Nat : i \in T
    <3> T \subseteq Nat
      OBVIOUS
    <3> HIDE DEF T
    <3> QED BY <2>1, AllNaturals
  <2> QED BY <2>2
<1> DEFINE G(n) == CHOOSE g : Q(n, g)
           F == [n \in Nat |-> G(n)[n]]
<1>3. \A n \in Nat : Q(n, G(n))
  BY <1>2
<1>4. F \in [Nat -> A]
  BY <1>3
<1> HIDE DEF G
<1>5. ASSUME NEW n \in Nat PROVE F[n] = H[n][F]
  <2>1. \A i \in 0..n : G(i)[i] = G(n)[i]
    <3> HIDE DEF Q
    <3> QED BY <1>1, <1>3
  <2>2. \A i \in 0..n - 1 : F[i] = G(n)[i]
    BY <2>1
  <2>3. H[n][F] = H[n][G(n)]
    <3> HIDE DEF F
    <3> QED BY <2>2, <1>3, <1>4
  <2> QED BY <2>3, <1>3
<1> QED BY <1>4, <1>5

-----------------------------------------------------------------------------
(* Powers of two, and where a range is split.                             *)

\* The powers of two, by the equations of their definition.
LEMMA Pow2Def ==
    /\ Pow2[0] = 1
    /\ \A e \in Nat : Pow2[e] \in Nat /\ Pow2[e] > e /\ Pow2[e + 1] = 2 * Pow2[e]
<1> DEFINE E(g, n) == IF n = 0 THEN 1 ELSE 2 * g[n - 1]
           H == [n \in Nat |-> [g \in [Nat -> Nat] |-> E(g, n)]]
<1>1. H \in [Nat -> [[Nat -> Nat] -> Nat]]
  OBVIOUS
<1>2. \A n \in Nat : \A g, h \in [Nat -> Nat] : (\A i \in 0..n - 1 : g[i] = h[i]) => H[n][g] = H[n][h]
  OBVIOUS
<1> HIDE DEF H
<1>3. HasValues(Nat, H)
  <2>1. Recursive(Nat, H)
    BY <1>1, <1>2 DEF Recursive
  <2> QED BY <2>1, 0 \in Nat, Recursion, Zenon
<1>4. \E f : f = [n \in Nat |-> E(f, n)]
  <2>1. PICK f \in [Nat -> Nat] : \A n \in Nat : f[n] = H[n][f]
    BY <1>3 DEF HasValues
  <2> QED BY <2>1 DEF H
<1>5. Pow2 = [n \in Nat |-> E(Pow2, n)]
  BY <1>4 DEF Pow2
<1> HIDE DEF E
<1>6. \A n \in Nat : Pow2[n] = E(Pow2, n)
  BY <1>5
<1>7. Pow2[0] = 1 /\ \A e \in Nat : Pow2[e + 1] = 2 * Pow2[e]
  BY <1>6 DEF E
<1> DEFINE T == {e \in Nat : Pow2[e] \in Nat /\ Pow2[e] > e}
<1>8. ASSUME NEW e \in Nat, \A k \in 0..e - 1 : k \in T PROVE e \in T
  <2>1. CASE e = 0
    BY <1>7, <2>1
  <2>2. CASE e > 0
    <3>1. e - 1 \in T /\ (e - 1) + 1 = e
      BY <1>8, <2>2
    <3>2. Pow2[e] = 2 * Pow2[e - 1]
      BY <3>1, <1>7
    <3> QED BY <3>1, <3>2
  <2> QED BY <2>1, <2>2
<1>9. \A e \in Nat : e \in T
  <2> T \subseteq Nat
    OBVIOUS
  <2> HIDE DEF T
  <2> QED BY <1>8, AllNaturals
<1> QED BY <1>5, <1>7, <1>9

\* A later power is twice an earlier one at least.
LEMMA Pow2Grows ==
    ASSUME NEW e \in Nat, NEW f \in Nat, e < f
    PROVE  2 * Pow2[e] <= Pow2[f]
<1> DEFINE T == {i \in Nat : e < i => 2 * Pow2[e] <= Pow2[i]}
<1>1. ASSUME NEW i \in Nat, \A k \in 0..i - 1 : k \in T PROVE i \in T
  <2>1. CASE i = e + 1
    BY <2>1, Pow2Def
  <2>2. CASE i > e + 1
    <3>1. i - 1 \in T /\ i - 1 \in Nat /\ e < i - 1 /\ (i - 1) + 1 = i
      BY <1>1, <2>2
    <3>2. Pow2[i] = 2 * Pow2[i - 1] /\ Pow2[i - 1] \in Nat /\ Pow2[i] \in Nat
      BY <3>1, Pow2Def
    <3> QED BY <3>1, <3>2, Pow2Def
  <2>3. CASE i <= e
    BY <2>3
  <2> QED BY <2>1, <2>2, <2>3
<1>2. f \in T
  <2> T \subseteq Nat
    OBVIOUS
  <2> HIDE DEF T
  <2> QED BY <1>1, AllNaturals
<1> QED BY <1>2

\* A power of two need not be looked for below n; half of one is one.
LEMMA PowerOfTwo ==
    ASSUME NEW n \in Nat
    PROVE  /\ IsPowerOfTwo(n) <=> \E e \in Nat : Pow2[e] = n
           /\ IsPowerOfTwo(n) => n > 0
           /\ IsPowerOfTwo(n) /\ n > 1 => n % 2 = 0 /\ n \div 2 > 0 /\ IsPowerOfTwo(n \div 2) /\ 2 * (n \div 2) = n
<1>1. ASSUME NEW e \in Nat, Pow2[e] = n PROVE e \in 0..n
  BY <1>1, Pow2Def
<1>2. IsPowerOfTwo(n) <=> \E e \in Nat : Pow2[e] = n
  BY <1>1 DEF IsPowerOfTwo
<1>3. ASSUME NEW e \in Nat, Pow2[e] = n, n > 1
      PROVE  n % 2 = 0 /\ n \div 2 > 0 /\ IsPowerOfTwo(n \div 2) /\ 2 * (n \div 2) = n
  <2>1. e # 0
    BY <1>3, Pow2Def
  <2>2. n = 2 * Pow2[e - 1] /\ e - 1 \in Nat /\ Pow2[e - 1] \in Nat /\ Pow2[e - 1] > e - 1
    <3>1. e - 1 \in Nat /\ (e - 1) + 1 = e
      BY <2>1
    <3> QED BY <3>1, <1>3, Pow2Def
  <2>3. n \div 2 = Pow2[e - 1] /\ n % 2 = 0
    <3> HIDE DEF Pow2
    <3> QED BY <2>2
  <2>4. e - 1 \in 0..n \div 2
    BY <2>2, <2>3
  <2> QED BY <2>2, <2>3, <2>4 DEF IsPowerOfTwo
<1>4. IsPowerOfTwo(n) => n > 0
  BY <1>2, Pow2Def
<1> QED BY <1>2, <1>3, <1>4

LEMMA OneIsAPower == IsPowerOfTwo(1)
  BY Pow2Def DEF IsPowerOfTwo

\* Of two powers the greater is twice the smaller at least.
LEMMA PowersAreApart ==
    ASSUME NEW a \in Nat, NEW b \in Nat, IsPowerOfTwo(a), IsPowerOfTwo(b), a < b
    PROVE  2 * a <= b
<1>1. PICK e \in Nat, f \in Nat : a = Pow2[e] /\ b = Pow2[f]
  BY PowerOfTwo
<1>2. CASE e < f
  BY <1>1, <1>2, Pow2Grows
<1>3. CASE f < e
  BY <1>1, <1>3, Pow2Grows
<1>4. CASE e = f
  BY <1>1, <1>4
<1> QED BY <1>2, <1>3, <1>4

\* The split of a range is the power of two below its width that is at least half of it.
LEMMA SplitIs ==
    ASSUME NEW n \in Nat, n >= 2
    PROVE  /\ Split(n) \in 1..n - 1 /\ IsPowerOfTwo(Split(n)) /\ n <= 2 * Split(n)
           /\ \A k \in Nat : IsPowerOfTwo(k) /\ k < n /\ n <= 2 * k => k = Split(n)
           /\ (CHOOSE p \in 1..n - 1 : IsPowerOfTwo(p) /\ 2 * p >= n) = Split(n)
<1> DEFINE S == {e \in 0..n : Pow2[e] < n}
           D == {d \in Nat : n - d \in S}
<1>1. \E e \in S : \A f \in S : e >= f
  <2>1. n \in D /\ D \subseteq Nat
    BY Pow2Def
  <2>2. PICK d \in D : \A c \in D : d <= c
    <3> HIDE DEF D
    <3> QED BY <2>1, LeastNatural
  <2>3. \A f \in S : n - f \in D
    OBVIOUS
  <2>4. ASSUME NEW f \in S PROVE n - d >= f
    <3>1. f \in Int /\ d \in Int /\ d <= n - f
      BY <2>2, <2>3
    <3> QED BY <3>1
  <2> QED BY <2>2, <2>4
<1>2. PICK m \in S : m = Max(S) /\ \A f \in S : m >= f
  BY <1>1 DEF Max
<1>3. Split(n) = Pow2[m]
  BY <1>2 DEF Split
<1>4. m \in Nat /\ Pow2[m] < n /\ Pow2[m] \in Nat /\ Pow2[m] > 0
  BY Pow2Def
<1>5. n <= 2 * Pow2[m]
  <2>1. SUFFICES ASSUME Pow2[m + 1] < n PROVE FALSE
    BY <1>4, Pow2Def
  <2>2. m + 1 \in S
    BY <2>1, <1>4, Pow2Def
  <2> QED BY <2>2, <1>2
<1>6. IsPowerOfTwo(Pow2[m])
  BY <1>4, PowerOfTwo
<1>7. ASSUME NEW k \in Nat, IsPowerOfTwo(k), k < n, n <= 2 * k PROVE k = Split(n)
  <2>1. CASE k < Pow2[m]
    BY <2>1, <1>4, <1>6, <1>7, PowersAreApart
  <2>2. CASE Pow2[m] < k
    BY <2>2, <1>4, <1>5, <1>6, <1>7, PowersAreApart
  <2> QED BY <2>1, <2>2, <1>3, <1>4
<1>8. Split(n) \in 1..n - 1 /\ IsPowerOfTwo(Split(n)) /\ n <= 2 * Split(n)
  BY <1>3, <1>4, <1>5, <1>6
<1>9. (CHOOSE p \in 1..n - 1 : IsPowerOfTwo(p) /\ 2 * p >= n) = Split(n)
  <2>1. \E p \in 1..n - 1 : IsPowerOfTwo(p) /\ 2 * p >= n
    BY <1>8
  <2>2. \A p \in 1..n - 1 : IsPowerOfTwo(p) /\ 2 * p >= n => p = Split(n)
    BY <1>7
  <2> QED BY <2>1, <2>2
<1> QED BY <1>7, <1>8, <1>9

\* What division by w leaves.
LEMMA Floor ==
    ASSUME NEW n \in Nat, NEW w \in Nat, w > 0
    PROVE  /\ n \div w \in Nat /\ (n \div w) * w <= n /\ n < (n \div w) * w + w
           /\ \A q \in Nat : q * w <= n /\ n < q * w + w => n \div w = q
  OBVIOUS

LEMMA Pow2Sum ==
    ASSUME NEW e \in Nat, NEW f \in Nat
    PROVE  Pow2[e + f] = Pow2[e] * Pow2[f]
<1> DEFINE T == {i \in Nat : Pow2[i + f] = Pow2[i] * Pow2[f]}
<1>1. ASSUME NEW i \in Nat, \A k \in 0..i - 1 : k \in T PROVE i \in T
  <2>1. CASE i = 0
    BY <2>1, Pow2Def
  <2>2. CASE i > 0
    <3>1. i - 1 \in Nat /\ Pow2[(i - 1) + f] = Pow2[i - 1] * Pow2[f]
      BY <1>1, <2>2
    <3>2. Pow2[(i - 1) + 1] = 2 * Pow2[i - 1] /\ Pow2[((i - 1) + f) + 1] = 2 * Pow2[(i - 1) + f]
      BY <3>1, Pow2Def
    <3>3. (i - 1) + 1 = i /\ ((i - 1) + f) + 1 = i + f
      BY <3>1
    <3>4. Pow2[i - 1] \in Nat /\ Pow2[f] \in Nat
      BY <3>1, Pow2Def
    <3>5. \A x, y \in Nat : 2 * (x * y) = (2 * x) * y
      OBVIOUS
    <3> QED BY <3>1, <3>2, <3>3, <3>4, <3>5
  <2> QED BY <2>1, <2>2
<1>2. e \in T
  <2> T \subseteq Nat
    OBVIOUS
  <2> HIDE DEF T
  <2> QED BY <1>1, AllNaturals
<1> QED BY <1>2

\* A range wider than w is split at a multiple of w, by a power of two.
LEMMA SplitInUnits ==
    ASSUME NEW n \in Nat, NEW w \in Nat, IsPowerOfTwo(w), w < n
    PROVE  \E e \in Nat : Split(n) = Pow2[e] * w
<1>1. w > 0 /\ n >= 2 /\ Split(n) \in Nat /\ IsPowerOfTwo(Split(n)) /\ n <= 2 * Split(n)
  BY PowerOfTwo, SplitIs
<1>2. ~(Split(n) < w)
  BY <1>1, PowersAreApart
<1>3. PICK i \in Nat, j \in Nat : w = Pow2[i] /\ Split(n) = Pow2[j]
  BY <1>1, PowerOfTwo
<1>4. i <= j
  <2>1. SUFFICES ASSUME j < i PROVE FALSE
    BY <1>3
  <2>2. 2 * Pow2[j] <= Pow2[i] /\ Pow2[j] \in Nat /\ Pow2[j] > 0
    BY <2>1, Pow2Grows, Pow2Def
  <2> QED BY <2>2, <1>2, <1>3
<1>5. j - i \in Nat /\ (j - i) + i = j
  BY <1>4
<1> QED BY <1>3, <1>5, Pow2Sum

-----------------------------------------------------------------------------
(* The roots of ranges, by the reference definition.                      *)

\* Two hashes of the set make a third.
Closed(V) == \A x, y \in V : NodeHash(x, y) \in V

\* The equations of the reference definition.
LEMMA RootsDef ==
    ASSUME NEW h, NEW start \in Nat
    PROVE  /\ Roots(h)[0][start] = EmptyRoot
           /\ Roots(h)[1][start] = h[start + 1]
           /\ \A n \in Nat : n >= 2 => Roots(h)[n][start] =
                NodeHash(Roots(h)[Split(n)][start], Roots(h)[n - Split(n)][start + Split(n)])
<1>1. PICK V : {EmptyRoot} \cup {h[i + 1] : i \in Nat} \subseteq V /\ Closed(V)
  BY AllHashes DEF Closed
<1> DEFINE K(n) == CHOOSE p \in 1..n - 1 : IsPowerOfTwo(p) /\ 2 * p >= n
           A == [Nat -> V]
           E(g, n) == [s \in Nat |->
               IF n = 0 THEN EmptyRoot ELSE IF n = 1 THEN h[s + 1]
               ELSE NodeHash(g[K(n)][s], g[n - K(n)][s + K(n)])]
           H == [n \in Nat |-> [g \in [Nat -> A] |-> E(g, n)]]
<1>2. \A n \in Nat : n >= 2 => K(n) = Split(n) /\ K(n) \in 0..n - 1 /\ n - K(n) \in 0..n - 1
  BY SplitIs
<1> HIDE DEF K
<1>3. ASSUME NEW n \in Nat, NEW g \in [Nat -> A] PROVE E(g, n) \in A
  <2>1. CASE n >= 2
    <3>1. \A s \in Nat : g[K(n)][s] \in V /\ g[n - K(n)][s + K(n)] \in V
      BY <2>1, <1>2
    <3>2. \A s \in Nat : NodeHash(g[K(n)][s], g[n - K(n)][s + K(n)]) \in V
      BY <3>1, <1>1 DEF Closed
    <3> QED BY <2>1, <3>2
  <2>2. CASE n < 2
    BY <2>2, <1>1
  <2> QED BY <2>1, <2>2
<1>4. ASSUME NEW n \in Nat, NEW f \in [Nat -> A], NEW g \in [Nat -> A], \A i \in 0..n - 1 : f[i] = g[i]
      PROVE  E(f, n) = E(g, n)
  BY <1>2, <1>4
<1>5. Recursive(A, H)
  <2> HIDE DEF E, A
  <2> QED BY <1>3, <1>4 DEF Recursive
<1>6. [s \in Nat |-> EmptyRoot] \in A
  BY <1>1
<1>7. HasValues(A, H)
  <2> HIDE DEF A, H
  <2> QED BY <1>5, <1>6, Recursion, Zenon
<1>8. \E f : f = [n \in Nat |-> E(f, n)]
  <2> HIDE DEF E, A
  <2>1. PICK f \in [Nat -> A] : \A n \in Nat : f[n] = H[n][f]
    BY <1>7 DEF HasValues
  <2> QED BY <2>1
<1>9. Roots(h) = [n \in Nat |-> E(Roots(h), n)]
  BY <1>8 DEF Roots, K
<1>10. \A n \in Nat : Roots(h)[n] = E(Roots(h), n)
  <2> HIDE DEF E
  <2> QED BY <1>9
<1> DEFINE R == Roots(h)
<1>11. \A n \in Nat : R[n] = E(R, n)
  BY <1>10
<1> HIDE DEF R
<1>12. ASSUME NEW n \in Nat PROVE R[n][start] =
          IF n = 0 THEN EmptyRoot ELSE IF n = 1 THEN h[start + 1]
          ELSE NodeHash(R[K(n)][start], R[n - K(n)][start + K(n)])
  BY <1>11
<1>13. R[0][start] = EmptyRoot /\ R[1][start] = h[start + 1]
  BY <1>12
<1>14. ASSUME NEW n \in Nat, n >= 2
       PROVE  R[n][start] = NodeHash(R[Split(n)][start], R[n - Split(n)][start + Split(n)])
  <2>1. R[n][start] = NodeHash(R[K(n)][start], R[n - K(n)][start + K(n)])
    BY <1>12, <1>14
  <2> QED BY <2>1, <1>2, <1>14
<1> QED BY <1>13, <1>14 DEF R

\* The same, where the split has a name.
LEMMA RootsSplit ==
    ASSUME NEW h, NEW n \in Nat, n >= 2, NEW start \in Nat, NEW k \in Nat, k = Split(n)
    PROVE  Roots(h)[n][start] = NodeHash(Roots(h)[k][start], Roots(h)[n - k][start + k])
  BY RootsDef

-----------------------------------------------------------------------------
(* The verifiers: the shift of the two cursors, and a run over a proof.   *)

\* The equation of the shift of both cursors.
LEMMA StripDef ==
    ASSUME NEW n \in Nat, NEW sn \in Nat
    PROVE  /\ Strip[n][sn] = IF n = 0 \/ n % 2 = 1 THEN [fn |-> n, sn |-> sn] ELSE Strip[n \div 2][sn \div 2]
           /\ Strip[n][sn] \in [fn : Nat, sn : Nat]
<1> DEFINE A == [Nat -> [fn : Nat, sn : Nat]]
           E(g, k) == [m \in Nat |-> IF k = 0 \/ k % 2 = 1 THEN [fn |-> k, sn |-> m] ELSE g[k \div 2][m \div 2]]
           H == [k \in Nat |-> [g \in [Nat -> A] |-> E(g, k)]]
<1>1. \A k \in Nat : k % 2 = 0 /\ k # 0 => k \div 2 \in 0..k - 1
  OBVIOUS
<1>a. \A k \in Nat : k % 2 \in {0, 1} /\ k \div 2 \in Nat
  OBVIOUS
<1>2. ASSUME NEW k \in Nat, NEW g \in [Nat -> A] PROVE E(g, k) \in A
  <2>1. CASE k = 0 \/ k % 2 = 1
    BY <2>1
  <2>2. CASE ~(k = 0 \/ k % 2 = 1)
    BY <2>2, <1>a
  <2> QED BY <2>1, <2>2
<1>3. ASSUME NEW k \in Nat, NEW f \in [Nat -> A], NEW g \in [Nat -> A], \A i \in 0..k - 1 : f[i] = g[i]
      PROVE  E(f, k) = E(g, k)
  <2>1. CASE k = 0 \/ k % 2 = 1
    BY <2>1
  <2>2. CASE ~(k = 0 \/ k % 2 = 1)
    <3>1. f[k \div 2] = g[k \div 2]
      BY <2>2, <1>1, <1>a, <1>3
    <3> QED BY <2>2, <3>1
  <2> QED BY <2>1, <2>2
<1>4. Recursive(A, H)
  <2> HIDE DEF E, A
  <2> QED BY <1>2, <1>3 DEF Recursive
<1>5. [m \in Nat |-> [fn |-> 0, sn |-> 0]] \in A
  OBVIOUS
<1>6. HasValues(A, H)
  <2> HIDE DEF A, H
  <2> QED BY <1>4, <1>5, Recursion, Zenon
<1>7. \E f : f \in [Nat -> A] /\ f = [k \in Nat |-> E(f, k)]
  <2> HIDE DEF E, A
  <2>1. PICK f \in [Nat -> A] : \A k \in Nat : f[k] = H[k][f]
    BY <1>6 DEF HasValues
  <2> QED BY <2>1
<1>8. Strip = [k \in Nat |-> E(Strip, k)]
  BY <1>7 DEF Strip
<1>9. \A k \in Nat : Strip[k] = E(Strip, k)
  <2> HIDE DEF E
  <2> QED BY <1>8
<1>10. \A k, m \in Nat : Strip[k][m] = IF k = 0 \/ k % 2 = 1 THEN [fn |-> k, sn |-> m] ELSE Strip[k \div 2][m \div 2]
  <2> TAKE k, m \in Nat
  <2>1. Strip[k] = [j \in Nat |-> IF k = 0 \/ k % 2 = 1 THEN [fn |-> k, sn |-> j] ELSE Strip[k \div 2][j \div 2]]
    BY <1>9
  <2> QED BY <2>1, Zenon
<1> DEFINE T == {k \in Nat : \A m \in Nat : Strip[k][m] \in [fn : Nat, sn : Nat]}
<1>11. ASSUME NEW k \in Nat, \A i \in 0..k - 1 : i \in T PROVE k \in T
  <2>1. ASSUME NEW m \in Nat PROVE Strip[k][m] \in [fn : Nat, sn : Nat]
    <3>1. CASE k = 0 \/ k % 2 = 1
      <4>1. Strip[k][m] = [fn |-> k, sn |-> m]
        BY <3>1, <1>10
      <4> QED BY <4>1
    <3>2. CASE ~(k = 0 \/ k % 2 = 1)
      <4>1. k \div 2 \in T /\ m \div 2 \in Nat /\ Strip[k][m] = Strip[k \div 2][m \div 2]
        BY <3>2, <1>1, <1>a, <1>10, <1>11
      <4> QED BY <4>1
    <3> QED BY <3>1, <3>2
  <2> QED BY <2>1
<1>12. n \in T
  <2> T \subseteq Nat
    OBVIOUS
  <2> HIDE DEF T
  <2> QED BY <1>11, AllNaturals
<1> QED BY <1>10, <1>12

\* The equations of a run of the verifier.
LEMMA RunDef ==
    ASSUME NEW fn \in Nat, NEW sn \in Nat, NEW hash, NEW c
    PROVE  LET s == Begin(fn, sn, hash)
               f == Run(s, c)
           IN  /\ f[0] = s
               /\ \A i \in Nat : f[i + 1] = Advance(f[i], c[i + 1])
               /\ \A i \in Nat : f[i].fn \in Nat /\ f[i].sn \in Nat /\ f[i].ok \in BOOLEAN
<1> DEFINE s == Begin(fn, sn, hash)
<1>1. PICK V : {hash} \cup {c[i] : i \in Nat} \subseteq V /\ Closed(V)
  BY AllHashes DEF Closed
<1> DEFINE A == [fn : Nat, sn : Nat, fr : V, sr : V, ok : BOOLEAN]
           E(g, i) == IF i = 0 THEN s ELSE Advance(g[i - 1], c[i])
           H == [i \in Nat |-> [g \in [Nat -> A] |-> E(g, i)]]
<1>2. s \in A
  BY <1>1 DEF Begin
<1>3. ASSUME NEW t \in A, NEW x \in V PROVE Advance(t, x) \in A
  <2> DEFINE at == IF FromLeft(t) THEN Strip[t.fn][t.sn] ELSE t
  <2>1. at.fn \in Nat /\ at.sn \in Nat
    BY StripDef
  <2>2. at.fn \div 2 \in Nat /\ at.sn \div 2 \in Nat
    <3> HIDE DEF at
    <3> QED BY <2>1
  <2>3. NodeHash(x, t.fr) \in V /\ NodeHash(x, t.sr) \in V /\ NodeHash(t.sr, x) \in V
    BY <1>1 DEF Closed
  <2> DEFINE new == Advance(t, x)
  <2>4. new = [fn |-> at.fn \div 2, sn |-> at.sn \div 2,
               fr |-> IF FromLeft(t) THEN NodeHash(x, t.fr) ELSE t.fr,
               sr |-> IF FromLeft(t) THEN NodeHash(x, t.sr) ELSE NodeHash(t.sr, x),
               ok |-> t.ok /\ t.sn # 0]
    BY DEF Advance
  <2> HIDE DEF at, new
  <2> QED BY <2>2, <2>3, <2>4 DEF new
<1> HIDE DEF s
<1>4. ASSUME NEW i \in Nat, NEW g \in [Nat -> A] PROVE E(g, i) \in A
  <2>1. CASE i = 0
    BY <2>1, <1>2
  <2>2. CASE i > 0
    <3>1. g[i - 1] \in A /\ c[i] \in V
      BY <2>2, <1>1
    <3> HIDE DEF A
    <3> QED BY <2>2, <3>1, <1>3
  <2> QED BY <2>1, <2>2
<1>5. ASSUME NEW i \in Nat, NEW f \in [Nat -> A], NEW g \in [Nat -> A], \A k \in 0..i - 1 : f[k] = g[k]
      PROVE  E(f, i) = E(g, i)
  <2> HIDE DEF A
  <2> QED BY <1>5
<1>6. Recursive(A, H)
  <2> HIDE DEF E, A
  <2> QED BY <1>4, <1>5 DEF Recursive
<1>7. HasValues(A, H)
  <2> HIDE DEF A, H
  <2> QED BY <1>6, <1>2, Recursion, Zenon
<1>8. \E f : f \in [Nat -> A] /\ f = [i \in Nat |-> E(f, i)]
  <2> HIDE DEF E, A
  <2>1. PICK f \in [Nat -> A] : \A k \in Nat : f[k] = H[k][f]
    BY <1>7 DEF HasValues
  <2> QED BY <2>1
<1> DEFINE f == Run(s, c)
<1>9. f = [i \in Nat |-> E(f, i)]
  <2> HIDE DEF A
  <2> QED BY <1>8 DEF Run
<1> HIDE DEF f
<1>10. \A i \in Nat : f[i] = E(f, i)
  <2> HIDE DEF E
  <2> QED BY <1>9
<1>11. f[0] = s
  BY <1>10
<1>12. ASSUME NEW i \in Nat PROVE f[i + 1] = Advance(f[i], c[i + 1])
  <2>1. i + 1 \in Nat /\ i + 1 # 0 /\ (i + 1) - 1 = i
    OBVIOUS
  <2>2. f[i + 1] = E(f, i + 1)
    BY <2>1, <1>10
  <2> QED BY <2>1, <2>2
<1> DEFINE T == {i \in Nat : f[i] \in A}
<1>13. ASSUME NEW i \in Nat, \A k \in 0..i - 1 : k \in T PROVE i \in T
  <2>1. CASE i = 0
    BY <2>1, <1>2, <1>11
  <2>2. CASE i > 0
    <3>1. i - 1 \in Nat /\ f[i - 1] \in A /\ (i - 1) + 1 = i /\ c[i] \in V
      BY <1>13, <2>2, <1>1
    <3>2. f[i] = Advance(f[i - 1], c[i])
      BY <3>1, <1>12
    <3> HIDE DEF A
    <3> QED BY <3>1, <3>2, <1>3
  <2> QED BY <2>1, <2>2
<1>14. \A i \in Nat : i \in T
  <2> T \subseteq Nat
    OBVIOUS
  <2> HIDE DEF T
  <2> QED BY <1>13, AllNaturals
<1>15. \A i \in Nat : f[i].fn \in Nat /\ f[i].sn \in Nat /\ f[i].ok \in BOOLEAN
  BY <1>14
<1> QED BY <1>11, <1>12, <1>15 DEF f, s

\* The two cases of the shift.
LEMMA StripEven ==
    ASSUME NEW n \in Nat, NEW sn \in Nat, n # 0, n % 2 = 0
    PROVE  Strip[n][sn] = Strip[n \div 2][sn \div 2]
<1>1. ~ (n = 0 \/ n % 2 = 1)
  OBVIOUS
<1>2. Strip[n][sn] = IF n = 0 \/ n % 2 = 1 THEN [fn |-> n, sn |-> sn] ELSE Strip[n \div 2][sn \div 2]
  BY StripDef
<1> QED BY <1>1, <1>2, Zenon

LEMMA StripOdd ==
    ASSUME NEW n \in Nat, NEW sn \in Nat, n % 2 = 1
    PROVE  Strip[n][sn] = [fn |-> n, sn |-> sn]
  BY StripDef

\* Adding an even number changes no last bit.
LEMMA DoublePlus ==
    ASSUME NEW n \in Nat, NEW p \in Nat
    PROVE  (n + 2 * p) % 2 = n % 2 /\ (n + 2 * p) \div 2 = n \div 2 + p /\ n + 2 * p \in Nat
  OBVIOUS

\* A shift of two equal cursors ends at the same place below a power of two and with it added.
LEMMA StripBelow ==
    ASSUME NEW a \in Nat, NEW i \in Nat, 0 < a, a < Pow2[i]
    PROVE  \E b, j \in Nat : /\ b % 2 = 1 /\ b < Pow2[j]
                             /\ Strip[a][a] = [fn |-> b, sn |-> b]
                             /\ Strip[a + Pow2[i]][a + Pow2[i]] = [fn |-> b + Pow2[j], sn |-> b + Pow2[j]]
<1> DEFINE Same(n, l) == \E b, j \in Nat : /\ b % 2 = 1 /\ b < Pow2[j]
                             /\ Strip[n][n] = [fn |-> b, sn |-> b]
                             /\ Strip[n + Pow2[l]][n + Pow2[l]] = [fn |-> b + Pow2[j], sn |-> b + Pow2[j]]
           T == {n \in Nat : \A l \in Nat : 0 < n /\ n < Pow2[l] => Same(n, l)}
<1>1. ASSUME NEW n \in Nat, \A k \in 0..n - 1 : k \in T, NEW l \in Nat, 0 < n, n < Pow2[l] PROVE Same(n, l)
  <2>1. l # 0
    BY <1>1, Pow2Def
  <2>2. PICK p \in Nat : l - 1 \in Nat /\ p = Pow2[l - 1] /\ Pow2[l] = 2 * p
    <3>1. l - 1 \in Nat /\ (l - 1) + 1 = l
      BY <2>1
    <3> QED BY <3>1, Pow2Def
  <2>3. CASE n % 2 = 1
    <3>1. (n + Pow2[l]) % 2 = 1 /\ n + Pow2[l] \in Nat
      <4>1. (n + 2 * p) % 2 = n % 2 /\ n + 2 * p \in Nat
        BY DoublePlus
      <4> QED BY <4>1, <2>2, <2>3
    <3>2. Strip[n][n] = [fn |-> n, sn |-> n]
      BY <2>3, StripDef
    <3>3. Strip[n + Pow2[l]][n + Pow2[l]] = [fn |-> n + Pow2[l], sn |-> n + Pow2[l]]
      BY <3>1, StripDef
    <3> QED BY <2>3, <3>2, <3>3, <1>1
  <2>4. CASE n % 2 = 0
    <3> DEFINE h == n \div 2
    <3>1. h \in 0..n - 1 /\ 0 < h /\ h < p /\ (n + Pow2[l]) % 2 = 0 /\ (n + Pow2[l]) \div 2 = h + p /\ n + Pow2[l] \in Nat
      BY <2>2, <2>4, <1>1, DoublePlus
    <3>2. Strip[n][n] = Strip[h][h]
      BY <2>4, <1>1, StripEven
    <3>3. Strip[n + Pow2[l]][n + Pow2[l]] = Strip[h + p][h + p]
      <4>1. n + Pow2[l] # 0
        BY <1>1, <2>2
      <4> HIDE DEF h
      <4> QED BY <3>1, <4>1, StripEven
    <3> HIDE DEF h
    <3>4. Same(h, l - 1)
      BY <1>1, <3>1, <2>2
    <3> QED BY <3>2, <3>3, <3>4, <2>2
  <2> QED BY <2>3, <2>4
<1>2. a \in T
  <2>1. \A n \in Nat : (\A k \in 0..n - 1 : k \in T) => n \in T
    BY <1>1
  <2> T \subseteq Nat
    OBVIOUS
  <2> HIDE DEF T
  <2> QED BY <2>1, AllNaturals
<1> QED BY <1>2

\* A power of two is shifted down to 1.
LEMMA StripPower ==
    ASSUME NEW i \in Nat
    PROVE  Strip[Pow2[i]][Pow2[i]] = [fn |-> 1, sn |-> 1]
<1> DEFINE T == {l \in Nat : Strip[Pow2[l]][Pow2[l]] = [fn |-> 1, sn |-> 1]}
<1>1. ASSUME NEW l \in Nat, \A k \in 0..l - 1 : k \in T PROVE l \in T
  <2>1. CASE l = 0
    <3>1. Strip[1][1] = [fn |-> 1, sn |-> 1]
      BY StripDef
    <3> QED BY <3>1, <2>1, Pow2Def
  <2>2. CASE l > 0
    <3>1. l - 1 \in Nat /\ l - 1 \in T /\ (l - 1) + 1 = l
      BY <1>1, <2>2
    <3>2. PICK p \in Nat : p = Pow2[l - 1] /\ Pow2[l] = 2 * p /\ p > 0
      BY <3>1, Pow2Def
    <3>3. 2 * p \in Nat /\ 2 * p # 0 /\ (2 * p) % 2 = 0 /\ (2 * p) \div 2 = p
      BY <3>2
    <3>4. Strip[2 * p][2 * p] = Strip[p][p]
      BY <3>3, <3>2, StripEven
    <3> QED BY <3>1, <3>2, <3>4
  <2> QED BY <2>1, <2>2
<1>2. i \in T
  <2> T \subseteq Nat
    OBVIOUS
  <2> HIDE DEF T
  <2> QED BY <1>1, AllNaturals
<1> QED BY <1>2

\* A step that does not shift first, and one that does.
LEMMA StepPlain ==
    ASSUME NEW s, NEW x, s.fn \in Nat, s.sn \in Nat, s.fn % 2 = 1 \/ s.fn # s.sn
    PROVE  LET t == Advance(s, x) IN
           /\ t.fn = s.fn \div 2 /\ t.sn = s.sn \div 2
           /\ s.fn % 2 = 1 => t.fr = NodeHash(x, s.fr) /\ t.sr = NodeHash(x, s.sr)
           /\ s.fn % 2 = 0 => t.fr = s.fr /\ t.sr = NodeHash(s.sr, x)
<1>1. s.fn % 2 \in {0, 1}
  OBVIOUS
<1>2. CASE s.fn % 2 = 1
  <2>1. Strip[s.fn][s.sn] = [fn |-> s.fn, sn |-> s.sn]
    BY <1>2, StripDef
  <2> QED BY <1>2, <2>1 DEF Advance, FromLeft
<1>3. CASE s.fn % 2 = 0
  BY <1>3 DEF Advance, FromLeft
<1> QED BY <1>1, <1>2, <1>3

LEMMA StepShifted ==
    ASSUME NEW s, NEW x, s.fn = s.sn, NEW b \in Nat, Strip[s.fn][s.fn] = [fn |-> b, sn |-> b]
    PROVE  LET t == Advance(s, x) IN
           /\ t.fn = b \div 2 /\ t.sn = b \div 2
           /\ t.fr = NodeHash(x, s.fr) /\ t.sr = NodeHash(x, s.sr)
  BY DEF Advance, FromLeft

\* The run is at its end after d steps, and not before.
Ends(f, d) == f[d].sn = 0 /\ \A j \in 0..d - 1 : f[j].sn # 0

\* The run over a leaf left of the split does what the run over the left subtree does, and then
\* takes the right one.
LEMMA RunOfLeft ==
    ASSUME NEW e \in Nat, NEW a \in Nat, NEW b \in Nat, a < Pow2[e], Pow2[e] <= b, b < 2 * Pow2[e],
           NEW hash, NEW c
    PROVE  LET f == Run(Begin(a, Pow2[e] - 1, hash), c)
               g == Run(Begin(a, b, hash), c)
           IN  /\ Ends(f, e) /\ Ends(g, e + 1)
               /\ g[e + 1].fr = f[e].fr /\ g[e + 1].sr = NodeHash(f[e].sr, c[e + 1])
<1> DEFINE f == Run(Begin(a, Pow2[e] - 1, hash), c)
           g == Run(Begin(a, b, hash), c)
           Same(i) == /\ f[i].fn \in Nat /\ f[i].sn \in Nat /\ g[i].sn \in Nat /\ f[i].fn = g[i].fn
                      /\ f[i].fn < Pow2[e - i] /\ f[i].sn = Pow2[e - i] - 1
                      /\ Pow2[e - i] <= g[i].sn /\ g[i].sn < 2 * Pow2[e - i]
                      /\ f[i].fr = g[i].fr /\ f[i].sr = g[i].sr
           T == {i \in Nat : i <= e => Same(i)}
<1>0. Pow2[e] \in Nat /\ Pow2[e] > 0 /\ Pow2[e] - 1 \in Nat
  BY Pow2Def
<1>1. f[0] = Begin(a, Pow2[e] - 1, hash) /\ \A i \in Nat : f[i + 1] = Advance(f[i], c[i + 1])
  BY <1>0, RunDef
<1>2. g[0] = Begin(a, b, hash) /\ \A i \in Nat : g[i + 1] = Advance(g[i], c[i + 1])
  BY RunDef
<1> HIDE DEF f, g
<1>3. ASSUME NEW i \in Nat, \A k \in 0..i - 1 : k \in T PROVE i \in T
  <2>1. CASE i = 0
    <3>1. f[0].fn = a /\ f[0].sn = Pow2[e] - 1 /\ g[0].fn = a /\ g[0].sn = b /\ f[0].fr = g[0].fr /\ f[0].sr = g[0].sr
      BY <1>1, <1>2 DEF Begin
    <3> QED BY <2>1, <3>1, <1>0
  <2>2. CASE i > 0 /\ i <= e
    <3> DEFINE j == i - 1 x == c[i]
    <3>1. j \in Nat /\ j + 1 = i /\ Same(j) /\ e - i \in Nat /\ e - j = (e - i) + 1
      BY <1>3, <2>2
    <3>2. PICK p \in Nat : p = Pow2[e - i] /\ Pow2[e - j] = 2 * p /\ p > 0
      BY <3>1, Pow2Def
    <3>3. f[i] = Advance(f[j], x) /\ g[i] = Advance(g[j], x)
      BY <3>1, <1>1, <1>2
    <3> HIDE DEF j, x
    <3> DEFINE s == f[j] t == g[j]
    <3>4. s.fn \in Nat /\ s.sn = 2 * p - 1 /\ t.sn \in Nat /\ t.fn = s.fn /\ s.fn < 2 * p /\ 2 * p <= t.sn /\ t.sn < 2 * (2 * p)
          /\ s.fr = t.fr /\ s.sr = t.sr /\ s.sn \in Nat
      BY <3>1, <3>2
    <3> HIDE DEF s, t, Same
    <3>5. s.fn % 2 = 1 \/ s.fn # s.sn
      BY <3>4, <3>2
    <3>6. t.fn # t.sn
      BY <3>4
    <3>7. f[i].fn = s.fn \div 2 /\ f[i].sn = s.sn \div 2 /\ g[i].fn = s.fn \div 2 /\ g[i].sn = t.sn \div 2
      BY <3>3, <3>4, <3>5, <3>6, StepPlain DEF s, t
    <3>8. f[i].fr = g[i].fr /\ f[i].sr = g[i].sr
      <4>1. s.fn % 2 \in {0, 1}
        BY <3>4
      <4>2. CASE s.fn % 2 = 1
        BY <4>2, <3>3, <3>4, <3>5, <3>6, StepPlain DEF s, t
      <4>3. CASE s.fn % 2 = 0
        BY <4>3, <3>3, <3>4, <3>5, <3>6, StepPlain DEF s, t
      <4> QED BY <4>1, <4>2, <4>3
    <3>9. s.fn \div 2 \in Nat /\ t.sn \div 2 \in Nat /\ s.fn \div 2 < p /\ s.sn \div 2 = p - 1 /\ p <= t.sn \div 2 /\ t.sn \div 2 < 2 * p
      BY <3>4, <3>2
    <3>10. Same(i)
      BY <3>2, <3>7, <3>8, <3>9 DEF Same
    <3> QED BY <3>10
  <2> QED BY <2>1, <2>2
<1>4. \A i \in 0..e : Same(i)
  <2>1. \A i \in Nat : i \in T
    <3> T \subseteq Nat
      OBVIOUS
    <3> HIDE DEF T
    <3> QED BY <1>3, AllNaturals
  <2> QED BY <2>1
<1>5. f[e].fn = 0 /\ f[e].sn = 0 /\ g[e].fn = 0 /\ g[e].sn = 1 /\ g[e].fr = f[e].fr /\ g[e].sr = f[e].sr
  <2>1. Pow2[e - e] = 1
    BY Pow2Def
  <2>2. Same(e)
    BY <1>4
  <2> HIDE DEF Same
  <2> QED BY <2>1, <2>2 DEF Same
<1>6. g[e + 1].sn = 0 /\ g[e + 1].fr = f[e].fr /\ g[e + 1].sr = NodeHash(f[e].sr, c[e + 1])
  <2>1. g[e + 1] = Advance(g[e], c[e + 1])
    BY <1>2
  <2>2. g[e + 1].sn = g[e].sn \div 2 /\ g[e + 1].fr = g[e].fr /\ g[e + 1].sr = NodeHash(g[e].sr, c[e + 1])
    BY <2>1, <1>5, StepPlain
  <2> QED BY <2>2, <1>5
<1>7. \A i \in 0..e - 1 : f[i].sn # 0
  <2>1. ASSUME NEW i \in 0..e - 1 PROVE f[i].sn # 0
    <3>1. Pow2[e - i] \in Nat /\ Pow2[e - i] > e - i /\ e - i > 0
      BY Pow2Def
    <3>2. f[i].sn = Pow2[e - i] - 1
      BY <1>4
    <3> QED BY <3>1, <3>2
  <2> QED BY <2>1
<1>8. \A i \in 0..e : g[i].sn # 0
  <2>1. ASSUME NEW i \in 0..e PROVE g[i].sn # 0
    <3>1. Pow2[e - i] \in Nat /\ Pow2[e - i] > 0
      BY Pow2Def
    <3>2. Pow2[e - i] <= g[i].sn
      BY <1>4
    <3> QED BY <3>1, <3>2
  <2> QED BY <2>1
<1> QED BY <1>5, <1>6, <1>7, <1>8 DEF Ends, f, g

\* The run over a leaf right of the split does what the run over the right subtree does, and then
\* takes the left one.
LEMMA RunOfRight ==
    ASSUME NEW e \in Nat, NEW a \in Nat, NEW b \in Nat, a <= b, b < Pow2[e], NEW hash, NEW c, NEW d \in Nat,
           Ends(Run(Begin(a, b, hash), c), d)
    PROVE  LET f == Run(Begin(a, b, hash), c)
               g == Run(Begin(a + Pow2[e], b + Pow2[e], hash), c)
           IN  /\ Ends(g, d + 1)
               /\ g[d + 1].fr = NodeHash(c[d + 1], f[d].fr) /\ g[d + 1].sr = NodeHash(c[d + 1], f[d].sr)
<1> DEFINE f == Run(Begin(a, b, hash), c)
           g == Run(Begin(a + Pow2[e], b + Pow2[e], hash), c)
           Above(i, l) == /\ f[i].fn \in Nat /\ f[i].sn \in Nat /\ f[i].fn <= f[i].sn /\ f[i].sn < Pow2[l]
                          /\ g[i].fn = f[i].fn + Pow2[l] /\ g[i].sn = f[i].sn + Pow2[l]
           Same(i) == f[i].fr = g[i].fr /\ f[i].sr = g[i].sr
           T == {i \in Nat : i <= d => Same(i) /\ \E l \in Nat : Above(i, l)}
<1>0. Pow2[e] \in Nat
  BY Pow2Def
<1>1. f[0] = Begin(a, b, hash) /\ \A i \in Nat : f[i + 1] = Advance(f[i], c[i + 1])
  BY RunDef
<1>2. g[0] = Begin(a + Pow2[e], b + Pow2[e], hash) /\ \A i \in Nat : g[i + 1] = Advance(g[i], c[i + 1])
  BY <1>0, RunDef
<1>e. f[d].sn = 0 /\ \A i \in 0..d - 1 : f[i].sn # 0
  BY DEF Ends
<1> HIDE DEF f, g
<1>3. ASSUME NEW i \in Nat, \A k \in 0..i - 1 : k \in T PROVE i \in T
  <2>1. CASE i = 0
    <3>1. Above(0, e) /\ Same(0)
      BY <1>1, <1>2, <1>0 DEF Begin
    <3> HIDE DEF Above, Same
    <3> QED BY <2>1, <3>1
  <2>2. CASE i > 0 /\ i <= d
    <3> DEFINE j == i - 1 x == c[i] s == f[j] t == g[j]
    <3>1. j \in Nat /\ j + 1 = i /\ Same(j) /\ (\E l \in Nat : Above(j, l)) /\ s.sn # 0
      BY <1>3, <2>2, <1>e
    <3>3. f[i] = Advance(f[j], x) /\ g[i] = Advance(g[j], x)
      BY <3>1, <1>1, <1>2
    <3>2. PICK l \in Nat : Above(j, l)
      BY <3>1
    <3> HIDE DEF j, x
    <3>4. s.fn \in Nat /\ s.sn \in Nat /\ s.fn <= s.sn /\ s.sn < Pow2[l] /\ t.fn = s.fn + Pow2[l] /\ t.sn = s.sn + Pow2[l]
          /\ s.fr = t.fr /\ s.sr = t.sr
      BY <3>1, <3>2
    <3>5. PICK p \in Nat : l - 1 \in Nat /\ p = Pow2[l - 1] /\ Pow2[l] = 2 * p
      <4>1. l # 0
        BY <3>4, <3>1, Pow2Def
      <4>2. l - 1 \in Nat /\ (l - 1) + 1 = l
        BY <4>1
      <4> QED BY <4>2, Pow2Def
    <3>n. t.fn \in Nat /\ t.sn \in Nat
      BY <3>4, <3>5
    <3> HIDE DEF s, t
    <3>6. CASE s.fn % 2 = 1 \/ s.fn # s.sn
      <4>1. (t.fn % 2 = 1 \/ t.fn # t.sn) /\ t.fn % 2 = s.fn % 2 /\ t.fn \div 2 = s.fn \div 2 + p /\ t.sn \div 2 = s.sn \div 2 + p
        <5>1. t.fn = s.fn + 2 * p /\ t.sn = s.sn + 2 * p
          BY <3>4, <3>5
        <5> QED BY <5>1, <3>4, <3>6, DoublePlus
      <4>2. f[i].fn = s.fn \div 2 /\ f[i].sn = s.sn \div 2 /\ g[i].fn = s.fn \div 2 + p /\ g[i].sn = s.sn \div 2 + p
        BY <3>3, <3>4, <3>6, <3>n, <4>1, StepPlain DEF s, t
      <4>3. Same(i)
        <5>1. s.fn % 2 \in {0, 1}
          BY <3>4
        <5>2. CASE s.fn % 2 = 1
          BY <5>2, <3>3, <3>4, <3>n, <4>1, StepPlain DEF s, t
        <5>3. CASE s.fn % 2 = 0
          BY <5>3, <3>3, <3>4, <3>6, <3>n, <4>1, StepPlain DEF s, t
        <5> QED BY <5>1, <5>2, <5>3
      <4>4. s.fn \div 2 \in Nat /\ s.sn \div 2 \in Nat /\ s.fn \div 2 <= s.sn \div 2 /\ s.sn \div 2 < p
        BY <3>4, <3>5
      <4>5. Above(i, l - 1)
        BY <4>2, <4>4, <3>5
      <4> HIDE DEF Above, Same
      <4> QED BY <4>3, <4>5, <3>5
    <3>7. CASE s.fn = s.sn
      <4>1. PICK y, m \in Nat : /\ y % 2 = 1 /\ y < Pow2[m]
                                /\ Strip[s.fn][s.fn] = [fn |-> y, sn |-> y]
                                /\ Strip[t.fn][t.fn] = [fn |-> y + Pow2[m], sn |-> y + Pow2[m]]
        <5>1. PICK w \in Nat : w = s.fn /\ 0 < w /\ w < Pow2[l]
          BY <3>1, <3>4, <3>7
        <5>2. \E y, m \in Nat : /\ y % 2 = 1 /\ y < Pow2[m]
                                /\ Strip[w][w] = [fn |-> y, sn |-> y]
                                /\ Strip[w + Pow2[l]][w + Pow2[l]] = [fn |-> y + Pow2[m], sn |-> y + Pow2[m]]
          <6>1. 0 < w /\ w < Pow2[l]
            BY <5>1
          <6> HIDE DEF T, Same, Above, s, t
          <6> QED BY <6>1, StripBelow
        <5>3. s.fn = w /\ t.fn = w + Pow2[l]
          BY <5>1, <3>4
        <5> HIDE DEF T, Same, Above, s, t
        <5> QED BY <5>2, <5>3
      <4>2. m # 0
        <5>1. Pow2[0] = 1
          BY Pow2Def
        <5>2. y % 2 = 1 /\ y < Pow2[m]
          BY <4>1
        <5>3. y # 0
          BY <5>2
        <5> QED BY <5>1, <5>2, <5>3
      <4>3. PICK q \in Nat : m - 1 \in Nat /\ q = Pow2[m - 1] /\ Pow2[m] = 2 * q
        <5>1. m - 1 \in Nat /\ (m - 1) + 1 = m
          BY <4>2
        <5> QED BY <5>1, Pow2Def
      <4>4. y + Pow2[m] \in Nat /\ (y + Pow2[m]) \div 2 = y \div 2 + q /\ y \div 2 \in Nat /\ y \div 2 < q
        <5>1. y + 2 * q \in Nat /\ (y + 2 * q) \div 2 = y \div 2 + q
          BY DoublePlus
        <5> QED BY <5>1, <4>1, <4>3
      <4>5. f[i].fn = y \div 2 /\ f[i].sn = y \div 2 /\ f[i].fr = NodeHash(x, s.fr) /\ f[i].sr = NodeHash(x, s.sr)
        BY <3>3, <3>7, <4>1, StepShifted DEF s
      <4>6. g[i].fn = y \div 2 + q /\ g[i].sn = y \div 2 + q /\ g[i].fr = NodeHash(x, t.fr) /\ g[i].sr = NodeHash(x, t.sr)
        <5>1. t.fn = t.sn
          BY <3>4, <3>7
        <5> DEFINE w == y + Pow2[m]
        <5>2. w \in Nat /\ Strip[t.fn][t.fn] = [fn |-> w, sn |-> w] /\ w \div 2 = y \div 2 + q
          BY <4>1, <4>4
        <5> HIDE DEF w
        <5> QED BY <3>3, <5>1, <5>2, StepShifted DEF t
      <4>7. Above(i, m - 1)
        BY <4>3, <4>4, <4>5, <4>6
      <4>8. Same(i)
        BY <4>5, <4>6, <3>4
      <4> HIDE DEF Above, Same
      <4> QED BY <4>7, <4>8, <4>3
    <3> QED BY <3>6, <3>7
  <2>3. CASE ~(i <= d)
    BY <2>3
  <2> QED BY <2>1, <2>2, <2>3
<1>4. \A i \in 0..d : Same(i) /\ \E l \in Nat : Above(i, l)
  <2>1. \A i \in Nat : i \in T
    <3> T \subseteq Nat
      OBVIOUS
    <3> HIDE DEF T
    <3> QED BY <1>3, AllNaturals
  <2> HIDE DEF Above, Same
  <2> QED BY <2>1
<1>5. \A i \in 0..d : g[i].sn # 0
  <2>1. ASSUME NEW i \in 0..d PROVE g[i].sn # 0
    <3>1. PICK l \in Nat : Above(i, l)
      BY <1>4
    <3> QED BY <3>1, Pow2Def
  <2> QED BY <2>1
<1>6. g[d + 1].sn = 0 /\ g[d + 1].fr = NodeHash(c[d + 1], f[d].fr) /\ g[d + 1].sr = NodeHash(c[d + 1], f[d].sr)
  <2>1. PICK l \in Nat : Above(d, l)
    BY <1>4
  <2>2. g[d].fn = Pow2[l] /\ g[d].sn = Pow2[l]
    BY <2>1, <1>e, Pow2Def
  <2>3. g[d + 1] = Advance(g[d], c[d + 1])
    BY <1>2
  <2>4. g[d + 1].sn = 1 \div 2 /\ g[d + 1].fr = NodeHash(c[d + 1], g[d].fr) /\ g[d + 1].sr = NodeHash(c[d + 1], g[d].sr)
    BY <2>2, <2>3, StripPower, StepShifted
  <2>5. g[d].fr = f[d].fr /\ g[d].sr = f[d].sr
    BY <1>4
  <2> QED BY <2>4, <2>5
<1> QED BY <1>5, <1>6 DEF Ends, f, g

-----------------------------------------------------------------------------
(* A root determines the hashes under it.                                 *)

\* There are no collisions.
LEMMA NodeHashBinds ==
    ASSUME NEW a, NEW b, NEW x, NEW y, NodeHash(a, b) = NodeHash(x, y)
    PROVE  a = x /\ b = y
  BY DEF NodeHash

\* The n hashes of g after r are those of h after s.
Alike(g, r, h, s, n) == \A i \in 1..n : g[r + i] = h[s + i]

\* A root is the root of no other hashes, wherever they stand.
LEMMA RootsBind ==
    ASSUME NEW g, NEW h, NEW n \in Nat, NEW r \in Nat, NEW s \in Nat
    PROVE  /\ Alike(g, r, h, s, n) => Roots(g)[n][r] = Roots(h)[n][s]
           /\ Roots(g)[n][r] = Roots(h)[n][s] => Alike(g, r, h, s, n)
<1> DEFINE Same(k, p, q) == \A i \in 1..k : g[p + i] = h[q + i]
           T == {k \in Nat : \A p, q \in Nat : Roots(g)[k][p] = Roots(h)[k][q] <=> Same(k, p, q)}
<1>1. ASSUME NEW k \in Nat, \A l \in 0..k - 1 : l \in T, NEW p \in Nat, NEW q \in Nat
      PROVE  Roots(g)[k][p] = Roots(h)[k][q] <=> Same(k, p, q)
  <2>1. CASE k = 0
    <3>1. Roots(g)[0][p] = Roots(h)[0][q]
      BY RootsDef
    <3>2. Same(0, p, q)
      OBVIOUS
    <3> QED BY <2>1, <3>1, <3>2
  <2>2. CASE k = 1
    <3>1. Roots(g)[1][p] = g[p + 1] /\ Roots(h)[1][q] = h[q + 1]
      BY RootsDef
    <3>2. Same(1, p, q) <=> g[p + 1] = h[q + 1]
      <4>1. 1..1 = {1}
        OBVIOUS
      <4> QED BY <4>1
    <3> QED BY <2>2, <3>1, <3>2
  <2>3. CASE k >= 2
    <3>1. PICK m \in Nat : m = Split(k) /\ m \in 0..k - 1 /\ k - m \in 0..k - 1
      BY <2>3, SplitIs
    <3>2. Roots(g)[k][p] = NodeHash(Roots(g)[m][p], Roots(g)[k - m][p + m])
      <4>1. Roots(g)[k][p] = NodeHash(Roots(g)[Split(k)][p], Roots(g)[k - Split(k)][p + Split(k)])
        BY <2>3, RootsDef
      <4> QED BY <3>1, <4>1
    <3>3. Roots(h)[k][q] = NodeHash(Roots(h)[m][q], Roots(h)[k - m][q + m])
      <4>1. Roots(h)[k][q] = NodeHash(Roots(h)[Split(k)][q], Roots(h)[k - Split(k)][q + Split(k)])
        BY <2>3, RootsDef
      <4> QED BY <3>1, <4>1
    <3>4. Roots(g)[k][p] = Roots(h)[k][q]
            <=> Roots(g)[m][p] = Roots(h)[m][q] /\ Roots(g)[k - m][p + m] = Roots(h)[k - m][q + m]
      BY <3>2, <3>3, NodeHashBinds
    <3>5. Roots(g)[m][p] = Roots(h)[m][q] <=> Same(m, p, q)
      <4> HIDE DEF Same
      <4> QED BY <1>1, <3>1
    <3>6. Roots(g)[k - m][p + m] = Roots(h)[k - m][q + m] <=> Same(k - m, p + m, q + m)
      <4> HIDE DEF Same
      <4>1. p + m \in Nat /\ q + m \in Nat /\ k - m \in T
        BY <1>1, <3>1
      <4> QED BY <4>1
    <3>7. Same(k, p, q) <=> Same(m, p, q) /\ Same(k - m, p + m, q + m)
      <4>1. ASSUME Same(k, p, q) PROVE Same(m, p, q)
        BY <4>1, <3>1
      <4>2. ASSUME Same(k, p, q), NEW i \in 1..k - m PROVE g[(p + m) + i] = h[(q + m) + i]
        <5>1. m + i \in 1..k /\ (p + m) + i = p + (m + i) /\ (q + m) + i = q + (m + i)
          BY <3>1
        <5> QED BY <5>1, <4>2
      <4>3. ASSUME Same(m, p, q), Same(k - m, p + m, q + m), NEW i \in 1..k PROVE g[p + i] = h[q + i]
        <5>1. CASE i \in 1..m
          BY <5>1, <4>3
        <5>2. CASE i > m
          <6>1. i - m \in 1..k - m /\ (p + m) + (i - m) = p + i /\ (q + m) + (i - m) = q + i
            BY <5>2, <3>1
          <6>2. g[(p + m) + (i - m)] = h[(q + m) + (i - m)]
            BY <6>1, <4>3
          <6> QED BY <6>1, <6>2
        <5> QED BY <5>1, <5>2, <3>1
      <4> QED BY <4>1, <4>2, <4>3
    <3> HIDE DEF Same
    <3> QED BY <3>4, <3>5, <3>6, <3>7
  <2> QED BY <2>1, <2>2, <2>3
<1>2. n \in T
  <2>1. ASSUME NEW k \in Nat, \A l \in 0..k - 1 : l \in T PROVE k \in T
    <3> HIDE DEF Same
    <3> QED BY <1>1, <2>1
  <2> T \subseteq Nat
    OBVIOUS
  <2> HIDE DEF T
  <2> QED BY <2>1, AllNaturals
<1>3. Roots(g)[n][r] = Roots(h)[n][s] <=> Same(n, r, s)
  <2> HIDE DEF Same
  <2> QED BY <1>2
<1> QED BY <1>3 DEF Alike

-----------------------------------------------------------------------------
(* A range in units.  A consistency proof begins at the largest complete   *)
(* subtree that ends the older tree; the run from there goes over units of *)
(* its width, as an inclusion run goes over leaves, so one argument does   *)
(* for both.                                                               *)

\* The run was never shown an element after its end.
LEMMA OkIs ==
    ASSUME NEW fn \in Nat, NEW sn \in Nat, NEW hash, NEW c, NEW d \in Nat
    PROVE  LET f == Run(Begin(fn, sn, hash), c) IN f[d].ok /\ f[d].sn = 0 <=> Ends(f, d)
<1> DEFINE f == Run(Begin(fn, sn, hash), c)
           T == {i \in Nat : f[i].ok <=> \A j \in 0..i - 1 : f[j].sn # 0}
<1>1. f[0] = Begin(fn, sn, hash) /\ (\A i \in Nat : f[i + 1] = Advance(f[i], c[i + 1]))
     /\ \A i \in Nat : f[i].ok \in BOOLEAN
  BY RunDef
<1> HIDE DEF f
<1>2. ASSUME NEW i \in Nat, \A k \in 0..i - 1 : k \in T PROVE i \in T
  <2>1. CASE i = 0
    BY <2>1, <1>1 DEF Begin
  <2>2. CASE i > 0
    <3>1. i - 1 \in Nat /\ i - 1 \in T /\ (i - 1) + 1 = i
      BY <1>2, <2>2
    <3>2. f[i].ok <=> f[i - 1].ok /\ f[i - 1].sn # 0
      <4>1. f[i].ok = (f[i - 1].ok /\ f[i - 1].sn # 0)
        <5>1. PICK o : o = f[i - 1]
          OBVIOUS
        <5>2. f[i] = Advance(o, c[i])
          BY <3>1, <1>1, <5>1
        <5>3. f[i].ok = (o.ok /\ o.sn # 0)
          BY <5>2 DEF Advance
        <5> QED BY <5>1, <5>3
      <4> QED BY <4>1, <3>1, <1>1
    <3>3. 0..i - 1 = (0..(i - 1) - 1) \cup {i - 1}
      BY <3>1
    <3> QED BY <3>1, <3>2, <3>3
  <2> QED BY <2>1, <2>2
<1>3. d \in T
  <2> T \subseteq Nat
    OBVIOUS
  <2> HIDE DEF T
  <2> QED BY <1>2, AllNaturals
<1> QED BY <1>3 DEF Ends, f

\* A run ends once.
LEMMA OneEnd ==
    ASSUME NEW f, NEW d \in Nat, NEW e \in Nat, Ends(f, d), Ends(f, e)
    PROVE  d = e
<1>1. ~(d < e) /\ ~(e < d)
  BY DEF Ends
<1> QED BY <1>1

\* Products of natural numbers, as the prover needs to be told them.
LEMMA Multiples ==
    ASSUME NEW w \in Nat, NEW u \in Nat, NEW v \in Nat
    PROVE  /\ u * w \in Nat
           /\ u <= v => u * w <= v * w
           /\ u < v => u * w + w <= v * w
<1>1. ASSUME u <= v PROVE u * w <= v * w
  <2>1. PICK z \in Nat : v = u + z
    BY <1>1, v - u \in Nat
  <2>2. v * w = u * w + z * w /\ z * w \in Nat /\ u * w \in Nat
    BY <2>1
  <2> QED BY <2>2
<1>2. ASSUME u < v PROVE u * w + w <= v * w
  <2>1. PICK z \in Nat : v = u + 1 + z
    BY <1>2, v - u - 1 \in Nat
  <2>2. v * w = u * w + w + z * w /\ z * w \in Nat /\ u * w \in Nat
    BY <2>1
  <2> QED BY <2>2
<1> QED BY <1>1, <1>2

\* A range is split at k, which is p units.
SplitsAt(n, w, k, p) == k = Split(n) /\ k = p * w /\ \E e \in Nat : p = Pow2[e]

\* A range of more than one unit splits at some units, a power of two, and so do the cursors over it.
LEMMA CursorsSplit ==
    ASSUME NEW n \in Nat, NEW w \in Nat, IsPowerOfTwo(w), w < n,
           NEW p \in Nat, NEW k \in Nat, SplitsAt(n, w, k, p)
    PROVE  /\ p > 0 /\ k < n /\ n <= 2 * k
           /\ (k - 1) \div w = p - 1
           /\ (n - 1) \div w \in Nat /\ p <= (n - 1) \div w /\ (n - 1) \div w < 2 * p
           /\ (n - k - 1) \div w \in Nat /\ (n - k - 1) \div w + p = (n - 1) \div w
           /\ (n - k - 1) \div w < p
<1>2. n >= 2 /\ w > 0 /\ p > 0
  BY PowerOfTwo, Pow2Def DEF SplitsAt
<1>3. k = p * w
  BY DEF SplitsAt
<1>4. k < n /\ n <= 2 * k /\ k > 0
  <2>1. k = Split(n)
    BY DEF SplitsAt
  <2> QED BY <1>2, <2>1, SplitIs
<1>5. (k - 1) \div w = p - 1
  <2>1. (p - 1) * w = k - w /\ p - 1 \in Nat /\ k - 1 \in Nat
    BY <1>2, <1>3, <1>4
  <2>2. (p - 1) * w <= k - 1 /\ k - 1 < (p - 1) * w + w
    BY <2>1, <1>2
  <2> QED BY <2>1, <2>2, <1>2, Floor
<1> DEFINE b == (n - 1) \div w  a == (n - k - 1) \div w
<1>6. b \in Nat /\ b * w <= n - 1 /\ n - 1 < b * w + w
  BY <1>2, n - 1 \in Nat, Floor
<1>7. a \in Nat /\ a * w <= n - k - 1 /\ n - k - 1 < a * w + w
  BY <1>2, <1>4, n - k - 1 \in Nat, Floor
<1>8. a + p = b
  <2>1. (a + p) * w = a * w + k
    BY <1>3, <1>7
  <2>2. a + p \in Nat /\ n - 1 \in Nat /\ a * w \in Nat /\ (a + p) * w <= n - 1 /\ n - 1 < (a + p) * w + w
    BY <1>2, <1>7, <2>1, <1>4
  <2> HIDE DEF a
  <2> QED BY <2>2, <1>2, Floor
<1>9. a < p
  <2> HIDE DEF a
  <2>1. SUFFICES ASSUME p <= a PROVE FALSE
    BY <1>7
  <2>2. PICK z \in Nat : a = p + z
    BY <2>1, <1>7, a - p \in Nat
  <2>3. a * w = k + z * w /\ z * w \in Nat
    BY <2>2, <1>3
  <2> QED BY <2>3, <1>4, <1>7
<1> HIDE DEF a, b
<1>10. p <= b /\ b < 2 * p
  BY <1>7, <1>8, <1>9
<1> QED BY <1>2, <1>4, <1>5, <1>6, <1>7, <1>8, <1>9, <1>10 DEF a, b

\* The run over a range of n hashes, from the u-th unit of width w.
RunOver(n, u, w, hash, c) == Run(Begin(u - 1, (n - 1) \div w, hash), c)

\* The first u units of width w lie in n.
Within(u, w, n) == u * w <= n

\* Over a single unit there is nothing to do.
LEMMA RunOfUnit ==
    ASSUME NEW w \in Nat, w > 0, NEW hash, NEW c
    PROVE  LET f == RunOver(w, 1, w, hash, c) IN Ends(f, 0) /\ f[0].fr = hash /\ f[0].sr = hash
<1> DEFINE f == Run(Begin(0, 0, hash), c)
<1>1. (w - 1) \div w = 0 /\ 1 - 1 = 0
  BY Floor
<1>2. RunOver(w, 1, w, hash, c) = f
  BY <1>1 DEF RunOver
<1>3. f[0] = Begin(0, 0, hash)
  BY RunDef
<1> HIDE DEF f
<1> QED BY <1>2, <1>3 DEF Ends, Begin

\* How the run over a split range ends, from how the run over the unit's side of it ends.
LEMMA RunSplitsLeft ==
    ASSUME NEW n \in Nat, NEW w \in Nat, IsPowerOfTwo(w), w < n, NEW u \in Nat, u > 0, NEW hash, NEW c,
           NEW p \in Nat, NEW k \in Nat, SplitsAt(n, w, k, p), u <= p,
           NEW d \in Nat, NEW g, g = RunOver(n, u, w, hash, c), NEW f, f = RunOver(k, u, w, hash, c), Ends(f, d)
    PROVE  Ends(g, d + 1) /\ g[d + 1].fr = f[d].fr /\ g[d + 1].sr = NodeHash(f[d].sr, c[d + 1])
<1> DEFINE b == (n - 1) \div w
<1>1. (k - 1) \div w = p - 1 /\ b \in Nat /\ p <= b /\ b < 2 * p
  BY CursorsSplit
<1>2. f = Run(Begin(u - 1, p - 1, hash), c) /\ g = Run(Begin(u - 1, b, hash), c)
  BY <1>1 DEF RunOver
<1>3. u - 1 \in Nat /\ u - 1 < p
  OBVIOUS
<1> HIDE DEF b
<1>e. PICK e \in Nat : p = Pow2[e]
  BY DEF SplitsAt
<1>4. Ends(f, e) /\ Ends(g, e + 1) /\ g[e + 1].fr = f[e].fr /\ g[e + 1].sr = NodeHash(f[e].sr, c[e + 1])
  BY <1>1, <1>2, <1>3, <1>e, RunOfLeft
<1>5. d = e
  BY <1>4, OneEnd
<1> QED BY <1>4, <1>5

\* The same, where the unit is right of the split.
LEMMA RunSplitsRight ==
    ASSUME NEW n \in Nat, NEW w \in Nat, IsPowerOfTwo(w), w < n, NEW u \in Nat, Within(u, w, n), NEW hash, NEW c,
           NEW p \in Nat, NEW k \in Nat, SplitsAt(n, w, k, p), u > p,
           NEW d \in Nat, NEW g, g = RunOver(n, u, w, hash, c), NEW f, f = RunOver(n - k, u - p, w, hash, c), Ends(f, d)
    PROVE  /\ Ends(g, d + 1)
           /\ g[d + 1].fr = NodeHash(c[d + 1], f[d].fr) /\ g[d + 1].sr = NodeHash(c[d + 1], f[d].sr)
<1> DEFINE a == (n - k - 1) \div w
           b == (n - 1) \div w
           v == u - p - 1
<1>1. a \in Nat /\ b \in Nat /\ a + p = b /\ a < p
  BY CursorsSplit
<1>2. v \in Nat /\ v + p = u - 1
  OBVIOUS
<1>3. f = Run(Begin(v, a, hash), c) /\ g = Run(Begin(v + p, a + p, hash), c)
  BY <1>1, <1>2 DEF RunOver
<1>4. v <= a
  <2>1. (u - 1) * w <= n - 1 /\ u - 1 \in Nat /\ n - 1 \in Nat /\ w > 0
    <3>1. (u - 1) * w = u * w - w /\ w > 0 /\ u * w <= n
      BY PowerOfTwo DEF Within
    <3> QED BY <3>1
  <2>2. n - 1 < b * w + w
    BY <2>1, Floor
  <2> HIDE DEF a, b, v
  <2>3. b < u - 1 => b * w + w <= (u - 1) * w
    BY <1>1, <2>1, Multiples
  <2>4. b * w \in Nat /\ (u - 1) * w \in Nat
    BY <1>1, <2>1, Multiples
  <2>5. u - 1 <= b
    BY <1>1, <2>1, <2>2, <2>3, <2>4
  <2> QED BY <1>1, <1>2, <2>5
<1>e. PICK e \in Nat : p = Pow2[e]
  BY DEF SplitsAt
<1> HIDE DEF a, b, v
<1> QED BY <1>1, <1>2, <1>3, <1>4, <1>e, RunOfRight

-----------------------------------------------------------------------------
(* What an accepted run proves.                                           *)

\* A run that ends with the root of the range began with the unit's own hash, and holds the root of
\* the range that ends with the unit.
Sound(w, h, hash, c, n, u, s) ==
    LET f == RunOver(n, u, w, hash, c) IN
    \E d \in Nat : /\ Ends(f, d)
                   /\ f[d].sr = Roots(h)[n][s] => /\ hash = Roots(h)[w][s + (u * w - w)]
                                                  /\ f[d].fr = Roots(h)[u * w][s]

\* An accepted run proves what it says, by induction over the width of the range.
LEMMA RunIsSound ==
    ASSUME NEW w \in Nat, IsPowerOfTwo(w), NEW h, NEW hash, NEW c,
           NEW n \in Nat, NEW u \in Nat, u > 0, u * w <= n, NEW s \in Nat
    PROVE  Sound(w, h, hash, c, n, u, s)
<1> DEFINE T == {k \in Nat : \A v, q \in Nat : v > 0 /\ v * w <= k => Sound(w, h, hash, c, k, v, q)}
<1>w. w > 0
  BY PowerOfTwo
<1>1. ASSUME NEW k \in Nat, \A l \in 0..k - 1 : l \in T, NEW v \in Nat, NEW q \in Nat, v > 0, v * w <= k
      PROVE  Sound(w, h, hash, c, k, v, q)
  <2>a. ASSUME NEW l \in 0..k - 1, NEW x \in Nat, NEW r \in Nat, x > 0, x * w <= l
        PROVE  Sound(w, h, hash, c, l, x, r)
    BY <1>1, <2>a
  <2> HIDE DEF T
  <2>0. PICK y \in Nat : y = v * w /\ w <= y
    <3>1. 0 * w + w <= v * w /\ v * w \in Nat
      BY <1>1, Multiples
    <3> QED BY <3>1
  <2>1. CASE k = w
    <3>1. v = 1
      <4>1. 1 < v => 1 * w + w <= v * w
        BY Multiples
      <4> QED BY <4>1, <2>0, <2>1, <1>1, <1>w
    <3> DEFINE f == RunOver(k, v, w, hash, c)
    <3>2. Ends(f, 0) /\ f[0].fr = hash /\ f[0].sr = hash
      BY <1>w, <2>1, <3>1, RunOfUnit
    <3>3. v * w = w /\ q + (v * w - w) = q
      BY <3>1
    <3> HIDE DEF f
    <3> QED BY <3>2, <3>3, <2>1 DEF Sound, f
  <2>2. CASE w < k
    <3>1. PICK p \in Nat, m \in Nat : SplitsAt(k, w, m, p)
      <4>1. PICK e \in Nat : Split(k) = Pow2[e] * w
        BY <2>2, SplitInUnits
      <4>2. Split(k) \in Nat
        <5>1. k >= 2
          BY <2>2, <1>w
        <5> QED BY <5>1, SplitIs
      <4>3. Pow2[e] \in Nat
        BY Pow2Def
      <4> QED BY <4>1, <4>2, <4>3 DEF SplitsAt
    <3>2. m = Split(k) /\ m \in 1..k - 1 /\ k <= 2 * m /\ k >= 2 /\ IsPowerOfTwo(m)
      <4>1. m = Split(k)
        BY <3>1 DEF SplitsAt
      <4> QED BY <2>2, <4>1, <1>w, SplitIs
    <3>m. m = p * w
      BY <3>1 DEF SplitsAt
    <3> DEFINE g == RunOver(k, v, w, hash, c)
    <3>3. Roots(h)[k][q] = NodeHash(Roots(h)[m][q], Roots(h)[k - m][q + m])
      <4>1. k >= 2 /\ m = Split(k)
        BY <3>2
      <4>2. Roots(h)[k][q] = NodeHash(Roots(h)[Split(k)][q], Roots(h)[k - Split(k)][q + Split(k)])
        BY <4>1, RootsDef
      <4> QED BY <4>1, <4>2
    <3>4. CASE v <= p
      <4>1. y <= m
        BY <3>4, <2>0, <3>m, Multiples
      <4> DEFINE f == RunOver(m, v, w, hash, c)
      <4>2. Sound(w, h, hash, c, m, v, q)
        <5>1. m \in 0..k - 1 /\ v * w <= m
          BY <3>2, <4>1, <2>0
        <5> QED BY <5>1, <2>a, <1>1
      <4>3. PICK d \in Nat : /\ Ends(f, d)
                             /\ f[d].sr = Roots(h)[m][q] => /\ hash = Roots(h)[w][q + (v * w - w)]
                                                            /\ f[d].fr = Roots(h)[v * w][q]
        BY <4>2 DEF Sound
      <4>f. f = RunOver(m, v, w, hash, c) /\ g = RunOver(k, v, w, hash, c)
        OBVIOUS
      <4> HIDE DEF f, g
      <4>4. Ends(g, d + 1) /\ g[d + 1].fr = f[d].fr /\ g[d + 1].sr = NodeHash(f[d].sr, c[d + 1])
        BY <1>1, <2>2, <3>1, <3>4, <4>3, <4>f, RunSplitsLeft
      <4>5. ASSUME g[d + 1].sr = Roots(h)[k][q]
            PROVE  hash = Roots(h)[w][q + (v * w - w)] /\ g[d + 1].fr = Roots(h)[v * w][q]
        <5>0. NodeHash(f[d].sr, c[d + 1]) = NodeHash(Roots(h)[m][q], Roots(h)[k - m][q + m])
          BY <4>4, <4>5, <3>3
        <5>1. f[d].sr = Roots(h)[m][q]
          BY <5>0 DEF NodeHash
        <5> QED BY <5>1, <4>3, <4>4
      <4>6. d + 1 \in Nat
        OBVIOUS
      <4> QED BY <4>4, <4>5, <4>6 DEF Sound, g
    <3>5. CASE v > p
      <4>1. PICK x \in Nat : x = v - p /\ x > 0
        BY <3>5, v - p \in Nat
      <4>y. PICK z \in Nat : z = x * w /\ z = y - m /\ z >= w
        <5>1. x * w = v * w - p * w
          BY <4>1
        <5>2. x * w \in Nat /\ 0 * w + w <= x * w
          BY <4>1, Multiples
        <5> QED BY <5>1, <5>2, <2>0, <3>m
      <4> DEFINE f == RunOver(k - m, x, w, hash, c)
      <4>2. k - m \in 0..k - 1 /\ z <= k - m /\ q + m \in Nat
        BY <4>y, <2>0, <3>2, <1>1
      <4>3. Sound(w, h, hash, c, k - m, x, q + m)
        BY <2>a, <4>1, <4>2, <4>y
      <4>4. PICK d \in Nat : /\ Ends(f, d)
                             /\ f[d].sr = Roots(h)[k - m][q + m] => /\ hash = Roots(h)[w][q + m + (x * w - w)]
                                                                    /\ f[d].fr = Roots(h)[x * w][q + m]
        BY <4>3 DEF Sound
      <4>f. f = RunOver(k - m, v - p, w, hash, c) /\ g = RunOver(k, v, w, hash, c)
        BY <4>1
      <4> HIDE DEF f, g
      <4>5. Ends(g, d + 1) /\ g[d + 1].fr = NodeHash(c[d + 1], f[d].fr) /\ g[d + 1].sr = NodeHash(c[d + 1], f[d].sr)
        <5>1. v > p /\ Within(v, w, k) /\ w < k /\ Ends(f, d) /\ SplitsAt(k, w, m, p)
          BY <1>1, <2>2, <3>1, <3>5, <4>4 DEF Within
        <5> QED BY <5>1, <4>f, RunSplitsRight
      <4>6. ASSUME g[d + 1].sr = Roots(h)[k][q]
            PROVE  hash = Roots(h)[w][q + (v * w - w)] /\ g[d + 1].fr = Roots(h)[v * w][q]
        <5>0. NodeHash(c[d + 1], f[d].sr) = NodeHash(Roots(h)[m][q], Roots(h)[k - m][q + m])
          BY <4>5, <4>6, <3>3
        <5>1. f[d].sr = Roots(h)[k - m][q + m] /\ c[d + 1] = Roots(h)[m][q]
          BY <5>0 DEF NodeHash
        <5>2. q + m + (z - w) = q + (y - w) /\ z = y - m
          BY <4>y, <2>0, <3>2
        <5>3. g[d + 1].fr = NodeHash(Roots(h)[m][q], Roots(h)[y - m][q + m])
          BY <5>1, <5>2, <4>4, <4>5, <4>y
        <5>4. Split(y) = m /\ y >= 2
          <6>1. m < y /\ y <= 2 * m /\ y >= 2
            BY <4>y, <4>2, <1>1, <2>0, <3>2, <1>w
          <6> QED BY <6>1, <3>2, SplitIs
        <5>5. Roots(h)[y][q] = NodeHash(Roots(h)[m][q], Roots(h)[y - m][q + m])
          BY <5>4, RootsDef
        <5>6. hash = Roots(h)[w][q + m + (z - w)]
          BY <5>1, <4>4, <4>y
        <5> QED BY <5>2, <5>3, <5>5, <5>6, <2>0
      <4>7. d + 1 \in Nat
        OBVIOUS
      <4> QED BY <4>5, <4>6, <4>7 DEF Sound, g
    <3> QED BY <3>1, <3>4, <3>5
  <2> QED BY <2>0, <2>1, <2>2, <1>1
<1>2. n \in T
  <2>1. ASSUME NEW k \in Nat, \A l \in 0..k - 1 : l \in T PROVE k \in T
    BY <1>1, <2>1
  <2> T \subseteq Nat
    OBVIOUS
  <2> HIDE DEF T
  <2> QED BY <2>1, AllNaturals
<1> QED BY <1>2

-----------------------------------------------------------------------------
(* The proofs the log computes.                                           *)

\* The roots of all ranges, by any rule.
RootsIn(r) == {r[n][s] : n, s \in Nat}

\* A path one level down the recursion, from the paths of smaller ranges.
PathStep(g, r, n, m, s) ==
    LET k == Split(n)
    IN  IF n <= 1 THEN <<>>
        ELSE IF m < k THEN Append(g[k][m][s], r[n - k][s + k])
        ELSE Append(g[n - k][m - k][s + k], r[k][s])

\* The equations of the paths.
LEMMA InclusionPathsDef ==
    ASSUME NEW r, NEW n \in Nat, NEW m \in Nat, NEW s \in Nat
    PROVE  /\ InclusionPaths(r)[n][m][s] \in Seq(RootsIn(r))
           /\ InclusionPaths(r)[n][m][s] = PathStep(InclusionPaths(r), r, n, m, s)
<1> DEFINE S == Seq(RootsIn(r))
           B == [Nat -> [Nat -> S]]
           E(g, j) == [i \in Nat |-> [q \in Nat |-> PathStep(g, r, j, i, q)]]
           H == [j \in Nat |-> [g \in [Nat -> B] |-> E(g, j)]]
<1>1. \A j \in Nat : ~(j <= 1) => Split(j) \in 0..j - 1 /\ j - Split(j) \in 0..j - 1 /\ Split(j) \in Nat /\ j - Split(j) \in Nat
  BY SplitIs
<1>2. \A z \in S : \A j, q \in Nat : Append(z, r[j][q]) \in S
  <2>1. \A j, q \in Nat : r[j][q] \in RootsIn(r)
    BY DEF RootsIn
  <2> QED BY <2>1, AppendProperties
<1>3. <<>> \in S
  OBVIOUS
<1> HIDE DEF S
<1>4. ASSUME NEW j \in Nat, NEW g, \A i \in 0..j - 1 : g[i] \in B PROVE E(g, j) \in B
  <2>1. ASSUME NEW i \in Nat, NEW q \in Nat PROVE PathStep(g, r, j, i, q) \in S
    <3> DEFINE k == Split(j)
    <3>1. CASE j <= 1
      BY <3>1, <1>3 DEF PathStep
    <3>2. CASE ~(j <= 1) /\ i < k
      <4>1. k \in 0..j - 1 /\ j - k \in Nat /\ q + k \in Nat
        BY <3>2, <1>1
      <4>2. g[k][i][q] \in S
        BY <4>1, <1>4
      <4>3. PathStep(g, r, j, i, q) = Append(g[k][i][q], r[j - k][q + k])
        BY <3>2 DEF PathStep
      <4> HIDE DEF k
      <4> QED BY <4>1, <4>2, <4>3, <1>2
    <3>3. CASE ~(j <= 1) /\ ~(i < k)
      <4>1. j - k \in 0..j - 1 /\ i - k \in Nat /\ q + k \in Nat /\ k \in Nat
        BY <3>3, <1>1
      <4>2. g[j - k][i - k][q + k] \in S
        <5> HIDE DEF k
        <5> QED BY <4>1, <1>4
      <4>3. PathStep(g, r, j, i, q) = Append(g[j - k][i - k][q + k], r[k][q])
        BY <3>3 DEF PathStep
      <4> HIDE DEF k
      <4> QED BY <4>1, <4>2, <4>3, <1>2
    <3> QED BY <3>1, <3>2, <3>3
  <2> QED BY <2>1
<1>5. ASSUME NEW j \in Nat, NEW f, NEW g, \A i \in 0..j - 1 : f[i] = g[i] PROVE E(f, j) = E(g, j)
  <2>1. ASSUME NEW i \in Nat, NEW q \in Nat PROVE PathStep(f, r, j, i, q) = PathStep(g, r, j, i, q)
    BY <1>5, <1>1 DEF PathStep
  <2> QED BY <2>1
<1>6. Recursive(B, H)
  <2>1. ASSUME NEW j \in Nat, NEW g \in [Nat -> B] PROVE E(g, j) \in B
    <3> HIDE DEF E, B
    <3> QED BY <1>4
  <2> HIDE DEF E, B
  <2> QED BY <2>1, <1>5 DEF Recursive
<1>7. [i \in Nat |-> [q \in Nat |-> <<>>]] \in B
  BY <1>3
<1>8. HasValues(B, H)
  <2> HIDE DEF B, H
  <2> QED BY <1>6, <1>7, Recursion, Zenon
<1>9. \E f : f \in [Nat -> B] /\ f = [j \in Nat |-> E(f, j)]
  <2> HIDE DEF E, B
  <2>1. PICK f \in [Nat -> B] : \A j \in Nat : f[j] = H[j][f]
    BY <1>8 DEF HasValues
  <2> QED BY <2>1
<1> DEFINE P == InclusionPaths(r)
<1>10. P = [j \in Nat |-> E(P, j)]
  <2> HIDE DEF B
  <2> QED BY <1>9 DEF InclusionPaths, PathStep
<1> HIDE DEF P
<1>11. \A j \in Nat : P[j] = E(P, j)
  <2> HIDE DEF E
  <2> QED BY <1>10
<1> DEFINE T == {j \in Nat : P[j] \in B}
<1>12. ASSUME NEW j \in Nat, \A i \in 0..j - 1 : i \in T PROVE j \in T
  <2> HIDE DEF E, B
  <2> QED BY <1>12, <1>4, <1>11
<1>13. n \in T
  <2> T \subseteq Nat
    OBVIOUS
  <2> HIDE DEF T
  <2> QED BY <1>12, AllNaturals
<1>14. P[n][m][s] \in S
  BY <1>13
<1>15. P[n][m][s] = PathStep(P, r, n, m, s)
  <2>1. P[n] = [i \in Nat |-> [q \in Nat |-> PathStep(P, r, n, i, q)]]
    BY <1>11
  <2>2. P[n][m] = [q \in Nat |-> PathStep(P, r, n, m, q)]
    BY <2>1
  <2> QED BY <2>2
<1> QED BY <1>14, <1>15 DEF P, S

\* A proof one level down the recursion.
ProofStep(g, r, n, m, s, whole) ==
    LET k == Split(n)
    IN  IF n <= m THEN (IF whole THEN <<>> ELSE <<r[n][s]>>)
        ELSE IF m <= k THEN Append(g[k][m][s][whole], r[n - k][s + k])
        ELSE Append(g[n - k][m - k][s + k][FALSE], r[k][s])

\* The equations of the consistency proofs.
LEMMA SubproofsDef ==
    ASSUME NEW r, NEW n \in Nat, NEW m \in Nat \ {0}, NEW s \in Nat, NEW whole \in BOOLEAN
    PROVE  /\ Subproofs(r)[n][m][s][whole] \in Seq(RootsIn(r))
           /\ Subproofs(r)[n][m][s][whole] = ProofStep(Subproofs(r), r, n, m, s, whole)
<1> DEFINE S == Seq(RootsIn(r))
           M == Nat \ {0}
           B == [M -> [Nat -> [BOOLEAN -> S]]]
           E(g, j) == [i \in M |-> [q \in Nat |-> [b \in BOOLEAN |-> ProofStep(g, r, j, i, q, b)]]]
           H == [j \in Nat |-> [g \in [Nat -> B] |-> E(g, j)]]
<1>1. \A j \in Nat : \A i \in M : ~(j <= i) =>
        Split(j) \in 0..j - 1 /\ j - Split(j) \in 0..j - 1 /\ Split(j) \in Nat /\ j - Split(j) \in Nat
  BY SplitIs
<1>2. \A z \in S : \A j, q \in Nat : Append(z, r[j][q]) \in S
  <2>1. \A j, q \in Nat : r[j][q] \in RootsIn(r)
    BY DEF RootsIn
  <2> QED BY <2>1, AppendProperties
<1>3. <<>> \in S /\ \A j, q \in Nat : <<r[j][q]>> \in S
  BY DEF RootsIn
<1> HIDE DEF S
<1>4. ASSUME NEW j \in Nat, NEW g, \A i \in 0..j - 1 : g[i] \in B PROVE E(g, j) \in B
  <2>1. ASSUME NEW i \in M, NEW q \in Nat, NEW b \in BOOLEAN PROVE ProofStep(g, r, j, i, q, b) \in S
    <3> DEFINE k == Split(j)
    <3>1. CASE j <= i
      BY <3>1, <1>3 DEF ProofStep
    <3>2. CASE ~(j <= i) /\ i <= k
      <4>1. k \in 0..j - 1 /\ j - k \in Nat /\ q + k \in Nat
        BY <3>2, <1>1
      <4>2. g[k][i][q][b] \in S
        <5>1. g[k] \in B
          BY <4>1, <1>4
        <5>2. g[k][i] \in [Nat -> [BOOLEAN -> S]]
          BY <5>1
        <5>3. g[k][i][q] \in [BOOLEAN -> S]
          BY <5>2
        <5> QED BY <5>3, Zenon
      <4>3. ProofStep(g, r, j, i, q, b) = Append(g[k][i][q][b], r[j - k][q + k])
        BY <3>2 DEF ProofStep
      <4> HIDE DEF k
      <4> QED BY <4>1, <4>2, <4>3, <1>2
    <3>3. CASE ~(j <= i) /\ ~(i <= k)
      <4>1. j - k \in 0..j - 1 /\ i - k \in M /\ q + k \in Nat /\ k \in Nat
        BY <3>3, <1>1
      <4>2. g[j - k][i - k][q + k][FALSE] \in S
        <5>1. g[j - k] \in B
          BY <4>1, <1>4
        <5>2. g[j - k][i - k] \in [Nat -> [BOOLEAN -> S]]
          BY <4>1, <5>1
        <5>3. g[j - k][i - k][q + k] \in [BOOLEAN -> S]
          BY <4>1, <5>2
        <5> QED BY <5>3, FALSE \in BOOLEAN, Zenon
      <4>3. ProofStep(g, r, j, i, q, b) = Append(g[j - k][i - k][q + k][FALSE], r[k][q])
        BY <3>3 DEF ProofStep
      <4> HIDE DEF k
      <4> QED BY <4>1, <4>2, <4>3, <1>2
    <3> QED BY <3>1, <3>2, <3>3
  <2> QED BY <2>1
<1>5. ASSUME NEW j \in Nat, NEW f, NEW g, \A i \in 0..j - 1 : f[i] = g[i] PROVE E(f, j) = E(g, j)
  <2>1. ASSUME NEW i \in M, NEW q \in Nat, NEW b \in BOOLEAN PROVE ProofStep(f, r, j, i, q, b) = ProofStep(g, r, j, i, q, b)
    BY <1>5, <1>1 DEF ProofStep
  <2> QED BY <2>1
<1>6. Recursive(B, H)
  <2>1. ASSUME NEW j \in Nat, NEW g \in [Nat -> B] PROVE E(g, j) \in B
    <3> HIDE DEF E, B
    <3> QED BY <1>4
  <2> HIDE DEF E, B
  <2> QED BY <2>1, <1>5 DEF Recursive
<1>7. [i \in M |-> [q \in Nat |-> [b \in BOOLEAN |-> <<>>]]] \in B
  BY <1>3
<1>8. HasValues(B, H)
  <2> HIDE DEF B, H
  <2> QED BY <1>6, <1>7, Recursion, Zenon
<1>9. \E f : f \in [Nat -> B] /\ f = [j \in Nat |-> E(f, j)]
  <2> HIDE DEF E, B
  <2>1. PICK f \in [Nat -> B] : \A j \in Nat : f[j] = H[j][f]
    BY <1>8 DEF HasValues
  <2> QED BY <2>1
<1> DEFINE P == Subproofs(r)
<1>10. P = [j \in Nat |-> E(P, j)]
  <2> HIDE DEF B
  <2> QED BY <1>9 DEF Subproofs, ProofStep
<1> HIDE DEF P
<1>11. \A j \in Nat : P[j] = E(P, j)
  <2> HIDE DEF E
  <2> QED BY <1>10
<1> DEFINE T == {j \in Nat : P[j] \in B}
<1>12. ASSUME NEW j \in Nat, \A i \in 0..j - 1 : i \in T PROVE j \in T
  <2> HIDE DEF E, B
  <2> QED BY <1>12, <1>4, <1>11
<1>13. n \in T
  <2> T \subseteq Nat
    OBVIOUS
  <2> HIDE DEF T
  <2> QED BY <1>12, AllNaturals
<1>14. P[n][m][s][whole] \in S
  BY <1>13
<1>15. P[n][m][s][whole] = ProofStep(P, r, n, m, s, whole)
  <2>1. P[n] = [i \in M |-> [q \in Nat |-> [b \in BOOLEAN |-> ProofStep(P, r, n, i, q, b)]]]
    BY <1>11
  <2>2. P[n][m] = [q \in Nat |-> [b \in BOOLEAN |-> ProofStep(P, r, n, m, q, b)]]
    BY <2>1
  <2>3. P[n][m][s] = [b \in BOOLEAN |-> ProofStep(P, r, n, m, s, b)]
    BY <2>2
  <2> QED BY <2>3, Zenon
<1> QED BY <1>14, <1>15 DEF P, S

-----------------------------------------------------------------------------
(* They lead the verifier to the root.                                    *)

\* A sequence of hashes, whatever they are.
IsList(e) == \E V : e \in Seq(V)

\* The verifier that begins with the hash of the u-th unit of a range, and is shown e, ends with the
\* root of the range.
Leads(w, h, n, u, s, hash, e) ==
    \A c : (\A i \in 1..Len(e) : c[i] = e[i]) =>
              LET f == RunOver(n, u, w, hash, c) IN Ends(f, Len(e)) /\ f[Len(e)].sr = Roots(h)[n][s]

\* A unit is its own root; and a side that leads to its root leads, with the other side's, to the root of both.
LEMMA LeadsFromUnit ==
    ASSUME NEW w \in Nat, w > 0, NEW h, NEW s \in Nat
    PROVE  Leads(w, h, w, 1, s, Roots(h)[w][s], <<>>)
<1>1. Len(<<>>) = 0
  OBVIOUS
<1> QED BY <1>1, RunOfUnit DEF Leads

LEMMA LeadsFromLeft ==
    ASSUME NEW n \in Nat, NEW w \in Nat, IsPowerOfTwo(w), w < n, NEW u \in Nat, u > 0, NEW h, NEW s \in Nat, NEW hash,
           NEW p \in Nat, NEW k \in Nat, SplitsAt(n, w, k, p), u <= p, NEW e, IsList(e), NEW x,
           x = Roots(h)[n - k][s + k], Leads(w, h, k, u, s, hash, e)
    PROVE  Leads(w, h, n, u, s, hash, Append(e, x))
<1>1. n >= 2 /\ k = Split(n)
  <2>1. k = Split(n)
    BY DEF SplitsAt
  <2> QED BY <2>1, PowerOfTwo
<1>2. Roots(h)[n][s] = NodeHash(Roots(h)[k][s], x)
  <2>1. Roots(h)[n][s] = NodeHash(Roots(h)[k][s], Roots(h)[n - k][s + k])
    BY <1>1, RootsSplit
  <2> QED BY <2>1
<1>3. /\ Len(Append(e, x)) = Len(e) + 1 /\ Len(e) \in Nat /\ Append(e, x)[Len(e) + 1] = x
      /\ \A i \in 1..Len(e) : Append(e, x)[i] = e[i]
  BY DEF IsList
<1>4. ASSUME NEW c, \A i \in 1..Len(e) + 1 : c[i] = Append(e, x)[i]
      PROVE  LET g == RunOver(n, u, w, hash, c) IN Ends(g, Len(e) + 1) /\ g[Len(e) + 1].sr = Roots(h)[n][s]
  <2> DEFINE g == RunOver(n, u, w, hash, c) f == RunOver(k, u, w, hash, c) d == Len(e)
  <2>1. (\A i \in 1..d : c[i] = e[i]) /\ c[d + 1] = x
    <3>1. \A i \in 1..d : i \in 1..d + 1
      BY <1>3
    <3>2. d + 1 \in 1..d + 1
      BY <1>3
    <3> HIDE DEF f, g
    <3> QED BY <1>3, <1>4, <3>1, <3>2
  <2>2. Ends(f, d) /\ f[d].sr = Roots(h)[k][s]
    BY <2>1 DEF Leads
  <2>3. d \in Nat /\ g = RunOver(n, u, w, hash, c) /\ f = RunOver(k, u, w, hash, c)
    BY <1>3
  <2> HIDE DEF g, f, d
  <2>4. Ends(g, d + 1) /\ g[d + 1].sr = NodeHash(f[d].sr, c[d + 1])
    BY <2>2, <2>3, RunSplitsLeft
  <2>5. g[d + 1].sr = Roots(h)[n][s]
    BY <2>1, <2>2, <2>4, <1>2
  <2> QED BY <2>4, <2>5 DEF g, d
<1> HIDE <1>4
<1> QED BY <1>3, <1>4 DEF Leads

LEMMA LeadsFromRight ==
    ASSUME NEW n \in Nat, NEW w \in Nat, IsPowerOfTwo(w), w < n, NEW u \in Nat, Within(u, w, n), NEW h, NEW s \in Nat, NEW hash,
           NEW p \in Nat, NEW k \in Nat, SplitsAt(n, w, k, p), u > p, NEW e, IsList(e), NEW x,
           x = Roots(h)[k][s], NEW j \in Nat, j = n - k, NEW v \in Nat, v = u - p, NEW t \in Nat, t = s + k,
           Leads(w, h, j, v, t, hash, e)
    PROVE  Leads(w, h, n, u, s, hash, Append(e, x))
<1>1. n >= 2 /\ k = Split(n)
  <2>1. k = Split(n)
    BY DEF SplitsAt
  <2> QED BY <2>1, PowerOfTwo
<1>2. Roots(h)[n][s] = NodeHash(x, Roots(h)[n - k][s + k])
  <2>1. Roots(h)[n][s] = NodeHash(Roots(h)[k][s], Roots(h)[n - k][s + k])
    BY <1>1, RootsSplit
  <2> QED BY <2>1
<1>3. /\ Len(Append(e, x)) = Len(e) + 1 /\ Len(e) \in Nat /\ Append(e, x)[Len(e) + 1] = x
      /\ \A i \in 1..Len(e) : Append(e, x)[i] = e[i]
  BY DEF IsList
<1>4. ASSUME NEW c, \A i \in 1..Len(e) + 1 : c[i] = Append(e, x)[i]
      PROVE  LET g == RunOver(n, u, w, hash, c) IN Ends(g, Len(e) + 1) /\ g[Len(e) + 1].sr = Roots(h)[n][s]
  <2> DEFINE g == RunOver(n, u, w, hash, c) f == RunOver(n - k, u - p, w, hash, c) d == Len(e)
  <2>1. (\A i \in 1..d : c[i] = e[i]) /\ c[d + 1] = x
    <3>1. \A i \in 1..d : i \in 1..d + 1
      BY <1>3
    <3>2. d + 1 \in 1..d + 1
      BY <1>3
    <3> HIDE DEF f, g
    <3> QED BY <1>3, <1>4, <3>1, <3>2
  <2>2. Ends(f, d) /\ f[d].sr = Roots(h)[n - k][s + k]
    BY <2>1 DEF Leads
  <2>3. d \in Nat /\ g = RunOver(n, u, w, hash, c) /\ f = RunOver(n - k, u - p, w, hash, c)
    BY <1>3
  <2> HIDE DEF g, f, d
  <2>4. Ends(g, d + 1) /\ g[d + 1].sr = NodeHash(c[d + 1], f[d].sr)
    BY <2>2, <2>3, RunSplitsRight
  <2>5. g[d + 1].sr = Roots(h)[n][s]
    BY <2>1, <2>2, <2>4, <1>2
  <2> QED BY <2>4, <2>5 DEF g, d
<1> HIDE <1>4
<1> QED BY <1>3, <1>4 DEF Leads

\* The rule r gives the roots of the ranges of the first z hashes.
Agrees(r, h, z) == \A n, s \in Nat : s + n <= z => r[n][s] = Roots(h)[n][s]

\* The path the log computes leads from the leaf to the root.
LEMMA PathsLead ==
    ASSUME NEW h, NEW r, NEW z \in Nat, Agrees(r, h, z),
           NEW n \in Nat, NEW m \in Nat, m < n, NEW s \in Nat, s + n <= z
    PROVE  Leads(1, h, n, m + 1, s, h[s + m + 1], InclusionPaths(r)[n][m][s])
<1> DEFINE P == InclusionPaths(r)
           T == {k \in Nat : \A i, q \in Nat : i < k /\ q + k <= z => Leads(1, h, k, i + 1, q, h[q + i + 1], P[k][i][q])}
<1>1. ASSUME NEW k \in Nat, \A l \in 0..k - 1 : l \in T, NEW i \in Nat, NEW q \in Nat, i < k, q + k <= z
      PROVE  Leads(1, h, k, i + 1, q, h[q + i + 1], P[k][i][q])
  <2>a. ASSUME NEW l \in 0..k - 1, NEW j \in Nat, NEW t \in Nat, j < l, t + l <= z
        PROVE  Leads(1, h, l, j + 1, t, h[t + j + 1], P[l][j][t])
    BY <1>1, <2>a
  <2> HIDE DEF T
  <2>p. P[k][i][q] = PathStep(P, r, k, i, q)
    BY InclusionPathsDef
  <2>v. \A l, j, t \in Nat : IsList(P[l][j][t])
    BY InclusionPathsDef DEF IsList
  <2> HIDE DEF P
  <2>1. CASE k = 1
    <3>1. i = 0 /\ P[k][i][q] = <<>> /\ q + i + 1 = q + 1
      BY <1>1, <2>1, <2>p DEF PathStep
    <3>2. Roots(h)[1][q] = h[q + 1]
      BY RootsDef
    <3>3. Leads(1, h, 1, 1, q, Roots(h)[1][q], <<>>)
      BY LeadsFromUnit
    <3> QED BY <2>1, <3>1, <3>2, <3>3
  <2>2. CASE k >= 2
    <3>1. PICK b \in Nat : b = Split(k)
      BY <2>2, SplitIs
    <3>2. b \in 1..k - 1 /\ SplitsAt(k, 1, b, b) /\ IsPowerOfTwo(1)
      <4>1. IsPowerOfTwo(b) /\ b \in 1..k - 1
        BY <2>2, <3>1, SplitIs
      <4>2. \E e \in Nat : b = Pow2[e]
        BY <4>1, PowerOfTwo
      <4>3. b * 1 = b
        OBVIOUS
      <4> QED BY <3>1, <4>1, <4>2, <4>3, OneIsAPower DEF SplitsAt
    <3>3. CASE i < b
      <4>1. P[k][i][q] = Append(P[b][i][q], r[k - b][q + b])
        <5>1. ~(k <= 1) /\ i < Split(k)
          BY <2>2, <3>1, <3>3
        <5>2. P[k][i][q] = Append(P[Split(k)][i][q], r[k - Split(k)][q + Split(k)])
          BY <2>p, <5>1, Zenon DEF PathStep
        <5> QED BY <3>1, <5>2
      <4>2. r[k - b][q + b] = Roots(h)[k - b][q + b]
        <5>1. k - b \in Nat /\ q + b \in Nat /\ (q + b) + (k - b) <= z
          BY <3>2, <1>1
        <5> QED BY <5>1 DEF Agrees
      <4>3. Leads(1, h, b, i + 1, q, h[q + i + 1], P[b][i][q])
        <5>1. b \in 0..k - 1 /\ q + b <= z
          BY <3>2, <1>1
        <5> QED BY <2>a, <3>3, <5>1
      <4>4. i + 1 \in Nat /\ i + 1 > 0 /\ i + 1 <= b /\ 1 < k
        BY <2>2, <3>3
      <4>5. IsList(P[b][i][q])
        BY <2>v
      <4>6. Leads(1, h, k, i + 1, q, h[q + i + 1], Append(P[b][i][q], r[k - b][q + b]))
        BY <4>2, <4>3, <4>4, <4>5, <3>2, LeadsFromLeft
      <4> QED BY <4>1, <4>6
    <3>4. CASE b <= i
      <4>1. P[k][i][q] = Append(P[k - b][i - b][q + b], r[b][q])
        <5>1. ~(k <= 1) /\ ~(i < Split(k))
          BY <2>2, <3>1, <3>4
        <5>2. P[k][i][q] = Append(P[k - Split(k)][i - Split(k)][q + Split(k)], r[Split(k)][q])
          BY <2>p, <5>1, Zenon DEF PathStep
        <5> QED BY <5>2, <3>1
      <4>2. r[b][q] = Roots(h)[b][q]
        <5>1. q + b <= z
          BY <3>2, <1>1
        <5> QED BY <5>1 DEF Agrees
      <4>3. k - b \in 0..k - 1 /\ i - b \in Nat /\ q + b \in Nat /\ i - b < k - b /\ (q + b) + (k - b) <= z
        BY <3>2, <3>4, <1>1
      <4>4. Leads(1, h, k - b, i - b + 1, q + b, h[q + b + (i - b) + 1], P[k - b][i - b][q + b])
        BY <2>a, <4>3
      <4>5. i - b + 1 = i + 1 - b /\ q + b + (i - b) + 1 = q + i + 1 /\ k - b \in Nat
        BY <4>3
      <4>6. i + 1 \in Nat /\ i + 1 > b /\ Within(i + 1, 1, k) /\ 1 < k
        BY <2>2, <3>4, <1>1 DEF Within
      <4>7. IsList(P[k - b][i - b][q + b])
        BY <2>v, <4>3, <4>5
      <4>8. Leads(1, h, k - b, i + 1 - b, q + b, h[q + i + 1], P[k - b][i - b][q + b])
        BY <4>4, <4>5
      <4>v. PICK v, j, t \in Nat : v = i + 1 - b /\ j = k - b /\ t = q + b
        BY <4>3, <4>6
      <4>e. PICK e : e = P[k - b][i - b][q + b]
        OBVIOUS
      <4>x. Leads(1, h, j, v, t, h[q + i + 1], e) /\ IsList(e) /\ Within(i + 1, 1, k)
        BY <4>6, <4>7, <4>8, <4>v, <4>e
      <4>9. Leads(1, h, k, i + 1, q, h[q + i + 1], Append(e, r[b][q]))
        BY <4>2, <4>6, <4>v, <4>x, <3>2, LeadsFromRight
      <4> QED BY <4>1, <4>9, <4>e
    <3> QED BY <3>3, <3>4
  <2> QED BY <2>1, <2>2, <1>1
<1>2. n \in T
  <2>1. ASSUME NEW k \in Nat, \A l \in 0..k - 1 : l \in T PROVE k \in T
    BY <1>1, <2>1
  <2> T \subseteq Nat
    OBVIOUS
  <2> HIDE DEF T
  <2> QED BY <2>1, AllNaturals
<1> QED BY <1>2

-----------------------------------------------------------------------------
(* Consistency proofs.                                                    *)

\* A consistency proof is the unit's own hash, unless the verifier has it, and then what leads the
\* verifier from there to the root.
Follows(w, h, r, n, u, m, s, whole) ==
    LET hash == Roots(h)[w][s + (m - w)]
    IN  \E e : /\ IsList(e) /\ Leads(w, h, n, u, s, hash, e)
               /\ Subproofs(r)[n][m][s][whole] = IF whole /\ u = 1 THEN e ELSE <<hash>> \o e

LEMMA EmptyIsList == IsList(<<>>)
<1>1. <<>> \in Seq({})
  OBVIOUS
<1> QED BY <1>1 DEF IsList

\* A hash put in front and one put at the end do not meet.
LEMMA PushedAppend ==
    ASSUME NEW e, IsList(e), NEW x, NEW y
    PROVE  /\ IsList(Append(e, x))
           /\ Append(<<y>> \o e, x) = <<y>> \o Append(e, x)
<1>1. PICK V : e \in Seq(V)
  BY DEF IsList
<1> DEFINE W == V \cup {x, y}
<1>2. e \in Seq(W) /\ Append(e, x) \in Seq(W) /\ <<y>> \in Seq(W) /\ <<>> \in Seq(W)
  BY <1>1
<1> HIDE DEF W
<1>3. Append(<<y>> \o e, x) = <<y>> \o Append(e, x)
  BY <1>2
<1> QED BY <1>2, <1>3 DEF IsList

\* m leaves are an odd number u of units of width w.
OddMultiple(u, m, w) == u % 2 = 1 /\ m = u * w

\* An odd number of units that reaches into the right side of a split leaves an odd number of them there.
LEMMA OddUnits ==
    ASSUME NEW n \in Nat, NEW w \in Nat, IsPowerOfTwo(w), w < n, NEW u \in Nat,
           NEW m \in Nat, OddMultiple(u, m, w), m <= n, NEW p \in Nat, NEW k \in Nat, SplitsAt(n, w, k, p)
    PROVE  /\ u > p => OddMultiple(u - p, m - k, w) /\ u - p \in Nat /\ m > k
           /\ u <= p => m <= k /\ (m = k => k = w /\ u = 1)
<1>1. k = p * w /\ p > 0 /\ w > 0 /\ n <= 2 * k /\ IsPowerOfTwo(p)
  <2>1. k = p * w /\ IsPowerOfTwo(p)
    BY PowerOfTwo DEF SplitsAt
  <2> QED BY <2>1, CursorsSplit, PowerOfTwo
<1>2. p = 1 \/ p % 2 = 0
  BY <1>1, PowerOfTwo
<1>u. u % 2 = 1 /\ m = u * w
  BY DEF OddMultiple
<1>3. ASSUME u > p PROVE (u - p) % 2 = 1 /\ u - p \in Nat /\ (u - p) * w = m - k /\ m > k
  <2>1. (u - p) * w = m - k /\ u - p \in Nat
    BY <1>1, <1>3, <1>u
  <2>2. p * w + w <= u * w
    BY <1>3, Multiples
  <2>3. p # 1
    <3>1. SUFFICES ASSUME p = 1 PROVE FALSE
      OBVIOUS
    <3>2. u >= 3
      BY <3>1, <1>3, <1>u
    <3>3. 2 * w + w <= u * w
      BY <3>2, Multiples
    <3>4. k = w
      BY <3>1, <1>1
    <3> QED BY <3>3, <3>4, <1>1, <1>u
  <2>4. p % 2 = 0
    BY <2>3, <1>2
  <2>5. (u - p) % 2 = 1
    BY <2>4, <1>3, <1>u
  <2> QED BY <2>1, <2>2, <2>5, <1>1, <1>u
<1>4. ASSUME u <= p PROVE m <= k /\ (m = k => k = w /\ u = 1)
  <2>1. u * w <= p * w
    BY <1>4, Multiples
  <2>2. ASSUME m = k PROVE k = w /\ u = 1
    <3>1. u < p => u * w + w <= p * w
      BY Multiples
    <3>2. m \in Nat /\ m = u * w /\ m = p * w
      BY <2>2, <1>1, <1>u
    <3>3. u = p
      BY <3>1, <3>2, <1>1, <1>4
    <3>4. p = 1
      BY <3>3, <1>2, <1>u
    <3> QED BY <3>3, <3>4, <1>1
  <2> QED BY <2>1, <2>2, <1>1, <1>u
<1> QED BY <1>3, <1>4 DEF OddMultiple

\* So is the consistency proof the log computes, by induction over the width.
LEMMA ProofsFollow ==
    ASSUME NEW w \in Nat, IsPowerOfTwo(w), NEW h, NEW r, NEW z \in Nat, Agrees(r, h, z),
           NEW n \in Nat, NEW u \in Nat, NEW m \in Nat, OddMultiple(u, m, w), m < n, NEW s \in Nat, s + n <= z
    PROVE  Follows(w, h, r, n, u, m, s, TRUE)
<1> DEFINE P == Subproofs(r)
           T == {l \in Nat : \A v, i, q \in Nat : OddMultiple(v, i, w) /\ (i < l \/ (i = l /\ l = w)) /\ q + l <= z =>
                                Follows(w, h, r, l, v, i, q, TRUE) /\ Follows(w, h, r, l, v, i, q, FALSE)}
<1>w. w > 0
  BY PowerOfTwo
<1>1. ASSUME NEW l \in Nat, \A j \in 0..l - 1 : j \in T, NEW v \in Nat, NEW i \in Nat, NEW q \in Nat,
             OddMultiple(v, i, w), i < l \/ (i = l /\ l = w), q + l <= z, NEW whole \in BOOLEAN
      PROVE  Follows(w, h, r, l, v, i, q, whole)
  <2>a. ASSUME NEW j \in 0..l - 1, NEW y \in Nat, NEW x \in Nat, NEW t \in Nat, OddMultiple(y, x, w), x < j \/ (x = j /\ j = w), t + j <= z,
               NEW b \in BOOLEAN
        PROVE  Follows(w, h, r, j, y, x, t, b)
    <3>1. j \in T
      BY <1>1
    <3>2. Follows(w, h, r, j, y, x, t, TRUE) /\ Follows(w, h, r, j, y, x, t, FALSE)
      BY <3>1, <2>a
    <3> QED BY <3>2
  <2> HIDE DEF T
  <2>0. i >= w /\ i \in Nat \ {0} /\ v > 0
    <3>1. v > 0 /\ i = v * w
      BY <1>1 DEF OddMultiple
    <3>2. 0 * w + w <= v * w
      BY <3>1, Multiples
    <3> QED BY <3>1, <3>2, <1>1, <1>w
  <2>p. P[l][i][q][whole] = ProofStep(P, r, l, i, q, whole)
    BY <2>0, SubproofsDef
  <2>1. CASE i = l
    <3>1. v = 1
      <4>1. 1 < v => 1 * w + w <= v * w
        BY Multiples
      <4>2. i = v * w
        BY <1>1 DEF OddMultiple
      <4> QED BY <4>1, <4>2, <2>0, <2>1, <1>1, <1>w
    <3>2. l = w /\ i = w /\ q + (i - w) = q
      BY <1>1, <2>1
    <3>3. r[w][q] = Roots(h)[w][q]
      BY <3>2, <1>1 DEF Agrees
    <3>4. P[l][i][q][whole] = IF whole THEN <<>> ELSE <<r[w][q]>>
      BY <2>p, <3>2 DEF ProofStep
    <3>5. Leads(w, h, w, 1, q, Roots(h)[w][q], <<>>) /\ IsList(<<>>)
      BY <1>w, LeadsFromUnit, EmptyIsList
    <3>6. <<r[w][q]>> = <<Roots(h)[w][q]>> \o <<>>
      BY <3>3
    <3> HIDE DEF P
    <3> QED BY <3>1, <3>2, <3>3, <3>4, <3>5, <3>6 DEF Follows, P
  <2>2. CASE i < l
    <3>0. w < l
      BY <2>0, <2>2
    <3>1. PICK p \in Nat, k \in Nat : SplitsAt(l, w, k, p)
      <4>1. PICK e \in Nat : Split(l) = Pow2[e] * w
        BY <3>0, SplitInUnits
      <4>2. Split(l) \in Nat
        <5>1. l >= 2
          BY <3>0, <1>w
        <5> QED BY <5>1, SplitIs
      <4>3. Pow2[e] \in Nat
        BY Pow2Def
      <4> QED BY <4>1, <4>2, <4>3 DEF SplitsAt
    <3>2. k = Split(l) /\ k > 0 /\ k < l
      <4>1. k = Split(l)
        BY <3>1 DEF SplitsAt
      <4> QED BY <3>0, <4>1, <1>w, SplitIs
    <3>3. /\ v > p => OddMultiple(v - p, i - k, w) /\ v - p \in Nat /\ i > k
          /\ v <= p => i <= k /\ (i = k => k = w /\ v = 1)
      BY <1>1, <2>2, <3>0, <3>1, OddUnits
    <3> DEFINE hash == Roots(h)[w][q + (i - w)]
    <3> HIDE DEF P
    <3>4. CASE v <= p
      <4>1. P[l][i][q][whole] = Append(P[k][i][q][whole], r[l - k][q + k])
        <5>1. ~(l <= i) /\ i <= Split(l)
          BY <2>2, <3>2, <3>3, <3>4
        <5>2. P[l][i][q][whole] = Append(P[Split(l)][i][q][whole], r[l - Split(l)][q + Split(l)])
          BY <2>p, <5>1, Zenon DEF ProofStep
        <5> QED BY <5>2, <3>2
      <4>2. PICK x : x = r[l - k][q + k] /\ x = Roots(h)[l - k][q + k]
        <5>1. l - k \in Nat /\ q + k \in Nat /\ (q + k) + (l - k) <= z
          BY <3>2, <1>1
        <5> QED BY <5>1 DEF Agrees
      <4>3. Follows(w, h, r, k, v, i, q, whole)
        <5>1. k \in 0..l - 1 /\ (i < k \/ (i = k /\ k = w)) /\ q + k <= z
          BY <3>2, <3>3, <3>4, <1>1
        <5> QED BY <5>1, <2>a, <1>1
      <4>4. PICK e : /\ IsList(e) /\ Leads(w, h, k, v, q, hash, e)
                     /\ P[k][i][q][whole] = IF whole /\ v = 1 THEN e ELSE <<hash>> \o e
        BY <4>3 DEF Follows, P
      <4> HIDE DEF hash
      <4>5. Leads(w, h, l, v, q, hash, Append(e, x))
        BY <2>0, <3>0, <3>1, <3>4, <4>2, <4>4, LeadsFromLeft
      <4>6. P[l][i][q][whole] = IF whole /\ v = 1 THEN Append(e, x) ELSE <<hash>> \o Append(e, x)
        <5>1. Append(<<hash>> \o e, x) = <<hash>> \o Append(e, x)
          BY <4>4, PushedAppend
        <5> QED BY <5>1, <4>1, <4>2, <4>4
      <4>7. IsList(Append(e, x))
        BY <4>4, PushedAppend
      <4> QED BY <4>5, <4>6, <4>7 DEF Follows, P, hash
    <3>5. CASE v > p
      <4>1. P[l][i][q][whole] = Append(P[l - k][i - k][q + k][FALSE], r[k][q])
        <5>1. ~(l <= i) /\ ~(i <= Split(l))
          BY <2>2, <3>2, <3>3, <3>5
        <5>2. P[l][i][q][whole] = Append(P[l - Split(l)][i - Split(l)][q + Split(l)][FALSE], r[Split(l)][q])
          BY <2>p, <5>1, Zenon DEF ProofStep
        <5> QED BY <5>2, <3>2
      <4>2. PICK x : x = r[k][q] /\ x = Roots(h)[k][q]
        <5>1. q + k <= z
          BY <3>2, <1>1
        <5> QED BY <5>1 DEF Agrees
      <4>v. PICK y, j, g, t \in Nat : y = v - p /\ j = l - k /\ g = i - k /\ t = q + k
        BY <3>2, <3>3, <3>5
      <4>3. Follows(w, h, r, j, y, g, t, FALSE)
        <5>1. j \in 0..l - 1 /\ g < j /\ t + j <= z
          BY <4>v, <3>2, <3>3, <3>5, <2>2, <1>1
        <5>2. OddMultiple(y, g, w)
          BY <4>v, <3>3, <3>5
        <5> QED BY <5>1, <5>2, <2>a
      <4>h. hash = Roots(h)[w][t + (g - w)]
        <5>1. q + (i - w) = t + (g - w)
          BY <4>v
        <5> QED BY <5>1
      <4>4. PICK e : /\ IsList(e) /\ Leads(w, h, j, y, t, hash, e)
                     /\ P[j][g][t][FALSE] = <<hash>> \o e
        BY <4>3, <4>h DEF Follows, P
      <4> HIDE DEF hash
      <4>5. Leads(w, h, l, v, q, hash, Append(e, x))
        <5>1. Within(v, w, l)
          BY <1>1, <2>2 DEF Within, OddMultiple
        <5> QED BY <3>0, <3>1, <3>5, <4>2, <4>v, <4>4, <5>1, LeadsFromRight
      <4>6. P[l][i][q][whole] = <<hash>> \o Append(e, x) /\ v # 1
        <5>1. Append(<<hash>> \o e, x) = <<hash>> \o Append(e, x)
          BY <4>4, PushedAppend
        <5>2. v # 1
          <6>1. p > 0
            BY <3>0, <3>1, CursorsSplit
          <6> QED BY <6>1, <3>5
        <5> QED BY <5>1, <5>2, <4>1, <4>2, <4>4, <4>v
      <4>7. IsList(Append(e, x))
        BY <4>4, PushedAppend
      <4> QED BY <4>5, <4>6, <4>7 DEF Follows, P, hash
    <3> QED BY <3>4, <3>5, <3>1
  <2> QED BY <2>1, <2>2, <1>1
<1>2. n \in T
  <2>1. ASSUME NEW l \in Nat, \A j \in 0..l - 1 : j \in T PROVE l \in T
    <3> QED BY <1>1, <2>1, TRUE \in BOOLEAN, FALSE \in BOOLEAN
  <2> T \subseteq Nat
    OBVIOUS
  <2> HIDE DEF T
  <2> QED BY <2>1, AllNaturals
<1> QED BY <1>2

-----------------------------------------------------------------------------
(* The two verifiers, whole.                                              *)

\* Both cursors shifted to the first bit set in one: from leaves to units of a power of two.
LEMMA StripIs ==
    ASSUME NEW m \in Nat, m > 0, NEW sn \in Nat
    PROVE  /\ Strip[m][sn] \in [fn : Nat, sn : Nat]
           /\ IsPowerOfTwo(m) <=> Strip[m][sn].fn = 1
           /\ \E w \in Nat : /\ IsPowerOfTwo(w) /\ OddMultiple(Strip[m][sn].fn, m, w)
                             /\ Strip[m][sn].sn = sn \div w
<1> DEFINE Units(i, x) == /\ IsPowerOfTwo(i) <=> Strip[i][x].fn = 1
                          /\ \E w \in Nat : /\ IsPowerOfTwo(w) /\ OddMultiple(Strip[i][x].fn, i, w)
                                            /\ Strip[i][x].sn = x \div w
           T == {i \in Nat : \A x \in Nat : i > 0 => Units(i, x)}
<1>1. ASSUME NEW i \in Nat, \A j \in 0..i - 1 : j \in T, NEW x \in Nat, i > 0 PROVE Units(i, x)
  <2>1. CASE i % 2 = 1
    <3>1. Strip[i][x] = [fn |-> i, sn |-> x]
      BY <2>1, StripOdd
    <3>2. OddMultiple(i, i, 1) /\ x \div 1 = x
      BY <2>1 DEF OddMultiple
    <3>3. IsPowerOfTwo(i) <=> i = 1
      BY <2>1, <1>1, PowerOfTwo, OneIsAPower
    <3> QED BY <3>1, <3>2, <3>3, OneIsAPower
  <2>2. CASE i % 2 = 0
    <3> DEFINE j == i \div 2 y == x \div 2
    <3>1. j \in 0..i - 1 /\ j > 0 /\ 2 * j = i /\ y \in Nat /\ j \in Nat
      BY <2>2, <1>1
    <3>2. Strip[i][x] = Strip[j][y]
      BY <2>2, <1>1, StripEven
    <3>y. 2 * y <= x /\ x < 2 * y + 2
      OBVIOUS
    <3> HIDE DEF j, y
    <3>3. Units(j, y)
      BY <3>1, <1>1
    <3>4. PICK w \in Nat : IsPowerOfTwo(w) /\ OddMultiple(Strip[j][y].fn, j, w) /\ Strip[j][y].sn = y \div w
      BY <3>3
    <3>5. 2 * w \in Nat /\ IsPowerOfTwo(2 * w)
      <4>1. PICK e \in Nat : Pow2[e] = w
        BY <3>4, PowerOfTwo
      <4>2. Pow2[e + 1] = 2 * w /\ e + 1 \in Nat
        BY <4>1, Pow2Def
      <4> QED BY <4>2, PowerOfTwo
    <3>6. OddMultiple(Strip[j][y].fn, i, 2 * w)
      <4>1. PICK u \in Nat : u = Strip[j][y].fn
        BY <3>1, StripDef
      <4>2. j = u * w /\ u % 2 = 1
        BY <3>4, <4>1 DEF OddMultiple
      <4>3. i = u * (2 * w)
        BY <3>1, <4>2
      <4> QED BY <4>1, <4>2, <4>3 DEF OddMultiple
    <3>7. y \div w = x \div (2 * w)
      <4>1. w > 0
        BY <3>4, PowerOfTwo
      <4>2. PICK b \in Nat : b = y \div w /\ b * w <= y /\ y < b * w + w
        BY <4>1, <3>1, Floor
      <4>3. PICK g \in Nat : g = b * w
        BY <4>2
      <4>4. b * (2 * w) = 2 * g
        BY <4>3
      <4>5. 2 * g <= x /\ x < 2 * g + 2 * w
        BY <4>2, <4>3, <3>y, <3>1
      <4>6. b * (2 * w) <= x /\ x < b * (2 * w) + 2 * w /\ 2 * w > 0
        BY <4>4, <4>5, <4>1
      <4> QED BY <4>2, <4>6, <3>5, Floor
    <3>8. IsPowerOfTwo(i) <=> IsPowerOfTwo(j)
      <4>1. i > 1 /\ i \div 2 = j
        BY <3>1
      <4>2. ASSUME IsPowerOfTwo(j) PROVE IsPowerOfTwo(i)
        <5>1. PICK e \in Nat : Pow2[e] = j
          BY <3>1, <4>2, PowerOfTwo
        <5>2. Pow2[e + 1] = 2 * Pow2[e] /\ e + 1 \in Nat
          BY Pow2Def
        <5>3. Pow2[e + 1] = i
          BY <5>1, <5>2, <3>1
        <5> QED BY <5>2, <5>3, PowerOfTwo
      <4> QED BY <4>1, <4>2, PowerOfTwo
    <3> QED BY <3>2, <3>3, <3>4, <3>5, <3>6, <3>7, <3>8
  <2> QED BY <2>1, <2>2
<1>2. m \in T
  <2>1. ASSUME NEW i \in Nat, \A j \in 0..i - 1 : j \in T PROVE i \in T
    <3> HIDE DEF Units
    <3> QED BY <1>1, <2>1
  <2> T \subseteq Nat
    OBVIOUS
  <2> HIDE DEF T
  <2> QED BY <2>1, AllNaturals
<1>3. Units(m, sn)
  <2> HIDE DEF Units
  <2> QED BY <1>2
<1> QED BY <1>3, StripDef

\* For a leaf the unit is one leaf.
LEMMA InclusionRun ==
    ASSUME NEW i \in Nat, NEW n \in Nat, i < n, NEW leaf, NEW proof
    PROVE  RunOver(n, i + 1, 1, leaf, proof) = Run(Begin(i, n - 1, leaf), proof)
<1>1. (n - 1) \div 1 = n - 1 /\ (i + 1) - 1 = i
  OBVIOUS
<1> QED BY <1>1 DEF RunOver

\* Whatever list of hashes is shown for a proof: if verify_inclusion accepts it under the root of a tree, the
\* leaf hash is the one at that index.
THEOREM InclusionIsSound ==
    ASSUME NEW i \in Nat, NEW n \in Nat, NEW h, NEW leaf, NEW proof, IsList(proof),
           VerifyInclusion(leaf, i, n, proof, Roots(h)[n][0])
    PROVE  leaf = h[i + 1]
<1>1. i < n
  BY DEF VerifyInclusion
<1> DEFINE f == RunOver(n, i + 1, 1, leaf, proof) L == Len(proof)
<1>2. f = Run(Begin(i, n - 1, leaf), proof)
  BY <1>1, InclusionRun
<1>3. f[L].ok /\ f[L].sn = 0 /\ f[L].sr = Roots(h)[n][0]
  <2> HIDE DEF f
  <2> QED BY <1>2 DEF VerifyInclusion
<1>4. L \in Nat
  BY DEF IsList
<1>5. Ends(f, L)
  <2>1. n - 1 \in Nat
    BY <1>1
  <2> HIDE DEF f, L
  <2> QED BY <2>1, <1>2, <1>3, <1>4, OkIs
<1>6. Sound(1, h, leaf, proof, n, i + 1, 0)
  <2>1. (i + 1) * 1 <= n /\ i + 1 \in Nat /\ i + 1 > 0
    BY <1>1
  <2> QED BY <2>1, OneIsAPower, RunIsSound
<1>7. PICK d \in Nat : /\ Ends(f, d)
                       /\ f[d].sr = Roots(h)[n][0] => leaf = Roots(h)[1][0 + ((i + 1) * 1 - 1)]
  BY <1>6 DEF Sound
<1>8. d = L
  <2> HIDE DEF f, L
  <2> QED BY <1>4, <1>5, <1>7, OneEnd
<1>9. leaf = Roots(h)[1][i]
  <2>1. 0 + ((i + 1) * 1 - 1) = i
    OBVIOUS
  <2> HIDE DEF f, L
  <2> QED BY <1>3, <1>7, <1>8, <2>1
<1> QED BY <1>9, RootsDef

\* What is so has a path that proves it.
LEMMA InclusionIsComplete ==
    ASSUME NEW h, NEW r, NEW z \in Nat, Agrees(r, h, z), NEW n \in Nat, n <= z, NEW i \in Nat, i < n
    PROVE  VerifyInclusion(h[i + 1], i, n, InclusionPaths(r)[n][i][0], Roots(h)[n][0])
<1> DEFINE p == InclusionPaths(r)[n][i][0]
           f == RunOver(n, i + 1, 1, h[i + 1], p)
<1>1. Leads(1, h, n, i + 1, 0, h[i + 1], p)
  <2>1. 0 + n <= z /\ 0 + i + 1 = i + 1
    OBVIOUS
  <2>2. Leads(1, h, n, i + 1, 0, h[0 + i + 1], p)
    BY <2>1, PathsLead
  <2> QED BY <2>1, <2>2
<1>2. IsList(p)
  BY InclusionPathsDef DEF IsList
<1>3. Len(p) \in Nat
  BY <1>2 DEF IsList
<1> HIDE DEF p
<1>4. Ends(f, Len(p)) /\ f[Len(p)].sr = Roots(h)[n][0]
  BY <1>1 DEF Leads
<1>5. f = Run(Begin(i, n - 1, h[i + 1]), p)
  BY InclusionRun
<1> HIDE DEF f
<1>6. f[Len(p)].ok /\ f[Len(p)].sn = 0
  <2>1. n - 1 \in Nat
    OBVIOUS
  <2> QED BY <2>1, <1>3, <1>4, <1>5, OkIs
<1> QED BY <1>4, <1>5, <1>6 DEF VerifyInclusion, p

\* What the verifier begins with, and is shown after.
Shown(m, proof, firstRoot) == IF IsPowerOfTwo(m) THEN <<firstRoot>> \o proof ELSE proof

\* What the verifier is shown has a first element.
LEMMA ShownIsList ==
    ASSUME NEW m, NEW proof, IsList(proof), proof # <<>>, NEW root
    PROVE  /\ Len(Shown(m, proof, root)) - 1 \in Nat
           /\ IsList(Shown(m, proof, root))
<1>1. PICK V : proof \in Seq(V)
  BY DEF IsList
<1>2. Len(proof) \in Nat /\ Len(proof) > 0
  BY <1>1
<1>3. <<root>> \o proof \in Seq(V \cup {root}) /\ Len(<<root>> \o proof) = Len(proof) + 1
  <2>1. proof \in Seq(V \cup {root})
    BY <1>1
  <2>2. <<root>> \in Seq(V \cup {root})
    OBVIOUS
  <2> QED BY <2>1, <2>2
<1>4. IsList(<<root>> \o proof)
  BY <1>3 DEF IsList
<1>5. CASE IsPowerOfTwo(m)
  <2>1. Shown(m, proof, root) = <<root>> \o proof
    BY <1>5 DEF Shown
  <2> HIDE <1>1
  <2> QED BY <2>1, <1>2, <1>3, <1>4
<1>6. CASE ~ IsPowerOfTwo(m)
  <2>1. Shown(m, proof, root) = proof
    BY <1>6 DEF Shown
  <2> QED BY <2>1, <1>2
<1> QED BY <1>5, <1>6

\* The verifier of two sizes runs over units, of which the older tree is an odd number.
LEMMA VerifyConsistencyIs ==
    ASSUME NEW m \in Nat, NEW n \in Nat, m > 0, m < n, NEW proof, IsList(proof), NEW first, NEW second
    PROVE  \E w, u \in Nat :
              /\ IsPowerOfTwo(w) /\ OddMultiple(u, m, w) /\ (IsPowerOfTwo(m) <=> u = 1)
              /\ VerifyConsistency(m, n, proof, first, second) <=>
                    /\ proof # <<>>
                    /\ LET path == Shown(m, proof, first)
                           f == RunOver(n, u, w, Head(path), Tail(path))
                           d == Len(path) - 1
                       IN  f[d].ok /\ f[d].sn = 0 /\ f[d].fr = first /\ f[d].sr = second
<1>1. n - 1 \in Nat
  OBVIOUS
<1>2. PICK at : at = Strip[m][n - 1]
  OBVIOUS
<1>3. at.fn \in Nat /\ (IsPowerOfTwo(m) <=> at.fn = 1)
  BY <1>1, <1>2, StripIs
<1>4. PICK w \in Nat : IsPowerOfTwo(w) /\ OddMultiple(at.fn, m, w) /\ at.sn = (n - 1) \div w
  BY <1>1, <1>2, StripIs
<1> DEFINE path == Shown(m, proof, first)
           f == RunOver(n, at.fn, w, Head(path), Tail(path))
           d == Len(path) - 1
<1>5. f = Run(Begin(at.fn - 1, at.sn, Head(path)), Tail(path))
  BY <1>4 DEF RunOver
<1>6. VerifyConsistency(m, n, proof, first, second) <=>
         proof # <<>> /\ Accepts(Run(Begin(at.fn - 1, at.sn, Head(path)), Tail(path))[d], first, second)
  <2>1. m # n /\ 0 < m /\ m < n
    OBVIOUS
  <2> QED BY <2>1, <1>2 DEF VerifyConsistency, Shown
<1>7. VerifyConsistency(m, n, proof, first, second) <=>
         proof # <<>> /\ f[d].ok /\ f[d].sn = 0 /\ f[d].fr = first /\ f[d].sr = second
  <2>1. VerifyConsistency(m, n, proof, first, second) <=> proof # <<>> /\ Accepts(f[d], first, second)
    <3> HIDE DEF f, d, path
    <3> QED BY <1>5, <1>6
  <2> HIDE DEF f, d, path
  <2> QED BY <2>1 DEF Accepts
<1> QED BY <1>3, <1>4, <1>7

\* And if verify_consistency accepts it, the older root is the root of the first m leaves of the newer tree:
\* nothing was removed or rewritten (logbook.py).
THEOREM ConsistencyIsSound ==
    ASSUME NEW m \in Nat, NEW n \in Nat, m > 0, m < n, NEW h, NEW proof, IsList(proof), NEW first,
           VerifyConsistency(m, n, proof, first, Roots(h)[n][0])
    PROVE  first = Roots(h)[m][0]
<1> DEFINE path == Shown(m, proof, first)
           F(u, w) == RunOver(n, u, w, Head(path), Tail(path))
           d == Len(path) - 1
<1>1. PICK w \in Nat, u \in Nat :
         /\ IsPowerOfTwo(w) /\ OddMultiple(u, m, w) /\ proof # <<>>
         /\ F(u, w)[d].ok /\ F(u, w)[d].sn = 0 /\ F(u, w)[d].fr = first /\ F(u, w)[d].sr = Roots(h)[n][0]
  <2> HIDE DEF path
  <2> QED BY VerifyConsistencyIs DEF path
<1> DEFINE hash == Head(path) c == Tail(path) f == RunOver(n, u, w, hash, c)
<1>2. d \in Nat
  BY <1>1, ShownIsList
<1>3. f[d].ok /\ f[d].sn = 0 /\ f[d].fr = first /\ f[d].sr = Roots(h)[n][0]
  BY <1>1
<1> HIDE DEF d, hash, c
<1>4. u > 0 /\ m = u * w
  BY <1>1 DEF OddMultiple
<1>5. Ends(f, d)
  <2>1. u - 1 \in Nat /\ (n - 1) \div w \in Nat
    <3>1. w > 0 /\ n - 1 \in Nat
      BY <1>1, PowerOfTwo
    <3> QED BY <3>1, <1>4, Floor
  <2>2. f = Run(Begin(u - 1, (n - 1) \div w, hash), c)
    BY DEF RunOver
  <2> HIDE DEF f
  <2> QED BY <2>1, <2>2, <1>2, <1>3, OkIs
<1>6. Sound(w, h, hash, c, n, u, 0)
  BY <1>1, <1>4, RunIsSound
<1>7. PICK e \in Nat : Ends(f, e) /\ (f[e].sr = Roots(h)[n][0] => f[e].fr = Roots(h)[u * w][0])
  BY <1>6 DEF Sound
<1>8. e = d
  <2> HIDE DEF f
  <2> QED BY <1>2, <1>5, <1>7, OneEnd
<1> HIDE DEF f
<1> QED BY <1>3, <1>4, <1>7, <1>8

\* What is so of two sizes has a consistency proof.
LEMMA ConsistencyIsComplete ==
    ASSUME NEW h, NEW r, NEW z \in Nat, Agrees(r, h, z), NEW n \in Nat, n <= z, NEW m \in Nat, m > 0, m < n
    PROVE  VerifyConsistency(m, n, Subproofs(r)[n][m][0][TRUE], Roots(h)[m][0], Roots(h)[n][0])
<1> DEFINE p == Subproofs(r)[n][m][0][TRUE]
           first == Roots(h)[m][0]
           path == Shown(m, p, first)
           F(u, w) == RunOver(n, u, w, Head(path), Tail(path))
           Accepted(u, w) == LET l == Len(path) - 1 IN
               F(u, w)[l].ok /\ F(u, w)[l].sn = 0 /\ F(u, w)[l].fr = first /\ F(u, w)[l].sr = Roots(h)[n][0]
<1>1. IsList(p)
  <2>1. m \in Nat \ {0} /\ 0 \in Nat /\ TRUE \in BOOLEAN
    OBVIOUS
  <2>2. p \in Seq(RootsIn(r))
    BY <2>1, SubproofsDef, Zenon
  <2> HIDE DEF p
  <2> QED BY <2>2 DEF IsList
<1>2. PICK w \in Nat, u \in Nat :
         /\ IsPowerOfTwo(w) /\ OddMultiple(u, m, w) /\ (IsPowerOfTwo(m) <=> u = 1)
         /\ VerifyConsistency(m, n, p, first, Roots(h)[n][0]) <=> p # <<>> /\ Accepted(u, w)
  <2> HIDE DEF p, first
  <2>1. PICK second : second = Roots(h)[n][0]
    OBVIOUS
  <2>2. \E w, u \in Nat :
           /\ IsPowerOfTwo(w) /\ OddMultiple(u, m, w) /\ (IsPowerOfTwo(m) <=> u = 1)
           /\ VerifyConsistency(m, n, p, first, second) <=>
                 /\ p # <<>>
                 /\ LET g == RunOver(n, u, w, Head(path), Tail(path))
                        l == Len(path) - 1
                    IN  g[l].ok /\ g[l].sn = 0 /\ g[l].fr = first /\ g[l].sr = second
    BY <1>1, VerifyConsistencyIs
  <2> HIDE DEF path
  <2> QED BY <2>1, <2>2
<1> DEFINE hash == Roots(h)[w][m - w]
<1>3. PICK e : /\ IsList(e) /\ Leads(w, h, n, u, 0, hash, e)
               /\ p = IF u = 1 THEN e ELSE <<hash>> \o e
  <2>1. 0 + n <= z /\ 0 + (m - w) = m - w
    BY <1>2
  <2>2. Follows(w, h, r, n, u, m, 0, TRUE)
    BY <2>1, <1>2, ProofsFollow
  <2>3. \E e : /\ IsList(e) /\ Leads(w, h, n, u, 0, Roots(h)[w][0 + (m - w)], e)
               /\ p = IF TRUE /\ u = 1 THEN e ELSE <<Roots(h)[w][0 + (m - w)]>> \o e
    BY <2>2 DEF Follows
  <2> QED BY <2>1, <2>3
<1>4. u > 0 /\ m = u * w /\ w > 0
  <2>1. u % 2 = 1 /\ m = u * w
    BY <1>2 DEF OddMultiple
  <2>2. w > 0
    BY <1>2, PowerOfTwo
  <2>3. u # 0
    BY <2>1
  <2> QED BY <2>1, <2>2, <2>3
<1> HIDE DEF p
<1>5. path = <<hash>> \o e
  <2>1. CASE u = 1
    <3>1. w = m /\ m - w = 0
      BY <2>1, <1>4
    <3> QED BY <3>1, <2>1, <1>2, <1>3 DEF Shown
  <2>2. CASE u # 1
    BY <2>2, <1>2, <1>3 DEF Shown
  <2> QED BY <2>1, <2>2
<1> HIDE DEF hash
<1>6. Head(path) = hash /\ Tail(path) = e /\ Len(path) - 1 = Len(e) /\ Len(e) \in Nat
  <2> HIDE DEF path
  <2>1. PICK V : e \in Seq(V)
    BY <1>3 DEF IsList
  <2>2. e \in Seq(V \cup {hash}) /\ Len(e) \in Nat
    BY <2>1
  <2>3. Head(<<hash>> \o e) = hash /\ Tail(<<hash>> \o e) = e /\ Len(<<hash>> \o e) - 1 = Len(e)
    BY <2>2
  <2> QED BY <2>2, <2>3, <1>5
<1> DEFINE f == RunOver(n, u, w, hash, e) d == Len(e)
<1>7. Ends(f, d) /\ f[d].sr = Roots(h)[n][0]
  BY <1>3 DEF Leads
<1>8. (n - 1) \div w \in Nat /\ u - 1 \in Nat
  <2>1. n - 1 \in Nat
    OBVIOUS
  <2> QED BY <2>1, <1>4, Floor
<1>9. f[d].fr = first
  <2>1. Sound(w, h, hash, e, n, u, 0)
    BY <1>2, <1>4, RunIsSound
  <2>2. PICK i \in Nat : Ends(f, i) /\ (f[i].sr = Roots(h)[n][0] => f[i].fr = Roots(h)[u * w][0])
    BY <2>1 DEF Sound
  <2> HIDE DEF f
  <2>3. i = d
    BY <2>2, <1>6, <1>7, OneEnd
  <2> QED BY <2>2, <2>3, <1>7, <1>4
<1>10. f[d].ok /\ f[d].sn = 0 /\ f = Run(Begin(u - 1, (n - 1) \div w, hash), e)
  <2>1. f = Run(Begin(u - 1, (n - 1) \div w, hash), e)
    BY DEF RunOver
  <2> HIDE DEF f
  <2> QED BY <2>1, <1>6, <1>7, <1>8, OkIs
<1>11. p # <<>>
  <2>1. CASE u = 1
    <3>1. p = e /\ w = m
      BY <2>1, <1>3, <1>4
    <3>2. f[0].sn = (n - 1) \div w
      <4>1. f[0] = Begin(u - 1, (n - 1) \div w, hash)
        <5>1. PICK b \in Nat, q \in Nat : b = u - 1 /\ q = (n - 1) \div w
          BY <1>8
        <5>2. Run(Begin(b, q, hash), e)[0] = Begin(b, q, hash)
          BY RunDef
        <5> HIDE DEF f
        <5> QED BY <5>1, <5>2, <1>10
      <4> HIDE DEF f
      <4> QED BY <4>1 DEF Begin
    <3>3. (n - 1) \div w # 0
      <4>1. n - 1 \in Nat /\ n - 1 >= w
        BY <3>1
      <4>2. (n - 1) < ((n - 1) \div w) * w + w
        BY <4>1, <1>4, Floor
      <4> QED BY <4>1, <4>2, <1>4
    <3>4. d # 0
      <4> HIDE DEF f, d
      <4> QED BY <3>2, <3>3, <1>10
    <3>5. Len(<<>>) = 0
      OBVIOUS
    <3> HIDE DEF f
    <3> QED BY <3>1, <3>4, <3>5
  <2>2. CASE u # 1
    <3>1. path = p
      BY <2>2, <1>2 DEF Shown
    <3>2. Len(path) # 0
      BY <1>6
    <3>3. Len(<<>>) = 0
      OBVIOUS
    <3> HIDE DEF path
    <3> QED BY <3>1, <3>2, <3>3
  <2> QED BY <2>1, <2>2
<1>12. Accepted(u, w)
  <2> HIDE DEF path, first
  <2> QED BY <1>6, <1>7, <1>9, <1>10
<1> HIDE DEF Accepted, first
<1>13. VerifyConsistency(m, n, p, first, Roots(h)[n][0])
  BY <1>2, <1>11, <1>12
<1> QED BY <1>13 DEF p, first

-----------------------------------------------------------------------------
(* The stored subtrees, and what is computed from them.                   *)

\* The level of a subtree of n leaves.
LEMMA Log2Is ==
    ASSUME NEW n \in Nat, IsPowerOfTwo(n)
    PROVE  Log2(n) \in Nat /\ Pow2[Log2(n)] = n
  BY DEF Log2, IsPowerOfTwo

\* The equations of the root computed from the stored subtrees.
LEMMA SubtreeRootsDef ==
    ASSUME NEW stored, NEW n \in Nat, NEW start \in Nat
    PROVE  /\ n = 0 => SubtreeRoots(stored)[n][start] = EmptyRoot
           /\ n > 0 /\ Stored(n, start) =>
                SubtreeRoots(stored)[n][start] = stored[<<Log2(n), start \div n>>]
           /\ n > 0 /\ ~ Stored(n, start) => SubtreeRoots(stored)[n][start] =
                NodeHash(SubtreeRoots(stored)[Split(n)][start], SubtreeRoots(stored)[n - Split(n)][start + Split(n)])
<1> DEFINE B == {EmptyRoot} \cup {stored[k] : k \in Nat \X Nat}
<1>0. PICK V : B \subseteq V /\ Closed(V)
  <2> HIDE DEF B
  <2> QED BY AllHashes DEF Closed
<1>1. /\ Closed(V) /\ EmptyRoot \in V
      /\ \A l \in Nat, i \in Nat : stored[<<l, i>>] \in V
  BY <1>0
<1> HIDE DEF B
<1> DEFINE A == [Nat -> V]
           E(g, k) == [s \in Nat |->
               IF k = 0 THEN EmptyRoot
               ELSE IF Stored(k, s) THEN stored[<<Log2(k), s \div k>>]
               ELSE NodeHash(g[Split(k)][s], g[k - Split(k)][s + Split(k)])]
           H == [k \in Nat |-> [g \in [Nat -> A] |-> E(g, k)]]
<1>2. ASSUME NEW k \in Nat, NEW s \in Nat, k > 0, ~ Stored(k, s)
      PROVE  Split(k) \in 0..k - 1 /\ k - Split(k) \in 0..k - 1
  <2>1. k # 1
    BY <1>2, OneIsAPower DEF Stored
  <2> QED BY <2>1, <1>2, SplitIs
<1>3. ASSUME NEW k \in Nat, NEW g \in [Nat -> A] PROVE E(g, k) \in A
  <2>1. ASSUME NEW s \in Nat PROVE E(g, k)[s] \in V
    <3>1. CASE k = 0
      BY <3>1, <1>1
    <3>2. CASE k > 0 /\ Stored(k, s)
      <4>1. Log2(k) \in Nat /\ s \div k \in Nat
        BY <3>2, Log2Is, Floor DEF Stored
      <4>2. stored[<<Log2(k), s \div k>>] \in V
        BY <4>1, <1>1
      <4> QED BY <3>2, <4>2
    <3>3. CASE k > 0 /\ ~ Stored(k, s)
      <4>1. Split(k) \in Nat /\ k - Split(k) \in Nat /\ s + Split(k) \in Nat
        BY <3>3, <1>2
      <4>2. g[Split(k)][s] \in V /\ g[k - Split(k)][s + Split(k)] \in V
        BY <4>1
      <4>3. NodeHash(g[Split(k)][s], g[k - Split(k)][s + Split(k)]) \in V
        BY <4>2, <1>1 DEF Closed
      <4> QED BY <3>3, <4>3
    <3> QED BY <3>1, <3>2, <3>3
  <2> QED BY <2>1
<1>4. ASSUME NEW k \in Nat, NEW f \in [Nat -> A], NEW g \in [Nat -> A], \A i \in 0..k - 1 : f[i] = g[i]
      PROVE  E(f, k) = E(g, k)
  <2>1. ASSUME NEW s \in Nat PROVE E(f, k)[s] = E(g, k)[s]
    <3>1. CASE k > 0 /\ ~ Stored(k, s)
      <4>1. f[Split(k)] = g[Split(k)] /\ f[k - Split(k)] = g[k - Split(k)]
        BY <3>1, <1>2, <1>4
      <4> HIDE DEF A
      <4> QED BY <4>1
    <3>2. CASE ~(k > 0 /\ ~ Stored(k, s))
      BY <3>2
    <3> QED BY <3>1, <3>2
  <2> HIDE DEF A
  <2> QED BY <2>1
<1>5. Recursive(A, H)
  <2> HIDE DEF E, A
  <2> QED BY <1>3, <1>4 DEF Recursive
<1>6. [s \in Nat |-> EmptyRoot] \in A
  BY <1>1
<1>7. HasValues(A, H)
  <2> HIDE DEF A, H
  <2> QED BY <1>5, <1>6, Recursion, Zenon
<1>8. \E f : f = [k \in Nat |-> E(f, k)]
  <2> HIDE DEF E, A
  <2>1. PICK f \in [Nat -> A] : \A k \in Nat : f[k] = H[k][f]
    BY <1>7 DEF HasValues
  <2> QED BY <2>1
<1> DEFINE R == SubtreeRoots(stored)
<1>9. R = [k \in Nat |-> E(R, k)]
  BY <1>8 DEF SubtreeRoots
<1> HIDE DEF R
<1>10. R[n] = E(R, n)
  <2> HIDE DEF E
  <2> QED BY <1>9
<1>11. R[n][start] = IF n = 0 THEN EmptyRoot
                     ELSE IF Stored(n, start) THEN stored[<<Log2(n), start \div n>>]
                     ELSE NodeHash(R[Split(n)][start], R[n - Split(n)][start + Split(n)])
  BY <1>10, Zenon
<1>12. n > 0 => n # 0
  OBVIOUS
<1> QED BY <1>11, <1>12 DEF R

\* The equations of the climb.
LEMMA ClimbDef ==
    ASSUME NEW index \in Nat, NEW leaf, NEW stored
    PROVE  LET f == Climb(index, leaf, stored)
           IN  /\ f[0] = leaf
               /\ \A l \in Nat : f[l + 1] = NodeHash(stored[<<l, Position(l, index + 1) - 1>>], f[l])
<1> DEFINE B == {leaf} \cup {stored[k] : k \in Nat \X Int}
<1>0. PICK V : B \subseteq V /\ Closed(V)
  <2> HIDE DEF B
  <2> QED BY AllHashes DEF Closed
<1>1. /\ Closed(V) /\ leaf \in V
      /\ \A l \in Nat, i \in Int : stored[<<l, i>>] \in V
  BY <1>0
<1> HIDE DEF B
<1> DEFINE E(g, l) == IF l = 0 THEN leaf
                      ELSE NodeHash(stored[<<l - 1, Position(l - 1, index + 1) - 1>>], g[l - 1])
           H == [l \in Nat |-> [g \in [Nat -> V] |-> E(g, l)]]
<1>2. ASSUME NEW l \in Nat, NEW g \in [Nat -> V] PROVE E(g, l) \in V
  <2>1. CASE l = 0
    BY <2>1, <1>1
  <2>2. CASE l > 0
    <3>1. l - 1 \in Nat
      BY <2>2
    <3>2. Position(l - 1, index + 1) - 1 \in Int
      <4>1. Pow2[l - 1] \in Nat /\ Pow2[l - 1] > 0
        BY <3>1, Pow2Def
      <4>2. (index + 1) \div Pow2[l - 1] \in Nat
        BY <4>1, Floor
      <4> QED BY <4>2 DEF Position
    <3>3. stored[<<l - 1, Position(l - 1, index + 1) - 1>>] \in V /\ g[l - 1] \in V
      BY <3>1, <3>2, <1>1
    <3> QED BY <2>2, <3>3, <1>1 DEF Closed
  <2> QED BY <2>1, <2>2
<1>3. ASSUME NEW l \in Nat, NEW f \in [Nat -> V], NEW g \in [Nat -> V], \A i \in 0..l - 1 : f[i] = g[i]
      PROVE  E(f, l) = E(g, l)
  BY <1>3
<1>4. Recursive(V, H)
  <2> HIDE DEF E
  <2> QED BY <1>2, <1>3 DEF Recursive
<1>5. HasValues(V, H)
  <2> HIDE DEF H
  <2>1. leaf \in V
    BY <1>1
  <2> QED BY <2>1, <1>4, Recursion, Zenon
<1>6. \E f : f = [l \in Nat |-> E(f, l)]
  <2> HIDE DEF E
  <2>1. PICK f \in [Nat -> V] : \A l \in Nat : f[l] = H[l][f]
    BY <1>5 DEF HasValues
  <2> QED BY <2>1
<1> DEFINE f == Climb(index, leaf, stored)
<1>7. f = [l \in Nat |-> E(f, l)]
  BY <1>6 DEF Climb
<1> HIDE DEF f
<1>8. \A l \in Nat : f[l] = E(f, l)
  <2> HIDE DEF E
  <2> QED BY <1>7
<1>9. ASSUME NEW l \in Nat PROVE f[l + 1] = NodeHash(stored[<<l, Position(l, index + 1) - 1>>], f[l])
  <2>1. l + 1 \in Nat /\ l + 1 # 0 /\ (l + 1) - 1 = l
    OBVIOUS
  <2>2. f[l + 1] = E(f, l + 1)
    BY <2>1, <1>8
  <2> QED BY <2>1, <2>2
<1> QED BY <1>8, <1>9 DEF f

\* The i-th complete subtree of level l lies in a tree of z leaves.
Whole(l, i, z) == (i + 1) * Pow2[l] <= z

\* Every complete subtree is stored, and nothing else; each is the root of the hashes it covers.
Holds(stored, h, z) ==
    /\ DOMAIN stored = {k \in Nat \X Nat : Whole(k[1], k[2], z)}
    /\ \A l, i \in Nat : Whole(l, i, z) => stored[<<l, i>>] = Roots(h)[Pow2[l]][i * Pow2[l]]

\* A range that is read from the table is the complete subtree the key names.
LEMMA StoredIs ==
    ASSUME NEW n \in Nat, NEW s \in Nat, Stored(n, s), NEW z \in Nat, s + n <= z
    PROVE  /\ n > 0 /\ Log2(n) \in Nat /\ Pow2[Log2(n)] = n /\ s \div n \in Nat /\ (s \div n) * n = s
           /\ Whole(Log2(n), s \div n, z)
<1>1. n > 0 /\ s % n = 0 /\ Log2(n) \in Nat /\ Pow2[Log2(n)] = n
  BY PowerOfTwo, Log2Is DEF Stored
<1>2. s \div n \in Nat /\ (s \div n) * n = s
  BY <1>1
<1>3. PICK q \in Nat : q = s \div n /\ q * n = s
  BY <1>2
<1>4. (q + 1) * n = q * n + n
  BY <1>3
<1>5. Whole(Log2(n), q, z)
  BY <1>1, <1>3, <1>4 DEF Whole
<1> QED BY <1>1, <1>2, <1>3, <1>5

\* What is computed from the stored subtrees is the root of the range.
LEMMA StoredRootsAgree ==
    ASSUME NEW stored, NEW h, NEW z \in Nat, Holds(stored, h, z)
    PROVE  Agrees(SubtreeRoots(stored), h, z)
<1> DEFINE R == SubtreeRoots(stored)
           T == {n \in Nat : \A s \in Nat : s + n <= z => R[n][s] = Roots(h)[n][s]}
<1>1. ASSUME NEW n \in Nat, \A k \in 0..n - 1 : k \in T, NEW s \in Nat, s + n <= z
      PROVE  R[n][s] = Roots(h)[n][s]
  <2>1. CASE n = 0
    <3>1. Roots(h)[0][s] = EmptyRoot
      BY RootsDef, Zenon
    <3>2. R[n][s] = EmptyRoot
      BY <2>1, SubtreeRootsDef, Zenon
    <3> HIDE DEF R
    <3> QED BY <2>1, <3>1, <3>2
  <2>2. CASE n > 0 /\ Stored(n, s)
    <3>1. PICK l \in Nat, i \in Nat : l = Log2(n) /\ i = s \div n /\ Pow2[l] = n /\ i * n = s /\ Whole(l, i, z)
      BY <1>1, <2>2, StoredIs
    <3>2. R[n][s] = stored[<<l, i>>]
      BY <2>2, <3>1, SubtreeRootsDef
    <3>3. stored[<<l, i>>] = Roots(h)[Pow2[l]][i * Pow2[l]]
      BY <3>1 DEF Holds
    <3> HIDE DEF R
    <3> QED BY <3>1, <3>2, <3>3
  <2>3. CASE n > 0 /\ ~ Stored(n, s)
    <3>1. n >= 2
      BY <2>3, OneIsAPower DEF Stored
    <3>2. PICK k \in Nat : k = Split(n) /\ k \in 0..n - 1 /\ n - k \in 0..n - 1
      BY <3>1, SplitIs
    <3>3. R[n][s] = NodeHash(R[k][s], R[n - k][s + k])
      BY <2>3, <3>2, SubtreeRootsDef
    <3>4. R[k][s] = Roots(h)[k][s]
      <4>1. k \in T /\ s + k <= z
        BY <1>1, <3>2
      <4> HIDE DEF R
      <4> QED BY <4>1
    <3>5. R[n - k][s + k] = Roots(h)[n - k][s + k]
      <4>1. n - k \in T /\ (s + k) + (n - k) <= z /\ s + k \in Nat
        BY <1>1, <3>2
      <4> HIDE DEF R
      <4> QED BY <4>1
    <3> HIDE DEF R
    <3> QED BY <3>1, <3>2, <3>3, <3>4, <3>5, RootsSplit
  <2> QED BY <2>1, <2>2, <2>3
<1>2. \A n \in Nat : n \in T
  <2>1. \A n \in Nat : (\A k \in 0..n - 1 : k \in T) => n \in T
    <3> HIDE DEF R
    <3> QED BY <1>1
  <2> T \subseteq Nat
    OBVIOUS
  <2> HIDE DEF T
  <2> QED BY <2>1, AllNaturals
<1> HIDE DEF R
<1> QED BY <1>2 DEF Agrees, R

\* The number of leaves is read off the stored nodes.
LEMMA LogSizeIs ==
    ASSUME NEW stored, NEW h, NEW z \in Nat, Holds(stored, h, z)
    PROVE  LogSize(stored) = z
<1> DEFINE S == {-1} \cup {k[2] : k \in {key \in DOMAIN stored : key[1] = 0}}
<1>1. \A i \in Nat : Whole(0, i, z) <=> i < z
  BY Pow2Def DEF Whole
<1>2. \A key \in DOMAIN stored : key \in Nat \X Nat /\ (key[1] = 0 => key[2] < z)
  BY <1>1 DEF Holds
<1>3. \A i \in 0..z - 1 : <<0, i>> \in DOMAIN stored
  BY <1>1 DEF Holds
<1>4. S = -1..z - 1
  <2>1. ASSUME NEW x \in S PROVE x \in -1..z - 1
    BY <1>2
  <2>2. ASSUME NEW x \in -1..z - 1 PROVE x \in S
    <3>1. CASE x = -1
      BY <3>1
    <3>2. CASE x # -1
      <4>1. x \in 0..z - 1
        BY <3>2
      <4>2. <<0, x>> \in {key \in DOMAIN stored : key[1] = 0} /\ <<0, x>>[2] = x
        BY <4>1, <1>3
      <4> QED BY <4>2, Zenon
    <3> QED BY <3>1, <3>2
  <2> QED BY <2>1, <2>2
<1>5. Max(S) = z - 1
  <2> HIDE DEF S
  <2>1. z - 1 \in S /\ \A x \in S : z - 1 >= x
    BY <1>4
  <2>2. \A y \in S : (\A x \in S : y >= x) => y = z - 1
    BY <1>4, <2>1
  <2> QED BY <2>1, <2>2 DEF Max
<1> HIDE DEF S
<1> QED BY <1>5 DEF LogSize, S

-----------------------------------------------------------------------------
(* An append.                                                             *)

\* The leaf hashes of a list of documents.
Hashes(d) == [i \in DOMAIN d |-> LeafHash(d[i])]

\* The level is completed by the last of z leaves, with the subtree at position i.
Completes(l, i, z) == (i + 1) * Pow2[l] = z

\* Appending a leaf completes one subtree at most of a level, and none before it was incomplete.
LEMMA Completed ==
    ASSUME NEW l \in Nat, NEW i \in Nat, NEW z \in Nat
    PROVE  /\ Whole(l, i, z + 1) <=> Whole(l, i, z) \/ Completes(l, i, z + 1)
           /\ Completes(l, i, z + 1) => /\ ~ Whole(l, i, z)
                                        /\ l \in 0..z /\ (z + 1) % Pow2[l] = 0 /\ Position(l, z + 1) = i
<1>1. PICK p \in Nat : p = Pow2[l] /\ p > l
  BY Pow2Def
<1>2. PICK x \in Nat : x = (i + 1) * p
  <2>1. (i + 1) * p \in Nat
    BY <1>1
  <2> QED BY <2>1
<1>3. x <= z + 1 <=> x <= z \/ x = z + 1
  BY <1>2
<1>4. ASSUME x = z + 1 PROVE ~(x <= z) /\ l \in 0..z /\ (z + 1) % p = 0 /\ (z + 1) \div p - 1 = i
  <2>1. p <= x
    <3>1. 1 * p <= (i + 1) * p
      BY <1>1, Multiples
    <3> QED BY <3>1, <1>1, <1>2
  <2>2. (z + 1) % p = 0
    <3>1. ((i + 1) * p) % p = 0
      BY <1>1
    <3> QED BY <3>1, <1>2, <1>4
  <2>3. (z + 1) \div p = i + 1
    <3>1. (i + 1) * p <= z + 1 /\ z + 1 < (i + 1) * p + p /\ i + 1 \in Nat /\ z + 1 \in Nat /\ p > 0
      BY <1>1, <1>2, <1>4
    <3> QED BY <3>1, <1>1, Floor
  <2>4. (z + 1) \div p - 1 = i
    BY <2>3
  <2> QED BY <2>1, <2>2, <2>4, <1>1, <1>4
<1> QED BY <1>1, <1>2, <1>3, <1>4 DEF Whole, Completes, Position

\* A level whose width divides the new size is completed.
LEMMA LevelCompleted ==
    ASSUME NEW l \in Nat, NEW z \in Nat, (z + 1) % Pow2[l] = 0
    PROVE  Position(l, z + 1) \in Nat /\ Completes(l, Position(l, z + 1), z + 1)
<1>1. PICK p \in Nat : p = Pow2[l] /\ p > 0
  BY Pow2Def
<1>2. PICK q \in Nat : q = (z + 1) \div p
  <2>1. z + 1 \in Nat
    OBVIOUS
  <2> QED BY <2>1, <1>1, Floor
<1>3. q * p = z + 1
  BY <1>1, <1>2
<1>4. q # 0
  BY <1>1, <1>3
<1>5. Position(l, z + 1) = q - 1 /\ q - 1 \in Nat /\ (q - 1) + 1 = q
  BY <1>1, <1>2, <1>4 DEF Position
<1> QED BY <1>1, <1>3, <1>5 DEF Completes

\* The climb from a new leaf: the root of the subtree it completes, at every level it completes.
LEMMA ClimbIs ==
    ASSUME NEW stored, NEW h, NEW z \in Nat, Holds(stored, h, z), NEW g, \A i \in 1..z : g[i] = h[i],
           NEW l \in Nat, NEW i \in Nat, Completes(l, i, z + 1)
    PROVE  Climb(z, g[z + 1], stored)[l] = Roots(g)[Pow2[l]][i * Pow2[l]]
<1> DEFINE f == Climb(z, g[z + 1], stored)
           T == {m \in Nat : \A j \in Nat : Completes(m, j, z + 1) => f[m] = Roots(g)[Pow2[m]][j * Pow2[m]]}
<1>1. ASSUME NEW m \in Nat, \A k \in 0..m - 1 : k \in T, NEW j \in Nat, Completes(m, j, z + 1)
      PROVE  f[m] = Roots(g)[Pow2[m]][j * Pow2[m]]
  <2>1. CASE m = 0
    <3>1. Pow2[m] = 1 /\ j = z
      BY <2>1, <1>1, Pow2Def DEF Completes
    <3>2. f[m] = g[z + 1]
      BY <2>1, ClimbDef
    <3>3. Roots(g)[1][z] = g[z + 1]
      BY RootsDef
    <3>4. z * 1 = z
      OBVIOUS
    <3> HIDE DEF f
    <3> QED BY <3>1, <3>2, <3>3, <3>4
  <2>2. CASE m > 0
    <3>1. PICK e \in Nat : e = m - 1 /\ e + 1 = m /\ e \in T
      BY <1>1, <2>2
    <3>2. PICK p \in Nat : p = Pow2[e] /\ Pow2[m] = 2 * p /\ p > 0
      BY <3>1, Pow2Def
    <3>3. PICK b \in Nat : b = j * (2 * p)
      <4>1. j * (2 * p) \in Nat
        BY <3>2
      <4> QED BY <4>1
    <3>4. b + 2 * p = z + 1 /\ (2 * j) * p = b /\ (2 * j + 1) * p = b + p /\ (2 * j + 2) * p = b + 2 * p
      <4>1. (j + 1) * (2 * p) = z + 1
        BY <1>1, <3>2 DEF Completes
      <4>2. (j + 1) * (2 * p) = j * (2 * p) + 2 * p
        OBVIOUS
      <4>3. (2 * j) * p = j * (2 * p) /\ (2 * j + 1) * p = j * (2 * p) + p /\ (2 * j + 2) * p = j * (2 * p) + 2 * p
        OBVIOUS
      <4> QED BY <4>1, <4>2, <4>3, <3>3
    <3>5. Completes(e, 2 * j + 1, z + 1) /\ 2 * j + 1 \in Nat
      <4>1. ((2 * j + 1) + 1) * p = (2 * j + 2) * p
        OBVIOUS
      <4> QED BY <4>1, <3>2, <3>4 DEF Completes
    <3>6. f[e] = Roots(g)[p][b + p]
      <4>1. f[e] = Roots(g)[Pow2[e]][(2 * j + 1) * Pow2[e]]
        <5> HIDE DEF f
        <5> QED BY <3>1, <3>5
      <4> HIDE DEF f
      <4> QED BY <4>1, <3>2, <3>4
    <3>7. Position(e, z + 1) - 1 = 2 * j
      <4>1. Position(e, z + 1) = 2 * j + 1
        BY <3>5, Completed
      <4> QED BY <4>1
    <3>8. f[m] = NodeHash(stored[<<e, 2 * j>>], f[e])
      <4>1. f[e + 1] = NodeHash(stored[<<e, Position(e, z + 1) - 1>>], f[e])
        BY ClimbDef
      <4> HIDE DEF f
      <4> QED BY <4>1, <3>1, <3>7
    <3>9. stored[<<e, 2 * j>>] = Roots(g)[p][b]
      <4>1. Whole(e, 2 * j, z)
        <5>1. b + p <= z
          BY <3>4, <3>2
        <5> QED BY <5>1, <3>2, <3>4 DEF Whole
      <4>2. 2 * j \in Nat
        OBVIOUS
      <4>3. stored[<<e, 2 * j>>] = Roots(h)[Pow2[e]][(2 * j) * Pow2[e]]
        BY <4>1, <4>2 DEF Holds
      <4>4. Roots(h)[p][b] = Roots(g)[p][b]
        <5>1. \A k \in 1..p : h[b + k] = g[b + k]
          <6> TAKE k \in 1..p
          <6>1. b + k \in 1..z
            BY <3>2, <3>4
          <6> QED BY <6>1
        <5>2. Alike(h, b, g, b, p)
          BY <5>1 DEF Alike
        <5> QED BY <5>2, RootsBind
      <4> QED BY <4>3, <4>4, <3>2, <3>4
    <3>10. Roots(g)[2 * p][b] = NodeHash(Roots(g)[p][b], Roots(g)[p][b + p])
      <4>1. 2 * p \in Nat /\ 2 * p >= 2 /\ (2 * p) - p = p
        BY <3>2
      <4>2. p = Split(2 * p)
        <5>1. IsPowerOfTwo(p) /\ p < 2 * p /\ 2 * p <= 2 * p
          BY <3>2, PowerOfTwo
        <5> QED BY <4>1, <5>1, SplitIs
      <4>3. Roots(g)[2 * p][b] = NodeHash(Roots(g)[p][b], Roots(g)[(2 * p) - p][b + p])
        BY <4>1, <4>2, RootsSplit
      <4> QED BY <4>1, <4>3
    <3> HIDE DEF f
    <3> QED BY <3>2, <3>3, <3>6, <3>8, <3>9, <3>10
  <2> QED BY <2>1, <2>2
<1>2. l \in T
  <2>1. \A m \in Nat : (\A k \in 0..m - 1 : k \in T) => m \in T
    <3> HIDE DEF f
    <3> QED BY <1>1
  <2> T \subseteq Nat
    OBVIOUS
  <2> HIDE DEF T
  <2> QED BY <2>1, AllNaturals
<1> HIDE DEF f
<1> QED BY <1>2 DEF f

\* Every complete subtree that ends with leaf z, and the root of the hashes it covers.
Completing(new, g, z) ==
    /\ \A t \in new : /\ t[1] \in Nat /\ t[2] \in Nat /\ Completes(t[1], t[2], z)
                      /\ t[3] = Roots(g)[Pow2[t[1]]][t[2] * Pow2[t[1]]]
    /\ \A m, j \in Nat : Completes(m, j, z) => \E t \in new : t[1] = m /\ t[2] = j

\* What the append stores.
LEMMA NewNodes ==
    ASSUME NEW stored, NEW h, NEW z \in Nat, Holds(stored, h, z), NEW g, \A i \in 1..z : g[i] = h[i],
           NEW new, new = AppendedNodes(z, g[z + 1], stored)
    PROVE  Completing(new, g, z + 1)
<1> DEFINE Node(l) == <<l, Position(l, z + 1), Climb(z, g[z + 1], stored)[l]>>
           Levels == {l \in 0..z : (z + 1) % Pow2[l] = 0}
<1>1. new = {Node(l) : l \in Levels}
  BY DEF AppendedNodes
<1>2. ASSUME NEW t \in new
      PROVE  /\ t[1] \in Nat /\ t[2] \in Nat /\ Completes(t[1], t[2], z + 1)
             /\ t[3] = Roots(g)[Pow2[t[1]]][t[2] * Pow2[t[1]]]
  <2>1. PICK l \in Levels : t = Node(l)
    BY <1>1
  <2>2. PICK i \in Nat : i = Position(l, z + 1) /\ l \in Nat /\ Completes(l, i, z + 1)
    BY LevelCompleted
  <2>3. t[1] = l /\ t[2] = i /\ t[3] = Climb(z, g[z + 1], stored)[l]
    BY <2>1, <2>2
  <2>4. Climb(z, g[z + 1], stored)[l] = Roots(g)[Pow2[l]][i * Pow2[l]]
    BY <2>2, ClimbIs
  <2> QED BY <2>2, <2>3, <2>4
<1>3. ASSUME NEW l \in Nat, NEW i \in Nat, Completes(l, i, z + 1) PROVE \E t \in new : t[1] = l /\ t[2] = i
  <2>1. l \in Levels /\ Position(l, z + 1) = i
    BY <1>3, Completed
  <2>2. Node(l) \in new /\ Node(l)[1] = l /\ Node(l)[2] = i
    BY <1>1, <2>1
  <2> QED BY <2>2
<1> QED BY <1>2, <1>3 DEF Completing

\* The table with the new rows.
Grown(stored, new) ==
    [key \in DOMAIN stored \union {<<t[1], t[2]>> : t \in new} |->
        IF key \in DOMAIN stored THEN stored[key] ELSE (CHOOSE t \in new : <<t[1], t[2]>> = key)[3]]

\* With them it is the table of the longer log.
LEMMA AppendHolds ==
    ASSUME NEW stored, NEW h, NEW z \in Nat, Holds(stored, h, z), NEW g, \A i \in 1..z : g[i] = h[i],
           NEW new, new = AppendedNodes(z, g[z + 1], stored)
    PROVE  Holds(Grown(stored, new), g, z + 1)
<1> DEFINE next == Grown(stored, new)
<1>0. Completing(new, g, z + 1)
  BY NewNodes
<1>1. ASSUME NEW t \in new
      PROVE  /\ t[1] \in Nat /\ t[2] \in Nat /\ Completes(t[1], t[2], z + 1)
             /\ t[3] = Roots(g)[Pow2[t[1]]][t[2] * Pow2[t[1]]]
  BY <1>0 DEF Completing
<1>2. ASSUME NEW l \in Nat, NEW i \in Nat, Completes(l, i, z + 1) PROVE \E t \in new : t[1] = l /\ t[2] = i
  BY <1>0, <1>2 DEF Completing
<1>3. \A l, i \in Nat : Whole(l, i, z + 1) <=> Whole(l, i, z) \/ Completes(l, i, z + 1)
  BY Completed
<1>4. \A l, i \in Nat : <<l, i>> \in DOMAIN stored <=> Whole(l, i, z)
  BY DEF Holds
<1>5. DOMAIN next = DOMAIN stored \union {<<t[1], t[2]>> : t \in new}
  BY DEF Grown
<1>6. DOMAIN next = {k \in Nat \X Nat : Whole(k[1], k[2], z + 1)}
  <2>1. ASSUME NEW k \in DOMAIN next PROVE k \in Nat \X Nat /\ Whole(k[1], k[2], z + 1)
    <3>1. CASE k \in DOMAIN stored
      <4>1. k \in Nat \X Nat /\ Whole(k[1], k[2], z)
        BY <3>1 DEF Holds
      <4> QED BY <4>1, <1>3
    <3>2. CASE k \notin DOMAIN stored
      <4>1. PICK t \in new : k = <<t[1], t[2]>>
        BY <3>2, <1>5
      <4> QED BY <4>1, <1>1, <1>3
    <3> QED BY <3>1, <3>2
  <2>2. ASSUME NEW l \in Nat, NEW i \in Nat, Whole(l, i, z + 1) PROVE <<l, i>> \in DOMAIN next
    <3>1. CASE Whole(l, i, z)
      BY <3>1, <1>4, <1>5
    <3>2. CASE Completes(l, i, z + 1)
      <4>1. PICK t \in new : t[1] = l /\ t[2] = i
        BY <3>2, <1>2
      <4> QED BY <4>1, <1>5
    <3> QED BY <2>2, <3>1, <3>2, <1>3
  <2>3. ASSUME NEW k \in Nat \X Nat, Whole(k[1], k[2], z + 1) PROVE k \in DOMAIN next
    <3>1. k = <<k[1], k[2]>> /\ k[1] \in Nat /\ k[2] \in Nat
      OBVIOUS
    <3> HIDE DEF next
    <3> QED BY <3>1, <2>2, <2>3
  <2> HIDE DEF next
  <2> QED BY <2>1, <2>3
<1>7. ASSUME NEW l \in Nat, NEW i \in Nat, Whole(l, i, z + 1)
      PROVE  next[<<l, i>>] = Roots(g)[Pow2[l]][i * Pow2[l]]
  <2>1. CASE Whole(l, i, z)
    <3>1. next[<<l, i>>] = stored[<<l, i>>]
      BY <2>1, <1>4 DEF Grown
    <3>2. stored[<<l, i>>] = Roots(h)[Pow2[l]][i * Pow2[l]]
      BY <2>1 DEF Holds
    <3>3. PICK p \in Nat, b \in Nat : p = Pow2[l] /\ b = i * Pow2[l] /\ b + p <= z
      <4>1. PICK p \in Nat : p = Pow2[l]
        BY Pow2Def
      <4>2. i * p \in Nat /\ (i + 1) * p = i * p + p
        BY <4>1
      <4> QED BY <4>1, <4>2, <2>1 DEF Whole
    <3>4. Roots(h)[p][b] = Roots(g)[p][b]
      <4>1. ASSUME NEW k \in 1..p PROVE h[b + k] = g[b + k]
        <5>1. b + k \in 1..z
          BY <3>3
        <5> QED BY <5>1
      <4>2. Alike(h, b, g, b, p)
        BY <4>1 DEF Alike
      <4>3. Alike(h, b, g, b, p) => Roots(h)[p][b] = Roots(g)[p][b]
        BY RootsBind
      <4> QED BY <4>2, <4>3
    <3> HIDE DEF next
    <3> QED BY <3>1, <3>2, <3>3, <3>4
  <2>2. CASE Completes(l, i, z + 1)
    <3>1. ~ Whole(l, i, z)
      BY <2>2, Completed
    <3>2. \E t \in new : <<t[1], t[2]>> = <<l, i>>
      BY <2>2, <1>2
    <3> DEFINE c == CHOOSE t \in new : <<t[1], t[2]>> = <<l, i>>
    <3>3. c \in new /\ <<c[1], c[2]>> = <<l, i>>
      BY <3>2
    <3>4. <<l, i>> \in DOMAIN next /\ <<l, i>> \notin DOMAIN stored
      BY <1>4, <1>6, <1>7, <3>1
    <3>5. next[<<l, i>>] = c[3]
      BY <3>4 DEF Grown
    <3> HIDE DEF c, next
    <3> QED BY <3>3, <3>5, <1>1
  <2> QED BY <2>1, <2>2, <1>3, <1>7
<1> HIDE DEF next
<1> QED BY <1>6, <1>7 DEF Holds, next

\* The stored tree is the tree of the leaves.
TreeInv == /\ leaves \in Seq(Data) /\ Len(leaves) <= MaxLeaves
          /\ Holds(nodes, Hashes(leaves), Size)

\* It holds of the empty log, and is kept by every append.
LEMMA TreeInvInit == TreeInit => TreeInv
<1> SUFFICES ASSUME TreeInit PROVE TreeInv
  OBVIOUS
<1>1. leaves = <<>> /\ DOMAIN nodes = {} /\ Size = 0
  BY DEF TreeInit, Size
<1>2. \A l, i \in Nat : ~ Whole(l, i, 0)
  <2> TAKE l, i \in Nat
  <2>1. Pow2[l] \in Nat /\ Pow2[l] > 0
    BY Pow2Def
  <2>2. \A p \in Nat : p > 0 => (i + 1) * p > 0
    OBVIOUS
  <2> QED BY <2>1, <2>2 DEF Whole
<1>3. Holds(nodes, Hashes(leaves), Size)
  BY <1>1, <1>2 DEF Holds
<1> QED BY <1>1, <1>3, MerkleTreeAssumption DEF TreeInv

LEMMA TreeInvKept == TreeInv /\ [Appending]_tree => TreeInv'
<1> SUFFICES ASSUME TreeInv, [Appending]_tree PROVE TreeInv'
  OBVIOUS
<1>1. CASE UNCHANGED tree
  BY <1>1 DEF TreeInv, tree, Size
<1>2. ASSUME NEW data \in Data, AppendLeaf(data) PROVE TreeInv'
  <2>1. leaves \in Seq(Data) /\ Size \in Nat
    BY DEF TreeInv, Size
  <2>2. /\ leaves' \in Seq(Data) /\ Len(leaves') = Size + 1 /\ Size + 1 <= MaxLeaves
        /\ leaves'[Size + 1] = data /\ \A i \in 1..Size : leaves'[i] = leaves[i]
    BY <1>2, <2>1, MerkleTreeAssumption DEF AppendLeaf, Size
  <2>3. LogSize(nodes) = Size
    BY <2>1, LogSizeIs DEF TreeInv
  <2> DEFINE g == Hashes(leaves') h == Hashes(leaves)
  <2>4. g[Size + 1] = LeafHash(data) /\ \A i \in 1..Size : g[i] = h[i]
    <3>1. DOMAIN leaves' = 1..Size + 1 /\ DOMAIN leaves = 1..Size
      BY <2>1, <2>2 DEF Size
    <3>2. Size + 1 \in 1..Size + 1 /\ \A i \in 1..Size : i \in 1..Size + 1
      BY <2>1
    <3> QED BY <3>1, <3>2, <2>2 DEF Hashes
  <2> DEFINE new == AppendedNodes(Size, g[Size + 1], nodes)
  <2>5. nodes' = Grown(nodes, new)
    <3>1. new = AppendedNodes(LogSize(nodes), LeafHash(data), nodes)
      BY <2>3, <2>4
    <3> HIDE DEF new
    <3> QED BY <3>1, <1>2 DEF AppendLeaf, Grown
  <2>6. Holds(Grown(nodes, new), g, Size + 1)
    <3> HIDE DEF g
    <3> QED BY <2>1, <2>4, AppendHolds DEF TreeInv
  <2> QED BY <2>2, <2>5, <2>6 DEF TreeInv, Size
<1> QED BY <1>1, <1>2 DEF Appending

-----------------------------------------------------------------------------
(* The properties.                                                        *)

\* Some consecutive leaves.
LEMMA LeavesBetween ==
    ASSUME NEW d \in Seq(Data), NEW a \in Nat, NEW b \in Nat, a <= b, b <= Len(d)
    PROVE  /\ SubSeq(d, a + 1, b) \in Seq(Data) /\ Len(SubSeq(d, a + 1, b)) = b - a
           /\ \A i \in 1..b - a : SubSeq(d, a + 1, b)[i] = d[a + i]
<1>1. SubSeq(d, a + 1, b) = [i \in 1..b - a |-> d[a + i]]
  <2>1. SubSeq(d, a + 1, b) = [i \in 1..(1 + b - (a + 1)) |-> d[i + (a + 1) - 1]]
    BY DEF SubSeq
  <2>2. 1 + b - (a + 1) = b - a /\ \A i \in 1..b - a : i + (a + 1) - 1 = a + i
    OBVIOUS
  <2> QED BY <2>1, <2>2
<1>2. \A i \in 1..b - a : d[a + i] \in Data
  OBVIOUS
<1>3. b - a \in Nat
  OBVIOUS
<1> QED BY <1>1, <1>2, <1>3

\* The hash at a place is of the leaf there.
LEMMA HashesAre ==
    ASSUME NEW d \in Seq(Data), NEW i \in 1..Len(d)
    PROVE  Hashes(d)[i] = LeafHash(d[i])
  BY DEF Hashes

\* The root of some consecutive leaves is the root of the range of all their hashes.
LEMMA RootOfLeaves ==
    ASSUME NEW d \in Seq(Data), NEW a \in Nat, NEW b \in Nat, a <= b, b <= Len(d)
    PROVE  MTH(SubSeq(d, a + 1, b)) = Roots(Hashes(d))[b - a][a]
<1> DEFINE s == SubSeq(d, a + 1, b) n == b - a
<1>1. s \in Seq(Data) /\ Len(s) = n /\ n \in Nat /\ \A i \in 1..n : s[i] = d[a + i]
  BY LeavesBetween
<1> HIDE DEF s
<1>2. ASSUME NEW i \in 1..n PROVE Hashes(s)[0 + i] = Hashes(d)[a + i]
  <2>1. Hashes(s)[i] = LeafHash(s[i])
    BY <1>1, HashesAre
  <2>2. a + i \in 1..Len(d)
    BY <1>1
  <2>3. Hashes(d)[a + i] = LeafHash(d[a + i])
    BY <2>2, HashesAre
  <2>4. 0 + i = i
    OBVIOUS
  <2> QED BY <2>1, <2>3, <2>4, <1>1
<1>3. Roots(Hashes(s))[n][0] = Roots(Hashes(d))[n][a]
  <2>1. Alike(Hashes(s), 0, Hashes(d), a, n)
    <3> HIDE DEF n
    <3> QED BY <1>2 DEF Alike
  <2>2. Alike(Hashes(s), 0, Hashes(d), a, n) => Roots(Hashes(s))[n][0] = Roots(Hashes(d))[n][a]
    <3>1. PICK g, h, z, k : g = Hashes(s) /\ h = Hashes(d) /\ z = 0 /\ k = n
      OBVIOUS
    <3>2. z \in Nat /\ k \in Nat
      BY <3>1, <1>1
    <3> HIDE DEF n
    <3>3. Alike(g, z, h, a, k) => Roots(g)[k][z] = Roots(h)[k][a]
      BY <3>2, RootsBind
    <3> QED BY <3>1, <3>3
  <2> QED BY <2>1, <2>2
<1>4. MTH(s) = Roots(Hashes(s))[n][0]
  <2> HIDE DEF n
  <2> QED BY <1>1 DEF MTH, Hashes
<1> QED BY <1>3, <1>4 DEF s

\* What the invariant gives of the properties, one by one.
LEMMA TypesStand == TreeInv => TreeType
<1> SUFFICES ASSUME TreeInv PROVE TreeType
  OBVIOUS
<1>1. leaves \in Seq(Data) /\ Size \in Nat /\ Size <= MaxLeaves /\ MaxLeaves \in Nat
  BY MerkleTreeAssumption DEF TreeInv, Size
<1>2. leaves \in BoundedSeq(Data, MaxLeaves)
  <2>1. leaves \in [1..Size -> Data] /\ Size \in 0..MaxLeaves
    BY <1>1 DEF Size
  <2> QED BY <2>1 DEF BoundedSeq, SeqOf
<1>3. DOMAIN nodes = {k \in Nat \X Nat : Whole(k[1], k[2], Size)}
  BY DEF TreeInv, Holds
<1>4. ASSUME NEW l \in Nat, NEW i \in Nat, Whole(l, i, Size) PROVE l \in 0..MaxLeaves /\ i \in 0..MaxLeaves
  <2>1. PICK p \in Nat : p = Pow2[l] /\ p > l
    BY Pow2Def
  <2>2. (i + 1) * p <= Size
    BY <1>4, <2>1 DEF Whole
  <2>3. 1 * p <= (i + 1) * p /\ (i + 1) * 1 <= (i + 1) * p
    <3>1. \A x, y, q \in Nat : x <= y => q * x <= q * y
      OBVIOUS
    <3>2. \A x, y, q \in Nat : x <= y => x * q <= y * q
      OBVIOUS
    <3>3. 1 <= p /\ 1 <= i + 1 /\ i + 1 \in Nat /\ 1 \in Nat
      BY <2>1
    <3> QED BY <3>1, <3>2, <3>3
  <2> QED BY <2>1, <2>2, <2>3, <1>1
<1>5. DOMAIN nodes = {key \in (0..MaxLeaves) \X (0..MaxLeaves) : Whole(key[1], key[2], Size)}
  <2>1. ASSUME NEW k, k \in DOMAIN nodes PROVE k \in (0..MaxLeaves) \X (0..MaxLeaves) /\ Whole(k[1], k[2], Size)
    BY <2>1, <1>3, <1>4
  <2>2. (0..MaxLeaves) \X (0..MaxLeaves) \subseteq Nat \X Nat
    BY <1>1
  <2> QED BY <1>3, <2>1, <2>2
<1> QED BY <1>2, <1>5 DEF TreeType, Whole

LEMMA RootsStand == TreeInv => RootsMatchReference
<1> SUFFICES ASSUME TreeInv, NEW n \in 0..Size PROVE TreeRoot(n, nodes) = PrefixRoot(n)
  BY DEF RootsMatchReference
<1>1. leaves \in Seq(Data) /\ Size = Len(leaves) /\ Size \in Nat
  BY DEF TreeInv, Size
<1>2. Agrees(SubtreeRoots(nodes), Hashes(leaves), Size)
  BY <1>1, StoredRootsAgree DEF TreeInv
<1>3. TreeRoot(n, nodes) = Roots(Hashes(leaves))[n][0]
  <2>1. n - 0 = n /\ n \in Nat /\ 0 + n <= Size
    BY <1>1
  <2>2. SubtreeRoots(nodes)[n][0] = Roots(Hashes(leaves))[n][0]
    BY <2>1, <1>2 DEF Agrees
  <2> QED BY <2>1, <2>2 DEF TreeRoot, SubtreeRoot
<1>4. MTH(SubSeq(leaves, 0 + 1, n)) = Roots(Hashes(leaves))[n - 0][0]
  <2>1. PICK a \in Nat : a = 0
    OBVIOUS
  <2>2. n \in Nat /\ a <= n /\ n <= Len(leaves)
    BY <1>1, <2>1
  <2>3. MTH(SubSeq(leaves, a + 1, n)) = Roots(Hashes(leaves))[n - a][a]
    BY <1>1, <2>2, RootOfLeaves
  <2> QED BY <2>1, <2>3
<1>5. 0 + 1 = 1 /\ n - 0 = n
  BY <1>1
<1> QED BY <1>3, <1>4, <1>5 DEF PrefixRoot

\* A tile is available when its last node is complete.
LEMMA AvailableIs ==
    ASSUME TreeInv, NEW level \in Nat, NEW index \in Nat, NEW count \in Nat
    PROVE  /\ TileWidth \in Nat /\ TileHeight * level \in Nat /\ Pow2[TileHeight * level] \in Nat
           /\ Available(level, index, count) <=> (index * TileWidth + count) * Pow2[TileHeight * level] <= Size
<1>1. PICK l \in Nat : l = TileHeight * level
  BY MerkleTreeAssumption
<1>2. PICK p \in Nat : p = Pow2[l] /\ p > 0
  BY Pow2Def
<1>3. TileWidth \in Nat
  BY MerkleTreeAssumption, Pow2Def DEF TileWidth
<1>4. PICK x \in Nat : x = index * TileWidth + count
  <2>1. index * TileWidth \in Nat
    BY <1>3
  <2> QED BY <2>1
<1>5. PICK z \in Nat : z = Size /\ LogSize(nodes) = z
  BY LogSizeIs DEF TreeInv, Size
<1>6. PICK q \in Nat : q = z \div p /\ q * p <= z /\ z < q * p + p
  BY <1>2, Floor
<1>7. x <= q <=> x * p <= z
  <2>1. x <= q => x * p <= q * p
    BY <1>2, <1>6, Multiples
  <2>2. q < x => q * p + p <= x * p
    BY <1>2, <1>6, Multiples
  <2>3. x * p \in Nat /\ q * p \in Nat
    BY <1>2, <1>6, Multiples
  <2> QED BY <2>1, <2>2, <2>3, <1>2, <1>6
<1> QED BY <1>1, <1>2, <1>3, <1>4, <1>5, <1>6, <1>7 DEF Available

\* A stored node is the root of the leaves it covers.
LEMMA NodeIs ==
    ASSUME TreeInv, NEW l \in Nat, NEW i \in Nat, NEW p \in Nat, p = Pow2[l], (i + 1) * p <= Size
    PROVE  /\ <<l, i>> \in DOMAIN nodes
           /\ nodes[<<l, i>>] = Roots(Hashes(leaves))[p][i * p]
           /\ nodes[<<l, i>>] = MTH(SubSeq(leaves, i * p + 1, (i + 1) * p))
<1>1. Whole(l, i, Size)
  BY DEF Whole
<1>2. <<l, i>> \in DOMAIN nodes
  BY <1>1 DEF TreeInv, Holds
<1>3. nodes[<<l, i>>] = Roots(Hashes(leaves))[p][i * p]
  BY <1>1 DEF TreeInv, Holds
<1>4. PICK a \in Nat, b \in Nat : a = i * p /\ b = (i + 1) * p /\ b - a = p /\ a <= b
  <2>1. (i + 1) * p = i * p + p /\ i * p \in Nat
    OBVIOUS
  <2> QED BY <2>1
<1>5. leaves \in Seq(Data) /\ b <= Len(leaves)
  BY <1>4 DEF TreeInv, Size
<1>6. MTH(SubSeq(leaves, a + 1, b)) = Roots(Hashes(leaves))[b - a][a]
  BY <1>4, <1>5, RootOfLeaves
<1> QED BY <1>2, <1>3, <1>4, <1>6

\* A tile holds the roots of the subtrees it names, and a bundle its entries.
LEMMA TilesStand == TreeInv => TilesMatchReference
<1> SUFFICES ASSUME TreeInv, NEW level \in 0..2, NEW index \in 0..MaxLeaves, NEW count \in 1..TileWidth
             PROVE  LET width == Pow2[TileHeight * level]
                        first == index * TileWidth
                    IN  /\ Available(level, index, count) <=> (first + count) * width <= Size
                        /\ Available(level, index, count) =>
                              /\ HashTile(level, index, count) =
                                    [i \in 1..count |-> MTH(SubSeq(leaves, (first + i - 1) * width + 1, (first + i) * width))]
                              /\ level = 0 => EntryBundle(index, count) = SubSeq(leaves, first + 1, first + count)
  BY Zenon DEF TilesMatchReference
<1>1. level \in Nat /\ index \in Nat /\ count \in Nat
  BY MerkleTreeAssumption, AvailableIs
<1>2. /\ TileWidth \in Nat /\ TileHeight * level \in Nat /\ Pow2[TileHeight * level] \in Nat
      /\ Available(level, index, count) <=> (index * TileWidth + count) * Pow2[TileHeight * level] <= Size
  BY <1>1, AvailableIs
<1>3. PICK l \in Nat, p \in Nat, first \in Nat :
         l = TileHeight * level /\ p = Pow2[l] /\ first = index * TileWidth
  <2>1. index * TileWidth \in Nat
    BY <1>1, <1>2
  <2> QED BY <2>1, <1>2
<1>4. Available(level, index, count) <=> (first + count) * p <= Size
  BY <1>2, <1>3
<1>5. ASSUME Available(level, index, count), NEW i \in 1..count
      PROVE  /\ <<l, first + i - 1>> \in DOMAIN nodes
             /\ nodes[<<l, first + i - 1>>] = Roots(Hashes(leaves))[p][(first + i - 1) * p]
             /\ nodes[<<l, first + i - 1>>] = MTH(SubSeq(leaves, (first + i - 1) * p + 1, (first + i) * p))
  <2>1. PICK j \in Nat : j = first + i - 1 /\ j + 1 = first + i
    BY <1>1
  <2>2. (j + 1) * p <= (first + count) * p
    <3>1. PICK v \in Nat, u \in Nat : v = first + count /\ u = j + 1 /\ u <= v
      BY <2>1, <1>1
    <3> QED BY <3>1, Multiples
  <2>3. (j + 1) * p <= Size
    <3>1. PICK x \in Nat, y \in Nat : x = (j + 1) * p /\ y = (first + count) * p
      BY <1>1
    <3>2. x <= y /\ y <= Size /\ Size \in Nat
      BY <3>1, <2>2, <1>4, <1>5 DEF TreeInv, Size
    <3> QED BY <3>1, <3>2
  <2>4. /\ <<l, j>> \in DOMAIN nodes
        /\ nodes[<<l, j>>] = Roots(Hashes(leaves))[p][j * p]
        /\ nodes[<<l, j>>] = MTH(SubSeq(leaves, j * p + 1, (j + 1) * p))
    BY <1>3, <2>3, NodeIs
  <2> QED BY <2>1, <2>4
<1>6. ASSUME Available(level, index, count)
      PROVE  HashTile(level, index, count) =
               [i \in 1..count |-> MTH(SubSeq(leaves, (first + i - 1) * p + 1, (first + i) * p))]
  <2>1. \A i \in 1..count : <<l, first + i - 1>> \in DOMAIN nodes
    BY <1>5, <1>6
  <2>2. HashTile(level, index, count) = [i \in 1..count |-> nodes[<<l, first + i - 1>>]]
    BY <2>1, <1>3 DEF HashTile
  <2> QED BY <2>2, <1>5, <1>6
<1>7. ASSUME Available(level, index, count), level = 0
      PROVE  EntryBundle(index, count) = SubSeq(leaves, first + 1, first + count)
  <2> DEFINE entries == SubSeq(leaves, first + 1, first + count)
  <2>1. l = 0 /\ p = 1
    BY <1>3, <1>7, MerkleTreeAssumption, Pow2Def
  <2>2. PICK b \in Nat : b = first + count /\ first <= b /\ b - first = count
    BY <1>1
  <2>3. b <= Len(leaves) /\ leaves \in Seq(Data)
    BY <1>4, <1>7, <2>1, <2>2 DEF TreeInv, Size
  <2>4. \A i \in 1..count : entries[i] = leaves[first + i]
    BY <2>2, <2>3, LeavesBetween
  <2>5. ASSUME NEW i \in 1..count PROVE nodes[<<0, first + i - 1>>] = LeafHash(entries[i])
    <3>1. PICK j \in Nat : j = first + i - 1 /\ j + 1 = first + i /\ j + 1 \in 1..Len(leaves) /\ j * p = j
      BY <2>1, <2>2, <2>3
    <3>2. nodes[<<l, j>>] = Roots(Hashes(leaves))[p][j * p]
      BY <1>5, <1>7, <3>1
    <3>3. Roots(Hashes(leaves))[1][j] = Hashes(leaves)[j + 1]
      BY RootsDef
    <3>4. Hashes(leaves)[j + 1] = LeafHash(leaves[j + 1])
      BY <3>1, <2>3, HashesAre
    <3> HIDE DEF entries
    <3> QED BY <3>1, <3>2, <3>3, <3>4, <2>1, <2>4
  <2> QED BY <2>5, <1>3 DEF EntryBundle
<1> QED BY <1>3, <1>4, <1>6, <1>7

LEMMA StoredTreeStands == TreeInv => StoredTreeIsTheTree
  BY TypesStand, RootsStand, TilesStand DEF StoredTreeIsTheTree

\* The tree of the first n leaves, and its head.
LEMMA PrefixIs ==
    ASSUME TreeInv, NEW n \in 0..Size
    PROVE  /\ Prefix(n) \in Seq(Data) /\ Len(Prefix(n)) = n /\ \A i \in 1..n : Prefix(n)[i] = leaves[i]
           /\ PrefixRoot(n) = Roots(Hashes(leaves))[n][0]
           /\ HeadOf(Prefix(n)) = [size |-> n, root |-> Roots(Hashes(leaves))[n][0]]
<1>1. leaves \in Seq(Data) /\ Size = Len(leaves) /\ Size \in Nat
  BY DEF TreeInv, Size
<1>2. PICK a \in Nat : a = 0
  OBVIOUS
<1>3. n \in Nat /\ a <= n /\ n <= Len(leaves) /\ n - a = n /\ a + 1 = 1 /\ \A i \in 1..n : a + i = i
  BY <1>1, <1>2
<1>4. MTH(SubSeq(leaves, a + 1, n)) = Roots(Hashes(leaves))[n - a][a]
  BY <1>1, <1>3, RootOfLeaves
<1>5. /\ SubSeq(leaves, a + 1, n) \in Seq(Data) /\ Len(SubSeq(leaves, a + 1, n)) = n - a
      /\ \A i \in 1..n - a : SubSeq(leaves, a + 1, n)[i] = leaves[a + i]
  BY <1>1, <1>3, LeavesBetween
<1>6. SubSeq(leaves, a + 1, n) = Prefix(n) /\ PrefixRoot(n) = MTH(Prefix(n))
  BY <1>3 DEF Prefix, PrefixRoot
<1> QED BY <1>2, <1>3, <1>4, <1>5, <1>6 DEF HeadOf

\* An audit, by which of the two heads is larger.
LEMMA AuditPassesIs ==
    ASSUME NEW k \in Nat, NEW n \in Nat, NEW kept, NEW head, kept.size = k, head.size = n, NEW proof
    PROVE  /\ n < k => ~ AuditPasses(kept, head, proof)
           /\ n = k /\ AuditPasses(kept, head, proof) => head.root = kept.root
           /\ n = k /\ head.root = kept.root => AuditPasses(kept, head, proof)
           /\ k < n /\ AuditPasses(kept, head, proof) => VerifyConsistency(k, n, proof, kept.root, head.root)
           /\ k < n /\ VerifyConsistency(k, n, proof, kept.root, head.root) => AuditPasses(kept, head, proof)
<1>1. CASE n < k
  <2>1. head.size < kept.size /\ head.size # kept.size /\ ~ (head.size > kept.size)
    BY <1>1
  <2>2. ~ AuditPasses(kept, head, proof)
    BY <2>1, Zenon DEF AuditPasses
  <2> QED BY <1>1, <2>2
<1>2. CASE n = k
  <2>1. head.size = kept.size /\ ~ (head.size < kept.size) /\ ~ (head.size > kept.size)
    BY <1>2
  <2>2. AuditPasses(kept, head, proof) <=> head.root = kept.root
    BY <2>1, Zenon DEF AuditPasses
  <2>3. ~ (n < k) /\ ~ (k < n)
    BY <1>2
  <2> QED BY <2>2, <2>3
<1>3. CASE k < n
  <2>1. AuditPasses(kept, head, proof) = VerifyConsistency(k, n, proof, kept.root, head.root)
    BY <1>3 DEF AuditPasses
  <2> QED BY <1>3, <2>1
<1> QED BY <1>1, <1>2, <1>3

\* What the log serves is accepted.
LEMMA ProofsHold == TreeInv => ProofsVerify
<1> SUFFICES ASSUME TreeInv, NEW n \in 1..Size
             PROVE  /\ \A i \in 0..(n - 1) :
                          VerifyInclusion(LeafHash(leaves[i + 1]), i, n, InclusionProof(i, n, nodes), PrefixRoot(n))
                    /\ \A m \in 1..n : AuditPasses(HeadOf(Prefix(m)), HeadOf(Prefix(n)), ConsistencyProof(m, n, nodes))
  BY DEF ProofsVerify
<1> DEFINE h == Hashes(leaves) r == SubtreeRoots(nodes)
<1>1. leaves \in Seq(Data) /\ Size = Len(leaves) /\ Size \in Nat /\ n \in Nat /\ n <= Size /\ n \in 0..Size
  BY DEF TreeInv, Size
<1>2. Agrees(r, h, Size)
  BY <1>1, StoredRootsAgree DEF TreeInv
<1>3. ASSUME NEW i \in 0..(n - 1)
      PROVE  VerifyInclusion(LeafHash(leaves[i + 1]), i, n, InclusionProof(i, n, nodes), PrefixRoot(n))
  <2>1. i \in Nat /\ i < n /\ i + 1 \in 1..Len(leaves)
    BY <1>1
  <2>2. VerifyInclusion(h[i + 1], i, n, InclusionPaths(r)[n][i][0], Roots(h)[n][0])
    <3> HIDE DEF h, r
    <3> QED BY <1>1, <1>2, <2>1, InclusionIsComplete
  <2>3. h[i + 1] = LeafHash(leaves[i + 1])
    BY <1>1, <2>1, HashesAre
  <2>4. PrefixRoot(n) = Roots(h)[n][0]
    BY <1>1, PrefixIs
  <2> QED BY <2>2, <2>3, <2>4 DEF InclusionProof
<1>4. ASSUME NEW m \in 1..n
      PROVE  AuditPasses(HeadOf(Prefix(m)), HeadOf(Prefix(n)), ConsistencyProof(m, n, nodes))
  <2>1. m \in Nat /\ m > 0 /\ m <= n /\ m \in 0..Size
    BY <1>1
  <2>2. /\ HeadOf(Prefix(m)) = [size |-> m, root |-> Roots(h)[m][0]]
        /\ HeadOf(Prefix(n)) = [size |-> n, root |-> Roots(h)[n][0]]
    BY <1>1, <2>1, PrefixIs
  <2>3. CASE m = n
    BY <2>2, <2>3, <1>1, AuditPassesIs
  <2>4. CASE m < n
    <3>1. VerifyConsistency(m, n, Subproofs(r)[n][m][0][TRUE], Roots(h)[m][0], Roots(h)[n][0])
      <4> HIDE DEF h, r
      <4> QED BY <1>1, <1>2, <2>1, <2>4, ConsistencyIsComplete
    <3>2. VerifyConsistency(m, n, ConsistencyProof(m, n, nodes), Roots(h)[m][0], Roots(h)[n][0])
      BY <3>1 DEF ConsistencyProof
    <3> HIDE DEF h, r
    <3> QED BY <2>1, <2>2, <2>4, <3>2, <1>1, AuditPassesIs
  <2> QED BY <2>1, <2>3, <2>4, <1>1
<1> QED BY <1>3, <1>4

\* A forged proof is some list of hashes.
LEMMA ForgedIsList ==
    ASSUME NEW pool, NEW proof \in Forged(pool)
    PROVE  IsList(proof)
<1>1. PICK n \in 0..MaxForged : proof \in [1..n -> pool]
  BY DEF Forged, BoundedSeq, SeqOf
<1>2. proof \in Seq(pool)
  BY <1>1, MerkleTreeAssumption
<1> QED BY <1>2 DEF IsList

\* No two documents have one leaf hash.
LEMMA LeafHashBinds ==
    ASSUME NEW x, NEW y, LeafHash(x) = LeafHash(y)
    PROVE  x = y
  BY DEF LeafHash

\* No forged path proves another document.
LEMMA InclusionStands == TreeInv => InclusionBinds
<1> SUFFICES ASSUME TreeInv, NEW data \in Data, NEW i \in 0..(Size - 1), data # leaves[i + 1],
                    NEW pool, NEW proof \in Forged(pool),
                    VerifyInclusion(LeafHash(data), i, Size, proof, PrefixRoot(Size))
             PROVE  FALSE
  BY DEF InclusionBinds
<1>1. leaves \in Seq(Data) /\ Size = Len(leaves) /\ Size \in Nat /\ i \in Nat /\ i + 1 \in 1..Len(leaves) /\ Size \in 0..Size
  BY DEF TreeInv, Size
<1>2. PrefixRoot(Size) = Roots(Hashes(leaves))[Size][0]
  BY <1>1, PrefixIs
<1>3. VerifyInclusion(LeafHash(data), i, Size, proof, Roots(Hashes(leaves))[Size][0])
  BY <1>2
<1>4. LeafHash(data) = Hashes(leaves)[i + 1]
  BY <1>1, <1>3, ForgedIsList, InclusionIsSound
<1>5. LeafHash(data) = LeafHash(leaves[i + 1])
  BY <1>1, <1>4, HashesAre
<1> QED BY <1>5, LeafHashBinds

\* Equal roots are of equal leaves.
LEMMA HeadsBind ==
    ASSUME TreeInv, NEW m \in 1..Size, NEW rival \in [1..m -> Data],
           MTH(rival) = Roots(Hashes(leaves))[m][0]
    PROVE  rival = Prefix(m)
<1>1. leaves \in Seq(Data) /\ Size = Len(leaves) /\ Size \in Nat /\ m \in Nat /\ m \in 0..Size
  BY DEF TreeInv, Size
<1>2. rival \in Seq(Data) /\ Len(rival) = m
  BY <1>1
<1>3. MTH(rival) = Roots(Hashes(rival))[m][0]
  BY <1>2 DEF MTH, Hashes
<1>4. PICK z \in Nat : z = 0
  OBVIOUS
<1>5. PICK g, h : g = Hashes(rival) /\ h = Hashes(leaves)
  OBVIOUS
<1>6. Alike(g, z, h, z, m)
  BY <1>1, <1>3, <1>4, <1>5, RootsBind
<1>7. ASSUME NEW i \in 1..m PROVE rival[i] = leaves[i]
  <2>1. g[z + i] = h[z + i] /\ z + i = i
    BY <1>4, <1>6 DEF Alike
  <2>2. i \in 1..Len(rival) /\ i \in 1..Len(leaves)
    BY <1>1, <1>2
  <2>3. LeafHash(rival[i]) = LeafHash(leaves[i])
    BY <1>1, <1>2, <1>5, <2>1, <2>2, HashesAre
  <2> QED BY <2>3, LeafHashBinds
<1>8. Prefix(m) \in Seq(Data) /\ Len(Prefix(m)) = m /\ \A i \in 1..m : Prefix(m)[i] = leaves[i]
  BY <1>1, PrefixIs
<1>9. Prefix(m) \in [1..m -> Data]
  BY <1>8
<1> QED BY <1>7, <1>8, <1>9

\* No forged proof passes a head of another history.
LEMMA ConsistencyStands == TreeInv => ConsistencyBinds
<1> SUFFICES ASSUME TreeInv PROVE ConsistencyBinds
  OBVIOUS
<1>1. leaves \in Seq(Data) /\ Size = Len(leaves) /\ Size \in Nat /\ Size \in 0..Size
  BY DEF TreeInv, Size
<1>2. HeadOf(leaves).size = Size /\ HeadOf(leaves).root = Roots(Hashes(leaves))[Size][0]
  BY <1>1 DEF HeadOf, MTH, Hashes
<1>3. ASSUME NEW m \in 1..Size, NEW rival \in [1..m -> Data], rival # Prefix(m),
             NEW pool, NEW proof \in Forged(pool), AuditPasses(HeadOf(rival), HeadOf(leaves), proof)
      PROVE  FALSE
  <2>1. m \in Nat /\ m > 0 /\ m <= Size
    BY <1>1
  <2>2. HeadOf(rival).size = m /\ HeadOf(rival).root = MTH(rival)
    <3>1. Len(rival) = m
      BY <2>1
    <3> QED BY <3>1 DEF HeadOf
  <2>3. MTH(rival) = Roots(Hashes(leaves))[m][0]
    <3>1. CASE m = Size
      BY <3>1, <1>1, <1>2, <1>3, <2>1, <2>2, AuditPassesIs
    <3>2. CASE m < Size
      <4>1. VerifyConsistency(m, Size, proof, MTH(rival), Roots(Hashes(leaves))[Size][0])
        BY <3>2, <1>1, <1>2, <1>3, <2>1, <2>2, AuditPassesIs
      <4> QED BY <4>1, <3>2, <1>1, <2>1, ForgedIsList, ConsistencyIsSound
    <3> QED BY <3>1, <3>2, <1>1, <2>1
  <2> QED BY <1>3, <2>3, HeadsBind
<1>4. ASSUME NEW data \in Data PROVE ~ AuditPasses(HeadOf(Append(leaves, data)), HeadOf(leaves), <<>>)
  <2>1. Len(Append(leaves, data)) = Size + 1
    BY <1>1
  <2>2. HeadOf(Append(leaves, data)).size = Size + 1
    BY <2>1 DEF HeadOf
  <2>3. PICK k \in Nat : k = Size + 1 /\ Size < k
    BY <1>1
  <2> QED BY <2>2, <2>3, <1>1, <1>2, AuditPassesIs
<1> QED BY <1>3, <1>4 DEF ConsistencyBinds

LEMMA SoundProofsStand == TreeInv => ProofsAreSound
  BY ProofsHold, InclusionStands, ConsistencyStands DEF ProofsAreSound

\* The invariant holds always.
LEMMA TreeInvHolds == TreeSpec => []TreeInv
  BY TreeInvInit, TreeInvKept, PTL DEF TreeSpec

\* For every set of documents, any number of appends and any width of a tile: what Store.append_leaf
\* stores, and tree_root, root_at and the tiles compute from it, is the tree of RFC 9162.
THEOREM TreeStands == TreeSpec => []StoredTreeIsTheTree
<1>1. TreeSpec => []TreeInv
  BY TreeInvHolds
<1>2. TreeInv => StoredTreeIsTheTree
  BY StoredTreeStands
<1> QED BY <1>1, <1>2, PTL

\* Every path and every consistency proof the log computes (inclusion_proof, consistency_proof) is accepted
\* by the verifiers, and no proof made of whatever hashes makes them accept another document or history.
THEOREM ProofsStand == TreeSpec => []ProofsAreSound
<1>1. TreeSpec => []TreeInv
  BY TreeInvHolds
<1>2. TreeInv => ProofsAreSound
  BY SoundProofsStand
<1> QED BY <1>1, <1>2, PTL
=============================================================================
