----------------------------- MODULE PoolProofs -----------------------------
(***************************************************************************)
(* The membership pool for every depth of its trees: the frontier computes *)
(* Merkle roots, rollover leaves no hole, and a proof is accepted exactly  *)
(* when its credential is enrolled.                                        *)
(***************************************************************************)
EXTENDS MembershipPool, WellFoundedInduction, TLAPS

(***************************************************************************)
(* Induction over levels, from the least element of a set of naturals.     *)
(***************************************************************************)
(* A non-empty set of naturals has a least element.                        *)
LEMMA Least ==
    ASSUME NEW S \in SUBSET Nat, S # {}
    PROVE  \E n \in S : \A m \in S : n <= m
  <1> DEFINE Less == OpToRel(<, Nat)
  <1>1. IsWellFoundedOn(Less, Nat)
    BY NatLessThanWellFounded, Zenon
  <1>2. PICK n \in S : \A m \in S : <<m, n>> \notin Less
    BY <1>1, WFMin, Zenon
  <1>3. \A m \in S : ~(m < n)
    BY <1>2, Zenon DEF OpToRel
  <1> QED BY <1>3

(* Induction upwards.                                                      *)
LEMMA Induct ==
    ASSUME NEW N \in Nat, NEW S, 0 \in S, \A n \in 0..N - 1 : n \in S => n + 1 \in S
    PROVE  \A n \in 0..N : n \in S
  <1> DEFINE T == {n \in 0..N : n \notin S}
  <1> SUFFICES ASSUME T # {} PROVE FALSE
    BY Zenon
  <1>1. PICK n \in T : \A m \in T : n <= m
    <2>1. T \in SUBSET Nat
      OBVIOUS
    <2> HIDE DEF T
    <2> QED BY <2>1, Least, Zenon
  <1>2. n # 0
    BY <1>1, Zenon
  <1>3. n - 1 \in 0..N - 1 /\ n - 1 \notin T
    BY <1>1, <1>2
  <1> QED BY <1>1, <1>3

(* Induction downwards.                                                    *)
LEMMA InductDown ==
    ASSUME NEW N \in Nat, NEW S, N \in S, \A n \in 1..N : n \in S => n - 1 \in S
    PROVE  \A n \in 0..N : n \in S
  <1> DEFINE T == {k \in 0..N : N - k \in S}
  <1>1. 0 \in T
    OBVIOUS
  <1>2. \A k \in 0..N - 1 : k \in T => k + 1 \in T
    OBVIOUS
  <1>3. \A k \in 0..N : k \in T
    BY <1>1, <1>2, Induct, Zenon
  <1>4. \A n \in 0..N : N - n \in T
    BY <1>3
  <1> QED BY <1>4

(***************************************************************************)
(* The recursive definitions: what they define exists.                     *)
(***************************************************************************)
LEMMA Pow2Def == Pow2 = [l \in 0..Depth |-> IF l = 0 THEN 1 ELSE 2 * Pow2[l - 1]]
  <1> DEFINE Is(f, n) == f = [l \in 0..n |-> IF l = 0 THEN 1 ELSE 2 * f[l - 1]]
             S == {n \in 0..Depth : \E f : Is(f, n)}
  <1>1. 0 \in S
    <2>1. Is([l \in 0..0 |-> 1], 0)
      OBVIOUS
    <2>2. 0 \in 0..Depth
      BY DepthAssumption
    <2> HIDE DEF Is
    <2> QED BY <2>1, <2>2, Zenon
  <1>2. ASSUME NEW n \in 0..Depth - 1, n \in S PROVE n + 1 \in S
    <2>1. PICK f : Is(f, n)
      BY <1>2, Zenon
    <2> DEFINE g == [l \in 0..n + 1 |-> IF l = n + 1 THEN 2 * f[n] ELSE f[l]]
    <2>2. Is(g, n + 1)
      BY <2>1, DepthAssumption
    <2>3. n + 1 \in 0..Depth
      BY DepthAssumption
    <2> HIDE DEF Is
    <2> QED BY <2>2, <2>3, Zenon
  <1>3. Depth \in S
    <2>1. Depth \in Nat /\ Depth \in 0..Depth
      BY DepthAssumption
    <2> HIDE DEF S
    <2>2. \A n \in 0..Depth : n \in S
      BY <1>1, <1>2, <2>1, Induct, Zenon
    <2> QED BY <2>1, <2>2, Zenon
  <1> QED BY <1>3, Zenon DEF Pow2

(* The empty subtrees' hashes are defined level by level.                  *)
LEMMA ZeroDef == Zero = [l \in 0..Depth |-> IF l = 0 THEN Field(0) ELSE Node(Zero[l - 1], Zero[l - 1])]
  <1> DEFINE Is(f, n) == f = [l \in 0..n |-> IF l = 0 THEN Field(0) ELSE Node(f[l - 1], f[l - 1])]
             S == {n \in 0..Depth : \E f : Is(f, n)}
  <1>1. 0 \in S
    <2>1. Is([l \in 0..0 |-> Field(0)], 0)
      OBVIOUS
    <2>2. 0 \in 0..Depth
      BY DepthAssumption
    <2> HIDE DEF Is
    <2> QED BY <2>1, <2>2, Zenon
  <1>2. ASSUME NEW n \in 0..Depth - 1, n \in S PROVE n + 1 \in S
    <2>1. PICK f : Is(f, n)
      BY <1>2, Zenon
    <2> DEFINE g == [l \in 0..n + 1 |-> IF l = n + 1 THEN Node(f[n], f[n]) ELSE f[l]]
    <2>2. Is(g, n + 1)
      BY <2>1, DepthAssumption
    <2>3. n + 1 \in 0..Depth
      BY DepthAssumption
    <2> HIDE DEF Is
    <2> QED BY <2>2, <2>3, Zenon
  <1>3. Depth \in S
    <2>1. Depth \in Nat /\ Depth \in 0..Depth
      BY DepthAssumption
    <2> HIDE DEF S
    <2>2. \A n \in 0..Depth : n \in S
      BY <1>1, <1>2, <2>1, Induct, Zenon
    <2> QED BY <2>1, <2>2, Zenon
  <1> QED BY <1>3, Zenon DEF Zero

(* One level of a climb.                                                   *)
Step(index, siblings, l, below) ==
    IF IsLeft(index, l - 1) THEN Node(below, siblings[l]) ELSE Node(siblings[l], below)

(* A climb is defined level by level, from the leaf to the root.           *)
LEMMA ClimbDef ==
    ASSUME NEW leaf, NEW index, NEW siblings
    PROVE  LET cur == Climb(leaf, index, siblings)
           IN  cur = [l \in 0..Depth |-> IF l = 0 THEN leaf ELSE Step(index, siblings, l, cur[l - 1])]
  <1> DEFINE Is(f, n) == f = [l \in 0..n |-> IF l = 0 THEN leaf ELSE Step(index, siblings, l, f[l - 1])]
             S == {n \in 0..Depth : \E f : Is(f, n)}
  <1>1. 0 \in S
    <2>1. Is([l \in 0..0 |-> leaf], 0)
      OBVIOUS
    <2>2. 0 \in 0..Depth
      BY DepthAssumption
    <2> HIDE DEF Is
    <2> QED BY <2>1, <2>2, Zenon
  <1>2. ASSUME NEW n \in 0..Depth - 1, n \in S PROVE n + 1 \in S
    <2>1. PICK f : Is(f, n)
      BY <1>2, Zenon
    <2> DEFINE g == [l \in 0..n + 1 |-> IF l = n + 1 THEN Step(index, siblings, l, f[n]) ELSE f[l]]
    <2>2. Is(g, n + 1)
      BY <2>1, DepthAssumption
    <2>3. n + 1 \in 0..Depth
      BY DepthAssumption
    <2> HIDE DEF Is
    <2> QED BY <2>2, <2>3, Zenon
  <1>3. Depth \in S
    <2>1. Depth \in Nat /\ Depth \in 0..Depth
      BY DepthAssumption
    <2> HIDE DEF S
    <2>2. \A n \in 0..Depth : n \in S
      BY <1>1, <1>2, <2>1, Induct, Zenon
    <2> QED BY <2>1, <2>2, Zenon
  <1> QED BY <1>3, Zenon DEF Climb, Step

(* The leaf at index i of a padded tree.                                   *)
Leaf(s, i) == IF i + 1 \in DOMAIN s THEN s[i + 1] ELSE Zero[0]

(* A tree is defined level by level, from its leaves to its root.          *)
LEMMA SubtreeDef ==
    ASSUME NEW s, NEW h \in 0..Depth
    PROVE  LET lev == Subtree(s, h)
           IN  lev = [l \in 0..h |-> [i \in 0..Pow2[h - l] - 1 |->
                         IF l = 0 THEN Leaf(s, i)
                         ELSE Node(lev[l - 1][2 * i], lev[l - 1][2 * i + 1])]]
  <1> DEFINE Is(f, n) == f = [l \in 0..n |-> [i \in 0..Pow2[h - l] - 1 |->
                                IF l = 0 THEN Leaf(s, i)
                                ELSE Node(f[l - 1][2 * i], f[l - 1][2 * i + 1])]]
             S == {n \in 0..h : \E f : Is(f, n)}
  <1>1. 0 \in S
    <2>1. Is([l \in 0..0 |-> [i \in 0..Pow2[h - l] - 1 |-> Leaf(s, i)]], 0)
      OBVIOUS
    <2>2. 0 \in 0..h
      BY DepthAssumption
    <2> HIDE DEF Is
    <2> QED BY <2>1, <2>2, Zenon
  <1>2. ASSUME NEW n \in 0..h - 1, n \in S PROVE n + 1 \in S
    <2>1. PICK f : Is(f, n)
      BY <1>2, Zenon
    <2> DEFINE g == [l \in 0..n + 1 |->
                        IF l = n + 1 THEN [i \in 0..Pow2[h - l] - 1 |-> Node(f[n][2 * i], f[n][2 * i + 1])]
                        ELSE f[l]]
    <2>2. Is(g, n + 1)
      <3>1. \A l \in 0..n : g[l] = f[l]
        BY DepthAssumption
      <3>2. ASSUME NEW l \in 0..n + 1
            PROVE  g[l] = [i \in 0..Pow2[h - l] - 1 |->
                              IF l = 0 THEN Leaf(s, i)
                              ELSE Node(g[l - 1][2 * i], g[l - 1][2 * i + 1])]
        <4>1. CASE l = n + 1
          <5>1. g[l - 1] = f[n] /\ l # 0 /\ l \in 0..n + 1
            BY <4>1, <3>1
          <5>2. g[l] = [i \in 0..Pow2[h - l] - 1 |-> Node(f[n][2 * i], f[n][2 * i + 1])]
            BY <4>1, <5>1, Zenon
          <5> HIDE DEF g
          <5> QED BY <5>1, <5>2, Zenon
        <4>2. CASE l = 0
          <5>1. g[l] = f[l] /\ l \in 0..n
            BY <4>2, <3>1
          <5> HIDE DEF g
          <5> QED BY <4>2, <5>1, <2>1, Zenon
        <4>3. CASE l \in 1..n
          <5>1. g[l] = f[l] /\ g[l - 1] = f[l - 1] /\ l # 0 /\ l \in 0..n
            BY <4>3, <3>1
          <5> HIDE DEF g
          <5> QED BY <5>1, <2>1, Zenon
        <4> QED BY <4>1, <4>2, <4>3
      <3> QED BY <3>2, Zenon
    <2>3. n + 1 \in 0..h
      BY DepthAssumption
    <2> HIDE DEF Is
    <2> QED BY <2>2, <2>3, Zenon
  <1>3. h \in S
    <2>1. h \in Nat /\ h \in 0..h
      BY DepthAssumption
    <2> HIDE DEF S
    <2>2. \A n \in 0..h : n \in S
      BY <1>1, <1>2, <2>1, Induct, Zenon
    <2> QED BY <2>1, <2>2, Zenon
  <1> QED BY <1>3, Zenon DEF Subtree, Leaf

(***************************************************************************)
(* Powers and shifts.                                                      *)
(***************************************************************************)
LEMMA Pow2Step ==
    /\ Pow2[0] = 1
    /\ \A l \in 0..Depth : Pow2[l] \in Nat \ {0}
    /\ \A l \in 0..Depth - 1 : Pow2[l + 1] = 2 * Pow2[l]
  <1>1. Pow2[0] = 1 /\ \A l \in 0..Depth - 1 : Pow2[l + 1] = 2 * Pow2[l]
    <2>1. 0 \in 0..Depth /\ \A l \in 0..Depth - 1 : l + 1 \in 0..Depth /\ l + 1 # 0 /\ (l + 1) - 1 = l
      BY DepthAssumption
    <2> QED BY <2>1, Pow2Def, Zenon
  <1> DEFINE S == {l \in 0..Depth : Pow2[l] \in Nat \ {0}}
  <1>2. 0 \in S /\ \A l \in 0..Depth - 1 : l \in S => l + 1 \in S
    BY <1>1, DepthAssumption
  <1>3. \A l \in 0..Depth : l \in S
    <2> HIDE DEF S
    <2> QED BY <1>2, Induct, DepthAssumption, Zenon
  <1> QED BY <1>1, <1>3, Zenon

(* The quotient is the only number of its kind.                            *)
LEMMA DivIs ==
    ASSUME NEW n \in Nat, NEW p \in Nat \ {0}, NEW q \in Nat, NEW r \in 0..p - 1, n = q * p + r
    PROVE  n \div p = q
  <1> DEFINE d == n \div p
             m == n % p
  <1>1. d \in Nat /\ m \in 0..p - 1 /\ n = d * p + m
    OBVIOUS
  <1> HIDE DEF d, m
  <1>2. CASE d < q
    <2>1. (q - d) * p >= p
      BY <1>1, <1>2
    <2> QED BY <1>1, <2>1
  <1>3. CASE q < d
    <2>1. (d - q) * p >= p
      BY <1>1, <1>3
    <2> QED BY <1>1, <2>1
  <1> QED BY <1>1, <1>2, <1>3 DEF d

(* Dividing by 2p is dividing by p and then by 2.                          *)
LEMMA DivStep ==
    ASSUME NEW n \in Nat, NEW p \in Nat \ {0}
    PROVE  n \div p \in Nat /\ n \div (2 * p) = (n \div p) \div 2
  <1> DEFINE d == n \div p
             m == n % p
             q == d \div 2
             b == d % 2
  <1>1. d \in Nat /\ m \in 0..p - 1 /\ n = d * p + m
    OBVIOUS
  <1> HIDE DEF d, m
  <1>2. q \in Nat /\ b \in 0..1 /\ d = 2 * q + b
    BY <1>1
  <1> HIDE DEF q, b
  <1>3. n = q * (2 * p) + (b * p + m)
    BY <1>1, <1>2
  <1>4. b * p + m \in 0..2 * p - 1
    BY <1>1, <1>2
  <1>5. n \div (2 * p) = q
    BY <1>2, <1>3, <1>4, DivIs
  <1> QED BY <1>1, <1>5, Zenon DEF d, q

(* Shifting by one more level halves.                                      *)
LEMMA ShiftStep ==
    ASSUME NEW n \in Nat
    PROVE  /\ Shift(n, 0) = n
           /\ \A l \in 0..Depth : Shift(n, l) \in Nat
           /\ \A l \in 0..Depth - 1 : Shift(n, l + 1) = Shift(n, l) \div 2
  <1>1. Shift(n, 0) = n
    BY Pow2Step DEF Shift
  <1>2. \A l \in 0..Depth : Shift(n, l) \in Nat
    BY Pow2Step, DivStep, Zenon DEF Shift
  <1>3. ASSUME NEW l \in 0..Depth - 1 PROVE Shift(n, l + 1) = Shift(n, l) \div 2
    <2>1. Pow2[l] \in Nat \ {0} /\ Pow2[l + 1] = 2 * Pow2[l]
      BY Pow2Step, DepthAssumption
    <2> QED BY <2>1, DivStep, Zenon DEF Shift
  <1> QED BY <1>1, <1>2, <1>3, Zenon

(* Shifting keeps the order, and a successor's shift is at most one more.  *)
LEMMA ShiftOrder ==
    ASSUME NEW m \in Nat, NEW n \in Nat, m <= n
    PROVE  \A l \in 0..Depth : Shift(m, l) <= Shift(n, l)
  <1> DEFINE S == {l \in 0..Depth : Shift(m, l) <= Shift(n, l)}
  <1>1. 0 \in S
    BY ShiftStep, DepthAssumption
  <1>2. ASSUME NEW l \in 0..Depth - 1, l \in S PROVE l + 1 \in S
    <2>1. Shift(m, l) <= Shift(n, l) /\ l \in 0..Depth /\ l + 1 \in 0..Depth
      BY <1>2, DepthAssumption
    <2> QED BY <2>1, ShiftStep
  <1> HIDE DEF S
  <1>3. \A l \in 0..Depth : l \in S
    BY <1>1, <1>2, Induct, DepthAssumption, Zenon
  <1> QED BY <1>3, Zenon DEF S

(* One more leaf moves the path at each level by at most one.              *)
LEMMA ShiftNext ==
    ASSUME NEW n \in Nat
    PROVE  \A l \in 0..Depth : Shift(n + 1, l) \in {Shift(n, l), Shift(n, l) + 1}
  <1> DEFINE S == {l \in 0..Depth : Shift(n + 1, l) \in {Shift(n, l), Shift(n, l) + 1}}
  <1>1. 0 \in S
    BY ShiftStep, DepthAssumption
  <1>2. ASSUME NEW l \in 0..Depth - 1, l \in S PROVE l + 1 \in S
    <2>1. l \in 0..Depth /\ l + 1 \in 0..Depth
      BY DepthAssumption
    <2>2. Shift(n + 1, l) \in {Shift(n, l), Shift(n, l) + 1} /\ Shift(n, l) \in Nat
      BY <1>2, <2>1, ShiftStep, Zenon
    <2>3. Shift(n + 1, l + 1) = Shift(n + 1, l) \div 2 /\ Shift(n, l + 1) = Shift(n, l) \div 2
      BY ShiftStep
    <2>4. Shift(n + 1, l + 1) \in {Shift(n, l + 1), Shift(n, l + 1) + 1}
      BY <2>2, <2>3
    <2> QED BY <2>1, <2>4, Zenon
  <1> HIDE DEF S
  <1>3. \A l \in 0..Depth : l \in S
    BY <1>1, <1>2, Induct, DepthAssumption, Zenon
  <1> QED BY <1>3, Zenon DEF S

(* The path of a leaf of a tree of height h stays within its levels, and   *)
(* ends at the root.                                                       *)
LEMMA ShiftRange ==
    ASSUME NEW h \in 0..Depth, NEW n \in 0..Pow2[h] - 1
    PROVE  (\A l \in 0..h : Shift(n, l) \in 0..Pow2[h - l] - 1) /\ Shift(n, h) = 0
  <1>1. n \in Nat
    BY Pow2Step
  <1> DEFINE S == {l \in 0..h : Shift(n, l) \in 0..Pow2[h - l] - 1}
  <1>2. 0 \in S
    BY <1>1, ShiftStep, DepthAssumption
  <1>3. ASSUME NEW l \in 0..h - 1, l \in S PROVE l + 1 \in S
    <2>1. l \in 0..Depth - 1 /\ l + 1 \in 0..h /\ h - (l + 1) \in 0..Depth - 1 /\ h - (l + 1) + 1 = h - l
      BY DepthAssumption
    <2>2. Pow2[h - l] = 2 * Pow2[h - (l + 1)] /\ Pow2[h - (l + 1)] \in Nat
      BY <2>1, Pow2Step, DepthAssumption
    <2>3. Shift(n, l + 1) = Shift(n, l) \div 2 /\ Shift(n, l) \in 0..Pow2[h - l] - 1
      BY <1>1, <1>3, <2>1, ShiftStep, Zenon
    <2> QED BY <2>1, <2>2, <2>3
  <1> HIDE DEF S
  <1>4. \A l \in 0..h : l \in S
    BY <1>2, <1>3, Induct, DepthAssumption
  <1>5. h \in 0..h /\ Pow2[h - h] = 1
    BY Pow2Step, DepthAssumption
  <1> QED BY <1>4, <1>5 DEF S

(***************************************************************************)
(* The levels of a tree.                                                   *)
(***************************************************************************)
LEMMA SubtreeStep ==
    ASSUME NEW s, NEW h \in 0..Depth
    PROVE  /\ \A i \in 0..Pow2[h] - 1 : Subtree(s, h)[0][i] = Leaf(s, i)
           /\ \A l \in 0..h - 1 : \A i \in 0..Pow2[h - (l + 1)] - 1 :
                 /\ 2 * i \in 0..Pow2[h - l] - 1 /\ 2 * i + 1 \in 0..Pow2[h - l] - 1
                 /\ Subtree(s, h)[l + 1][i] =
                       Node(Subtree(s, h)[l][2 * i], Subtree(s, h)[l][2 * i + 1])
  <1> DEFINE lev == Subtree(s, h)
  <1>1. lev = [l \in 0..h |-> [i \in 0..Pow2[h - l] - 1 |->
                 IF l = 0 THEN Leaf(s, i) ELSE Node(lev[l - 1][2 * i], lev[l - 1][2 * i + 1])]]
    BY SubtreeDef
  <1> HIDE DEF lev
  <1>2. \A i \in 0..Pow2[h] - 1 : lev[0][i] = Leaf(s, i)
    <2>1. 0 \in 0..h /\ h - 0 = h
      BY DepthAssumption
    <2> QED BY <1>1, <2>1
  <1>3. ASSUME NEW l \in 0..h - 1, NEW i \in 0..Pow2[h - (l + 1)] - 1
        PROVE  /\ 2 * i \in 0..Pow2[h - l] - 1 /\ 2 * i + 1 \in 0..Pow2[h - l] - 1
               /\ lev[l + 1][i] = Node(lev[l][2 * i], lev[l][2 * i + 1])
    <2>1. l + 1 \in 0..h /\ l + 1 # 0 /\ l + 1 - 1 = l
          /\ h - (l + 1) \in 0..Depth - 1 /\ h - (l + 1) + 1 = h - l
      BY DepthAssumption
    <2>2. Pow2[h - l] = 2 * Pow2[h - (l + 1)] /\ Pow2[h - (l + 1)] \in Nat
      BY <2>1, Pow2Step, DepthAssumption
    <2>3. 2 * i \in 0..Pow2[h - l] - 1 /\ 2 * i + 1 \in 0..Pow2[h - l] - 1
      BY <2>2
    <2>4. ASSUME NEW k \in 0..h, k # 0, i \in 0..Pow2[h - k] - 1
          PROVE  lev[k][i] = Node(lev[k - 1][2 * i], lev[k - 1][2 * i + 1])
      <3>1. lev[k] = [j \in 0..Pow2[h - k] - 1 |->
                 IF k = 0 THEN Leaf(s, j) ELSE Node(lev[k - 1][2 * j], lev[k - 1][2 * j + 1])]
        BY <1>1, Zenon
      <3> QED BY <2>4, <3>1, Zenon
    <2> QED BY <2>1, <2>3, <2>4
  <1> QED BY <1>2, <1>3, Zenon DEF lev

(* A node depends only on the leaves below it.                             *)
LEMMA Agree ==
    ASSUME NEW s, NEW t, NEW h \in 0..Depth
    PROVE  \A l \in 0..h : \A i \in 0..Pow2[h - l] - 1 :
              (\A j \in 0..Pow2[h] - 1 : Shift(j, l) = i => Leaf(s, j) = Leaf(t, j))
                  => Subtree(s, h)[l][i] = Subtree(t, h)[l][i]
  <1> DEFINE Same(l, i) == \A j \in 0..Pow2[h] - 1 : Shift(j, l) = i => Leaf(s, j) = Leaf(t, j)
             S == {l \in 0..h : \A i \in 0..Pow2[h - l] - 1 :
                                  Same(l, i) => Subtree(s, h)[l][i] = Subtree(t, h)[l][i]}
  <1>1. 0 \in S
    <2>1. ASSUME NEW i \in 0..Pow2[h] - 1, Same(0, i) PROVE Subtree(s, h)[0][i] = Subtree(t, h)[0][i]
      <3>1. i \in Nat
        BY Pow2Step
      <3>2. Shift(i, 0) = i
        BY <3>1, ShiftStep, Zenon
      <3> QED BY <2>1, <3>2, SubtreeStep, Zenon
    <2> QED BY <2>1, DepthAssumption
  <1>2. ASSUME NEW l \in 0..h - 1, l \in S PROVE l + 1 \in S
    <2>1. ASSUME NEW i \in 0..Pow2[h - (l + 1)] - 1, Same(l + 1, i)
          PROVE  Subtree(s, h)[l + 1][i] = Subtree(t, h)[l + 1][i]
      <3>1. ASSUME NEW j \in 0..Pow2[h] - 1, Shift(j, l) \in {2 * i, 2 * i + 1}
            PROVE  Leaf(s, j) = Leaf(t, j)
        <4>1. j \in Nat /\ l \in 0..Depth - 1 /\ i \in Nat
          BY Pow2Step, DepthAssumption
        <4>2. Shift(j, l + 1) = Shift(j, l) \div 2
          BY <4>1, ShiftStep, Zenon
        <4>3. Shift(j, l + 1) = i
          BY <3>1, <4>1, <4>2
        <4> QED BY <2>1, <4>3, Zenon
      <3>2. Same(l, 2 * i) /\ Same(l, 2 * i + 1)
        BY <3>1, Zenon
      <3> HIDE DEF Same
      <3>3. 2 * i \in 0..Pow2[h - l] - 1 /\ 2 * i + 1 \in 0..Pow2[h - l] - 1
        BY SubtreeStep, Zenon
      <3>4. /\ Subtree(s, h)[l][2 * i] = Subtree(t, h)[l][2 * i]
            /\ Subtree(s, h)[l][2 * i + 1] = Subtree(t, h)[l][2 * i + 1]
        BY <1>2, <3>2, <3>3, Zenon
      <3> QED BY <3>4, SubtreeStep
    <2> HIDE DEF Same
    <2> QED BY <2>1, DepthAssumption
  <1>3. \A l \in 0..h : l \in S
    <2> HIDE DEF S
    <2> QED BY <1>1, <1>2, Induct, DepthAssumption
  <1> QED BY <1>3, Zenon

(* The nodes of a tree without leaves are the empty subtrees' roots.       *)
LEMMA EmptyLevels ==
    ASSUME NEW h \in 0..Depth
    PROVE  \A l \in 0..h : \A i \in 0..Pow2[h - l] - 1 : Subtree(<<>>, h)[l][i] = Zero[l]
  <1> DEFINE S == {l \in 0..h : \A i \in 0..Pow2[h - l] - 1 : Subtree(<<>>, h)[l][i] = Zero[l]}
  <1>1. 0 \in S
    <2>1. \A i \in 0..Pow2[h] - 1 : Leaf(<<>>, i) = Zero[0]
      BY Pow2Step DEF Leaf
    <2> QED BY <2>1, SubtreeStep, DepthAssumption
  <1>2. ASSUME NEW l \in 0..h - 1, l \in S PROVE l + 1 \in S
    <2>1. Zero[l + 1] = Node(Zero[l], Zero[l])
      BY ZeroDef, DepthAssumption
    <2>2. ASSUME NEW i \in 0..Pow2[h - (l + 1)] - 1 PROVE Subtree(<<>>, h)[l + 1][i] = Zero[l + 1]
      <3>1. /\ 2 * i \in 0..Pow2[h - l] - 1 /\ 2 * i + 1 \in 0..Pow2[h - l] - 1
            /\ Subtree(<<>>, h)[l + 1][i] = Node(Subtree(<<>>, h)[l][2 * i], Subtree(<<>>, h)[l][2 * i + 1])
        BY SubtreeStep, Zenon
      <3> QED BY <1>2, <2>1, <3>1, Zenon
    <2> QED BY <2>2, DepthAssumption
  <1>3. \A l \in 0..h : l \in S
    <2> HIDE DEF S
    <2> QED BY <1>1, <1>2, Induct, DepthAssumption
  <1> QED BY <1>3, Zenon

(***************************************************************************)
(* Climbing: a leaf's path and the levels of a tree.                       *)
(***************************************************************************)
(* The hash is free.                                                       *)
LEMMA NodeFree ==
    ASSUME NEW a, NEW b, NEW c, NEW d, Node(a, b) = Node(c, d)
    PROVE  a = c /\ b = d
  BY Zenon DEF Node, H

(* A climb starts at the leaf, and hashes it with one sibling a level.     *)
LEMMA ClimbStep ==
    ASSUME NEW leaf, NEW index, NEW siblings
    PROVE  /\ Climb(leaf, index, siblings)[0] = leaf
           /\ \A l \in 0..Depth - 1 :
                 Climb(leaf, index, siblings)[l + 1] =
                     IF IsLeft(index, l) THEN Node(Climb(leaf, index, siblings)[l], siblings[l + 1])
                     ELSE Node(siblings[l + 1], Climb(leaf, index, siblings)[l])
  <1> DEFINE cur == Climb(leaf, index, siblings)
  <1>1. cur = [l \in 0..Depth |-> IF l = 0 THEN leaf ELSE Step(index, siblings, l, cur[l - 1])]
    BY ClimbDef
  <1> HIDE DEF cur
  <1>2. cur[0] = leaf
    BY <1>1, DepthAssumption
  <1>3. ASSUME NEW l \in 0..Depth - 1
        PROVE  cur[l + 1] = IF IsLeft(index, l) THEN Node(cur[l], siblings[l + 1])
                            ELSE Node(siblings[l + 1], cur[l])
    <2>1. l + 1 \in 0..Depth /\ l + 1 # 0 /\ l + 1 - 1 = l
      BY DepthAssumption
    <2>2. ASSUME NEW k \in 0..Depth, k # 0 PROVE cur[k] = Step(index, siblings, k, cur[k - 1])
      BY <1>1, <2>2, Zenon
    <2> QED BY <2>1, <2>2 DEF Step
  <1> QED BY <1>2, <1>3, Zenon DEF cur

(* The node above a path's node is of it and its sibling, in their order.  *)
LEMMA PathStep ==
    ASSUME NEW s, NEW h \in 0..Depth, NEW index \in 0..Pow2[h] - 1, NEW l \in 0..h - 1
    PROVE  LET at == Shift(index, l)
               lev == Subtree(s, h)
           IN  /\ at \in 0..Pow2[h - l] - 1 /\ Sibling(at) \in 0..Pow2[h - l] - 1
               /\ lev[l + 1][Shift(index, l + 1)] =
                     IF IsLeft(index, l) THEN Node(lev[l][at], lev[l][Sibling(at)])
                     ELSE Node(lev[l][Sibling(at)], lev[l][at])
  <1> DEFINE at == Shift(index, l)
             lev == Subtree(s, h)
             up == Shift(index, l + 1)
  <1>1. index \in Nat /\ l \in 0..Depth - 1 /\ l \in 0..h /\ l + 1 \in 0..h
    BY Pow2Step, DepthAssumption
  <1>2. at \in 0..Pow2[h - l] - 1 /\ up \in 0..Pow2[h - (l + 1)] - 1
    BY <1>1, ShiftRange, Zenon
  <1>3. at \in Nat /\ up = at \div 2
    <2>1. l \in 0..Depth /\ l \in 0..Depth - 1
      BY DepthAssumption
    <2> QED BY <1>1, <2>1, ShiftStep, Zenon
  <1>4. /\ 2 * up \in 0..Pow2[h - l] - 1 /\ 2 * up + 1 \in 0..Pow2[h - l] - 1
        /\ lev[l + 1][up] = Node(lev[l][2 * up], lev[l][2 * up + 1])
    BY <1>1, <1>2, SubtreeStep, Zenon
  <1>5. IsLeft(index, l) <=> at % 2 = 0
    BY Zenon DEF IsLeft
  <1> HIDE DEF at, up, lev
  <1>6. CASE at % 2 = 0
    <2>1. at = 2 * up /\ Sibling(at) = 2 * up + 1
      BY <1>3, <1>6 DEF Sibling
    <2> QED BY <1>2, <1>4, <1>5, <1>6, <2>1, Zenon DEF at, up, lev
  <1>7. CASE at % 2 # 0
    <2>1. at = 2 * up + 1 /\ Sibling(at) = 2 * up
      BY <1>3, <1>7 DEF Sibling
    <2> QED BY <1>2, <1>4, <1>5, <1>7, <2>1, Zenon DEF at, up, lev
  <1> QED BY <1>6, <1>7, Zenon

(* siblings are the ones of the path of index.                             *)
IsPath(s, index, siblings) ==
    \A l \in 1..Depth : siblings[l] = Subtree(s, Depth)[l - 1][Sibling(Shift(index, l - 1))]

(* From a leaf of the tree, with its siblings, one climbs along its path.  *)
LEMMA Ascend ==
    ASSUME NEW s, NEW index \in 0..Capacity - 1, NEW siblings, IsPath(s, index, siblings)
    PROVE  \A l \in 0..Depth :
              Climb(Leaf(s, index), index, siblings)[l] = Subtree(s, Depth)[l][Shift(index, l)]
  <1> DEFINE cur == Climb(Leaf(s, index), index, siblings)
             S == {l \in 0..Depth : cur[l] = Subtree(s, Depth)[l][Shift(index, l)]}
  <1>1. Depth \in 0..Depth /\ index \in Nat /\ index \in 0..Pow2[Depth] - 1
    BY Pow2Step, DepthAssumption DEF Capacity
  <1>2. 0 \in S
    <2>1. Shift(index, 0) = index
      BY <1>1, ShiftStep, Zenon
    <2> QED BY <1>1, <2>1, ClimbStep, SubtreeStep, DepthAssumption
  <1>3. ASSUME NEW l \in 0..Depth - 1, l \in S PROVE l + 1 \in S
    <2>1. l + 1 \in 0..Depth /\ l + 1 \in 1..Depth /\ l + 1 - 1 = l
      BY DepthAssumption
    <2>2. siblings[l + 1] = Subtree(s, Depth)[l][Sibling(Shift(index, l))]
      BY <2>1 DEF IsPath
    <2>3. cur[l] = Subtree(s, Depth)[l][Shift(index, l)]
      BY <1>3, Zenon
    <2>4. cur[l + 1] = Subtree(s, Depth)[l + 1][Shift(index, l + 1)]
      BY <1>1, <2>2, <2>3, ClimbStep, PathStep
    <2> QED BY <2>1, <2>4, Zenon
  <1> HIDE DEF S
  <1>4. \A l \in 0..Depth : l \in S
    BY <1>2, <1>3, Induct, DepthAssumption, Zenon
  <1> QED BY <1>4, Zenon DEF S

(* So the path of a leaf leads to the root.                                *)
LEMMA PathToRoot ==
    ASSUME NEW s, NEW index \in 0..Capacity - 1, NEW siblings, IsPath(s, index, siblings)
    PROVE  RootFromPath(Leaf(s, index), index, siblings) = Subtree(s, Depth)[Depth][0]
  <1>1. Depth \in 0..Depth /\ index \in 0..Pow2[Depth] - 1
    BY DepthAssumption DEF Capacity
  <1>2. Shift(index, Depth) = 0
    BY <1>1, ShiftRange, Zenon
  <1> QED BY <1>1, <1>2, Ascend DEF RootFromPath

(* Whoever reaches the root of the tree came along a path of the tree.     *)
LEMMA Descend ==
    ASSUME NEW s, NEW leaf, NEW index \in 0..Capacity - 1, NEW siblings,
           RootFromPath(leaf, index, siblings) = Subtree(s, Depth)[Depth][0]
    PROVE  leaf = Leaf(s, index)
  <1> DEFINE S == {l \in 0..Depth :
                    Climb(leaf, index, siblings)[l] = Subtree(s, Depth)[l][Shift(index, l)]}
  <1>1. Depth \in 0..Depth /\ index \in Nat /\ index \in 0..Pow2[Depth] - 1
    BY Pow2Step, DepthAssumption DEF Capacity
  <1>2. Depth \in S
    BY <1>1, ShiftRange, Zenon DEF RootFromPath
  <1>3. ASSUME NEW l \in 1..Depth, l \in S PROVE l - 1 \in S
    <2>1. l - 1 \in 0..Depth - 1 /\ l - 1 \in 0..Depth /\ l - 1 + 1 = l
      BY DepthAssumption
    <2>2. Climb(leaf, index, siblings)[l] = Subtree(s, Depth)[l][Shift(index, l)]
      BY <1>3, Zenon
    <2> DEFINE k == l - 1
    <2>3. Climb(leaf, index, siblings)[k + 1] = Subtree(s, Depth)[k + 1][Shift(index, k + 1)]
      BY <2>1, <2>2, Zenon
    <2> HIDE DEF k
    <2>4. k \in 0..Depth - 1
      BY <2>1, Zenon DEF k
    <2>5. Climb(leaf, index, siblings)[k] = Subtree(s, Depth)[k][Shift(index, k)]
      <3>1. CASE IsLeft(index, k)
        BY <3>1, <1>1, <2>3, <2>4, ClimbStep, PathStep, NodeFree
      <3>2. CASE ~IsLeft(index, k)
        BY <3>2, <1>1, <2>3, <2>4, ClimbStep, PathStep, NodeFree
      <3> QED BY <3>1, <3>2, Zenon
    <2> QED BY <2>1, <2>5, Zenon DEF k
  <1>4. \A l \in 0..Depth : l \in S
    <2> HIDE DEF S
    <2> QED BY <1>2, <1>3, InductDown, DepthAssumption, Zenon
  <1>5. Shift(index, 0) = index /\ 0 \in 0..Depth
    <2>1. Shift(index, 0) = index
      BY <1>1, ShiftStep, Zenon
    <2> QED BY <2>1, DepthAssumption
  <1> QED BY <1>1, <1>4, <1>5, ClimbStep, SubtreeStep

(***************************************************************************)
(* The frontier.                                                           *)
(***************************************************************************)
(* A tree of the pool over the leaves s: its root, and for each level      *)
(* where the next path goes right, the node on its left.                   *)
Kept(tree, s) ==
    /\ tree.size \in 0..Capacity /\ DOMAIN s = 1..tree.size
    /\ tree.root = Subtree(s, Depth)[Depth][0]
    /\ \A l \in 0..Depth - 1 : ~IsLeft(tree.size, l) =>
          tree.frontier[l] = Subtree(s, Depth)[l][Shift(tree.size, l) - 1]

(* A new tree is kept over no leaves.                                      *)
LEMMA EmptyKept ==
    ASSUME NEW s, DOMAIN s = {}
    PROVE  Kept(EmptyTree, s)
  <1>1. Capacity \in Nat \ {0} /\ Depth \in 0..Depth /\ Depth - Depth = 0 /\ Pow2[0] = 1
    BY Pow2Step, DepthAssumption DEF Capacity
  <1>2. Subtree(s, Depth)[Depth][0] = Zero[Depth]
    <2>1. \A j : Leaf(s, j) = Leaf(<<>>, j)
      BY DEF Leaf
    <2>2. Subtree(s, Depth)[Depth][0] = Subtree(<<>>, Depth)[Depth][0]
      BY <1>1, <2>1, Agree
    <2> QED BY <1>1, <2>2, EmptyLevels
  <1>3. \A l \in 0..Depth - 1 : IsLeft(0, l)
    <2>1. ASSUME NEW l \in 0..Depth - 1 PROVE Shift(0, l) = 0
      <3>1. Pow2[l] \in Nat \ {0} /\ 0 \in Nat
        BY Pow2Step, DepthAssumption
      <3>2. 0 \in 0..Pow2[l] - 1 /\ 0 = 0 * Pow2[l] + 0
        BY <3>1
      <3>3. 0 \div Pow2[l] = 0
        BY <3>1, <3>2, DivIs, Zenon
      <3> QED BY <3>3, Zenon DEF Shift
    <2> QED BY <2>1 DEF IsLeft
  <1> QED BY <1>1, <1>2, <1>3 DEF Kept, EmptyTree

(* Adding a leaf changes the nodes on its path only, and everything to the *)
(* right of the path is empty.                                             *)
Extends(s, t, n) ==
    /\ n \in 0..Capacity - 1 /\ DOMAIN s = 1..n /\ DOMAIN t = 1..n + 1
    /\ \A j \in 1..n : t[j] = s[j]

(* A leaf more leaves the nodes beside its path alone.                     *)
LEMMA OffPath ==
    ASSUME NEW n, NEW s, NEW t, Extends(s, t, n),
           NEW l \in 0..Depth, NEW i \in 0..Pow2[Depth - l] - 1
    PROVE  /\ i # Shift(n, l) => Subtree(t, Depth)[l][i] = Subtree(s, Depth)[l][i]
           /\ i > Shift(n, l) => Subtree(t, Depth)[l][i] = Zero[l]
  <1> USE DEF Extends
  <1>1. Capacity \in Nat /\ Capacity = Pow2[Depth] /\ Depth \in 0..Depth /\ n \in Nat
    BY Pow2Step, DepthAssumption DEF Capacity
  <1>2. ASSUME NEW j \in 0..Capacity - 1, j # n PROVE Leaf(t, j) = Leaf(s, j)
    BY <1>1, <1>2 DEF Leaf
  <1>3. ASSUME i # Shift(n, l) PROVE Subtree(t, Depth)[l][i] = Subtree(s, Depth)[l][i]
    <2>1. \A j \in 0..Pow2[Depth] - 1 : Shift(j, l) = i => Leaf(t, j) = Leaf(s, j)
      BY <1>1, <1>2, <1>3, Zenon
    <2> QED BY <1>1, <2>1, Agree, SMTT(30)
  <1>4. ASSUME i > Shift(n, l) PROVE Subtree(t, Depth)[l][i] = Zero[l]
    <2>1. ASSUME NEW j \in 0..Pow2[Depth] - 1, Shift(j, l) = i PROVE Leaf(t, j) = Leaf(<<>>, j)
      <3>0. j \in Nat
        BY <1>1
      <3>1. j \in Nat /\ Shift(j, l) \in Nat /\ Shift(n, l) \in Nat
        BY <1>1, <3>0, ShiftStep, Zenon
      <3>2. ~(j <= n)
        BY <1>1, <1>4, <2>1, <3>1, ShiftOrder
      <3> QED BY <1>1, <3>1, <3>2 DEF Leaf
    <2>2. Subtree(t, Depth)[l][i] = Subtree(<<>>, Depth)[l][i]
      BY <1>1, <2>1, Agree
    <2> QED BY <1>1, <2>2, EmptyLevels, Zenon
  <1> QED BY <1>3, <1>4, Zenon

(* append_leaf keeps the tree: its climb over the frontier gives the root  *)
(* over the leaves and the new one, and the frontier it stores serves the  *)
(* next.                                                                   *)
LEMMA FrontierStep ==
    ASSUME NEW tree, NEW leaf, NEW s, NEW t, Kept(tree, s), tree.size < Capacity,
           Extends(s, t, tree.size), t[tree.size + 1] = leaf
    PROVE  Kept(AppendLeaf(tree, leaf), t) /\ AppendLeaf(tree, leaf).size = tree.size + 1
  <1> DEFINE n == tree.size
             beside == [l \in 1..Depth |-> IF IsLeft(n, l - 1) THEN Zero[l - 1] ELSE tree.frontier[l - 1]]
             cur == Climb(leaf, n, beside)
             new == AppendLeaf(tree, leaf)
  <1>1. Capacity \in Nat /\ Capacity = Pow2[Depth] /\ Depth \in 0..Depth /\ n \in Nat /\ n \in 0..Capacity - 1
    BY Pow2Step, DepthAssumption DEF Capacity, Kept
  <1>2. \A l \in 0..Depth - 1 : ~IsLeft(n, l) => tree.frontier[l] = Subtree(s, Depth)[l][Shift(n, l) - 1]
    BY Zenon DEF Kept
  <1>3. DOMAIN s = 1..n
    BY Zenon DEF Kept
  <1>4. /\ new.size = n + 1 /\ new.root = cur[Depth]
        /\ \A l \in 0..Depth - 1 : new.frontier[l] = IF IsLeft(n, l) THEN cur[l] ELSE tree.frontier[l]
    BY Zenon DEF AppendLeaf
  <1>5. \A l \in 0..Depth - 1 : beside[l + 1] = IF IsLeft(n, l) THEN Zero[l] ELSE tree.frontier[l]
    BY DepthAssumption
  <1> HIDE DEF n, beside, cur, new
  <1>6. leaf = Leaf(t, n)
    BY <1>1 DEF Leaf, Extends, n
  <1>7. Extends(s, t, n)
    BY Zenon DEF n
  <1>8. ASSUME NEW l \in 0..Depth - 1
        PROVE  beside[l + 1] = Subtree(t, Depth)[l][Sibling(Shift(n, l))]
    <2> DEFINE at == Shift(n, l)
    <2>0. l \in 0..Depth /\ n \in 0..Pow2[Depth] - 1
      BY <1>1, DepthAssumption
    <2>1. at \in Nat /\ Sibling(at) \in 0..Pow2[Depth - l] - 1
      BY <1>1, <2>0, PathStep, ShiftStep, Zenon
    <2> HIDE DEF at
    <2>2. CASE IsLeft(n, l)
      <3>1. Sibling(at) > at
        BY <2>1, <2>2 DEF IsLeft, Sibling, at
      <3>2. Subtree(t, Depth)[l][Sibling(at)] = Zero[l]
        BY <1>7, <2>0, <2>1, <3>1, OffPath DEF at
      <3> QED BY <1>5, <2>2, <3>2, Zenon DEF at
    <2>3. CASE ~IsLeft(n, l)
      <3>1. Sibling(at) = at - 1 /\ Sibling(at) # at
        BY <2>1, <2>3 DEF IsLeft, Sibling, at
      <3>2. Subtree(t, Depth)[l][Sibling(at)] = Subtree(s, Depth)[l][Sibling(at)]
        BY <1>7, <2>0, <2>1, <3>1, OffPath DEF at
      <3> QED BY <1>2, <1>5, <2>3, <3>1, <3>2, Zenon DEF at
    <2> QED BY <2>2, <2>3, Zenon
  <1>9. \A l \in 0..Depth : cur[l] = Subtree(t, Depth)[l][Shift(n, l)]
    <2>1. ASSUME NEW l \in 1..Depth
          PROVE  beside[l] = Subtree(t, Depth)[l - 1][Sibling(Shift(n, l - 1))]
      <3>1. l - 1 \in 0..Depth - 1 /\ l - 1 + 1 = l
        BY DepthAssumption
      <3> QED BY <1>8, <3>1, Zenon
    <2>2. IsPath(t, n, beside)
      BY <2>1, Zenon DEF IsPath
    <2> QED BY <1>1, <1>6, <2>2, Ascend DEF cur
  <1>10. cur[Depth] = Subtree(t, Depth)[Depth][0]
    <2>1. Shift(n, Depth) = 0
      BY <1>1, ShiftRange, Zenon
    <2> QED BY <1>1, <1>9, <2>1, Zenon
  <1>11. ASSUME NEW l \in 0..Depth - 1, ~IsLeft(n + 1, l)
         PROVE  new.frontier[l] = Subtree(t, Depth)[l][Shift(n + 1, l) - 1]
    <2> DEFINE at == Shift(n, l)
               next == Shift(n + 1, l)
    <2>0. l \in 0..Depth
      BY DepthAssumption
    <2>1. at \in Nat /\ next \in {at, at + 1}
      BY <1>1, <2>0, ShiftStep, ShiftNext, Zenon
    <2>2. next % 2 # 0 /\ (IsLeft(n, l) <=> at % 2 = 0)
      BY <1>11, Zenon DEF IsLeft
    <2>3. at \in 0..Pow2[Depth - l] - 1 /\ Pow2[Depth - l] \in Nat
      BY <1>1, <2>0, ShiftRange, Pow2Step
    <2> HIDE DEF at, next
    <2>4. CASE at % 2 = 0
      <3>1. next - 1 = at
        BY <2>1, <2>2, <2>4
      <3> QED BY <1>4, <1>9, <2>0, <2>2, <2>4, <3>1, Zenon DEF at, next
    <2>5. CASE at % 2 # 0
      <3>1. next = at /\ at - 1 \in 0..Pow2[Depth - l] - 1 /\ at - 1 # at
        BY <2>1, <2>2, <2>3, <2>5
      <3>2. Subtree(t, Depth)[l][at - 1] = Subtree(s, Depth)[l][at - 1]
        BY <1>7, <2>0, <3>1, OffPath DEF at
      <3> QED BY <1>2, <1>4, <2>2, <2>5, <3>1, <3>2, Zenon DEF at, next
    <2> QED BY <2>4, <2>5, Zenon
  <1>12. n + 1 \in 0..Capacity /\ DOMAIN t = 1..n + 1
    BY <1>1 DEF Extends, n
  <1>13. Kept(new, t)
    BY <1>4, <1>10, <1>11, <1>12, Zenon DEF Kept
  <1> QED BY <1>4, <1>13, Zenon DEF new, n

(* A tree and the same tree with fewer leaves have different roots.        *)
LEMMA RootsDiffer ==
    ASSUME NEW n \in Nat, NEW m \in Nat, m < n, n <= Capacity, NEW s, NEW t,
           DOMAIN s = 1..m, DOMAIN t = 1..n, t[m + 1] # Zero[0]
    PROVE  Subtree(s, Depth)[Depth][0] # Subtree(t, Depth)[Depth][0]
  <1> SUFFICES ASSUME Subtree(s, Depth)[Depth][0] = Subtree(t, Depth)[Depth][0] PROVE FALSE
    BY Zenon
  <1> DEFINE path == [l \in 1..Depth |-> Subtree(t, Depth)[l - 1][Sibling(Shift(m, l - 1))]]
  <1>1. Capacity \in Nat /\ m \in 0..Capacity - 1
    BY Pow2Step, DepthAssumption DEF Capacity
  <1>2. IsPath(t, m, path)
    BY Zenon DEF IsPath
  <1> HIDE DEF path
  <1>3. RootFromPath(Leaf(t, m), m, path) = Subtree(s, Depth)[Depth][0]
    BY <1>1, <1>2, PathToRoot, Zenon
  <1>4. Leaf(t, m) = Leaf(s, m)
    BY <1>1, <1>3, Descend, Zenon
  <1>5. Leaf(s, m) = Zero[0] /\ Leaf(t, m) = t[m + 1]
    BY DEF Leaf
  <1> QED BY <1>4, <1>5, Zenon

(***************************************************************************)
(* Hashes and verification.                                                *)
(***************************************************************************)
(* A leaf that was inserted is never the hash of an empty place.          *)
LEMMA BindNotZero ==
    ASSUME NEW account, NEW enrollment, NEW inner
    PROVE  Bind(account, enrollment, inner) # Zero[0]
  <1>1. Zero[0] = Field(0)
    BY ZeroDef, DepthAssumption
  <1>2. Bind(account, enrollment, inner)[1] = "H" /\ Field(0)[1] = "field"
    BY Zenon DEF Bind, H, Field
  <1> QED BY <1>1, <1>2, Zenon

(* Two accounts and two enrollments with the same halves.                 *)
SameHalves(i, e, j, f) == i[1] = j[1] /\ i[2] = j[2] /\ e[1] = f[1] /\ e[2] = f[2]

(* Whose leaf it is can be read off the leaf ...                           *)
SameLeaf(i, e, x, j, f, y) == Bind(i, e, x) = Bind(j, f, y)

(* Equal leaves bind the same account and the same enrollment.             *)
LEMMA LeafHalves ==
    ASSUME NEW i, NEW j, NEW e, NEW f, NEW x, NEW y, SameLeaf(i, e, x, j, f, y)
    PROVE  SameHalves(i, e, j, f)
  BY Zenon DEF SameHalves, SameLeaf, Bind, H, Hi, Lo, Field

(* ... and whose statement it is, and which, off the statement's hash.     *)
SameStatement(i, e, x, j, f, y) == StatementHash(i, e, Digest(x)) = StatementHash(j, f, Digest(y))

SameSubject(i, e, x, j, f, y) == SameHalves(i, e, j, f) /\ x = y

(* Equal hashes are of the same statement, account and enrollment.         *)
LEMMA StatementHalves ==
    ASSUME NEW i, NEW j, NEW e, NEW f, NEW x, NEW y, SameStatement(i, e, x, j, f, y)
    PROVE  SameSubject(i, e, x, j, f, y)
  <1>1. SameHalves(i, e, j, f) /\ Digest(x)[1] = Digest(y)[1]
    BY Zenon DEF SameHalves, SameStatement, StatementHash, H, Hi, Lo, Field
  <1>2. x = y
    BY <1>1, Zenon DEF Digest
  <1> QED BY <1>1, <1>2, Zenon DEF SameSubject

(* What a proof with this root, nullifier and statement hash comes as.     *)
Shown(id, root, nullifier, hash) ==
    [tree |-> id, root |-> Canonical(root), nullifier |-> nullifier,
     proof |-> [zk |-> TRUE, public |-> <<root, nullifier.elem, hash>>]]

Encoded(x, over) == [elem |-> x, over |-> over]

(* What the prover sends has the root its path gives.                      *)
LEMMA EvidenceIs ==
    ASSUME NEW secret, NEW account, NEW enrollment, NEW about, NEW id, NEW n, NEW index, NEW over
    PROVE  Evidence(secret, account, enrollment, about, id, n, index, over) =
              Shown(id, RootFromPath(Bind(account, enrollment, Commitment(secret)), index, Path(id, n, index)),
                    Encoded(Nullifier(account, enrollment, secret), over),
                    StatementHash(account, enrollment, Digest(about)))
  BY DEF Evidence, Prove, Shown, Encoded

(* It is accepted when its root is known and its hash is the statement's.  *)
Acceptable(st, b, id, root, nullifier, hash) ==
    /\ b.circuit = CircuitId /\ st.account \in DOMAIN ContractId
    /\ IsCanonicalField(nullifier) /\ IsKnownRoot(id, root)
    /\ hash = StatementHash(ContractId[st.account], b.enrollment, Digest(st))

(* verify accepts it on exactly those conditions: it has no other way      *)
(* through.                                                                *)
LEMMA AcceptedWhen ==
    ASSUME NEW st, NEW b, NEW id, NEW root, NEW nullifier, NEW hash
    PROVE  Verify(st, b, Shown(id, root, nullifier, hash)) = None <=>
              Acceptable(st, b, id, root, nullifier, hash)
  <1>1. None \notin {"CircuitMismatch", "InvalidStatement", "NonCanonicalField", "MalformedProof",
                     "UnknownRoot", "ProofRejected"}
    BY NoneAssumption DEF VerifyErrors
  <1> DEFINE evidence == Shown(id, root, nullifier, hash)
             expected == StatementHash(ContractId[st.account], b.enrollment, Digest(st))
  <1>2. /\ evidence.tree = id /\ evidence.root.elem = root /\ evidence.nullifier = nullifier
        /\ evidence.proof.zk = TRUE /\ evidence.proof.public = <<root, nullifier.elem, hash>>
        /\ IsCanonicalField(evidence.root)
    BY DEF Shown, Canonical, IsCanonicalField
  <1> HIDE DEF evidence
  <1>3. PublicInputs(st, b, evidence) = <<root, nullifier.elem, expected>>
    BY <1>2, Zenon DEF PublicInputs
  <1> HIDE DEF expected
  <1>4. <<root, nullifier.elem, hash>> = <<root, nullifier.elem, expected>> <=> hash = expected
    OBVIOUS
  <1>5. Verify(st, b, evidence) = None <=>
           /\ b.circuit = CircuitId /\ st.account \in DOMAIN ContractId
           /\ IsCanonicalField(nullifier) /\ IsKnownRoot(id, root) /\ hash = expected
    BY <1>1, <1>2, <1>3, <1>4 DEF Verify
  <1> QED BY <1>5, Zenon DEF evidence, expected, Acceptable

(* A nullifier has one canonical encoding, and verify takes no other.      *)
LEMMA OneEncoding ==
    ASSUME NEW x, NEW over \in BOOLEAN
    PROVE  /\ IsCanonicalField(Encoded(x, FALSE))
           /\ IsCanonicalField(Encoded(x, over)) => Encoded(x, over) = Canonical(x)
  <1>1. Encoded(x, over).over = over
    BY DEF Encoded
  <1>2. IsCanonicalField(Encoded(x, over)) => over = FALSE
    BY <1>1, Zenon DEF IsCanonicalField
  <1>3. IsCanonicalField(Encoded(x, FALSE))
    BY DEF Encoded, IsCanonicalField
  <1> QED BY <1>2, <1>3, Zenon DEF Encoded, Canonical

HasNullifier(evidence, nullifier) == evidence.nullifier = nullifier

(* The nullifier a proof carries is the credential's.                      *)
LEMMA EvidenceNullifier ==
    ASSUME NEW secret, NEW account, NEW enrollment, NEW about, NEW id, NEW n, NEW index, NEW over
    PROVE  HasNullifier(Evidence(secret, account, enrollment, about, id, n, index, over),
                        Encoded(Nullifier(account, enrollment, secret), over))
  BY EvidenceIs DEF Shown, HasNullifier

(***************************************************************************)
(* The pool's invariant.                                                   *)
(***************************************************************************)
(* The n first leaves of tree id, and the root over leaves s.              *)
Over(lv, id, n) == [i \in 1..n |-> lv[<<id, i - 1>>]]

Top(s) == Subtree(s, Depth)[Depth][0]

(* The root a tree had at size n is the root over its n first leaves.      *)
LEMMA RootIsTop == \A id, n : RootAt(id, n) = Top(Over(leaves, id, n))
  BY Zenon DEF RootAt, Levels, Filled, Over, Top

(* Trees below the current one are full, the current one has room, and     *)
(* each is kept over the leaves it was filled with.                        *)
TreesBook ==
    /\ currentTree \in Nat /\ DOMAIN trees \subseteq 0..currentTree
    /\ \A id \in 0..currentTree - 1 : id \in DOMAIN trees /\ trees[id].size = Capacity
    /\ \A id \in DOMAIN trees :
          /\ trees[id].size \in 1..Capacity
          /\ id = currentTree => trees[id].size < Capacity
          /\ Kept(trees[id], Over(leaves, id, trees[id].size))

(* Leaves are where the trees say, and none is an empty one.               *)
LeavesBook ==
    /\ \A p \in DOMAIN leaves :
          /\ p = <<p[1], p[2]>> /\ p[1] \in DOMAIN trees /\ p[2] \in 0..trees[p[1]].size - 1
          /\ leaves[p] # Zero[0]
    /\ \A id \in DOMAIN trees : \A i \in 0..trees[id].size - 1 : <<id, i>> \in DOMAIN leaves

(* The roots known are those of every size a tree has had.                 *)
RootsBook ==
    /\ \A id \in DOMAIN trees : \A n \in 1..trees[id].size :
          LET r == <<id, Top(Over(leaves, id, n))>>
          IN  r \in DOMAIN roots /\ roots[r] = n
    /\ \A r \in DOMAIN roots :
          /\ r[1] \in DOMAIN trees
          /\ \E n \in 1..trees[r[1]].size : r = <<r[1], Top(Over(leaves, r[1], n))>>

Slot(at) == <<at.tree, at.index>>

(* A leaf is one enrollment's and carries its account and id.              *)
EnrollmentsBook ==
    /\ \A k \in DOMAIN enrollments :
          /\ k = <<k[1], k[2]>> /\ k[1] \in DOMAIN ContractId /\ k[2] \in Enrollments
          /\ Slot(enrollments[k]) \in DOMAIN leaves
          /\ \E c : leaves[Slot(enrollments[k])] = Bind(ContractId[k[1]], k[2], c)
    /\ \A p \in DOMAIN leaves : \E k \in DOMAIN enrollments : p = Slot(enrollments[k])
    /\ \A k, m \in DOMAIN enrollments : Slot(enrollments[k]) = Slot(enrollments[m]) => k = m

(* Events are the leaves in the order of their positions.                  *)
Before(p, q) == p[1] < q[1] \/ (p[1] = q[1] /\ p[2] < q[2])

EventsBook ==
    /\ \E S : events \in Seq(S)
    /\ \A e \in DOMAIN events : Slot(events[e]) \in DOMAIN leaves /\ events[e].leaf = leaves[Slot(events[e])]
    /\ \A p \in DOMAIN leaves : \E e \in DOMAIN events : p = Slot(events[e])
    /\ \A e, f \in DOMAIN events : e < f => Before(Slot(events[e]), Slot(events[f]))

PoolInv == TreesBook /\ LeavesBook /\ RootsBook /\ EnrollmentsBook /\ EventsBook

(* An empty pool satisfies the invariant.                                  *)
LEMMA PoolStarts == PoolInit => PoolInv
  <1> SUFFICES ASSUME PoolInit PROVE PoolInv
    BY Zenon
  <1>1. DOMAIN trees = {} /\ DOMAIN roots = {} /\ DOMAIN leaves = {} /\ DOMAIN enrollments = {} /\ DOMAIN events = {}
    BY DEF PoolInit
  <1>2. TreesBook
    BY <1>1 DEF PoolInit, TreesBook
  <1>3. LeavesBook /\ RootsBook /\ EnrollmentsBook
    BY <1>1, Zenon DEF LeavesBook, RootsBook, EnrollmentsBook
  <1>4. EventsBook
    <2>1. events \in Seq({})
      BY DEF PoolInit
    <2> QED BY <1>1, <2>1, Zenon DEF EventsBook
  <1> QED BY <1>2, <1>3, <1>4, Zenon DEF PoolInv

(* Where the next leaf goes.                                               *)
NextIndex == TreeAt(currentTree).size

(* The tree that takes the next leaf has room and is kept.                 *)
LEMMA RoomLeft ==
    ASSUME PoolInv
    PROVE  /\ currentTree \in Nat /\ NextIndex \in 0..Capacity - 1 /\ Capacity \in Nat
           /\ Kept(TreeAt(currentTree), Over(leaves, currentTree, NextIndex))
           /\ \A i : <<currentTree, i>> \in DOMAIN leaves <=> i \in 0..NextIndex - 1
  <1>1. Capacity \in Nat \ {0} /\ currentTree \in Nat
    BY Pow2Step, DepthAssumption DEF Capacity, PoolInv, TreesBook
  <1>2. CASE currentTree \in DOMAIN trees
    <2>1. TreeAt(currentTree) = trees[currentTree]
      BY <1>2, Zenon DEF TreeAt
    <2>2. NextIndex \in 0..Capacity - 1 /\ Kept(trees[currentTree], Over(leaves, currentTree, NextIndex))
      BY <1>1, <1>2, <2>1 DEF PoolInv, TreesBook, NextIndex
    <2>3. \A i : <<currentTree, i>> \in DOMAIN leaves <=> i \in 0..NextIndex - 1
      BY <1>2, <2>1, Zenon DEF PoolInv, LeavesBook, NextIndex
    <2> QED BY <1>1, <2>1, <2>2, <2>3, Zenon
  <1>3. CASE currentTree \notin DOMAIN trees
    <2>1. TreeAt(currentTree) = EmptyTree /\ NextIndex = 0
      BY <1>3, Zenon DEF TreeAt, EmptyTree, NextIndex
    <2>2. DOMAIN Over(leaves, currentTree, 0) = {}
      BY DEF Over
    <2>3. \A i : <<currentTree, i>> \notin DOMAIN leaves
      BY <1>3, Zenon DEF PoolInv, LeavesBook
    <2> QED BY <1>1, <2>1, <2>2, <2>3, EmptyKept
  <1> QED BY <1>2, <1>3, Zenon

(* What an insertion of leaf does to the trees.                            *)
Inserted(leaf) ==
    LET tree == AppendLeaf(TreeAt(currentTree), leaf)
    IN  /\ leaf # Zero[0]
        /\ trees' = Put(trees, currentTree, tree)
        /\ leaves' = Put(leaves, <<currentTree, NextIndex>>, leaf)
        /\ roots' = Put(roots, <<currentTree, tree.root>>, NextIndex + 1)
        /\ currentTree' = IF NextIndex + 1 = Capacity THEN currentTree + 1 ELSE currentTree

(* Leaves stay where they are; the tree that grows does so by one leaf.    *)
LEMMA LeavesStay ==
    ASSUME PoolInv, NEW leaf, Inserted(leaf)
    PROVE  /\ DOMAIN leaves' = DOMAIN leaves \cup {<<currentTree, NextIndex>>}
           /\ <<currentTree, NextIndex>> \notin DOMAIN leaves /\ leaves'[<<currentTree, NextIndex>>] = leaf
           /\ \A p \in DOMAIN leaves : leaves'[p] = leaves[p]
           /\ \A id \in DOMAIN trees : \A n \in 0..trees[id].size : Over(leaves', id, n) = Over(leaves, id, n)
           /\ \A n \in 0..NextIndex : Over(leaves', currentTree, n) = Over(leaves, currentTree, n)
           /\ Extends(Over(leaves, currentTree, NextIndex), Over(leaves', currentTree, NextIndex + 1), NextIndex)
           /\ Over(leaves', currentTree, NextIndex + 1)[NextIndex + 1] = leaf
  <1> DEFINE at == <<currentTree, NextIndex>>
  <1>0. leaves' = Put(leaves, at, leaf)
    BY Zenon DEF Inserted
  <1>1. DOMAIN leaves' = DOMAIN leaves \cup {at} /\ leaves'[at] = leaf
        /\ \A p \in DOMAIN leaves : p # at => leaves'[p] = leaves[p]
    BY <1>0, Zenon DEF Put
  <1>2. at \notin DOMAIN leaves
    BY RoomLeft
  <1>3. \A p \in DOMAIN leaves : leaves'[p] = leaves[p]
    BY <1>1, <1>2, Zenon
  <1>4. ASSUME NEW id, NEW n \in Nat, \A i \in 0..n - 1 : <<id, i>> \in DOMAIN leaves
        PROVE  Over(leaves', id, n) = Over(leaves, id, n)
    <2>1. \A i \in 1..n : <<id, i - 1>> \in DOMAIN leaves
      BY <1>4
    <2> QED BY <1>3, <2>1, Zenon DEF Over
  <1>5. ASSUME NEW id \in DOMAIN trees, NEW n \in 0..trees[id].size
        PROVE  Over(leaves', id, n) = Over(leaves, id, n)
    <2>1. n \in Nat /\ \A i \in 0..n - 1 : <<id, i>> \in DOMAIN leaves
      BY DEF PoolInv, LeavesBook, TreesBook
    <2> QED BY <1>4, <2>1, Zenon
  <1>6. NextIndex \in 0..Capacity - 1 /\ Capacity \in Nat
    BY RoomLeft, Zenon
  <1>7. ASSUME NEW n \in 0..NextIndex PROVE Over(leaves', currentTree, n) = Over(leaves, currentTree, n)
    <2>1. n \in Nat /\ \A i \in 0..n - 1 : <<currentTree, i>> \in DOMAIN leaves
      BY <1>6, RoomLeft
    <2> QED BY <1>4, <2>1, Zenon
  <1>8. \A j \in 1..NextIndex : Over(leaves', currentTree, NextIndex + 1)[j] = Over(leaves', currentTree, NextIndex)[j]
    BY <1>6 DEF Over
  <1>9. Over(leaves', currentTree, NextIndex) = Over(leaves, currentTree, NextIndex)
    BY <1>6, <1>7
  <1>10. Extends(Over(leaves, currentTree, NextIndex), Over(leaves', currentTree, NextIndex + 1), NextIndex)
    <2>1. DOMAIN Over(leaves, currentTree, NextIndex) = 1..NextIndex
          /\ DOMAIN Over(leaves', currentTree, NextIndex + 1) = 1..NextIndex + 1
      BY Zenon DEF Over
    <2> QED BY <1>6, <1>8, <1>9, <2>1, Zenon DEF Extends
  <1>11. Over(leaves', currentTree, NextIndex + 1)[NextIndex + 1] = leaf
    BY <1>1, <1>6 DEF Over
  <1> QED BY <1>1, <1>2, <1>3, <1>5, <1>7, <1>10, <1>11, Zenon

(* The tree that grows is kept.                                            *)
LEMMA TreeGrows ==
    ASSUME PoolInv, NEW leaf, Inserted(leaf)
    PROVE  /\ Kept(AppendLeaf(TreeAt(currentTree), leaf), Over(leaves', currentTree, NextIndex + 1))
           /\ AppendLeaf(TreeAt(currentTree), leaf).size = NextIndex + 1
           /\ DOMAIN trees' = DOMAIN trees \cup {currentTree}
           /\ trees'[currentTree] = AppendLeaf(TreeAt(currentTree), leaf)
           /\ \A id \in DOMAIN trees : id # currentTree => trees'[id] = trees[id]
  <1>1. /\ Kept(TreeAt(currentTree), Over(leaves, currentTree, NextIndex))
        /\ NextIndex < Capacity
    BY RoomLeft
  <1>2. /\ Kept(AppendLeaf(TreeAt(currentTree), leaf), Over(leaves', currentTree, NextIndex + 1))
        /\ AppendLeaf(TreeAt(currentTree), leaf).size = NextIndex + 1
    BY <1>1, LeavesStay, FrontierStep, Zenon DEF NextIndex
  <1>3. trees' = Put(trees, currentTree, AppendLeaf(TreeAt(currentTree), leaf))
    BY Zenon DEF Inserted
  <1>4. /\ DOMAIN trees' = DOMAIN trees \cup {currentTree}
        /\ trees'[currentTree] = AppendLeaf(TreeAt(currentTree), leaf)
        /\ \A id \in DOMAIN trees : id # currentTree => trees'[id] = trees[id]
    BY <1>3, Zenon DEF Put
  <1> QED BY <1>2, <1>4, Zenon

(* An insertion keeps the trees, and the leaves, in book.                  *)
LEMMA TreesKeep ==
    ASSUME PoolInv, NEW leaf, Inserted(leaf)
    PROVE  TreesBook' /\ LeavesBook'
  <1> DEFINE tree == AppendLeaf(TreeAt(currentTree), leaf)
  <1>1. /\ Kept(tree, Over(leaves', currentTree, NextIndex + 1)) /\ tree.size = NextIndex + 1
        /\ DOMAIN trees' = DOMAIN trees \cup {currentTree} /\ trees'[currentTree] = tree
        /\ \A id \in DOMAIN trees : id # currentTree => trees'[id] = trees[id]
    BY TreeGrows, Zenon
  <1>2. /\ currentTree \in Nat /\ NextIndex \in 0..Capacity - 1 /\ Capacity \in Nat
        /\ currentTree' = IF NextIndex + 1 = Capacity THEN currentTree + 1 ELSE currentTree
    BY RoomLeft, Zenon DEF Inserted
  <1>3. /\ DOMAIN trees \subseteq 0..currentTree
        /\ \A id \in 0..currentTree - 1 : id \in DOMAIN trees /\ trees[id].size = Capacity
        /\ \A id \in DOMAIN trees : trees[id].size \in 1..Capacity /\ Kept(trees[id], Over(leaves, id, trees[id].size))
    BY Zenon DEF PoolInv, TreesBook
  <1> HIDE DEF tree
  <1>4. ASSUME NEW id \in DOMAIN trees'
        PROVE  /\ trees'[id].size \in 1..Capacity
               /\ id = currentTree' => trees'[id].size < Capacity
               /\ Kept(trees'[id], Over(leaves', id, trees'[id].size))
    <2>1. CASE id = currentTree
      BY <1>1, <1>2, <2>1
    <2>2. CASE id # currentTree
      <3>1. id \in DOMAIN trees /\ trees'[id] = trees[id] /\ id \in 0..currentTree
        BY <1>1, <1>3, <2>2, Zenon
      <3>2. id # currentTree'
        BY <1>2, <2>2, <3>1
      <3>3. Over(leaves', id, trees[id].size) = Over(leaves, id, trees[id].size)
        BY <1>2, <1>3, <3>1, LeavesStay
      <3> QED BY <1>3, <3>1, <3>2, <3>3, Zenon
    <2> QED BY <2>1, <2>2, Zenon
  <1>5. TreesBook'
    <2>1. currentTree' \in Nat /\ DOMAIN trees' \subseteq 0..currentTree'
      BY <1>1, <1>2, <1>3
    <2>2. \A id \in 0..currentTree' - 1 : id \in DOMAIN trees' /\ trees'[id].size = Capacity
      BY <1>1, <1>2, <1>3
    <2> QED BY <1>4, <2>1, <2>2, Zenon DEF TreesBook
  <1>6. LeavesBook'
    <2>1. ASSUME NEW p \in DOMAIN leaves'
          PROVE  /\ p = <<p[1], p[2]>> /\ p[1] \in DOMAIN trees' /\ p[2] \in 0..trees'[p[1]].size - 1
                 /\ leaves'[p] # Zero[0]
      <3>1. CASE p = <<currentTree, NextIndex>>
        BY <1>1, <1>2, <3>1, LeavesStay DEF Inserted
      <3>2. CASE p \in DOMAIN leaves
        <4>1. p = <<p[1], p[2]>> /\ p[1] \in DOMAIN trees /\ p[2] \in 0..trees[p[1]].size - 1
              /\ leaves[p] # Zero[0] /\ leaves'[p] = leaves[p]
          BY <3>2, LeavesStay, Zenon DEF PoolInv, LeavesBook
        <4>2. CASE p[1] = currentTree
          <5>1. p[2] \in 0..NextIndex - 1
            BY <3>2, <4>1, <4>2, RoomLeft, Zenon
          <5> QED BY <1>1, <1>2, <4>1, <4>2, <5>1
        <4> QED BY <1>1, <4>1, <4>2, Zenon
      <3> QED BY <3>1, <3>2, LeavesStay, Zenon
    <2>2. ASSUME NEW id \in DOMAIN trees', NEW i \in 0..trees'[id].size - 1
          PROVE  <<id, i>> \in DOMAIN leaves'
      <3>1. CASE id = currentTree
        <4>1. i \in 0..NextIndex - 1 \/ i = NextIndex
          BY <1>1, <1>2, <3>1
        <4> QED BY <3>1, <4>1, RoomLeft, LeavesStay, Zenon
      <3>2. CASE id # currentTree
        <4>1. id \in DOMAIN trees /\ i \in 0..trees[id].size - 1
          BY <1>1, <3>2, Zenon
        <4> QED BY <4>1, LeavesStay, Zenon DEF PoolInv, LeavesBook
      <3> QED BY <3>1, <3>2, Zenon
    <2> QED BY <2>1, <2>2, Zenon DEF LeavesBook
  <1> QED BY <1>5, <1>6, Zenon

(* Every size a tree has had stays one; the insertion adds one.            *)
LEMMA SizesGrow ==
    ASSUME PoolInv, NEW leaf, Inserted(leaf)
    PROVE  /\ \A id \in DOMAIN trees : id \in DOMAIN trees' /\ 1..trees[id].size \subseteq 1..trees'[id].size
           /\ currentTree \in DOMAIN trees' /\ NextIndex + 1 \in 1..trees'[currentTree].size
           /\ \A id \in DOMAIN trees' : \A n \in 1..trees'[id].size :
                 (id \in DOMAIN trees /\ n \in 1..trees[id].size) \/ (id = currentTree /\ n = NextIndex + 1)
  <1>1. /\ DOMAIN trees' = DOMAIN trees \cup {currentTree} /\ trees'[currentTree].size = NextIndex + 1
        /\ \A id \in DOMAIN trees : id # currentTree => trees'[id] = trees[id]
    BY TreeGrows, Zenon
  <1>2. NextIndex \in Nat /\ (currentTree \in DOMAIN trees => trees[currentTree].size = NextIndex)
    BY RoomLeft DEF NextIndex, TreeAt
  <1>3. currentTree \notin DOMAIN trees => NextIndex = 0
    BY Zenon DEF NextIndex, TreeAt, EmptyTree
  <1>4. ASSUME NEW id \in DOMAIN trees', NEW n \in 1..trees'[id].size
        PROVE  (id \in DOMAIN trees /\ n \in 1..trees[id].size) \/ (id = currentTree /\ n = NextIndex + 1)
    <2>1. CASE id = currentTree
      BY <1>1, <1>2, <1>3, <2>1
    <2>2. CASE id # currentTree
      BY <1>1, <2>2, Zenon
    <2> QED BY <2>1, <2>2, Zenon
  <1>5. ASSUME NEW id \in DOMAIN trees
        PROVE  id \in DOMAIN trees' /\ 1..trees[id].size \subseteq 1..trees'[id].size
    <2>1. CASE id = currentTree
      BY <1>1, <1>2, <2>1
    <2>2. CASE id # currentTree
      BY <1>1, <2>2, Zenon
    <2> QED BY <2>1, <2>2, Zenon
  <1> QED BY <1>1, <1>2, <1>4, <1>5

(* The new root is none of the tree's earlier ones: a leaf more, a root    *)
(* more.                                                                   *)
LEMMA RootsKeep ==
    ASSUME PoolInv, NEW leaf, Inserted(leaf)
    PROVE  RootsBook'
  <1> DEFINE key == <<currentTree, Top(Over(leaves', currentTree, NextIndex + 1))>>
  <1>1. NextIndex \in 0..Capacity - 1 /\ Capacity \in Nat /\ currentTree \in Nat
    BY RoomLeft, Zenon
  <1>2. AppendLeaf(TreeAt(currentTree), leaf).root = Top(Over(leaves', currentTree, NextIndex + 1))
    BY TreeGrows, Zenon DEF Kept, Top
  <1>3. roots' = Put(roots, key, NextIndex + 1)
    BY <1>2, Zenon DEF Inserted
  <1>4. /\ DOMAIN roots' = DOMAIN roots \cup {key} /\ roots'[key] = NextIndex + 1
        /\ \A r \in DOMAIN roots : r # key => roots'[r] = roots[r]
    BY <1>3, Zenon DEF Put
  <1>5. ASSUME NEW n \in 1..NextIndex
        PROVE  Top(Over(leaves', currentTree, n)) # Top(Over(leaves', currentTree, NextIndex + 1))
    <2>1. <<currentTree, n>> \in DOMAIN leaves'
      <3>1. n \in 0..NextIndex - 1 \/ n = NextIndex
        BY <1>1
      <3> QED BY <3>1, RoomLeft, LeavesStay, Zenon
    <2>2. leaves'[<<currentTree, n>>] # Zero[0]
      BY <2>1, TreesKeep, Zenon DEF LeavesBook
    <2>3. Over(leaves', currentTree, NextIndex + 1)[n + 1] # Zero[0]
      <3>1. n + 1 \in 1..NextIndex + 1 /\ (n + 1) - 1 = n
        BY <1>1
      <3>2. Over(leaves', currentTree, NextIndex + 1)[n + 1] = leaves'[<<currentTree, (n + 1) - 1>>]
        BY <3>1, Zenon DEF Over
      <3> QED BY <2>2, <3>1, <3>2, Zenon
    <2>4. /\ DOMAIN Over(leaves', currentTree, n) = 1..n
          /\ DOMAIN Over(leaves', currentTree, NextIndex + 1) = 1..NextIndex + 1
      BY Zenon DEF Over
    <2>5. n \in Nat /\ NextIndex + 1 \in Nat /\ n < NextIndex + 1 /\ NextIndex + 1 <= Capacity
      BY <1>1
    <2> QED BY <2>3, <2>4, <2>5, RootsDiffer, Zenon DEF Top
  <1> HIDE DEF key
  <1>6. ASSUME NEW id \in DOMAIN trees', NEW n \in 1..trees'[id].size
        PROVE  LET r == <<id, Top(Over(leaves', id, n))>>
               IN  r \in DOMAIN roots' /\ roots'[r] = n
    <2> DEFINE r == <<id, Top(Over(leaves', id, n))>>
    <2>1. CASE id = currentTree /\ n = NextIndex + 1
      BY <1>4, <2>1, Zenon DEF key
    <2>2. CASE id \in DOMAIN trees /\ n \in 1..trees[id].size
      <3>1. n \in 0..trees[id].size
        BY <2>2 DEF PoolInv, TreesBook
      <3>2. Over(leaves', id, n) = Over(leaves, id, n)
        BY <2>2, <3>1, LeavesStay, Zenon
      <3>3. r \in DOMAIN roots /\ roots[r] = n
        BY <2>2, <3>2, Zenon DEF PoolInv, RootsBook
      <3>4. r # key
        <4>1. CASE id = currentTree
          <5>1. n \in 1..NextIndex
            BY <2>2, <4>1, Zenon DEF NextIndex, TreeAt
          <5> QED BY <1>5, <4>1, <5>1, Zenon DEF key
        <4>2. CASE id # currentTree
          BY <4>2, Zenon DEF key
        <4> QED BY <4>1, <4>2, Zenon
      <3> QED BY <1>4, <3>3, <3>4, Zenon
    <2> QED BY <2>1, <2>2, SizesGrow, Zenon
  <1>7. ASSUME NEW r \in DOMAIN roots'
        PROVE  /\ r[1] \in DOMAIN trees'
               /\ \E n \in 1..trees'[r[1]].size : r = <<r[1], Top(Over(leaves', r[1], n))>>
    <2>1. CASE r = key
      BY <2>1, SizesGrow, Zenon DEF key
    <2>2. CASE r \in DOMAIN roots
      <3>1. r[1] \in DOMAIN trees
        BY <2>2, Zenon DEF PoolInv, RootsBook
      <3>2. PICK n \in 1..trees[r[1]].size : r = <<r[1], Top(Over(leaves, r[1], n))>>
        BY <2>2, Zenon DEF PoolInv, RootsBook
      <3>3. n \in 0..trees[r[1]].size
        BY <3>1 DEF PoolInv, TreesBook
      <3>4. Over(leaves', r[1], n) = Over(leaves, r[1], n)
        BY <3>1, <3>3, LeavesStay, Zenon
      <3>5. r[1] \in DOMAIN trees' /\ n \in 1..trees'[r[1]].size
        BY <3>1, SizesGrow, Zenon
      <3> QED BY <3>2, <3>4, <3>5, Zenon
    <2> QED BY <1>4, <2>1, <2>2, Zenon
  <1> QED BY <1>6, <1>7, Zenon DEF RootsBook

(* What an insertion does, position by position.                           *)
LEMMA InsertDoes ==
    ASSUME PoolInv, NEW account, NEW enrollment, NEW commitment,
           RcvInsert(account, enrollment, commitment)
    PROVE  LET leaf == Bind(ContractId[account], enrollment, commitment.elem)
           IN  /\ Inserted(leaf)
               /\ account \in DOMAIN ContractId /\ <<account, enrollment>> \notin DOMAIN enrollments
               /\ enrollments' = Put(enrollments, <<account, enrollment>>,
                                     [tree |-> currentTree, index |-> NextIndex])
               /\ \E e : /\ events' = Append(events, e)
                         /\ Slot(e) = <<currentTree, NextIndex>> /\ e.leaf = leaf
  <1> DEFINE leaf == Bind(ContractId[account], enrollment, commitment.elem)
             tree == AppendLeaf(TreeAt(currentTree), leaf)
             e == LeafInserted(account, enrollment, tree.size - 1, leaf, tree.root)
  <1>1. NextIndex \in 0..Capacity - 1
    BY RoomLeft, Zenon
  <1>2. tree.size = NextIndex + 1
    BY Zenon DEF AppendLeaf, NextIndex
  <1>3. tree.size - 1 = NextIndex
    BY <1>1, <1>2
  <1>4. leaf # Zero[0]
    BY BindNotZero, Zenon
  <1> HIDE DEF leaf
  <1>5. /\ trees' = Put(trees, currentTree, tree)
        /\ leaves' = Put(leaves, <<currentTree, tree.size - 1>>, leaf)
        /\ roots' = Put(roots, <<currentTree, tree.root>>, tree.size)
        /\ currentTree' = NextTree(tree)
        /\ RecordEnrollment(account, enrollment, tree.size - 1)
        /\ events' = Append(events, e)
        /\ InsertError(account, enrollment, commitment) = None
    BY Zenon DEF RcvInsert, leaf
  <1>6. account \in DOMAIN ContractId /\ <<account, enrollment>> \notin DOMAIN enrollments
    <2>1. None \notin {"AccountNotContract", "EnrollmentIdTaken", "NonCanonicalCommitment"}
      BY NoneAssumption, Zenon DEF PoolErrors
    <2> QED BY <1>5, <2>1, Zenon DEF InsertError, Claimed
  <1>7. Slot(e) = <<currentTree, NextIndex>> /\ e.leaf = leaf
    BY <1>3, Zenon DEF Slot, LeafInserted
  <1>8. enrollments' = Put(enrollments, <<account, enrollment>>, [tree |-> currentTree, index |-> NextIndex])
    BY <1>3, <1>5, Zenon DEF RecordEnrollment
  <1> HIDE DEF e
  <1>9. Inserted(leaf)
    BY <1>2, <1>3, <1>4, <1>5, Zenon DEF Inserted, NextTree
  <1> QED BY <1>5, <1>6, <1>7, <1>8, <1>9, Zenon DEF leaf

(* The new position is one enrollment's and one event's, the last.         *)
LEMMA PositionsKeep ==
    ASSUME PoolInv, NEW account, NEW enrollment \in Enrollments, NEW commitment,
           RcvInsert(account, enrollment, commitment)
    PROVE  EnrollmentsBook' /\ EventsBook'
  <1> DEFINE leaf == Bind(ContractId[account], enrollment, commitment.elem)
             key == <<account, enrollment>>
             at == <<currentTree, NextIndex>>
  <1>1. /\ Inserted(leaf) /\ account \in DOMAIN ContractId /\ key \notin DOMAIN enrollments
        /\ enrollments' = Put(enrollments, key, [tree |-> currentTree, index |-> NextIndex])
    BY InsertDoes, Zenon
  <1>2. PICK last : /\ events' = Append(events, last)
                    /\ Slot(last) = at /\ last.leaf = leaf
    BY InsertDoes, Zenon
  <1>3. /\ DOMAIN leaves' = DOMAIN leaves \cup {at} /\ at \notin DOMAIN leaves /\ leaves'[at] = leaf
        /\ \A p \in DOMAIN leaves : leaves'[p] = leaves[p]
    BY <1>1, LeavesStay, Zenon
  <1>4. /\ DOMAIN enrollments' = DOMAIN enrollments \cup {key}
        /\ \A k \in DOMAIN enrollments : enrollments'[k] = enrollments[k]
        /\ enrollments'[key] = [tree |-> currentTree, index |-> NextIndex]
    BY <1>1, Zenon DEF Put
  <1>5. Slot(enrollments'[key]) = at
    BY <1>4 DEF Slot
  <1>6. \A k \in DOMAIN enrollments : Slot(enrollments'[k]) = Slot(enrollments[k]) /\ Slot(enrollments[k]) \in DOMAIN leaves
    BY <1>4, Zenon DEF PoolInv, EnrollmentsBook
  <1>7. EnrollmentsBook'
    <2>1. ASSUME NEW k \in DOMAIN enrollments'
          PROVE  /\ k = <<k[1], k[2]>> /\ k[1] \in DOMAIN ContractId /\ k[2] \in Enrollments
                 /\ Slot(enrollments'[k]) \in DOMAIN leaves'
                 /\ \E c : leaves'[Slot(enrollments'[k])] = Bind(ContractId[k[1]], k[2], c)
      <3>1. CASE k = key
        BY <1>1, <1>3, <1>5, <3>1, Zenon
      <3>2. CASE k \in DOMAIN enrollments
        <4>1. /\ k = <<k[1], k[2]>> /\ k[1] \in DOMAIN ContractId /\ k[2] \in Enrollments
              /\ \E c : leaves[Slot(enrollments[k])] = Bind(ContractId[k[1]], k[2], c)
          BY <3>2, Zenon DEF PoolInv, EnrollmentsBook
        <4> QED BY <1>3, <1>6, <3>2, <4>1, Zenon
      <3> QED BY <1>4, <3>1, <3>2, Zenon
    <2>2. ASSUME NEW p \in DOMAIN leaves'
          PROVE  \E k \in DOMAIN enrollments' : p = Slot(enrollments'[k])
      <3>1. CASE p = at
        BY <1>4, <1>5, <3>1, Zenon
      <3>2. CASE p \in DOMAIN leaves
        <4>1. PICK k \in DOMAIN enrollments : p = Slot(enrollments[k])
          BY <3>2, Zenon DEF PoolInv, EnrollmentsBook
        <4> QED BY <1>4, <1>6, <4>1, Zenon
      <3> QED BY <1>3, <3>1, <3>2, Zenon
    <2>3. ASSUME NEW k \in DOMAIN enrollments', NEW m \in DOMAIN enrollments',
                 Slot(enrollments'[k]) = Slot(enrollments'[m])
          PROVE  k = m
      <3>1. \A x, y \in DOMAIN enrollments : Slot(enrollments[x]) = Slot(enrollments[y]) => x = y
        BY Zenon DEF PoolInv, EnrollmentsBook
      <3> HIDE DEF at, key
      <3> QED BY <1>3, <1>4, <1>5, <1>6, <2>3, <3>1
    <2> QED BY <2>1, <2>2, <2>3, Zenon DEF EnrollmentsBook
  <1>8. EventsBook'
    <2>1. PICK S : events \in Seq(S)
      BY Zenon DEF PoolInv, EventsBook
    <2>2. events \in Seq(S \cup {last})
      BY <2>1
    <2>3. /\ events' \in Seq(S \cup {last}) /\ Len(events) \in Nat
          /\ DOMAIN events = 1..Len(events) /\ DOMAIN events' = 1..Len(events) + 1
          /\ events'[Len(events) + 1] = last
          /\ \A i \in DOMAIN events : events'[i] = events[i]
      BY <1>2, <2>2
    <2>4. \A i \in DOMAIN events' : i \in DOMAIN events \/ i = Len(events) + 1
      BY <2>3
    <2>5. \A i \in DOMAIN events : Slot(events[i]) \in DOMAIN leaves /\ events[i].leaf = leaves[Slot(events[i])]
      BY Zenon DEF PoolInv, EventsBook
    <2>6. ASSUME NEW i \in DOMAIN events'
          PROVE  Slot(events'[i]) \in DOMAIN leaves' /\ events'[i].leaf = leaves'[Slot(events'[i])]
      BY <1>2, <1>3, <2>3, <2>4, <2>5, Zenon
    <2>7. ASSUME NEW p \in DOMAIN leaves'
          PROVE  \E i \in DOMAIN events' : p = Slot(events'[i])
      <3>1. CASE p = at
        <4>1. Len(events) + 1 \in DOMAIN events'
          BY <2>3
        <4> QED BY <1>2, <2>3, <3>1, <4>1, Zenon
      <3>2. CASE p \in DOMAIN leaves
        <4>1. PICK i \in DOMAIN events : p = Slot(events[i])
          BY <3>2, Zenon DEF PoolInv, EventsBook
        <4> QED BY <2>3, <4>1
      <3> QED BY <1>3, <3>1, <3>2, Zenon
    <2>8. ASSUME NEW p \in DOMAIN leaves PROVE Before(p, at)
      <3>1. /\ currentTree \in Nat /\ p = <<p[1], p[2]>> /\ p[1] \in 0..currentTree /\ NextIndex \in Nat
        BY RoomLeft, SMTT(30) DEF PoolInv, LeavesBook, TreesBook
      <3>2. p[1] = currentTree => p[2] \in 0..NextIndex - 1
        BY <3>1, RoomLeft, Zenon
      <3> QED BY <3>1, <3>2, SMTT(30) DEF Before
    <2>9. ASSUME NEW i \in DOMAIN events', NEW j \in DOMAIN events', i < j
          PROVE  Before(Slot(events'[i]), Slot(events'[j]))
      <3>1. i \in DOMAIN events
        BY <2>3, <2>9
      <3>2. CASE j \in DOMAIN events
        BY <2>3, <2>9, <3>1, <3>2, Zenon DEF PoolInv, EventsBook
      <3>3. CASE j = Len(events) + 1
        BY <1>2, <2>3, <2>5, <2>8, <3>1, <3>3, Zenon
      <3> QED BY <2>4, <3>2, <3>3, Zenon
    <2> QED BY <2>3, <2>6, <2>7, <2>9, Zenon DEF EventsBook
  <1> QED BY <1>7, <1>8, Zenon

(* The invariant holds in every reachable state, for every depth of the    *)
(* trees, every set of addresses, enrollments and commitments.             *)
THEOREM PoolInvariant == PoolSpec => []PoolInv
  <1>1. PoolInit => PoolInv
    BY PoolStarts, Zenon
  <1>2. PoolInv /\ [PoolNext]_poolVars => PoolInv'
    <2> SUFFICES ASSUME PoolInv, [PoolNext]_poolVars PROVE PoolInv'
      BY Zenon
    <2>1. CASE UNCHANGED poolVars
      <3>1. currentTree' = currentTree /\ trees' = trees /\ roots' = roots /\ leaves' = leaves
            /\ enrollments' = enrollments /\ events' = events
        BY <2>1 DEF poolVars
      <3>2. TreesBook' /\ LeavesBook'
        BY <3>1, Zenon DEF PoolInv, TreesBook, LeavesBook
      <3>3. RootsBook'
        BY <3>1, Zenon DEF PoolInv, RootsBook
      <3>4. EnrollmentsBook' /\ EventsBook'
        BY <3>1, Zenon DEF PoolInv, EnrollmentsBook, EventsBook
      <3> QED BY <3>2, <3>3, <3>4, Zenon DEF PoolInv
    <2>2. ASSUME NEW account, NEW enrollment \in Enrollments, NEW commitment,
                 RcvInsert(account, enrollment, commitment)
          PROVE  PoolInv'
      <3>1. Inserted(Bind(ContractId[account], enrollment, commitment.elem))
        BY <2>2, InsertDoes, Zenon
      <3> QED BY <2>2, <3>1, TreesKeep, RootsKeep, PositionsKeep, Zenon DEF PoolInv
    <2> QED BY <2>1, <2>2, Zenon DEF PoolNext
  <1> QED BY <1>1, <1>2, PTL DEF PoolSpec

(***************************************************************************)
(* What the invariant says of roots, pages and proofs.                     *)
(***************************************************************************)
LEMMA RootsAre == PoolInv => RootsAreMerkleRoots
  <1> SUFFICES ASSUME PoolInv PROVE RootsAreMerkleRoots
    BY Zenon
  <1>1. ASSUME NEW id \in DOMAIN trees
        PROVE  /\ trees[id].root = RootAt(id, trees[id].size)
               /\ \A n \in 1..trees[id].size :
                     IsKnownRoot(id, RootAt(id, n)) /\ roots[<<id, RootAt(id, n)>>] = n
    <2>1. trees[id].root = Top(Over(leaves, id, trees[id].size))
      BY Zenon DEF PoolInv, TreesBook, Kept, Top
    <2>2. \A n \in 1..trees[id].size :
             LET r == <<id, Top(Over(leaves, id, n))>> IN r \in DOMAIN roots /\ roots[r] = n
      BY Zenon DEF PoolInv, RootsBook
    <2> QED BY <2>1, <2>2, RootIsTop, Zenon DEF IsKnownRoot
  <1>2. ASSUME NEW r \in DOMAIN roots
        PROVE  r[1] \in DOMAIN trees /\ \E n \in 1..trees[r[1]].size : r[2] = RootAt(r[1], n)
    <2>1. PICK n \in 1..trees[r[1]].size : r = <<r[1], Top(Over(leaves, r[1], n))>>
      BY Zenon DEF PoolInv, RootsBook
    <2>2. r[2] = RootAt(r[1], n)
      BY <2>1, RootIsTop, SMTT(30)
    <2> QED BY <2>2, Zenon DEF PoolInv, RootsBook
  <1> QED BY <1>1, <1>2, Zenon DEF RootsAreMerkleRoots

(* The invariant leaves no hole between trees, positions and events.       *)
LEMMA NoHole == PoolInv => RolloverLeavesNoHole
  <1> SUFFICES ASSUME PoolInv PROVE RolloverLeavesNoHole
    BY Zenon
  <1>0. currentTree \in Nat /\ Capacity \in Nat /\ NextIndex \in 0..Capacity - 1
    BY RoomLeft, Zenon
  <1>1. \A id \in 0..currentTree - 1 : TreeInfo(id).sealed
    <2> TAKE id \in 0..currentTree - 1
    <2>1. id \in DOMAIN trees /\ trees[id].size = Capacity /\ id <= currentTree
      BY <1>0 DEF PoolInv, TreesBook
    <2> QED BY <2>1, Zenon DEF TreeInfo, Opened, TreeAt
  <1>2. ~TreeInfo(currentTree).sealed
    <2>1. Opened(currentTree) /\ TreeAt(currentTree).size # Capacity
      BY <1>0 DEF Opened, NextIndex
    <2> QED BY <2>1, Zenon DEF TreeInfo
  <1>3. DOMAIN leaves = {<<enrollments[k].tree, enrollments[k].index>> : k \in DOMAIN enrollments}
    <2>1. \A k \in DOMAIN enrollments : <<enrollments[k].tree, enrollments[k].index>> \in DOMAIN leaves
      BY Zenon DEF PoolInv, EnrollmentsBook, Slot
    <2>2. \A p \in DOMAIN leaves : \E k \in DOMAIN enrollments :
             p = <<enrollments[k].tree, enrollments[k].index>>
      BY Zenon DEF PoolInv, EnrollmentsBook, Slot
    <2> QED BY <2>1, <2>2, Zenon
  <1>4. \A k, m \in DOMAIN enrollments : enrollments[k] = enrollments[m] => k = m
    BY Zenon DEF PoolInv, EnrollmentsBook
  <1>5. \A e, f \in DOMAIN events : e < f =>
          \/ events[e].tree < events[f].tree
          \/ events[e].tree = events[f].tree /\ events[e].index < events[f].index
    BY Zenon DEF PoolInv, EventsBook, Before, Slot
  <1>6. ASSUME NEW id \in 0..currentTree, NEW start \in 0..Capacity
        PROVE  LET page == Page(id, start, MaxPage)
                   from == {e \in DOMAIN events : /\ events[e].tree = id
                                                  /\ events[e].index \in start..start + MaxPage - 1}
               IN  /\ {start + i - 1 : i \in DOMAIN page} = {events[e].index : e \in from}
                   /\ \A e \in from : page[events[e].index - start + 1] = events[e].leaf
    <2> DEFINE page == Page(id, start, MaxPage)
               from == {e \in DOMAIN events : /\ events[e].tree = id
                                              /\ events[e].index \in start..start + MaxPage - 1}
               size == TreeAt(id).size
               end == IF start + MaxPage < size THEN start + MaxPage ELSE size
               first == IF start < end THEN start ELSE end
    <2>1. size \in 0..Capacity /\ \A i : <<id, i>> \in DOMAIN leaves <=> i \in 0..size - 1
      <3>1. CASE id = currentTree
        BY <1>0, <3>1, RoomLeft DEF NextIndex
      <3>2. CASE id # currentTree
        <4>1. id \in DOMAIN trees /\ size = trees[id].size /\ trees[id].size = Capacity
          BY <1>0, <3>2 DEF PoolInv, TreesBook, TreeAt
        <4> QED BY <1>0, <4>1 DEF PoolInv, LeavesBook
      <3> QED BY <3>1, <3>2, Zenon
    <2>2. MaxPage \in Nat /\ start \in Nat /\ size \in Nat
      BY <1>0, <2>1, PoolAssumption, SMTT(30)
    <2>3. page = [i \in 1..end - first |-> leaves[<<id, first + i - 1>>]]
      BY <1>0, <2>2, SMTT(30) DEF Page, Opened
    <2> HIDE DEF page, size
    <2>4. \A e \in DOMAIN events : <<events[e].tree, events[e].index>> \in DOMAIN leaves
             /\ events[e].leaf = leaves[<<events[e].tree, events[e].index>>]
      BY Zenon DEF PoolInv, EventsBook, Slot
    <2>5. \A p \in DOMAIN leaves : \E e \in DOMAIN events : p = <<events[e].tree, events[e].index>>
      BY Zenon DEF PoolInv, EventsBook, Slot
    <2>6. ASSUME NEW e \in from
          PROVE  /\ events[e].index \in start..end - 1 /\ first = start
                 /\ page[events[e].index - start + 1] = events[e].leaf
                 /\ events[e].index - start + 1 \in DOMAIN page
      <3>1. events[e].index \in 0..size - 1 /\ events[e].index \in start..start + MaxPage - 1
        BY <2>1, <2>4, Zenon
      <3>2. events[e].index \in start..end - 1 /\ first = start
        BY <2>2, <3>1
      <3>3. events[e].index - start + 1 \in 1..end - first
        BY <2>2, <3>2
      <3>4. page[events[e].index - start + 1] = leaves[<<id, first + (events[e].index - start + 1) - 1>>]
        BY <2>3, <3>3, Zenon
      <3>5. first + (events[e].index - start + 1) - 1 = events[e].index
        BY <2>2, <3>2
      <3> QED BY <2>3, <2>4, <3>2, <3>3, <3>4, <3>5, Zenon
    <2>7. ASSUME NEW i \in DOMAIN page PROVE \E e \in from : start + i - 1 = events[e].index
      <3>1. i \in 1..end - first
        BY <2>3, Zenon
      <3>2. start + i - 1 \in 0..size - 1 /\ start + i - 1 \in start..start + MaxPage - 1
        BY <2>2, <3>1
      <3>3. PICK e \in DOMAIN events : <<id, start + i - 1>> = <<events[e].tree, events[e].index>>
        BY <2>1, <2>5, <3>2, Zenon
      <3> QED BY <3>2, <3>3, Zenon
    <2>8. {start + i - 1 : i \in DOMAIN page} = {events[e].index : e \in from}
      <3>1. ASSUME NEW e \in from PROVE \E i \in DOMAIN page : start + i - 1 = events[e].index
        <4>1. start + (events[e].index - start + 1) - 1 = events[e].index
          BY <2>2, <2>6
        <4> QED BY <2>6, <4>1, Zenon
      <3> HIDE DEF from
      <3> QED BY <2>7, <3>1
    <2> QED BY <2>6, <2>8, Zenon DEF page
  <1> QED BY <1>1, <1>2, <1>3, <1>4, <1>5, <1>6, Zenon DEF RolloverLeavesNoHole

(* The pool's roots are the Merkle roots of its leaves at every size, and  *)
(* its positions, events and pages are without a hole.                     *)
THEOREM PoolKeepsTrees == PoolSpec => []PoolIsItsTrees
  <1>1. PoolInv => PoolIsItsTrees
    BY RootsAre, NoHole, Zenon DEF PoolIsItsTrees
  <1> QED BY <1>1, PoolInvariant, PTL

(* A position of the pool, among the leaves of its tree at a size.         *)
LEMMA LeafAt ==
    ASSUME PoolInv, NEW p \in DOMAIN leaves, NEW n \in Nat
    PROVE  /\ p = <<p[1], p[2]>> /\ p[1] \in DOMAIN trees /\ p[2] \in 0..Capacity - 1
           /\ trees[p[1]].size \in 1..Capacity
           /\ Leaf(Over(leaves, p[1], n), p[2]) = IF p[2] < n THEN leaves[p] ELSE Zero[0]
  <1>1. /\ p = <<p[1], p[2]>> /\ p[1] \in DOMAIN trees /\ p[2] \in 0..trees[p[1]].size - 1
        /\ trees[p[1]].size \in 1..Capacity
    BY Zenon DEF PoolInv, LeavesBook, TreesBook
  <1>2. Capacity \in Nat
    BY RoomLeft, Zenon
  <1>3. DOMAIN Over(leaves, p[1], n) = 1..n
    BY Zenon DEF Over
  <1>4. p[2] + 1 \in 1..n <=> p[2] < n
    BY <1>1, <1>2
  <1>5. p[2] < n => Over(leaves, p[1], n)[p[2] + 1] = leaves[p]
    BY <1>1, <1>2, <1>4 DEF Over
  <1> QED BY <1>1, <1>2, <1>3, <1>4, <1>5, SMTT(30) DEF Leaf

(* The path of a leaf leads to the root of its tree at any size above it.  *)
LEMMA PathToKnownRoot ==
    ASSUME PoolInv, NEW p \in DOMAIN leaves, NEW n \in p[2] + 1..trees[p[1]].size
    PROVE  IsKnownRoot(p[1], RootFromPath(leaves[p], p[2], Path(p[1], n, p[2])))
  <1>1. /\ p[1] \in DOMAIN trees /\ p[2] \in 0..Capacity - 1 /\ trees[p[1]].size \in 1..Capacity
        /\ Capacity \in Nat
    BY LeafAt, RoomLeft, Zenon
  <1>2. n \in Nat /\ p[2] < n /\ n \in 1..trees[p[1]].size
    BY <1>1
  <1>3. Leaf(Over(leaves, p[1], n), p[2]) = leaves[p]
    BY <1>2, LeafAt, Zenon
  <1>4. IsPath(Over(leaves, p[1], n), p[2], Path(p[1], n, p[2]))
    BY Zenon DEF IsPath, Path, Levels, Filled, Over
  <1>5. RootFromPath(leaves[p], p[2], Path(p[1], n, p[2])) = Top(Over(leaves, p[1], n))
    BY <1>1, <1>3, <1>4, PathToRoot, Zenon DEF Top
  <1> QED BY <1>1, <1>2, <1>5, Zenon DEF PoolInv, RootsBook, IsKnownRoot

(* And no path from another leaf leads to a known root.                    *)
LEMMA KnownRootHasLeaf ==
    ASSUME PoolInv, NEW p \in DOMAIN leaves, NEW leaf, leaf # Zero[0], NEW path,
           IsKnownRoot(p[1], RootFromPath(leaf, p[2], path))
    PROVE  leaves[p] = leaf
  <1>1. PICK m \in 1..trees[p[1]].size : RootFromPath(leaf, p[2], path) = Top(Over(leaves, p[1], m))
    BY Zenon DEF PoolInv, RootsBook, IsKnownRoot
  <1>2. /\ p[2] \in 0..Capacity - 1 /\ m \in Nat
        /\ Leaf(Over(leaves, p[1], m), p[2]) = IF p[2] < m THEN leaves[p] ELSE Zero[0]
    BY LeafAt, RoomLeft, SMTT(30)
  <1>3. leaf = Leaf(Over(leaves, p[1], m), p[2])
    BY <1>1, <1>2, Descend, Zenon DEF Top
  <1> QED BY <1>2, <1>3, Zenon

(* In a state of the invariant an enrolled credential can prove, from      *)
(* every root since its enrollment.                                        *)
LEMMA CanProve == PoolInv => EnrolledCanProve
  <1> SUFFICES ASSUME PoolInv, NEW k \in DOMAIN enrollments, NEW secret \in Secrets, NEW subject \in Subjects,
                      NEW at, at = enrollments[k], NEW id, id = ContractId[k[1]],
                      leaves[<<at.tree, at.index>>] = Bind(id, k[2], Commitment(secret)),
                      NEW n \in at.index + 1..trees[at.tree].size,
                      NEW st, st = [account |-> k[1], subject |-> subject]
               PROVE  Verify(st, [enrollment |-> k[2], circuit |-> CircuitId],
                             Evidence(secret, id, k[2], st, at.tree, n, at.index, FALSE)) = None
    BY Zenon DEF EnrolledCanProve
  <1>1. <<at.tree, at.index>> \in DOMAIN leaves /\ k[1] \in DOMAIN ContractId
    BY Zenon DEF PoolInv, EnrollmentsBook, Slot
  <1>2. PICK root : root = RootFromPath(Bind(id, k[2], Commitment(secret)), at.index, Path(at.tree, n, at.index))
    BY Zenon
  <1>3. IsKnownRoot(at.tree, root)
    BY <1>1, <1>2, PathToKnownRoot
  <1>4. PICK b : b = [enrollment |-> k[2], circuit |-> CircuitId]
    BY Zenon
  <1>5. b.enrollment = k[2] /\ b.circuit = CircuitId /\ st.account = k[1]
    BY <1>4, Zenon
  <1>6. PICK nullifier : nullifier = Encoded(Nullifier(id, k[2], secret), FALSE)
    BY Zenon
  <1>7. Acceptable(st, b, at.tree, root, nullifier, StatementHash(id, k[2], Digest(st)))
    BY <1>1, <1>3, <1>5, <1>6, OneEncoding, Zenon DEF Acceptable
  <1>8. Verify(st, b, Shown(at.tree, root, nullifier, StatementHash(id, k[2], Digest(st)))) = None
    BY <1>7, AcceptedWhen, Zenon
  <1> QED BY <1>2, <1>4, <1>6, <1>8, EvidenceIs, Zenon

(* In a state of the invariant a proof that is accepted is about this      *)
(* statement, and its credential is enrolled for the account.              *)
LEMMA MeansEnrolled == PoolInv => AcceptedMeansEnrolled
  <1> SUFFICES ASSUME PoolInv, NEW a \in DOMAIN ContractId, NEW e \in Enrollments, NEW secret \in Secrets,
                      NEW about \in Statements, NEW p \in DOMAIN leaves, NEW over \in BOOLEAN,
                      NEW n \in p[2] + 1..trees[p[1]].size, NEW st \in Statements, NEW b \in Bindings,
                      Verify(st, b, Evidence(secret, ContractId[a], e, about, p[1], n, p[2], over)) = None
               PROVE  /\ about = st
                      /\ <<st.account, b.enrollment>> \in DOMAIN enrollments
                      /\ LET at == enrollments[<<st.account, b.enrollment>>]
                         IN  leaves[<<at.tree, at.index>>] =
                                 Bind(ContractId[st.account], b.enrollment, Commitment(secret))
                      /\ Evidence(secret, ContractId[a], e, about, p[1], n, p[2], over).nullifier =
                            Canonical(Nullifier(ContractId[st.account], b.enrollment, secret))
    BY Zenon DEF AcceptedMeansEnrolled
  <1>1. PICK leaf, path : leaf = Bind(ContractId[a], e, Commitment(secret)) /\ path = Path(p[1], n, p[2])
    BY Zenon
  <1>2. PICK nullifier, hash :
           /\ nullifier = Encoded(Nullifier(ContractId[a], e, secret), over)
           /\ hash = StatementHash(ContractId[a], e, Digest(about))
           /\ Evidence(secret, ContractId[a], e, about, p[1], n, p[2], over) =
                 Shown(p[1], RootFromPath(leaf, p[2], path), nullifier, hash)
    BY <1>1, EvidenceIs, Zenon
  <1>3. Acceptable(st, b, p[1], RootFromPath(leaf, p[2], path), nullifier, hash)
    BY <1>2, AcceptedWhen, Zenon
  <1>4. a = st.account /\ e = b.enrollment /\ about = st
    <2>1. b.enrollment \in Enrollments
      BY DEF Bindings
    <2>2. /\ st.account \in DOMAIN ContractId
          /\ SameStatement(ContractId[a], e, about, ContractId[st.account], b.enrollment, st)
      BY <1>2, <1>3, Zenon DEF Acceptable, SameStatement
    <2>3. SameSubject(ContractId[a], e, about, ContractId[st.account], b.enrollment, st)
      BY <2>2, StatementHalves, Zenon
    <2> QED BY <2>1, <2>2, <2>3, PoolAssumption, Zenon DEF SameSubject, SameHalves
  <1>5. leaves[p] = leaf
    <2>1. leaf # Zero[0]
      BY <1>1, BindNotZero, Zenon
    <2>2. IsKnownRoot(p[1], RootFromPath(leaf, p[2], path))
      BY <1>3, Zenon DEF Acceptable
    <2> QED BY <2>1, <2>2, KnownRootHasLeaf, Zenon
  <1>6. PICK k \in DOMAIN enrollments : p = Slot(enrollments[k])
    BY Zenon DEF PoolInv, EnrollmentsBook
  <1>7. k = <<a, e>>
    <2>1. k = <<k[1], k[2]>> /\ k[1] \in DOMAIN ContractId /\ k[2] \in Enrollments
      BY Zenon DEF PoolInv, EnrollmentsBook
    <2>2. PICK c : leaves[p] = Bind(ContractId[k[1]], k[2], c)
      BY <1>6, Zenon DEF PoolInv, EnrollmentsBook
    <2>3. SameLeaf(ContractId[k[1]], k[2], c, ContractId[a], e, Commitment(secret))
      BY <1>1, <1>5, <2>2, Zenon DEF SameLeaf
    <2>4. SameHalves(ContractId[k[1]], k[2], ContractId[a], e)
      BY <2>3, LeafHalves, Zenon
    <2>5. k[1] = a /\ k[2] = e
      BY <2>1, <2>4, PoolAssumption, Zenon DEF SameHalves
    <2> QED BY <2>1, <2>5, Zenon
  <1>8. nullifier = Canonical(Nullifier(ContractId[a], e, secret))
    <2>1. IsCanonicalField(nullifier)
      BY <1>3, Zenon DEF Acceptable
    <2> QED BY <1>2, <2>1, OneEncoding, Zenon
  <1>9. Evidence(secret, ContractId[a], e, about, p[1], n, p[2], over).nullifier = nullifier
    <2>1. HasNullifier(Evidence(secret, ContractId[a], e, about, p[1], n, p[2], over),
                       Encoded(Nullifier(ContractId[a], e, secret), over))
      BY EvidenceNullifier, Zenon
    <2> QED BY <1>2, <2>1, Zenon DEF HasNullifier
  <1> QED BY <1>1, <1>4, <1>5, <1>6, <1>7, <1>8, <1>9, Zenon DEF Slot

(* A proof is accepted exactly when its credential is enrolled: in every   *)
(* state, from every root its tree has had, and for every statement.       *)
THEOREM ProofsShowEnrollment == PoolSpec => []AcceptedIffEnrolled
  <1>1. PoolInv => AcceptedIffEnrolled
    BY CanProve, MeansEnrolled, Zenon DEF AcceptedIffEnrolled
  <1> QED BY <1>1, PoolInvariant, PTL
=============================================================================
