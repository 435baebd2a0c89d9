----------------------------- MODULE OrderLemmas -----------------------------
(***************************************************************************)
(* Facts about finite linear orders, numbers and sublists.  The induction  *)
(* theorems of the library take an operator as a parameter, so what needs  *)
(* induction is shown here, and in the modules that use this one, by the   *)
(* least counterexample.                                                   *)
(***************************************************************************)
EXTENDS Sublists, FiniteSetTheorems, SequenceTheorems, WellFoundedInduction, TLAPS

\* Every non-empty set of numbers has a least one.
LEMMA LeastNumber ==
    ASSUME NEW S \in SUBSET Nat, S # {}
    PROVE  \E n \in S : \A m \in S : n <= m
<1> DEFINE R == OpToRel(<, Nat)
<1>1. IsWellFoundedOn(R, Nat)
  BY NatLessThanWellFounded
<1>2. \A i, j \in Nat : <<i, j>> \in R <=> i < j
  BY DEF OpToRel
<1> HIDE DEF R
<1>3. PICK n \in S : \A m \in S : ~(<<m, n>> \in R)
  BY <1>1, WFMin
<1>4. ASSUME NEW m \in S PROVE n <= m
  <2>1. m \in Nat /\ n \in Nat
    OBVIOUS
  <2>2. ~(m < n)
    BY <1>2, <1>3, <2>1
  <2> QED BY <2>1, <2>2
<1> QED BY <1>4

\* A set of numbers that is finite and not empty has a greatest one.
LEMMA GreatestNumber ==
    ASSUME NEW S, IsFiniteSet(S), S # {}, S \subseteq Int
    PROVE  \E x \in S : \A y \in S : y <= x
<1> DEFINE Greatest(T) == \E x \in T : \A y \in T : y <= x
           Bad(n) == \E T : /\ IsFiniteSet(T) /\ T # {} /\ T \subseteq Int
                            /\ Cardinality(T) = n /\ ~Greatest(T)
           Sizes == {n \in Nat : Bad(n)}
<1>1. SUFFICES ASSUME ~Greatest(S) PROVE FALSE
  OBVIOUS
<1>2. Sizes # {}
  <2>1. Cardinality(S) \in Nat
    BY FS_CardinalityType
  <2> QED BY <1>1, <2>1
<1>3. PICK n \in Sizes : \A m \in Sizes : n <= m
  BY <1>2, LeastNumber
<1>4. PICK T : /\ IsFiniteSet(T) /\ T # {} /\ T \subseteq Int
               /\ Cardinality(T) = n /\ ~Greatest(T)
  BY <1>3
<1> HIDE DEF Greatest
<1>5. PICK x \in T : TRUE
  BY <1>4
<1>6. IsFiniteSet(T \ {x}) /\ Cardinality(T \ {x}) = n - 1 /\ n - 1 \in Nat
  <2>1. Cardinality(T) # 0 /\ Cardinality(T) \in Nat
    BY <1>4, FS_EmptySet, FS_CardinalityType
  <2>2. /\ IsFiniteSet(T \ {x})
        /\ Cardinality(T \ {x}) = IF x \in T THEN Cardinality(T) - 1 ELSE Cardinality(T)
    BY <1>4, FS_RemoveElement
  <2> QED BY <1>4, <1>5, <2>1, <2>2
<1>7. CASE T \ {x} = {}
  BY <1>4, <1>5, <1>7 DEF Greatest
<1>8. CASE T \ {x} # {}
  <2>1. ~Bad(n - 1)
    BY <1>3, <1>6
  <2>2. PICK y \in T \ {x} : \A z \in T \ {x} : z <= y
    BY <1>4, <1>6, <1>8, <2>1 DEF Greatest
  <2>3. CASE x <= y
    BY <1>4, <2>2, <2>3 DEF Greatest
  <2>4. CASE ~(x <= y)
    BY <1>4, <1>5, <2>2, <2>4 DEF Greatest
  <2> QED BY <2>3, <2>4
<1> QED BY <1>7, <1>8

\* Before[x] is what precedes x in a linear order of S: every rank is taken.
LEMMA EveryRankTaken ==
    ASSUME NEW S, IsFiniteSet(S), NEW Before \in [S -> SUBSET S],
           \A x \in S : x \notin Before[x],
           \A x, y \in S : x # y => \/ Before[x] \union {x} \subseteq Before[y]
                                    \/ Before[y] \union {y} \subseteq Before[x],
           NEW k \in 0 .. Cardinality(S) - 1
    PROVE  \E x \in S : Cardinality(Before[x]) = k
<1> DEFINE n == Cardinality(S)
           rank == [x \in S |-> Cardinality(Before[x])]
           Ranks == 0 .. n - 1
<1>1. n \in Nat
  BY FS_CardinalityType
<1>2. ASSUME NEW x \in S
      PROVE  /\ IsFiniteSet(Before[x]) /\ Cardinality(Before[x]) \in Ranks
             /\ Cardinality(Before[x] \union {x}) = Cardinality(Before[x]) + 1
  <2>1. IsFiniteSet(Before[x])
    BY FS_Subset
  <2>2. Cardinality(Before[x]) \in Nat
    BY <2>1, FS_CardinalityType
  <2>3. /\ IsFiniteSet(Before[x] \union {x})
        /\ Cardinality(Before[x] \union {x}) = Cardinality(Before[x]) + 1
    BY <2>1, FS_AddElement
  <2>4. Cardinality(Before[x] \union {x}) <= n
    <3>1. Before[x] \union {x} \in SUBSET S
      OBVIOUS
    <3> QED BY <3>1, FS_Subset
  <2> QED BY <1>1, <2>1, <2>2, <2>3, <2>4
<1> HIDE DEF n, Ranks
<1>3. ASSUME NEW x \in S, NEW y \in S, Before[x] \union {x} \subseteq Before[y]
      PROVE  Cardinality(Before[x]) < Cardinality(Before[y])
  <2>1. Cardinality(Before[x] \union {x}) <= Cardinality(Before[y])
    BY <1>2, <1>3, FS_Subset
  <2>2. /\ Cardinality(Before[x]) \in Int /\ Cardinality(Before[y]) \in Int
        /\ Cardinality(Before[x] \union {x}) = Cardinality(Before[x]) + 1
    <3>1. Ranks \subseteq Int
      BY <1>1 DEF Ranks
    <3>2. /\ Cardinality(Before[x]) \in Ranks /\ Cardinality(Before[y]) \in Ranks
          /\ Cardinality(Before[x] \union {x}) = Cardinality(Before[x]) + 1
      BY <1>2, Zenon
    <3> QED BY <3>1, <3>2
  <2> QED BY <2>1, <2>2
<1>4. rank \in Injection(S, Ranks)
  <2>1. rank \in [S -> Ranks] /\ \A x \in S : rank[x] = Cardinality(Before[x])
    BY <1>2
  <2> HIDE DEF rank
  <2>2. ASSUME NEW x \in S, NEW y \in S, x # y PROVE rank[x] # rank[y]
    <3>1. CASE Before[x] \union {x} \subseteq Before[y]
      BY <1>1, <1>2, <1>3, <2>1, <3>1 DEF Ranks
    <3>2. CASE Before[y] \union {y} \subseteq Before[x]
      BY <1>1, <1>2, <1>3, <2>1, <3>2 DEF Ranks
    <3> QED BY <2>2, <3>1, <3>2
  <2> QED BY <2>1, <2>2 DEF Injection, IsInjective
<1>5. IsFiniteSet(Ranks) /\ Cardinality(Ranks) = n
  BY <1>1, FS_Interval DEF Ranks
<1>6. rank \in Surjection(S, Ranks)
  <2>1. Cardinality(S) = Cardinality(Ranks)
    BY <1>5 DEF n
  <2> HIDE DEF rank
  <2> QED BY <1>4, <1>5, <2>1, FS_Injection
<1>7. PICK x \in S : rank[x] = k
  <2>1. k \in Ranks
    BY DEF Ranks, n
  <2> HIDE DEF rank
  <2> QED BY <1>6, <2>1 DEF Surjection
<1> QED BY <1>7

\* Only leaves the members of S, and repeats none if the list repeats none.
LEMMA OnlyKeeps ==
    ASSUME NEW T, NEW s \in Seq(T), NEW S
    PROVE  /\ Only(s, S) \in Seq(T)
           /\ \A k \in DOMAIN Only(s, S) :
                  Only(s, S)[k] \in S /\ \E i \in DOMAIN s : Only(s, S)[k] = s[i]
           /\ \A i \in DOMAIN s : s[i] \in S => \E k \in DOMAIN Only(s, S) : Only(s, S)[k] = s[i]
           /\ IsInjective(s) => IsInjective(Only(s, S))
<1> DEFINE I == {i \in DOMAIN s : s[i] \in S}
           n == Cardinality(I)
           Upto(i) == {j \in I : j <= i}
           Place(k) == CHOOSE i \in I : Cardinality(Upto(i)) = k
           Before == [i \in I |-> {j \in I : j < i}]
           p == [k \in 1 .. n |-> Place(k)]
<1>1. DOMAIN s = 1 .. Len(s) /\ Len(s) \in Nat /\ \A i \in DOMAIN s : s[i] \in T
  BY LenProperties, ElementOfSeq
<1>2. I \subseteq 1 .. Len(s) /\ IsFiniteSet(I) /\ n \in Nat /\ \A i \in I : i \in Int
  <2>1. I \subseteq 1 .. Len(s) /\ IsFiniteSet(1 .. Len(s))
    BY <1>1, FS_Interval
  <2> QED BY <2>1, FS_Subset, FS_CardinalityType
<1>3. Only(s, S) = [k \in 1 .. n |-> s[Place(k)]]
  BY DEF Only
<1>4. \A i \in I : s[i] \in T /\ s[i] \in S /\ i \in DOMAIN s
  BY <1>1
<1>5. \A i \in DOMAIN s : s[i] \in S => i \in I
  OBVIOUS
<1> HIDE DEF I
<1>6. ASSUME NEW i \in I
      PROVE  /\ IsFiniteSet(Upto(i)) /\ Cardinality(Upto(i)) \in 1 .. n
             /\ Cardinality(Before[i]) + 1 = Cardinality(Upto(i))
             /\ Cardinality(Before[i]) \in Nat
  <2>1. /\ Before[i] = {j \in I : j < i} /\ i \notin Before[i]
        /\ Upto(i) = Before[i] \union {i} /\ Before[i] \subseteq I /\ Upto(i) \subseteq I
    <3>1. Before[i] = {j \in I : j < i}
      OBVIOUS
    <3>2. \A j \in I : j <= i <=> j < i \/ j = i
      BY <1>2
    <3>3. ~(i < i)
      BY <1>2
    <3> HIDE DEF Before
    <3> QED BY <3>1, <3>2, <3>3
  <2> HIDE DEF Before, Upto
  <2>2. IsFiniteSet(Before[i]) /\ IsFiniteSet(Upto(i))
    BY <1>2, <2>1, FS_Subset
  <2>3. Cardinality(Upto(i)) = Cardinality(Before[i]) + 1
    BY <2>1, <2>2, FS_AddElement
  <2>4. Cardinality(Upto(i)) <= n /\ Cardinality(Before[i]) \in Nat
    BY <1>2, <2>1, <2>2, FS_Subset, FS_CardinalityType
  <2> HIDE DEF n
  <2> QED BY <1>2, <2>2, <2>3, <2>4
<1>7. ASSUME NEW k \in 1 .. n
      PROVE  Place(k) \in I /\ Cardinality(Upto(Place(k))) = k
  <2>1. /\ Before \in [I -> SUBSET I] /\ \A i \in I : Before[i] = {j \in I : j < i}
    OBVIOUS
  <2>2. \A i \in I : i \notin Before[i]
    BY <1>2, <2>1
  <2>3. \A i, j \in I : i # j => \/ Before[i] \union {i} \subseteq Before[j]
                                \/ Before[j] \union {j} \subseteq Before[i]
    <3> SUFFICES ASSUME NEW i \in I, NEW j \in I, i # j
                 PROVE  \/ Before[i] \union {i} \subseteq Before[j]
                        \/ Before[j] \union {j} \subseteq Before[i]
      OBVIOUS
    <3>1. i < j \/ j < i
      BY <1>2
    <3>2. \A x, y, z \in I : x < y /\ y < z => x < z
      BY <1>2
    <3> HIDE DEF Before
    <3> QED BY <2>1, <3>1, <3>2
  <2>4. k - 1 \in 0 .. Cardinality(I) - 1
    BY <1>2
  <2> HIDE DEF Before, n, Upto
  <2>5. PICK i \in I : Cardinality(Before[i]) = k - 1
    <3>1. /\ IsFiniteSet(I) /\ Before \in [I -> SUBSET I]
          /\ \A x \in I : x \notin Before[x]
      BY <1>2, <2>1, <2>2
    <3>2. \E i \in I : Cardinality(Before[i]) = k - 1
      BY <2>3, <2>4, <3>1, EveryRankTaken
    <3> QED BY <3>2
  <2>6. Cardinality(Upto(i)) = k
    BY <1>2, <1>6, <2>5
  <2> QED BY <2>6
<1>8. \A i, j \in I : Cardinality(Upto(i)) = Cardinality(Upto(j)) => i = j
  <2>1. ASSUME NEW i \in I, NEW j \in I, i < j
        PROVE  Cardinality(Upto(i)) < Cardinality(Upto(j))
    <3>0. Before[j] = {k \in I : k < j}
      OBVIOUS
    <3>1. Upto(i) \subseteq Before[j] /\ Before[j] \subseteq Upto(j)
      <4>1. \A k \in I : (k <= i => k < j) /\ (k < j => k <= j)
        BY <1>2, <2>1
      <4> HIDE DEF Before
      <4> QED BY <3>0, <4>1
    <3> HIDE DEF Upto, Before
    <3>2. IsFiniteSet(Before[j])
      BY <1>6, <3>1, FS_Subset
    <3>3. Cardinality(Upto(i)) <= Cardinality(Before[j])
      BY <3>1, <3>2, FS_Subset
    <3>4. Cardinality(Upto(i)) \in Nat
      BY <1>6, FS_CardinalityType
    <3> HIDE DEF n
    <3> QED BY <1>6, <3>3, <3>4
  <2>2. \A i \in I : Cardinality(Upto(i)) \in Nat
    BY <1>6, FS_CardinalityType
  <2> SUFFICES ASSUME NEW i \in I, NEW j \in I, Cardinality(Upto(i)) = Cardinality(Upto(j)), i # j
               PROVE  FALSE
    OBVIOUS
  <2>3. i < j \/ j < i
    BY <1>2
  <2> HIDE DEF Upto
  <2> QED BY <2>1, <2>2, <2>3
<1> HIDE DEF Place, Upto, n
<1>9. /\ p \in [1 .. n -> I] /\ \A k \in 1 .. n : p[k] = Place(k)
  BY <1>7
<1>10. Only(s, S) \in Seq(T) /\ Len(Only(s, S)) = n /\ \A k \in 1 .. n : Only(s, S)[k] = s[p[k]]
  <2>1. \A k \in 1 .. n : s[Place(k)] \in T
    BY <1>4, <1>7
  <2>2. Only(s, S) \in [1 .. n -> T]
    BY <1>3, <2>1
  <2>3. Only(s, S) \in Seq(T) /\ Len(Only(s, S)) = n
    BY <1>2, <2>2
  <2> QED BY <1>3, <1>9, <2>3
<1>11. \A k, l \in 1 .. n : p[k] = p[l] => k = l
  BY <1>7, <1>9
<1>12. \A i \in DOMAIN s : s[i] \in S => \E k \in 1 .. n : p[k] = i
  <2> SUFFICES ASSUME NEW i \in DOMAIN s, s[i] \in S PROVE \E k \in 1 .. n : p[k] = i
    OBVIOUS
  <2>1. i \in I
    BY <1>5
  <2>2. Cardinality(Upto(i)) \in 1 .. n
    BY <1>6, <2>1
  <2> QED BY <1>7, <1>8, <1>9, <2>1, <2>2
<1>13. \A k \in 1 .. n : p[k] \in DOMAIN s /\ s[p[k]] \in S
  BY <1>9 DEF I
<1> DEFINE t == Only(s, S)
<1>14. t \in Seq(T) /\ Len(t) = n /\ \A k \in 1 .. n : t[k] = s[p[k]]
  BY <1>10
<1> HIDE DEF p, t
<1>15. DOMAIN t = 1 .. n
  BY <1>14, LenProperties
<1>16. /\ \A k \in DOMAIN t : t[k] \in S /\ \E i \in DOMAIN s : t[k] = s[i]
       /\ \A i \in DOMAIN s : s[i] \in S => \E k \in DOMAIN t : t[k] = s[i]
  <2>1. ASSUME NEW k \in DOMAIN t PROVE t[k] \in S /\ \E i \in DOMAIN s : t[k] = s[i]
    BY <1>13, <1>14, <1>15
  <2>2. ASSUME NEW i \in DOMAIN s, s[i] \in S PROVE \E k \in DOMAIN t : t[k] = s[i]
    <3>1. PICK k \in 1 .. n : p[k] = i
      BY <1>12, <2>2
    <3> QED BY <1>14, <1>15, <3>1
  <2> QED BY <2>1, <2>2
<1>17. ASSUME IsInjective(s) PROVE IsInjective(t)
  <2> SUFFICES ASSUME NEW k \in 1 .. n, NEW l \in 1 .. n, t[k] = t[l] PROVE k = l
    BY <1>15 DEF IsInjective
  <2>1. s[p[k]] = s[p[l]] /\ p[k] \in DOMAIN s /\ p[l] \in DOMAIN s
    BY <1>13, <1>14
  <2>2. p[k] = p[l]
    BY <1>17, <2>1 DEF IsInjective
  <2> QED BY <1>11, <2>2
<1> QED BY <1>14, <1>16, <1>17 DEF t

=============================================================================
