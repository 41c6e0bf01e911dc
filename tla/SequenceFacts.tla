---------------------------- MODULE SequenceFacts ----------------------------
(***************************************************************************)
(* Facts about sequences and natural numbers on which the proofs about     *)
(* several components rest.                                                *)
(***************************************************************************)
EXTENDS Integers, SequencesExt, SequenceTheorems, FiniteSetTheorems,
        WellFoundedInduction, TLAPS

\* A nonempty set of naturals has a least element.
LEMMA LeastNat ==
    ASSUME NEW T, T \subseteq Nat, T # {}
    PROVE  \E x \in T : \A y \in T : x <= y
<1>1. IsWellFoundedOn(OpToRel(<, Nat), Nat)
  BY NatLessThanWellFounded
<1>2. PICK x \in T : \A y \in T : ~ (<<y, x>> \in OpToRel(<, Nat))
  BY <1>1, WFMin, Zenon
<1>3. \A y \in T : ~ (y < x)
  BY <1>2 DEF OpToRel
<1>. QED
  BY <1>3

\* What RemoveAt returns, element by element.
LEMMA RemoveAtProps ==
    ASSUME NEW S, NEW s \in Seq(S), NEW i \in 1 .. Len(s)
    PROVE  /\ RemoveAt(s, i) \in Seq(S)
           /\ Len(RemoveAt(s, i)) = Len(s) - 1
           /\ \A k \in 1 .. (Len(s) - 1) :
                  RemoveAt(s, i)[k] = IF k < i THEN s[k] ELSE s[k + 1]
<1>. DEFINE l == SubSeq(s, 1, i - 1)
            r == SubSeq(s, i + 1, Len(s))
<1>. Len(s) \in Nat /\ \A k \in 1 .. Len(s) : s[k] \in S
  OBVIOUS
<1>1. /\ l \in Seq(S) /\ Len(l) = i - 1
      /\ \A k \in 1 .. (i - 1) : l[k] = s[k]
  BY SubSeqProperties
<1>2. /\ r \in Seq(S) /\ Len(r) = Len(s) - i
      /\ \A k \in 1 .. (Len(s) - i) : r[k] = s[i + k]
  BY SubSeqProperties
<1>. HIDE DEF l, r
<1>3. /\ l \o r \in Seq(S) /\ Len(l \o r) = Len(s) - 1
      /\ \A k \in 1 .. (Len(s) - 1) :
             (l \o r)[k] = IF k <= i - 1 THEN l[k] ELSE r[k - (i - 1)]
  <2>1. /\ l \o r \in Seq(S) /\ Len(l \o r) = Len(l) + Len(r)
        /\ \A k \in 1 .. (Len(l) + Len(r)) :
               (l \o r)[k] = IF k <= Len(l) THEN l[k] ELSE r[k - Len(l)]
    BY <1>1, <1>2, ConcatProperties
  <2>2. Len(l) + Len(r) = Len(s) - 1
    BY <1>1, <1>2
  <2>. QED
    BY <2>1, <2>2, <1>1
<1>4. ASSUME NEW k \in 1 .. (Len(s) - 1)
      PROVE  (l \o r)[k] = IF k < i THEN s[k] ELSE s[k + 1]
  <2>1. CASE k < i
    BY <2>1, <1>1, <1>3
  <2>2. CASE ~ (k < i)
    <3>1. k - (i - 1) \in 1 .. (Len(s) - i) /\ i + (k - (i - 1)) = k + 1
      BY <2>2
    <3>. QED
      BY <2>2, <3>1, <1>2, <1>3
  <2>. QED
    BY <2>1, <2>2
<1>. QED
  BY <1>3, <1>4 DEF RemoveAt, l, r

\* What InsertAt returns, element by element.
LEMMA InsertAtProps ==
    ASSUME NEW S, NEW s \in Seq(S), NEW i \in 1 .. (Len(s) + 1), NEW e \in S
    PROVE  /\ InsertAt(s, i, e) \in Seq(S)
           /\ Len(InsertAt(s, i, e)) = Len(s) + 1
           /\ \A k \in 1 .. (Len(s) + 1) :
                  InsertAt(s, i, e)[k] = IF k < i THEN s[k]
                                         ELSE IF k = i THEN e ELSE s[k - 1]
<1>. DEFINE l == SubSeq(s, 1, i - 1)
            r == SubSeq(s, i, Len(s))
            m == l \o <<e>>
<1>. Len(s) \in Nat /\ \A k \in 1 .. Len(s) : s[k] \in S
  OBVIOUS
<1>1. /\ l \in Seq(S) /\ Len(l) = i - 1
      /\ \A k \in 1 .. (i - 1) : l[k] = s[k]
  BY SubSeqProperties
<1>2. /\ r \in Seq(S) /\ Len(r) = Len(s) - i + 1
      /\ \A k \in 1 .. (Len(s) - i + 1) : r[k] = s[i + k - 1]
  BY SubSeqProperties
<1>. HIDE DEF l, r
<1>3. <<e>> \in Seq(S) /\ Len(<<e>>) = 1 /\ <<e>>[1] = e
  OBVIOUS
<1>4. /\ m \in Seq(S) /\ Len(m) = i
      /\ \A k \in 1 .. i : m[k] = IF k < i THEN s[k] ELSE e
  <2>1. /\ m \in Seq(S) /\ Len(m) = i
        /\ \A k \in 1 .. i : m[k] = IF k <= i - 1 THEN l[k] ELSE <<e>>[k - (i - 1)]
    BY <1>1, <1>3, ConcatProperties
  <2>. QED
    BY <2>1, <1>1, <1>3
<1>. HIDE DEF m
<1>5. /\ m \o r \in Seq(S) /\ Len(m \o r) = Len(s) + 1
      /\ \A k \in 1 .. (Len(s) + 1) :
             (m \o r)[k] = IF k <= i THEN m[k] ELSE r[k - i]
  <2>1. /\ m \o r \in Seq(S) /\ Len(m \o r) = Len(m) + Len(r)
        /\ \A k \in 1 .. (Len(m) + Len(r)) :
               (m \o r)[k] = IF k <= Len(m) THEN m[k] ELSE r[k - Len(m)]
    BY <1>4, <1>2, ConcatProperties
  <2>2. Len(m) + Len(r) = Len(s) + 1
    BY <1>4, <1>2
  <2>. QED
    BY <2>1, <2>2, <1>4
<1>6. ASSUME NEW k \in 1 .. (Len(s) + 1)
      PROVE  (m \o r)[k] = IF k < i THEN s[k] ELSE IF k = i THEN e ELSE s[k - 1]
  <2>1. CASE k <= i
    BY <2>1, <1>4, <1>5
  <2>2. CASE ~ (k <= i)
    <3>1. k - i \in 1 .. (Len(s) - i + 1) /\ i + (k - i) - 1 = k - 1
      BY <2>2
    <3>. QED
      BY <2>2, <3>1, <1>2, <1>5
  <2>. QED
    BY <2>1, <2>2
<1>. QED
  BY <1>5, <1>6 DEF InsertAt, l, r, m

-----------------------------------------------------------------------------
(* Bags of sequences *)

\* A set that is mapped one to one onto another has as many elements.
LEMMA SameCount ==
    ASSUME NEW A, IsFiniteSet(A), NEW B, NEW p \in [A -> B],
           \A x, y \in A : p[x] = p[y] => x = y,
           \A z \in B : \E x \in A : p[x] = z
    PROVE  IsFiniteSet(B) /\ Cardinality(B) = Cardinality(A)
<1>1. p \in Bijection(A, B)
  BY DEF Bijection, Injection, Surjection, IsInjective
<1>2. ExistsBijection(A, B)
  BY <1>1 DEF ExistsBijection
<1>. QED
  BY <1>2, FS_Bijection

\* The places of an element in a sequence.
Places(s, x) == {i \in DOMAIN s : s[i] = x}

LEMMA PlacesFinite ==
    ASSUME NEW S, NEW s \in Seq(S), NEW x
    PROVE  /\ Places(s, x) \subseteq 1 .. Len(s)
           /\ IsFiniteSet(Places(s, x)) /\ Cardinality(Places(s, x)) \in Nat
           /\ Cardinality(Places(s, x)) = 0 <=> x \notin Range(s)
<1>1. Places(s, x) \subseteq 1 .. Len(s) /\ DOMAIN s = 1 .. Len(s) /\ Len(s) \in Nat
  BY DEF Places
<1>2. IsFiniteSet(1 .. Len(s))
  BY <1>1, FS_Interval
<1>3. IsFiniteSet(Places(s, x))
  BY <1>1, <1>2, FS_Subset
<1>4. Places(s, x) = {} <=> x \notin Range(s)
  BY DEF Places, Range
<1>. QED
  BY <1>1, <1>3, <1>4, FS_EmptySet, FS_CardinalityType

\* Two sequences with as many places for each element have the same bag.
LEMMA BagEqual ==
    ASSUME NEW S, NEW s \in Seq(S), NEW T, NEW t \in Seq(T),
           \A x : Cardinality(Places(s, x)) = Cardinality(Places(t, x))
    PROVE  ToBag(s) = ToBag(t)
<1>1. \A x : x \in Range(s) <=> x \in Range(t)
  BY PlacesFinite
<1>2. Range(s) = Range(t)
  BY <1>1
<1>. QED
  BY <1>2 DEF ToBag, Places

\* Elements in another order: the same bag.
LEMMA BagOfPermutation ==
    ASSUME NEW S, NEW s \in Seq(S), NEW T, NEW t \in Seq(T), Len(t) = Len(s),
           NEW p \in [1 .. Len(s) -> 1 .. Len(s)],
           \A i, j \in 1 .. Len(s) : p[i] = p[j] => i = j,
           \A k \in 1 .. Len(s) : \E i \in 1 .. Len(s) : p[i] = k,
           \A i \in 1 .. Len(s) : t[i] = s[p[i]]
    PROVE  ToBag(t) = ToBag(s)
<1>1. ASSUME NEW x PROVE Cardinality(Places(t, x)) = Cardinality(Places(s, x))
  <2>. DEFINE A == Places(t, x)
              B == Places(s, x)
  <2>1. IsFiniteSet(A)
    BY PlacesFinite
  <2>2. A = {i \in 1 .. Len(s) : t[i] = x} /\ B = {i \in 1 .. Len(s) : s[i] = x}
    BY DEF Places
  <2>. HIDE DEF A, B
  <2>3. \A y \in A : p[y] \in B
    BY <2>2
  <2>4. \A y, z \in A : p[y] = p[z] => y = z
    BY <2>2
  <2>5. ASSUME NEW z \in B PROVE \E y \in A : p[y] = z
    <3>1. PICK y \in 1 .. Len(s) : p[y] = z
      BY <2>2
    <3>. QED
      BY <3>1, <2>2
  <2>. DEFINE q == [y \in A |-> p[y]]
  <2>6. q \in [A -> B] /\ \A y \in A : q[y] = p[y]
    BY <2>3
  <2>. HIDE DEF q
  <2>7. /\ \A y, z \in A : q[y] = q[z] => y = z
        /\ \A z \in B : \E y \in A : q[y] = z
    BY <2>4, <2>5, <2>6
  <2>8. Cardinality(B) = Cardinality(A)
    BY <2>1, <2>6, <2>7, SameCount
  <2>. QED
    BY <2>8 DEF A, B
<1>. QED
  BY <1>1, BagEqual

\* The bag of a sequence and of that with another element.
LEMMA BagOfAppend ==
    ASSUME NEW S, NEW s \in Seq(S), NEW e \in S
    PROVE  ToBag(Append(s, e)) = ToBag(s) (+) SetToBag({e})
<1>. DEFINE t == Append(s, e)
<1>1. /\ t \in Seq(S) /\ Len(t) = Len(s) + 1 /\ Len(s) \in Nat
      /\ DOMAIN t = 1 .. (Len(s) + 1) /\ DOMAIN s = 1 .. Len(s)
      /\ \A i \in 1 .. (Len(s) + 1) : t[i] = IF i <= Len(s) THEN s[i] ELSE e
  OBVIOUS
<1>. HIDE DEF t
<1>2. Range(t) = Range(s) \cup {e}
  BY <1>1 DEF Range
<1>3. ASSUME NEW x, x # e PROVE Places(t, x) = Places(s, x)
  BY <1>1, <1>3 DEF Places
<1>4. Cardinality(Places(t, e)) = Cardinality(Places(s, e)) + 1
  <2>1. Places(t, e) = Places(s, e) \cup {Len(s) + 1} /\ Len(s) + 1 \notin Places(s, e)
    BY <1>1 DEF Places
  <2>. QED
    BY <2>1, PlacesFinite, FS_AddElement
<1>5. ToBag(t) = [x \in Range(s) \cup {e} |-> Cardinality(Places(t, x))]
  BY <1>2 DEF ToBag, Places
<1>6. ToBag(s) = [x \in Range(s) |-> Cardinality(Places(s, x))]
  BY DEF ToBag, Places
<1>7. DOMAIN ToBag(s) = Range(s)
  BY <1>6
<1>8. ASSUME NEW x \in Range(s) \cup {e}
      PROVE  Cardinality(Places(t, x)) = (IF x \in Range(s) THEN ToBag(s)[x] ELSE 0)
                                         + (IF x \in {e} THEN 1 ELSE 0)
  <2>1. \A y \in Range(s) : ToBag(s)[y] = Cardinality(Places(s, y))
    BY <1>6
  <2>2. Cardinality(Places(s, x)) \in Nat
        /\ (Cardinality(Places(s, x)) = 0 <=> x \notin Range(s))
    BY PlacesFinite
  <2>. QED
    BY <2>1, <2>2, <1>3, <1>4
<1>9. ToBag(s) (+) SetToBag({e})
        = [x \in Range(s) \cup {e} |-> (IF x \in Range(s) THEN ToBag(s)[x] ELSE 0)
                                      + (IF x \in {e} THEN 1 ELSE 0)]
  BY <1>7 DEF (+), SetToBag
<1>. QED
  BY <1>5, <1>8, <1>9 DEF t

\* The bag of a sequence and of that without one of its elements.
LEMMA BagOfRemoval ==
    ASSUME NEW S, NEW s \in Seq(S), NEW i \in 1 .. Len(s)
    PROVE  ToBag(RemoveAt(s, i)) = ToBag(s) (-) SetToBag({s[i]})
<1>. DEFINE t == RemoveAt(s, i)
            e == s[i]
<1>1. /\ t \in Seq(S) /\ Len(t) = Len(s) - 1 /\ Len(s) \in Nat
      /\ \A k \in 1 .. (Len(s) - 1) : t[k] = IF k < i THEN s[k] ELSE s[k + 1]
  BY RemoveAtProps
<1>. HIDE DEF t
<1>2. DOMAIN t = 1 .. (Len(s) - 1) /\ DOMAIN s = 1 .. Len(s)
  BY <1>1
<1>. HIDE DEF e
<1>3. ASSUME NEW x
      PROVE  Cardinality(Places(t, x)) = Cardinality(Places(s, x) \ {i})
  <2>. DEFINE A == Places(t, x)
              B == Places(s, x) \ {i}
              q == [k \in A |-> IF k < i THEN k ELSE k + 1]
  <2>1. IsFiniteSet(A)
    BY <1>1, PlacesFinite
  <2>2. /\ A = {k \in 1 .. (Len(s) - 1) : t[k] = x}
        /\ B = {k \in 1 .. Len(s) : s[k] = x /\ k # i}
    BY <1>2 DEF Places
  <2>. HIDE DEF A, B
  <2>3. q \in [A -> B]
    <3>1. ASSUME NEW k \in A PROVE (IF k < i THEN k ELSE k + 1) \in B
      BY <1>1, <2>2
    <3>. QED
      BY <3>1
  <2>4. ASSUME NEW k \in A PROVE q[k] = IF k < i THEN k ELSE k + 1
    OBVIOUS
  <2>. HIDE DEF q
  <2>5. \A k, m \in A : q[k] = q[m] => k = m
    BY <2>2, <2>4
  <2>6. ASSUME NEW z \in B PROVE \E k \in A : q[k] = z
    <3>. DEFINE k == IF z < i THEN z ELSE z - 1
    <3>1. z \in 1 .. Len(s) /\ s[z] = x /\ z # i
      BY <2>2
    <3>2. k \in 1 .. (Len(s) - 1) /\ (k < i <=> z < i) /\ (~ (z < i) => k + 1 = z)
      BY <3>1, <1>1
    <3>3. t[k] = x
      BY <3>1, <3>2, <1>1
    <3>4. k \in A
      BY <2>2, <3>2, <3>3
    <3>. QED
      BY <3>2, <3>4, <2>4
  <2>7. Cardinality(B) = Cardinality(A)
    BY <2>1, <2>3, <2>5, <2>6, SameCount
  <2>. QED
    BY <2>7 DEF A, B
<1>4. ASSUME NEW x
      PROVE  Cardinality(Places(t, x))
                 = Cardinality(Places(s, x)) - (IF x = e THEN 1 ELSE 0)
  <2>1. i \in Places(s, x) <=> x = e
    BY <1>2 DEF Places, e
  <2>2. IsFiniteSet(Places(s, x)) /\ Cardinality(Places(s, x)) \in Nat
    BY PlacesFinite
  <2>3. Cardinality(Places(s, x) \ {i})
            = IF i \in Places(s, x) THEN Cardinality(Places(s, x)) - 1
              ELSE Cardinality(Places(s, x))
    BY <2>2, FS_RemoveElement
  <2>. QED
    BY <2>1, <2>2, <2>3, <1>3
<1>5. ToBag(t) = [x \in Range(t) |-> Cardinality(Places(t, x))]
  BY DEF ToBag, Places
<1>6. ToBag(s) = [x \in Range(s) |-> Cardinality(Places(s, x))]
  BY DEF ToBag, Places
<1>7. \A x : /\ Cardinality(Places(s, x)) \in Nat /\ Cardinality(Places(t, x)) \in Nat
             /\ Cardinality(Places(s, x)) = 0 <=> x \notin Range(s)
             /\ Cardinality(Places(t, x)) = 0 <=> x \notin Range(t)
  BY <1>1, PlacesFinite
<1>. DEFINE B == [x \in Range(s) |-> IF x \in {e} THEN ToBag(s)[x] - 1 ELSE ToBag(s)[x]]
<1>8. ToBag(s) (-) SetToBag({e}) = [x \in {d \in DOMAIN B : B[d] > 0} |-> B[x]]
  <2>1. DOMAIN ToBag(s) = Range(s) /\ DOMAIN SetToBag({e}) = {e}
        /\ \A x \in {e} : SetToBag({e})[x] = 1
    BY <1>6 DEF SetToBag
  <2>2. B = [x \in DOMAIN ToBag(s) |-> IF x \in DOMAIN SetToBag({e})
                                       THEN ToBag(s)[x] - SetToBag({e})[x]
                                       ELSE ToBag(s)[x]]
    BY <2>1
  <2>. QED
    BY <2>2 DEF (-)
<1>9. ASSUME NEW x \in Range(s) PROVE B[x] = Cardinality(Places(t, x))
  <2>1. ToBag(s)[x] = Cardinality(Places(s, x)) /\ Cardinality(Places(s, x)) \in Nat
    BY <1>6, <1>7
  <2>2. B[x] = IF x = e THEN ToBag(s)[x] - 1 ELSE ToBag(s)[x]
    OBVIOUS
  <2>. HIDE DEF B
  <2>. QED
    BY <2>1, <2>2, <1>4
<1>10. DOMAIN B = Range(s)
  OBVIOUS
<1>. HIDE DEF B
<1>11. {d \in DOMAIN B : B[d] > 0} = Range(t)
  <2>1. \A x \in Range(t) : x \in Range(s)
    BY <1>4, <1>7
  <2>. QED
    BY <2>1, <1>7, <1>9, <1>10
<1>12. \A x \in Range(t) : B[x] = Cardinality(Places(t, x))
  BY <1>9, <1>10, <1>11
<1>13. ToBag(t) = ToBag(s) (-) SetToBag({e})
  BY <1>5, <1>8, <1>11, <1>12
<1>. QED
  BY <1>13 DEF t, e

-----------------------------------------------------------------------------
(* Sorting by rank *)

\* The place of each key among the keys, equal ones in the order in which they
\* come, is a permutation that puts them in order.
LEMMA RankPermutes ==
    ASSUME NEW n \in Nat, NEW key, \A i \in 1 .. n : key[i] \in Int, NEW rank,
           \A i \in 1 .. n : rank[i] = Cardinality({j \in 1 .. n :
               key[j] < key[i] \/ (key[j] = key[i] /\ j <= i)})
    PROVE  /\ \A i \in 1 .. n : rank[i] \in 1 .. n
           /\ \A i, j \in 1 .. n : rank[i] = rank[j] => i = j
           /\ \A k \in 1 .. n : \E i \in 1 .. n : rank[i] = k
           /\ \A i, j \in 1 .. n : rank[i] < rank[j] => key[i] <= key[j]
<1>. DEFINE Upto(i) == {j \in 1 .. n : key[j] < key[i] \/ (key[j] = key[i] /\ j <= i)}
            Before(i, j) == key[i] < key[j] \/ (key[i] = key[j] /\ i < j)
<1>1. IsFiniteSet(1 .. n) /\ Cardinality(1 .. n) = n
  BY FS_Interval
<1>2. ASSUME NEW i \in 1 .. n
      PROVE  /\ IsFiniteSet(Upto(i)) /\ rank[i] = Cardinality(Upto(i))
             /\ rank[i] \in 1 .. n
  <2>1. Upto(i) \in SUBSET (1 .. n) /\ i \in Upto(i)
    OBVIOUS
  <2>2. rank[i] = Cardinality(Upto(i))
    OBVIOUS
  <2>. HIDE DEF Upto
  <2>3. IsFiniteSet(Upto(i)) /\ Cardinality(Upto(i)) <= n
    BY <1>1, <2>1, FS_Subset
  <2>4. Cardinality(Upto(i)) \in Nat /\ Cardinality(Upto(i)) # 0
    BY <2>1, <2>3, FS_CardinalityType, FS_EmptySet
  <2>. QED
    BY <2>2, <2>3, <2>4
<1>3. ASSUME NEW i \in 1 .. n, NEW j \in 1 .. n, Before(i, j)
      PROVE  rank[i] < rank[j]
  <2>1. Upto(i) \in SUBSET Upto(j)
    BY <1>3
  <2>2. j \in Upto(j) /\ j \notin Upto(i)
    BY <1>3
  <2>3. /\ IsFiniteSet(Upto(i)) /\ IsFiniteSet(Upto(j))
        /\ rank[i] = Cardinality(Upto(i)) /\ rank[j] = Cardinality(Upto(j))
        /\ rank[i] \in Int /\ rank[j] \in Int
    BY <1>2
  <2>. HIDE DEF Upto
  <2>4. /\ Cardinality(Upto(i)) <= Cardinality(Upto(j))
        /\ Cardinality(Upto(i)) # Cardinality(Upto(j))
    BY <2>1, <2>2, <2>3, FS_Subset
  <2>. QED
    BY <2>3, <2>4
<1>4. \A i, j \in 1 .. n : i = j \/ Before(i, j) \/ Before(j, i)
  OBVIOUS
<1>5. \A i, j \in 1 .. n : Before(i, j) => key[i] <= key[j]
  OBVIOUS
<1>. HIDE DEF Before, Upto
<1>6. \A i, j \in 1 .. n : rank[i] = rank[j] => i = j
  <2>1. \A i \in 1 .. n : rank[i] \in Int
    BY <1>2
  <2>. QED
    BY <2>1, <1>3, <1>4
<1>7. \A i, j \in 1 .. n : rank[i] < rank[j] => key[i] <= key[j]
  <2>. SUFFICES ASSUME NEW i \in 1 .. n, NEW j \in 1 .. n, rank[i] < rank[j]
                PROVE  key[i] <= key[j]
    OBVIOUS
  <2>1. rank[i] \in Int /\ rank[j] \in Int
    BY <1>2
  <2>2. ~ Before(j, i)
    BY <2>1, <1>3
  <2>3. CASE i = j
    BY <2>3
  <2>. QED
    BY <2>2, <2>3, <1>4, <1>5
<1>8. \A k \in 1 .. n : \E i \in 1 .. n : rank[i] = k
  <2>. DEFINE f == [i \in 1 .. n |-> rank[i]]
  <2>1. f \in Injection(1 .. n, 1 .. n)
    BY <1>2, <1>6 DEF Injection, IsInjective
  <2>2. f \in Surjection(1 .. n, 1 .. n)
    BY <2>1, <1>1, FS_Injection
  <2>3. \A k \in 1 .. n : \E i \in 1 .. n : f[i] = k
    BY <2>2 DEF Surjection
  <2>. QED
    BY <2>3
<1>. QED
  BY <1>2, <1>6, <1>7, <1>8

\* A function defined by recursion over 0 .. n exists.
Recursion(n, S, base, step, f) ==
    /\ f \in [0 .. n -> S]
    /\ \A i \in 0 .. n : f[i] = IF i = 0 THEN base ELSE step[<<i, f[i - 1]>>]

LEMMA RecursionExists ==
    ASSUME NEW n \in Nat, NEW S, NEW base \in S, NEW step \in [(1 .. n) \X S -> S]
    PROVE  \E f : Recursion(n, S, base, step, f)
<1>. DEFINE Upto(m, f) ==
                \A i \in 0 .. m : f[i] = IF i = 0 THEN base ELSE step[<<i, f[i - 1]>>]
            T == {m \in 0 .. n : ~ \E f \in [0 .. m -> S] : Upto(m, f)}
<1>1. T = {}
  <2>. SUFFICES ASSUME T # {} PROVE FALSE
    OBVIOUS
  <2>1. T \subseteq Nat
    OBVIOUS
  <2>2. PICK m \in T : \A y \in T : m <= y
    <3>. HIDE DEF T
    <3>. QED
      BY <2>1, LeastNat
  <2>3. m \in 0 .. n /\ ~ \E f \in [0 .. m -> S] : Upto(m, f)
    BY <2>2
  <2>4. CASE m = 0
    <3>. DEFINE f == [i \in 0 .. 0 |-> base]
    <3>1. f \in [0 .. 0 -> S]
      OBVIOUS
    <3>2. \A i \in 0 .. 0 : i = 0 /\ f[i] = base
      OBVIOUS
    <3>. HIDE DEF f
    <3>3. Upto(0, f)
      BY <3>2
    <3>. HIDE DEF Upto
    <3>. QED
      BY <2>3, <2>4, <3>1, <3>3
  <2>5. CASE m # 0
    <3>1. m - 1 \in 0 .. n /\ ~ (m <= m - 1) /\ m \in 1 .. n
      BY <2>3, <2>5
    <3>2. m - 1 \notin T
      <4>. HIDE DEF T
      <4>. QED
        BY <2>2, <3>1
    <3>3. PICK g \in [0 .. (m - 1) -> S] : Upto(m - 1, g)
      <4>. HIDE DEF Upto
      <4>. QED
        BY <3>1, <3>2
    <3>. DEFINE f == [i \in 0 .. m |-> IF i = m THEN step[<<m, g[m - 1]>>] ELSE g[i]]
    <3>4. m - 1 \in 0 .. (m - 1) /\ g[m - 1] \in S
      BY <3>1, <3>3
    <3>5. step[<<m, g[m - 1]>>] \in S
      BY <3>1, <3>4
    <3>6. f \in [0 .. m -> S]
      <4>1. \A i \in 0 .. m : i # m => i \in 0 .. (m - 1)
        BY <3>1
      <4>. QED
        BY <4>1, <3>3, <3>5
    <3>7. /\ f[m] = step[<<m, g[m - 1]>>]
          /\ \A i \in 0 .. (m - 1) : f[i] = g[i]
      BY <3>1
    <3>. HIDE DEF f
    <3>8. Upto(m, f)
      <4>. SUFFICES ASSUME NEW i \in 0 .. m
                    PROVE  f[i] = IF i = 0 THEN base ELSE step[<<i, f[i - 1]>>]
        OBVIOUS
      <4>1. CASE i = m
        BY <4>1, <2>5, <3>1, <3>4, <3>7
      <4>2. CASE i # m
        <5>1. i \in 0 .. (m - 1) /\ (i # 0 => i - 1 \in 0 .. (m - 1))
          BY <4>2, <3>1
        <5>2. g[i] = IF i = 0 THEN base ELSE step[<<i, g[i - 1]>>]
          BY <5>1, <3>3
        <5>3. f[i] = g[i] /\ (i # 0 => f[i - 1] = g[i - 1])
          BY <5>1, <3>7
        <5>. QED
          BY <5>2, <5>3
      <4>. QED
        BY <4>1, <4>2
    <3>. HIDE DEF Upto
    <3>. QED
      BY <2>3, <3>6, <3>8
  <2>. QED
    BY <2>4, <2>5
<1>2. n \in 0 .. n
  OBVIOUS
<1>3. \E f \in [0 .. n -> S] : Upto(n, f)
  <2>. HIDE DEF Upto
  <2>. QED
    BY <1>1, <1>2
<1>. QED
  BY <1>3 DEF Recursion
=============================================================================
