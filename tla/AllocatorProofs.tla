--------------------------- MODULE AllocatorProofs ---------------------------
(***************************************************************************)
(* Proofs about Allocator, for every initial offset, every set of sizes    *)
(* and every bound: the free list stays sorted, coalesced and below the    *)
(* end of the file, no address is ever both free and held, none is lost,   *)
(* and the allocator implements SpaceManager.                              *)
(***************************************************************************)
EXTENDS Allocator, SequenceFacts

-----------------------------------------------------------------------------
(* Free lists *)

\* Address x is in some block of fl.
Covers(fl, x) == \E i \in 1 .. Len(fl) : fl[i].offset <= x /\ x < End(fl[i])

\* Blocks are nonempty, sorted and apart, except that a block whose index is
\* in E may touch the block after it.
NearlyApart(fl, E) ==
    /\ \A i \in 1 .. Len(fl) : fl[i].size > 0
    /\ \A i, j \in 1 .. Len(fl) :
           i < j => \/ End(fl[i]) < fl[j].offset
                    \/ i \in E /\ j = i + 1 /\ End(fl[i]) = fl[j].offset

\* Blocks are nonempty, sorted and apart.
Apart(fl) ==
    /\ \A i \in 1 .. Len(fl) : fl[i].size > 0
    /\ \A i, j \in 1 .. Len(fl) : i < j => End(fl[i]) < fl[j].offset

\* Every block starts at lo or later and ends before hi.
Within(fl, lo, hi) ==
    \A i \in 1 .. Len(fl) : lo <= fl[i].offset /\ End(fl[i]) < hi

\* The arithmetic of blocks.
LEMMA BlockFacts ==
    \A b \in Block : /\ b.offset \in Nat /\ b.size \in Nat /\ End(b) \in Nat
                     /\ End(b) = b.offset + b.size
BY DEF Block, End

\* The same for the blocks of a list.
LEMMA ListFacts ==
    ASSUME NEW fl \in Seq(Block)
    PROVE  /\ Len(fl) \in Nat
           /\ \A k \in 1 .. Len(fl) :
                  /\ fl[k] \in Block
                  /\ fl[k].offset \in Nat /\ fl[k].size \in Nat
                  /\ End(fl[k]) \in Nat
                  /\ End(fl[k]) = fl[k].offset + fl[k].size
<1>1. Len(fl) \in Nat /\ \A k \in 1 .. Len(fl) : fl[k] \in Block
  OBVIOUS
<1>. QED
  BY <1>1, BlockFacts

\* sort.Search finds its place.
LEMMA InsertIdxProps ==
    ASSUME NEW fl \in Seq(Block), NEW o \in Nat
    PROVE  /\ InsertIdx(fl, o) \in 1 .. (Len(fl) + 1)
           /\ \A j \in 1 .. (InsertIdx(fl, o) - 1) : fl[j].offset < o
           /\ InsertIdx(fl, o) <= Len(fl) => fl[InsertIdx(fl, o)].offset >= o
<1>. DEFINE T == {i \in 1 .. Len(fl) : fl[i].offset >= o}
<1>. Len(fl) \in Nat /\ \A k \in 1 .. Len(fl) : fl[k].offset \in Nat
  BY ListFacts
<1>1. \E i \in 1 .. (Len(fl) + 1) :
          /\ \A j \in 1 .. (i - 1) : fl[j].offset < o
          /\ i <= Len(fl) => fl[i].offset >= o
  <2>1. CASE T = {}
    <3>1. \A j \in 1 .. Len(fl) : fl[j].offset < o
      BY <2>1
    <3>. WITNESS Len(fl) + 1 \in 1 .. (Len(fl) + 1)
    <3>. QED
      BY <3>1
  <2>2. CASE T # {}
    <3>0. T \subseteq Nat
      OBVIOUS
    <3>1. PICK i \in T : \A y \in T : i <= y
      <4>. HIDE DEF T
      <4>. QED
        BY <3>0, <2>2, LeastNat
    <3>2. \A j \in 1 .. (i - 1) : j \notin T /\ j \in 1 .. Len(fl)
      BY <3>1
    <3>. WITNESS i \in 1 .. (Len(fl) + 1)
    <3>. QED
      BY <3>1, <3>2
  <2>. QED
    BY <2>1, <2>2
<1>. QED
  BY <1>1 DEF InsertIdx

\* When a block is large enough, the best fit exists and is one of them.
LEMMA BestFitProps ==
    ASSUME NEW fl \in Seq(Block), NEW n \in Nat, Fits(fl, n) # {}
    PROVE  BestFit(fl, n) \in Fits(fl, n)
<1>. DEFINE F == Fits(fl, n)
            T == {fl[i].size : i \in F}
<1>. Len(fl) \in Nat /\ \A k \in 1 .. Len(fl) : fl[k].size \in Nat
  BY ListFacts
<1>. F \subseteq 1 .. Len(fl)
  BY DEF Fits
<1>. HIDE DEF F
<1>1. PICK m \in T : \A y \in T : m <= y
  <2>1. T \subseteq Nat /\ T # {}
    BY DEF F
  <2>. QED
    BY <2>1, LeastNat
<1>. DEFINE U == {i \in F : fl[i].size = m}
<1>2. PICK i \in U : \A y \in U : i <= y
  <2>1. PICK k \in F : m = fl[k].size
    BY <1>1
  <2>2. U \subseteq Nat
    <3>. U \subseteq F
      OBVIOUS
    <3>. HIDE DEF U
    <3>. QED
      OBVIOUS
  <2>3. k \in U
    BY <2>1
  <2>. HIDE DEF U
  <2>. QED
    BY <2>2, <2>3, LeastNat
<1>3. ASSUME NEW j \in F
      PROVE  \/ fl[i].size < fl[j].size
             \/ fl[i].size = fl[j].size /\ i <= j
  <2>1. i \in F /\ fl[i].size = m /\ fl[i].size \in Nat /\ fl[j].size \in Nat
    BY <1>2
  <2>2. m <= fl[j].size
    BY <1>1
  <2>3. fl[j].size = m => i <= j
    BY <1>2
  <2>. QED
    BY <2>1, <2>2, <2>3
<1>4. \E k \in F : \A j \in F : \/ fl[k].size < fl[j].size
                                \/ fl[k].size = fl[j].size /\ k <= j
  BY <1>2, <1>3
<1>. QED
  BY <1>4 DEF BestFit, F

\* Taking the front of a block removes exactly those addresses.
LEMMA TakeFrontProps ==
    ASSUME NEW fl \in Seq(Block), NEW i \in 1 .. Len(fl), NEW n \in Nat,
           0 < n, n <= fl[i].size, Apart(fl)
    PROVE  /\ TakeFront(fl, i, n) \in Seq(Block)
           /\ Apart(TakeFront(fl, i, n))
           /\ \A lo, hi \in Nat : Within(fl, lo, hi) =>
                                      Within(TakeFront(fl, i, n), lo, hi)
           /\ \A x \in Nat : Covers(TakeFront(fl, i, n), x) <=>
                  Covers(fl, x) /\ ~ (fl[i].offset <= x /\ x < fl[i].offset + n)
<1>. /\ Len(fl) \in Nat
     /\ \A k \in 1 .. Len(fl) : /\ fl[k].offset \in Nat /\ fl[k].size \in Nat
                               /\ End(fl[k]) = fl[k].offset + fl[k].size
                               /\ End(fl[k]) \in Nat
  BY ListFacts
<1>1. CASE fl[i].size = n
  <2>. DEFINE g == RemoveAt(fl, i)
  <2>1. /\ g \in Seq(Block) /\ Len(g) = Len(fl) - 1
        /\ \A k \in 1 .. (Len(fl) - 1) : g[k] = IF k < i THEN fl[k] ELSE fl[k + 1]
    BY RemoveAtProps
  <2>. HIDE DEF g
  <2>. DEFINE old(k) == IF k < i THEN k ELSE k + 1
  <2>o. \A k \in 1 .. Len(g) : old(k) \in 1 .. Len(fl) /\ g[k] = fl[old(k)]
    BY <2>1
  <2>m. \A p, q \in 1 .. Len(g) : p < q => old(p) < old(q)
    BY <2>1
  <2>. HIDE DEF old
  <2>2. Apart(g)
    BY <2>o, <2>m DEF Apart
  <2>3. \A lo, hi \in Nat : Within(fl, lo, hi) => Within(g, lo, hi)
    BY <2>o DEF Within
  <2>4. ASSUME NEW x \in Nat
        PROVE  Covers(g, x) <=>
                  Covers(fl, x) /\ ~ (fl[i].offset <= x /\ x < fl[i].offset + n)
    <3>1. ASSUME Covers(g, x)
          PROVE  Covers(fl, x) /\ ~ (fl[i].offset <= x /\ x < fl[i].offset + n)
      <4>1. PICK k \in 1 .. Len(g) : g[k].offset <= x /\ x < End(g[k])
        BY <3>1 DEF Covers
      <4>2. PICK j \in 1 .. Len(fl) : j # i /\ fl[j].offset <= x /\ x < End(fl[j])
        BY <4>1, <2>o DEF old
      <4>3. j < i => End(fl[j]) < fl[i].offset
        BY DEF Apart
      <4>4. i < j => End(fl[i]) < fl[j].offset
        BY DEF Apart
      <4>5. /\ fl[j].offset \in Nat /\ fl[i].offset \in Nat
            /\ End(fl[j]) \in Nat /\ End(fl[i]) = fl[i].offset + n
        BY <1>1
      <4>6. ~ (fl[i].offset <= x /\ x < fl[i].offset + n)
        BY <4>2, <4>3, <4>4, <4>5
      <4>. QED
        BY <4>2, <4>6 DEF Covers
    <3>2. ASSUME Covers(fl, x), ~ (fl[i].offset <= x /\ x < fl[i].offset + n)
          PROVE  Covers(g, x)
      <4>1. PICK k \in 1 .. Len(fl) : fl[k].offset <= x /\ x < End(fl[k])
        BY <3>2 DEF Covers
      <4>2. CASE k < i
        <5>1. k \in 1 .. Len(g) /\ g[k] = fl[k]
          BY <4>2, <2>1
        <5>. QED
          BY <5>1, <4>1 DEF Covers
      <4>3. CASE k > i
        <5>1. k - 1 \in 1 .. (Len(fl) - 1) /\ g[k - 1] = fl[k]
          BY <4>3, <2>1
        <5>. QED
          BY <5>1, <4>1, <2>1 DEF Covers
      <4>4. CASE k = i
        BY <4>1, <4>4, <3>2, <1>1 DEF End
      <4>. QED
        BY <4>2, <4>3, <4>4
    <3>. QED
      BY <3>1, <3>2
  <2>. QED
    BY <1>1, <2>1, <2>2, <2>3, <2>4 DEF TakeFront, g
<1>2. CASE fl[i].size # n
  <2>. DEFINE c == [offset |-> fl[i].offset + n, size |-> fl[i].size - n]
              g == [fl EXCEPT ![i] = c]
  <2>1. /\ c \in Block /\ c.offset = fl[i].offset + n
        /\ c.offset \in Nat /\ c.size \in Nat /\ c.size > 0
        /\ End(c) = End(fl[i])
    <3>1. /\ fl[i].offset + n \in Nat /\ fl[i].size - n \in Nat
          /\ fl[i].size - n > 0
          /\ fl[i].offset + n + (fl[i].size - n) = fl[i].offset + fl[i].size
      BY <1>2
    <3>2. c.offset = fl[i].offset + n /\ c.size = fl[i].size - n /\ c \in Block
      BY <3>1 DEF Block
    <3>. QED
      BY <3>1, <3>2, BlockFacts
  <2>. HIDE DEF c
  <2>2. /\ g \in Seq(Block) /\ Len(g) = Len(fl)
        /\ \A k \in 1 .. Len(fl) : g[k] = IF k = i THEN c ELSE fl[k]
    BY <2>1
  <2>. HIDE DEF g
  <2>3. Apart(g)
    <3>1. ASSUME NEW p \in 1 .. Len(fl), NEW q \in 1 .. Len(fl), p < q
          PROVE  End(g[p]) < g[q].offset
      <4>1. /\ End(fl[p]) < fl[q].offset
            /\ fl[p].offset \in Nat /\ fl[p].size \in Nat
            /\ fl[q].offset \in Nat /\ fl[q].size \in Nat
            /\ End(fl[p]) = fl[p].offset + fl[p].size
        BY <3>1 DEF Apart
      <4>2. End(g[p]) = End(fl[p])
        BY <2>1, <2>2
      <4>4. g[q].offset >= fl[q].offset
        <5>1. CASE q = i
          BY <5>1, <4>1, <2>1, <2>2
        <5>2. CASE q # i
          BY <5>2, <4>1, <2>2
        <5>. QED
          BY <5>1, <5>2
      <4>3. g[q].offset \in Nat /\ End(fl[p]) \in Nat
        BY <2>1, <2>2, <4>1
      <4>. QED
        BY <4>1, <4>2, <4>3, <4>4
    <3>. QED
      BY <3>1, <2>1, <2>2 DEF Apart
  <2>4. \A lo, hi \in Nat : Within(fl, lo, hi) => Within(g, lo, hi)
    <3>1. ASSUME NEW lo \in Nat, NEW hi \in Nat, NEW k \in 1 .. Len(fl),
                 lo <= fl[k].offset /\ End(fl[k]) < hi
          PROVE  lo <= g[k].offset /\ End(g[k]) < hi
      <4>1. CASE k = i
        <5>1. fl[i].offset \in Nat /\ lo <= fl[i].offset + n
          BY <3>1, <4>1
        <5>. QED
          BY <3>1, <4>1, <5>1, <2>1, <2>2
      <4>2. CASE k # i
        BY <3>1, <4>2, <2>2
      <4>. QED
        BY <4>1, <4>2
    <3>. QED
      BY <3>1, <2>2 DEF Within
  <2>5. ASSUME NEW x \in Nat
        PROVE  Covers(g, x) <=>
                  Covers(fl, x) /\ ~ (fl[i].offset <= x /\ x < fl[i].offset + n)
    <3>1. ASSUME NEW k \in 1 .. Len(fl), k # i
          PROVE  ~ (/\ fl[k].offset <= x /\ x < End(fl[k])
                    /\ fl[i].offset <= x /\ x < End(fl[i]))
      <4>1. \/ k < i /\ End(fl[k]) < fl[i].offset
            \/ i < k /\ End(fl[i]) < fl[k].offset
        BY <3>1 DEF Apart
      <4>2. /\ fl[k].offset \in Nat /\ fl[i].offset \in Nat
            /\ End(fl[k]) \in Nat /\ End(fl[i]) \in Nat
        OBVIOUS
      <4>. QED
        BY <4>1, <4>2
    <3>2. /\ c.offset <= x /\ x < End(c) <=>
                 /\ fl[i].offset <= x /\ x < End(fl[i])
                 /\ ~ (fl[i].offset <= x /\ x < fl[i].offset + n)
          /\ fl[i].offset + n <= End(fl[i])
      BY <2>1
    <3>3. Covers(g, x) <=> \E k \in 1 .. Len(fl) :
              IF k = i THEN c.offset <= x /\ x < End(c)
                       ELSE fl[k].offset <= x /\ x < End(fl[k])
      BY <2>2 DEF Covers
    <3>4. Covers(g, x) => Covers(fl, x)
      BY <3>2, <3>3 DEF Covers
    <3>5. Covers(g, x) => ~ (fl[i].offset <= x /\ x < fl[i].offset + n)
      BY <3>1, <3>2, <3>3
    <3>6. Covers(fl, x) /\ ~ (fl[i].offset <= x /\ x < fl[i].offset + n)
              => Covers(g, x)
      BY <3>2, <3>3 DEF Covers
    <3>. QED
      BY <3>4, <3>5, <3>6
  <2>. QED
    BY <1>2, <2>2, <2>3, <2>4, <2>5 DEF TakeFront, g, c
<1>. QED
  BY <1>1, <1>2

\* Coalescing with the right neighbour resolves the contact at i and keeps
\* every address.
LEMMA MergeRightProps ==
    ASSUME NEW fl \in Seq(Block), NEW i \in Nat, NEW E, E \subseteq 0 .. (i - 1),
           NearlyApart(fl, E \cup {i})
    PROVE  /\ MergeRight(fl, i) \in Seq(Block)
           /\ NearlyApart(MergeRight(fl, i), E)
           /\ \A lo, hi \in Nat : Within(fl, lo, hi) =>
                                      Within(MergeRight(fl, i), lo, hi)
           /\ \A x \in Nat : Covers(MergeRight(fl, i), x) <=> Covers(fl, x)
<1>f. /\ Len(fl) \in Nat
      /\ \A k \in 1 .. Len(fl) : /\ fl[k] \in Block
                                 /\ fl[k].offset \in Nat /\ fl[k].size \in Nat
                                 /\ End(fl[k]) \in Nat
                                 /\ End(fl[k]) = fl[k].offset + fl[k].size
  BY ListFacts
<1>1. CASE ~ (1 <= i /\ i < Len(fl) /\ End(fl[i]) = fl[i + 1].offset)
  <2>1. MergeRight(fl, i) = fl
    BY <1>1 DEF MergeRight
  <2>2. NearlyApart(fl, E)
    BY <1>1, <1>f DEF NearlyApart
  <2>. QED
    BY <2>1, <2>2
<1>2. CASE 1 <= i /\ i < Len(fl) /\ End(fl[i]) = fl[i + 1].offset
  <2>. DEFINE c == [offset |-> fl[i].offset, size |-> fl[i].size + fl[i + 1].size]
              h == [fl EXCEPT ![i].size = @ + fl[i + 1].size]
              g == RemoveAt(h, i + 1)
  <2>i. i \in 1 .. Len(fl) /\ i + 1 \in 1 .. Len(fl)
    BY <1>2, <1>f
  <2>1. /\ c \in Block /\ c.offset = fl[i].offset
        /\ c.size = fl[i].size + fl[i + 1].size
        /\ End(c) = End(fl[i + 1])
    <3>1. /\ fl[i].offset \in Nat /\ fl[i].size + fl[i + 1].size \in Nat
          /\ fl[i].offset + (fl[i].size + fl[i + 1].size) = End(fl[i + 1])
      <4>1. /\ fl[i].offset \in Nat /\ fl[i].size \in Nat
            /\ End(fl[i]) = fl[i].offset + fl[i].size
        BY <2>i, <1>f
      <4>2. /\ fl[i + 1].offset \in Nat /\ fl[i + 1].size \in Nat
            /\ End(fl[i + 1]) = fl[i + 1].offset + fl[i + 1].size
        BY <2>i, <1>f
      <4>. QED
        BY <4>1, <4>2, <1>2
    <3>2. /\ c.offset = fl[i].offset /\ c.size = fl[i].size + fl[i + 1].size
          /\ c \in Block
      BY <3>1 DEF Block
    <3>. QED
      BY <3>1, <3>2, BlockFacts
  <2>2. h = [fl EXCEPT ![i] = c]
    <3>1. [fl[i] EXCEPT !.size = @ + fl[i + 1].size] = c
      BY <2>i, <1>f DEF Block
    <3>. QED
      BY <3>1
  <2>. HIDE DEF c
  <2>3. /\ h \in Seq(Block) /\ Len(h) = Len(fl)
        /\ \A k \in 1 .. Len(fl) : h[k] = IF k = i THEN c ELSE fl[k]
    BY <2>1, <2>2, <2>i
  <2>. HIDE DEF h
  <2>4. /\ g \in Seq(Block) /\ Len(g) = Len(fl) - 1
        /\ \A k \in 1 .. (Len(fl) - 1) : g[k] = IF k < i + 1 THEN h[k] ELSE h[k + 1]
    <3>1. /\ g \in Seq(Block) /\ Len(g) = Len(h) - 1
          /\ \A k \in 1 .. (Len(h) - 1) : g[k] = IF k < i + 1 THEN h[k] ELSE h[k + 1]
      <4>1. i + 1 \in 1 .. Len(h)
        BY <2>3, <2>i
      <4>. QED
        BY <2>3, <4>1, RemoveAtProps
    <3>. QED
      BY <3>1, <2>3
  <2>. HIDE DEF g
  <2>. DEFINE first(k) == IF k <= i THEN k ELSE k + 1   \* where g[k] starts in fl
              last(k) == IF k < i THEN k ELSE k + 1     \* where it ends
  <2>5. ASSUME NEW k \in 1 .. Len(g)
        PROVE  /\ first(k) \in 1 .. Len(fl) /\ last(k) \in 1 .. Len(fl)
               /\ g[k].offset = fl[first(k)].offset
               /\ End(g[k]) = End(fl[last(k)])
               /\ g[k].size >= fl[first(k)].size
    <3>1. CASE k < i
      <4>1. g[k] = fl[k]
        <5>1. k \in 1 .. (Len(fl) - 1) /\ k \in 1 .. Len(fl) /\ k < i + 1 /\ k # i
          BY <3>1, <2>4, <2>i
        <5>. QED
          BY <5>1, <2>3, <2>4
      <4>. QED
        BY <4>1, <3>1, <2>4, <2>i, <1>f
    <3>2. CASE k = i
      <4>1. g[k] = c
        BY <3>2, <2>3, <2>4, <2>i, <1>f
      <4>2. c.size >= fl[i].size
        BY <2>1, <2>i, <1>f
      <4>. QED
        BY <4>1, <4>2, <3>2, <2>1, <2>4, <2>i, <1>f
    <3>3. CASE k > i
      <4>1. k + 1 \in 1 .. Len(fl) /\ g[k] = fl[k + 1]
        BY <3>3, <2>3, <2>4, <2>i, <1>f
      <4>. QED
        BY <4>1, <3>3, <2>4, <2>i, <1>f
    <3>. QED
      BY <3>1, <3>2, <3>3, <2>i
  <2>6. \A p, q \in 1 .. Len(g) : p < q => last(p) < first(q)
    BY <2>4, <2>i
  <2>7. \A p, q \in 1 .. Len(g) :
            p < q /\ last(p) \in E \cup {i} /\ first(q) = last(p) + 1
                => p \in E /\ q = p + 1
    BY <2>4, <2>i
  <2>8. NearlyApart(g, E)
    <3>. HIDE DEF first, last
    <3>1. \A k \in 1 .. Len(g) : g[k].size > 0
      <4>. SUFFICES ASSUME NEW k \in 1 .. Len(g) PROVE g[k].size > 0
        OBVIOUS
      <4>1. fl[first(k)].size > 0 /\ fl[first(k)].size \in Nat
        BY <2>5, <1>f DEF NearlyApart
      <4>2. g[k].size \in Nat
        BY <2>4, ListFacts
      <4>. QED
        BY <4>1, <4>2, <2>5
    <3>2. ASSUME NEW p \in 1 .. Len(g), NEW q \in 1 .. Len(g), p < q
          PROVE  \/ End(g[p]) < g[q].offset
                 \/ p \in E /\ q = p + 1 /\ End(g[p]) = g[q].offset
      <4>1. \/ End(fl[last(p)]) < fl[first(q)].offset
            \/ /\ last(p) \in E \cup {i} /\ first(q) = last(p) + 1
               /\ End(fl[last(p)]) = fl[first(q)].offset
        BY <3>2, <2>5, <2>6 DEF NearlyApart
      <4>. QED
        BY <4>1, <3>2, <2>5, <2>7
    <3>. QED
      BY <3>1, <3>2 DEF NearlyApart
  <2>9. \A lo, hi \in Nat : Within(fl, lo, hi) => Within(g, lo, hi)
    <3>. HIDE DEF first, last
    <3>. QED
      BY <2>5 DEF Within
  <2>10. ASSUME NEW x \in Nat
         PROVE  Covers(g, x) <=> Covers(fl, x)
    <3>1. ASSUME Covers(g, x) PROVE Covers(fl, x)
      <4>1. PICK k \in 1 .. Len(g) : g[k].offset <= x /\ x < End(g[k])
        BY <3>1 DEF Covers
      <4>2. CASE k # i
        <5>1. first(k) = last(k)
          BY <4>2, <2>4, <2>i
        <5>. HIDE DEF first, last
        <5>. QED
          BY <4>1, <5>1, <2>5 DEF Covers
      <4>3. CASE k = i
        <5>1. fl[i].offset <= x /\ x < End(fl[i + 1])
          BY <4>1, <4>3, <2>5
        <5>2. \/ fl[i].offset <= x /\ x < End(fl[i])
              \/ fl[i + 1].offset <= x /\ x < End(fl[i + 1])
          BY <5>1, <1>2, <2>i, <1>f
        <5>. QED
          BY <5>2, <2>i DEF Covers
      <4>. QED
        BY <4>2, <4>3
    <3>2. ASSUME Covers(fl, x) PROVE Covers(g, x)
      <4>1. PICK j \in 1 .. Len(fl) : fl[j].offset <= x /\ x < End(fl[j])
        BY <3>2 DEF Covers
      <4>. DEFINE k == IF j <= i THEN j ELSE j - 1
      <4>2. k \in 1 .. Len(g)
        BY <2>4, <2>i
      <4>3. CASE j < i
        <5>1. g[k].offset = fl[j].offset /\ End(g[k]) = End(fl[j])
          BY <4>3, <4>2, <2>5, <2>i
        <5>. QED
          BY <5>1, <4>1, <4>2 DEF Covers
      <4>4. CASE j > i + 1
        <5>1. k = j - 1 /\ k > i /\ k + 1 = j
          BY <4>4, <2>i
        <5>2. g[k].offset = fl[j].offset /\ End(g[k]) = End(fl[j])
          BY <5>1, <4>2, <2>5, <2>i
        <5>. QED
          BY <5>2, <4>1, <4>2 DEF Covers
      <4>5. CASE j = i \/ j = i + 1
        <5>1. k = i
          BY <4>5, <2>i
        <5>2. g[k].offset = fl[i].offset /\ End(g[k]) = End(fl[i + 1])
          BY <5>1, <4>2, <2>5, <2>i
        <5>3. fl[i].offset <= x /\ x < End(fl[i + 1])
          <6>1. /\ fl[i].offset \in Nat /\ fl[i].size \in Nat
                /\ End(fl[i]) = fl[i].offset + fl[i].size
            BY <2>i, <1>f
          <6>2. /\ fl[i + 1].offset \in Nat /\ fl[i + 1].size \in Nat
                /\ End(fl[i + 1]) = fl[i + 1].offset + fl[i + 1].size
            BY <2>i, <1>f
          <6>3. End(fl[i]) = fl[i + 1].offset
            BY <1>2
          <6>4. CASE j = i
            BY <6>1, <6>2, <6>3, <6>4, <4>1
          <6>5. CASE j = i + 1
            BY <6>1, <6>2, <6>3, <6>5, <4>1
          <6>. QED
            BY <6>4, <6>5, <4>5
        <5>. QED
          BY <5>2, <5>3, <4>2 DEF Covers
      <4>. QED
        BY <4>3, <4>4, <4>5, <2>i
    <3>. QED
      BY <3>1, <3>2
  <2>. QED
    BY <1>2, <2>4, <2>8, <2>9, <2>10 DEF MergeRight, g, h
<1>. QED
  BY <1>1, <1>2

\* Adding a block that is apart from the free ones adds its addresses and
\* leaves the list sorted and coalesced.
LEMMA AddToFreeListProps ==
    ASSUME NEW fl \in Seq(Block), Apart(fl), NEW b \in Block, b.size > 0,
           \A x \in Nat : b.offset <= x /\ x < End(b) => ~ Covers(fl, x)
    PROVE  /\ AddToFreeList(fl, b) \in Seq(Block)
           /\ Apart(AddToFreeList(fl, b))
           /\ \A lo, hi \in Nat :
                  Within(fl, lo, hi) /\ lo <= b.offset /\ End(b) < hi
                      => Within(AddToFreeList(fl, b), lo, hi)
           /\ \A x \in Nat : Covers(AddToFreeList(fl, b), x) <=>
                  Covers(fl, x) \/ (b.offset <= x /\ x < End(b))
<1>f. /\ Len(fl) \in Nat
      /\ \A k \in 1 .. Len(fl) : /\ fl[k] \in Block
                                 /\ fl[k].offset \in Nat /\ fl[k].size \in Nat
                                 /\ End(fl[k]) \in Nat
                                 /\ End(fl[k]) = fl[k].offset + fl[k].size
  BY ListFacts
<1>b. /\ b.offset \in Nat /\ b.size \in Nat /\ End(b) \in Nat
      /\ End(b) = b.offset + b.size
  BY BlockFacts
<1>. DEFINE i == InsertIdx(fl, b.offset)
            g == InsertAt(fl, i, b)
<1>1. /\ i \in 1 .. (Len(fl) + 1)
      /\ \A j \in 1 .. (i - 1) : fl[j].offset < b.offset
      /\ i <= Len(fl) => fl[i].offset >= b.offset
  BY <1>b, InsertIdxProps
<1>. HIDE DEF i
<1>2. /\ g \in Seq(Block) /\ Len(g) = Len(fl) + 1
      /\ \A k \in 1 .. (Len(fl) + 1) :
             g[k] = IF k < i THEN fl[k] ELSE IF k = i THEN b ELSE fl[k - 1]
  BY <1>1, InsertAtProps
<1>. HIDE DEF g
\* No block before i reaches into b, none from i on starts inside it.
<1>3. ASSUME NEW j \in 1 .. Len(fl), j < i
      PROVE  End(fl[j]) <= b.offset
  <2>1. fl[j].offset < b.offset
    BY <1>1, <1>3
  <2>2. b.offset < End(fl[j]) => Covers(fl, b.offset)
    <3>1. fl[j].offset <= b.offset
      BY <2>1, <1>f, <1>b
    <3>. QED
      BY <3>1 DEF Covers
  <2>3. ~ Covers(fl, b.offset)
    BY <1>b
  <2>4. ~ (b.offset < End(fl[j]))
    BY <2>2, <2>3
  <2>. QED
    BY <2>4, <1>f, <1>b
<1>4. ASSUME NEW j \in 1 .. Len(fl), j >= i
      PROVE  End(b) <= fl[j].offset
  <2>1. i \in 1 .. Len(fl) /\ fl[i].offset >= b.offset
    BY <1>1, <1>4, <1>f
  <2>2. fl[j].offset >= b.offset
    <3>1. j = i \/ End(fl[i]) < fl[j].offset
      BY <1>4, <2>1 DEF Apart
    <3>2. /\ fl[i].offset \in Nat /\ fl[i].size \in Nat /\ fl[j].offset \in Nat
          /\ End(fl[i]) = fl[i].offset + fl[i].size
      BY <2>1, <1>f
    <3>. QED
      BY <3>1, <3>2, <2>1, <1>b
  <2>3. Covers(fl, fl[j].offset)
    <3>1. /\ fl[j].offset \in Nat /\ fl[j].size \in Nat /\ fl[j].size > 0
          /\ End(fl[j]) = fl[j].offset + fl[j].size
      BY <1>f DEF Apart
    <3>2. fl[j].offset <= fl[j].offset /\ fl[j].offset < End(fl[j])
      BY <3>1
    <3>. QED
      BY <3>2 DEF Covers
  <2>4. fl[j].offset \in Nat
    BY <1>f
  <2>. QED
    BY <2>2, <2>3, <2>4, <1>b
<1>5. NearlyApart(g, {i - 1, i})
  <2>1. ASSUME NEW k \in 1 .. Len(g) PROVE g[k].size > 0
    <3>1. CASE k < i
      BY <3>1, <1>1, <1>2, <1>f DEF Apart
    <3>2. CASE k = i
      BY <3>2, <1>1, <1>2
    <3>3. CASE k > i
      <4>1. k - 1 \in 1 .. Len(fl) /\ g[k] = fl[k - 1]
        BY <3>3, <1>1, <1>2, <1>f
      <4>. QED
        BY <4>1 DEF Apart
    <3>. QED
      BY <3>1, <3>2, <3>3, <1>1, <1>2
  <2>2. ASSUME NEW p \in 1 .. Len(g), NEW q \in 1 .. Len(g), p < q
        PROVE  \/ End(g[p]) < g[q].offset
               \/ p \in {i - 1, i} /\ q = p + 1 /\ End(g[p]) = g[q].offset
    <3>. DEFINE op == IF p < i THEN p ELSE p - 1
                oq == IF q < i THEN q ELSE q - 1
    <3>1. CASE p # i /\ q # i
      <4>1. /\ op \in 1 .. Len(fl) /\ oq \in 1 .. Len(fl) /\ op < oq
            /\ g[p] = fl[op] /\ g[q] = fl[oq]
        BY <3>1, <2>2, <1>1, <1>2, <1>f
      <4>. QED
        BY <4>1 DEF Apart
    <3>2. CASE p = i
      <4>0. q - 1 \in 1 .. Len(fl) /\ q - 1 >= i /\ g[p] = b /\ g[q] = fl[q - 1]
        BY <3>2, <2>2, <1>1, <1>2, <1>f
      <4>1. PICK r \in 1 .. Len(fl) : r = q - 1 /\ r >= i /\ g[p] = b /\ g[q] = fl[r]
        BY <4>0
      <4>2. End(b) <= fl[r].offset /\ fl[r].offset \in Nat
        BY <4>1, <1>4, <1>f
      <4>3. CASE q = i + 1
        BY <4>1, <4>2, <4>3, <3>2, <1>b
      <4>4. CASE q > i + 1
        <5>1. i \in 1 .. Len(fl) /\ i < r /\ i >= i
          BY <4>4, <4>1, <1>1, <1>f
        <5>2. End(fl[i]) < fl[r].offset /\ End(b) <= fl[i].offset
          BY <5>1, <4>1, <1>4 DEF Apart
        <5>3. /\ fl[i].offset \in Nat /\ fl[i].size \in Nat
              /\ End(fl[i]) = fl[i].offset + fl[i].size
          BY <5>1, <1>f
        <5>4. End(b) < fl[r].offset
          <6>1. End(b) \in Nat /\ End(fl[i]) \in Nat
            BY <5>1, <1>b, <1>f
          <6>2. fl[i].offset <= End(fl[i])
            BY <5>3
          <6>. QED
            BY <6>1, <6>2, <5>2, <5>3, <4>2
        <5>. QED
          BY <5>4, <4>1
      <4>. QED
        BY <4>3, <4>4, <3>2, <2>2, <1>1, <1>2
    <3>3. CASE q = i
      <4>1. p \in 1 .. Len(fl) /\ p < i /\ g[p] = fl[p] /\ g[q] = b
        BY <3>3, <2>2, <1>1, <1>2, <1>f
      <4>2. End(fl[p]) <= b.offset /\ End(fl[p]) \in Nat
        BY <4>1, <1>3, <1>f
      <4>3. CASE p = i - 1
        BY <4>1, <4>2, <4>3, <3>3, <1>b, <1>1, <1>f
      <4>4. CASE p < i - 1
        <5>1. i - 1 \in 1 .. Len(fl) /\ p < i - 1 /\ i - 1 < i
          BY <4>4, <4>1, <1>1, <1>f
        <5>2. End(fl[p]) < fl[i - 1].offset /\ End(fl[i - 1]) <= b.offset
          BY <5>1, <4>1, <1>3 DEF Apart
        <5>3. /\ fl[i - 1].offset \in Nat /\ fl[i - 1].size \in Nat
              /\ End(fl[i - 1]) = fl[i - 1].offset + fl[i - 1].size
          BY <5>1, <1>f
        <5>4. End(fl[p]) < b.offset
          BY <5>2, <5>3, <4>2, <1>b
        <5>. QED
          BY <5>4, <4>1
      <4>. QED
        BY <4>3, <4>4, <3>3, <2>2, <1>1, <1>2
    <3>. QED
      BY <3>1, <3>2, <3>3
  <2>. QED
    BY <2>1, <2>2 DEF NearlyApart
<1>6. \A lo, hi \in Nat :
          Within(fl, lo, hi) /\ lo <= b.offset /\ End(b) < hi => Within(g, lo, hi)
  <2>1. \A k \in 1 .. Len(g) : g[k] = b \/ \E j \in 1 .. Len(fl) : g[k] = fl[j]
    BY <1>1, <1>2, <1>f
  <2>. QED
    BY <2>1 DEF Within
<1>7. ASSUME NEW x \in Nat
      PROVE  Covers(g, x) <=> Covers(fl, x) \/ (b.offset <= x /\ x < End(b))
  <2>1. \A k \in 1 .. Len(g) : g[k] = b \/ \E j \in 1 .. Len(fl) : g[k] = fl[j]
    BY <1>1, <1>2, <1>f
  <2>2. i \in 1 .. Len(g) /\ g[i] = b
    BY <1>1, <1>2, <1>f
  <2>3. ASSUME NEW j \in 1 .. Len(fl)
        PROVE  \E k \in 1 .. Len(g) : g[k] = fl[j]
    <3>1. CASE j < i
      <4>1. j \in 1 .. Len(g) /\ g[j] = fl[j]
        BY <3>1, <1>1, <1>2, <1>f
      <4>. QED
        BY <4>1
    <3>2. CASE j >= i
      <4>1. j + 1 \in 1 .. Len(g) /\ g[j + 1] = fl[j]
        BY <3>2, <1>1, <1>2, <1>f
      <4>. QED
        BY <4>1
    <3>. QED
      BY <3>1, <3>2, <1>1
  <2>4. Covers(g, x) => Covers(fl, x) \/ (b.offset <= x /\ x < End(b))
    BY <2>1 DEF Covers
  <2>5. Covers(fl, x) => Covers(g, x)
    BY <2>3 DEF Covers
  <2>6. b.offset <= x /\ x < End(b) => Covers(g, x)
    BY <2>2 DEF Covers
  <2>. QED
    BY <2>4, <2>5, <2>6
<1>. DEFINE h == MergeRight(g, i)
            r == MergeRight(h, i - 1)
<1>8. /\ h \in Seq(Block) /\ NearlyApart(h, {i - 1})
      /\ \A lo, hi \in Nat : Within(g, lo, hi) => Within(h, lo, hi)
      /\ \A x \in Nat : Covers(h, x) <=> Covers(g, x)
  <2>1. {i - 1, i} = {i - 1} \cup {i} /\ {i - 1} \subseteq 0 .. (i - 1) /\ i \in Nat
    BY <1>1, <1>f
  <2>2. NearlyApart(g, {i - 1} \cup {i})
    BY <2>1, <1>5
  <2>. QED
    BY <2>1, <2>2, <1>2, MergeRightProps
<1>. HIDE DEF h
<1>9. /\ r \in Seq(Block) /\ NearlyApart(r, {})
      /\ \A lo, hi \in Nat : Within(h, lo, hi) => Within(r, lo, hi)
      /\ \A x \in Nat : Covers(r, x) <=> Covers(h, x)
  <2>1. {i - 1} = {} \cup {i - 1} /\ {} \subseteq 0 .. (i - 1 - 1) /\ i - 1 \in Nat
    BY <1>1, <1>f
  <2>2. NearlyApart(h, {} \cup {i - 1})
    BY <2>1, <1>8
  <2>. QED
    BY <2>1, <2>2, <1>8, MergeRightProps
<1>10. r = AddToFreeList(fl, b)
  BY DEF AddToFreeList, r, h, g, i
<1>. HIDE DEF r
<1>11. Apart(r)
  BY <1>9 DEF NearlyApart, Apart
<1>12. /\ \A lo, hi \in Nat : Within(g, lo, hi) => Within(r, lo, hi)
       /\ \A x \in Nat : Covers(r, x) <=> Covers(g, x)
  BY <1>8, <1>9
<1>. QED
  BY <1>6, <1>7, <1>9, <1>10, <1>11, <1>12

\* Shrinking drops the last block when it ends at the end of the file, which
\* then ends where that block started, and no other block.
LEMMA ShrinkProps ==
    ASSUME NEW fl \in Seq(Block), Apart(fl), NEW e \in Nat, NEW lo \in Nat,
           lo <= e,
           \A i \in 1 .. Len(fl) : lo <= fl[i].offset /\ End(fl[i]) <= e
    PROVE  /\ ShrinkTrailingFreeBlocks(fl, e) \in Seq(Block)
           /\ ShrunkEnd(fl, e) \in Nat
           /\ lo <= ShrunkEnd(fl, e) /\ ShrunkEnd(fl, e) <= e
           /\ Apart(ShrinkTrailingFreeBlocks(fl, e))
           /\ Within(ShrinkTrailingFreeBlocks(fl, e), lo, ShrunkEnd(fl, e))
           /\ \A x \in Nat : x < ShrunkEnd(fl, e) =>
                  (Covers(ShrinkTrailingFreeBlocks(fl, e), x) <=> Covers(fl, x))
           /\ \A x \in Nat : ShrunkEnd(fl, e) <= x /\ x < e => Covers(fl, x)
<1>f. /\ Len(fl) \in Nat
      /\ \A k \in 1 .. Len(fl) : /\ fl[k] \in Block
                                 /\ fl[k].offset \in Nat /\ fl[k].size \in Nat
                                 /\ End(fl[k]) \in Nat
                                 /\ End(fl[k]) = fl[k].offset + fl[k].size
  BY ListFacts
<1>. DEFINE L == Len(fl)
            P(n) == /\ \A j \in (n + 1) .. L :
                           End(fl[j]) = IF j = L THEN e ELSE fl[j + 1].offset
                    /\ n > 0 => End(fl[n]) # IF n = L THEN e ELSE fl[n + 1].offset
            m == Kept(fl, e)
<1>1. \E n \in 0 .. L : P(n)
  <2>1. CASE L = 0
    <3>1. P(0)
      BY <2>1
    <3>2. 0 \in 0 .. L
      BY <1>f
    <3>. HIDE DEF P
    <3>. QED
      BY <3>1, <3>2
  <2>2. CASE L > 0 /\ End(fl[L]) # e
    <3>1. P(L)
      BY <2>2, <1>f
    <3>2. L \in 0 .. L
      BY <1>f
    <3>. HIDE DEF P
    <3>. QED
      BY <3>1, <3>2
  <2>3. CASE L > 0 /\ End(fl[L]) = e
    <3>1. \A j \in (L - 1 + 1) .. L : j = L
      BY <1>f
    <3>2. L - 1 > 0 => End(fl[L - 1]) # fl[L].offset
      <4>1. ASSUME L - 1 > 0 PROVE End(fl[L - 1]) < fl[L].offset
        <5>1. L - 1 \in 1 .. Len(fl) /\ L \in 1 .. Len(fl) /\ L - 1 < L
          BY <4>1, <1>f
        <5>. QED
          BY <5>1 DEF Apart
      <4>2. L - 1 > 0 => End(fl[L - 1]) \in Nat /\ fl[L].offset \in Nat
        BY <1>f
      <4>. QED
        BY <4>1, <4>2
    <3>3. L - 1 # L /\ L - 1 + 1 = L /\ L - 1 \in 0 .. L
      BY <2>3, <1>f
    <3>4. P(L - 1)
      BY <2>3, <3>1, <3>2, <3>3
    <3>. HIDE DEF P
    <3>. QED
      BY <3>3, <3>4
  <2>. QED
    BY <2>1, <2>2, <2>3, <1>f
<1>2. m \in 0 .. L /\ P(m)
  BY <1>1 DEF Kept
<1>. HIDE DEF m
<1>3. m = L \/ m = L - 1
  <2>. SUFFICES ASSUME m < L - 1 PROVE FALSE
    BY <1>2, <1>f
  <2>1. L - 1 \in (m + 1) .. L /\ L - 1 # L /\ L - 1 + 1 = L
    BY <1>2, <1>f
  <2>2. End(fl[L - 1]) = fl[L].offset
    BY <2>1, <1>2
  <2>3. L - 1 \in 1 .. Len(fl) /\ L \in 1 .. Len(fl) /\ L - 1 < L
    BY <1>2, <1>f
  <2>4. End(fl[L - 1]) < fl[L].offset /\ fl[L].offset \in Nat
    BY <2>3, <1>f DEF Apart
  <2>. QED
    BY <2>2, <2>4
<1>. DEFINE g == ShrinkTrailingFreeBlocks(fl, e)
            d == ShrunkEnd(fl, e)
<1>4. /\ g \in Seq(Block) /\ Len(g) = m
      /\ \A k \in 1 .. m : g[k] = fl[k]
  <2>1. g = SubSeq(fl, 1, m)
    BY DEF ShrinkTrailingFreeBlocks, m
  <2>. HIDE DEF g
  <2>. QED
    BY <2>1, <1>2, <1>f, SubSeqProperties
<1>5. d = IF m = L THEN e ELSE fl[m + 1].offset
  BY DEF ShrunkEnd, m
<1>. HIDE DEF g, d
<1>6. Apart(g)
  <2>1. \A k \in 1 .. m : k \in 1 .. Len(fl)
    BY <1>2, <1>f
  <2>. QED
    BY <2>1, <1>4 DEF Apart
<1>7. CASE m = L
  <2>1. d = e
    BY <1>5, <1>7
  <2>2. ASSUME NEW k \in 1 .. L PROVE End(fl[k]) < e
    <3>1. L \in 1 .. L /\ End(fl[L]) # e /\ End(fl[L]) <= e /\ End(fl[L]) \in Nat
      BY <1>2, <1>7, <1>f
    <3>2. k = L \/ (k < L /\ End(fl[k]) < fl[L].offset)
      BY <3>1, <1>f DEF Apart
    <3>3. /\ End(fl[k]) \in Nat /\ fl[L].offset \in Nat /\ fl[L].size \in Nat
          /\ End(fl[L]) = fl[L].offset + fl[L].size
      BY <3>1, <1>f
    <3>. QED
      BY <3>1, <3>2, <3>3
  <2>3. Within(g, lo, d)
    BY <2>1, <2>2, <1>4, <1>7 DEF Within
  <2>4. \A x \in Nat : Covers(g, x) <=> Covers(fl, x)
    BY <1>4, <1>7 DEF Covers
  <2>5. \A x \in Nat : ~ (d <= x /\ x < e)
    BY <2>1
  <2>. QED
    BY <2>1, <2>3, <2>4, <2>5, <1>4, <1>6 DEF g, d
<1>8. CASE m = L - 1
  <2>1. /\ m # L /\ m + 1 = L /\ L \in 1 .. L /\ d = fl[L].offset /\ d \in Nat
        /\ lo <= d
    BY <1>2, <1>5, <1>8, <1>f
  <2>2. End(fl[L]) = e /\ End(fl[L]) = d + fl[L].size /\ fl[L].size \in Nat
    BY <2>1, <1>2, <1>f
  <2>3. ASSUME NEW k \in 1 .. m PROVE End(fl[k]) < d /\ k \in 1 .. L
    <3>1. k \in 1 .. Len(fl) /\ L \in 1 .. Len(fl) /\ k < L
      <4>1. m \in Nat /\ Len(fl) \in Nat /\ m = Len(fl) - 1
        BY <1>2, <1>8, <1>f
      <4>. QED
        BY <4>1
    <3>. QED
      BY <3>1, <2>1 DEF Apart
  <2>4. Within(g, lo, d)
    BY <2>3, <1>4 DEF Within
  <2>5. ASSUME NEW x \in Nat, x < d
        PROVE  Covers(g, x) <=> Covers(fl, x)
    <3>1. \A k \in 1 .. L : k \in 1 .. m \/ k = L
      <4>1. m \in Nat /\ L \in Nat /\ m = L - 1
        BY <1>2, <1>8, <1>f
      <4>. HIDE DEF L
      <4>. QED
        BY <4>1
    <3>2. ~ (fl[L].offset <= x)
      BY <2>5, <2>1
    <3>3. Covers(fl, x) => Covers(g, x)
      BY <3>1, <3>2, <1>4 DEF Covers
    <3>4. Covers(g, x) => Covers(fl, x)
      BY <2>3, <1>4 DEF Covers
    <3>. QED
      BY <3>3, <3>4
  <2>6. ASSUME NEW x \in Nat, d <= x, x < e
        PROVE  Covers(fl, x)
    BY <2>1, <2>2, <2>6 DEF Covers
  <2>7. d <= e
    BY <2>1, <2>2
  <2>. QED
    BY <2>1, <2>4, <2>5, <2>6, <2>7, <1>4, <1>6 DEF g, d
<1>. QED
  BY <1>3, <1>7, <1>8

-----------------------------------------------------------------------------
(* The inductive invariant *)

\* The free list is sorted and coalesced and lies between the first managed
\* address and the end of the file, and what it leaves out is held.
Inv == /\ TypeOK
       /\ InitialOffset <= nextOffset
       /\ Apart(freeList)
       /\ Within(freeList, InitialOffset, nextOffset)
       /\ \A x \in Nat : x \in held <=> /\ InitialOffset <= x /\ x < nextOffset
                                        /\ ~ Covers(freeList, x)

\* The addresses of a block, as an interval.
LEMMA AddressesFacts ==
    ASSUME NEW b \in Block
    PROVE  \A x : x \in Addresses(b) <=> x \in Nat /\ b.offset <= x /\ x < End(b)
BY BlockFacts DEF Addresses

\* Tracking one block more and one less keeps the bag a bag of blocks.
LEMMA BagFacts ==
    ASSUME NEW B, IsABag(B), DOMAIN B \subseteq Block, NEW b \in Block
    PROVE  /\ IsABag(B (+) SetToBag({b}))
           /\ DOMAIN (B (+) SetToBag({b})) \subseteq Block
           /\ IsABag(B (-) SetToBag({b}))
           /\ DOMAIN (B (-) SetToBag({b})) \subseteq Block
<1>. DEFINE S == SetToBag({b})
<1>1. /\ DOMAIN S = {b} /\ S[b] = 1
  BY DEF SetToBag
<1>2. \A x \in DOMAIN B : B[x] \in Nat /\ B[x] > 0
  BY DEF IsABag
<1>. HIDE DEF S
<1>3. /\ DOMAIN (B (+) S) = DOMAIN B \cup {b}
      /\ \A x \in DOMAIN B \cup {b} :
             (B (+) S)[x] = (IF x \in DOMAIN B THEN B[x] ELSE 0)
                             + (IF x \in {b} THEN S[x] ELSE 0)
  BY <1>1 DEF (+)
<1>4. \A x \in DOMAIN B \cup {b} : (B (+) S)[x] \in Nat /\ (B (+) S)[x] > 0
  BY <1>1, <1>2, <1>3
<1>5. IsABag(B (+) S)
  <2>1. B (+) S = [x \in DOMAIN B \cup {b} |-> (B (+) S)[x]]
    BY <1>1 DEF (+)
  <2>. QED
    BY <1>3, <1>4, <2>1 DEF IsABag
<1>. DEFINE D == [x \in DOMAIN B |-> IF x \in DOMAIN S THEN B[x] - S[x] ELSE B[x]]
<1>6. B (-) S = [x \in {d \in DOMAIN D : D[d] > 0} |-> D[x]]
  BY DEF (-)
<1>7. \A x \in DOMAIN B : D[x] \in Int
  BY <1>1, <1>2
<1>. HIDE DEF D
<1>8. DOMAIN D = DOMAIN B
  BY DEF D
<1>9. IsABag(B (-) S) /\ DOMAIN (B (-) S) \subseteq DOMAIN B
  BY <1>6, <1>7, <1>8 DEF IsABag
<1>. QED
  BY <1>3, <1>5, <1>9 DEF S

\* Inv holds initially.
LEMMA InitInv == Init => Inv
<1>. SUFFICES ASSUME Init PROVE Inv
  OBVIOUS
<1>. USE AllocatorAssumption
<1>1. TypeOK
  <2>1. IsABag(EmptyBag) /\ DOMAIN EmptyBag = {}
    BY DEF EmptyBag, SetToBag, IsABag
  <2>2. partial \in BOOLEAN /\ held \subseteq Nat
    BY DEF Init
  <2>3. freeList \in Seq(Block)
    BY DEF Init
  <2>4. nextOffset \in Nat
    BY DEF Init
  <2>. QED
    BY <2>1, <2>2, <2>3, <2>4 DEF Init, TypeOK
<1>2. Apart(freeList) /\ Within(freeList, InitialOffset, nextOffset)
  BY DEF Init, Apart, Within
<1>3. \A x \in Nat : ~ Covers(freeList, x)
  BY DEF Init, Covers
<1>. QED
  BY <1>1, <1>2, <1>3 DEF Init, Inv

\* Reusing a free block: its front moves from the free list to the client.
LEMMA ReuseInv ==
    ASSUME Inv, NEW size \in Sizes, AllocateReuse(size)
    PROVE  /\ Inv'
           /\ \E a \in InitialOffset .. (nextOffset - 1) :
                 /\ a + size < nextOffset
                 /\ \A x \in Nat : a <= x /\ x < a + size => x \notin held
                 /\ held' = held \cup (a .. (a + size - 1))
<1>. DEFINE i == BestFit(freeList, size)
            b == [offset |-> freeList[i].offset, size |-> size]
            a == freeList[i].offset
<1>1. freeList \in Seq(Block) /\ size \in Nat /\ size > 0
  BY AllocatorAssumption DEF Inv, TypeOK
<1>2. i \in 1 .. Len(freeList) /\ freeList[i].size >= size
  <2>1. i \in Fits(freeList, size)
    BY <1>1, BestFitProps DEF AllocateReuse
  <2>. HIDE DEF i
  <2>. QED
    BY <2>1 DEF Fits
<1>3. /\ freeList' = TakeFront(freeList, i, size)
      /\ blocks' = blocks (+) SetToBag({b})
      /\ held' = held \cup Addresses(b)
      /\ nextOffset' = nextOffset /\ partial' = partial
  BY DEF AllocateReuse
<1>. HIDE DEF i
<1>4. /\ freeList[i].offset \in Nat /\ freeList[i].size \in Nat
      /\ End(freeList[i]) = freeList[i].offset + freeList[i].size
      /\ InitialOffset <= freeList[i].offset /\ End(freeList[i]) < nextOffset
  BY <1>1, <1>2, ListFacts DEF Inv, Within
<1>5. b \in Block /\ b.offset = a /\ End(b) = a + size
  BY <1>1, <1>4 DEF Block, End
<1>6. \A x : x \in Addresses(b) <=> x \in Nat /\ a <= x /\ x < a + size
  BY <1>5, AddressesFacts
<1>. HIDE DEF b
<1>7. /\ freeList' \in Seq(Block) /\ Apart(freeList')
      /\ \A lo, hi \in Nat : Within(freeList, lo, hi) => Within(freeList', lo, hi)
      /\ \A x \in Nat : Covers(freeList', x) <=>
             Covers(freeList, x) /\ ~ (a <= x /\ x < a + size)
  <2>1. Apart(freeList) /\ 0 < size /\ size <= freeList[i].size
    BY <1>1, <1>2, <1>4 DEF Inv
  <2>. QED
    BY <1>1, <1>2, <1>3, <2>1, TakeFrontProps
<1>8. nextOffset \in Nat /\ InitialOffset \in Nat
  BY AllocatorAssumption DEF Inv, TypeOK
<1>9. a \in Nat /\ InitialOffset <= a /\ a + size < nextOffset
  BY <1>1, <1>2, <1>4, <1>8
<1>10. \A x \in Nat : a <= x /\ x < a + size => Covers(freeList, x)
  <2>. SUFFICES ASSUME NEW x \in Nat, a <= x, x < a + size
                PROVE  Covers(freeList, x)
    OBVIOUS
  <2>1. freeList[i].offset <= x /\ x < End(freeList[i])
    BY <1>1, <1>2, <1>4
  <2>. QED
    BY <2>1, <1>2 DEF Covers
<1>. HIDE DEF a
<1>11. Within(freeList', InitialOffset, nextOffset)
  BY <1>7, <1>8 DEF Inv
<1>12. TypeOK'
  <2>1. IsABag(blocks') /\ DOMAIN blocks' \subseteq Block
    BY <1>3, <1>5, BagFacts DEF Inv, TypeOK
  <2>2. held' \subseteq Nat
    BY <1>3, <1>6 DEF Inv, TypeOK
  <2>. QED
    BY <2>1, <2>2, <1>3, <1>7 DEF Inv, TypeOK
<1>13. ASSUME NEW x \in Nat
       PROVE  x \in held' <=> /\ InitialOffset <= x /\ x < nextOffset
                              /\ ~ Covers(freeList', x)
  <2>1. x \in held' <=> x \in held \/ (a <= x /\ x < a + size)
    BY <1>3, <1>6
  <2>2. x \in held <=> /\ InitialOffset <= x /\ x < nextOffset
                       /\ ~ Covers(freeList, x)
    BY DEF Inv
  <2>3. a <= x /\ x < a + size => InitialOffset <= x /\ x < nextOffset
    BY <1>1, <1>8, <1>9
  <2>. QED
    BY <2>1, <2>2, <2>3, <1>7
<1>14. Inv'
  BY <1>3, <1>7, <1>11, <1>12, <1>13 DEF Inv
<1>15. a \in InitialOffset .. (nextOffset - 1)
  BY <1>1, <1>8, <1>9
<1>16. \A x \in Nat : a <= x /\ x < a + size => x \notin held
  BY <1>10 DEF Inv
<1>17. Addresses(b) = a .. (a + size - 1)
  <2>1. \A x : x \in a .. (a + size - 1) <=> x \in Nat /\ a <= x /\ x < a + size
    BY <1>1, <1>9
  <2>. QED
    BY <2>1, <1>6
<1>. QED
  BY <1>3, <1>9, <1>14, <1>15, <1>16, <1>17

\* Allocating at the end of the file.
LEMMA AtEndInv ==
    ASSUME Inv, NEW size \in Sizes, AllocateAtEnd(size)
    PROVE  /\ Inv'
           /\ held' = held \cup (nextOffset .. (nextOffset + size - 1))
           /\ nextOffset' = nextOffset + size
<1>. DEFINE b == [offset |-> nextOffset, size |-> size]
<1>1. /\ freeList \in Seq(Block) /\ size \in Nat /\ size > 0 /\ nextOffset \in Nat
      /\ InitialOffset \in Nat
  BY AllocatorAssumption DEF Inv, TypeOK
<1>2. b \in Block /\ b.offset = nextOffset /\ End(b) = nextOffset + size
  BY <1>1 DEF Block, End
<1>3. /\ blocks' = blocks (+) SetToBag({b}) /\ nextOffset' = nextOffset + size
      /\ held' = held \cup Addresses(b)
      /\ freeList' = freeList /\ partial' = partial
  BY <1>2 DEF AllocateAtEnd
<1>4. \A x : x \in Addresses(b) <=>
                 x \in Nat /\ nextOffset <= x /\ x < nextOffset + size
  BY <1>2, AddressesFacts
<1>. HIDE DEF b
<1>5. TypeOK'
  <2>1. IsABag(blocks') /\ DOMAIN blocks' \subseteq Block
    BY <1>2, <1>3, BagFacts DEF Inv, TypeOK
  <2>2. held' \subseteq Nat
    BY <1>3, <1>4 DEF Inv, TypeOK
  <2>3. nextOffset' \in Nat
    BY <1>1, <1>3
  <2>. QED
    BY <2>1, <2>2, <2>3, <1>3 DEF Inv, TypeOK
<1>6. Within(freeList, InitialOffset, nextOffset + size)
  <2>. SUFFICES ASSUME NEW k \in 1 .. Len(freeList)
                PROVE  /\ InitialOffset <= freeList[k].offset
                       /\ End(freeList[k]) < nextOffset + size
    BY DEF Within
  <2>1. /\ InitialOffset <= freeList[k].offset
        /\ End(freeList[k]) < nextOffset /\ End(freeList[k]) \in Nat
    BY <1>1, ListFacts DEF Inv, Within
  <2>. QED
    BY <2>1, <1>1
<1>7. \A x \in Nat : Covers(freeList, x) => x < nextOffset
  <2>. SUFFICES ASSUME NEW x \in Nat, NEW k \in 1 .. Len(freeList),
                       x < End(freeList[k])
                PROVE  x < nextOffset
    BY DEF Covers
  <2>1. End(freeList[k]) < nextOffset /\ End(freeList[k]) \in Nat
    BY <1>1, ListFacts DEF Inv, Within
  <2>. QED
    BY <2>1, <1>1
<1>8. ASSUME NEW x \in Nat
      PROVE  x \in held' <=> /\ InitialOffset <= x /\ x < nextOffset + size
                             /\ ~ Covers(freeList, x)
  <2>1. x \in held' <=> x \in held \/ (nextOffset <= x /\ x < nextOffset + size)
    BY <1>3, <1>4
  <2>2. x \in held <=> /\ InitialOffset <= x /\ x < nextOffset
                       /\ ~ Covers(freeList, x)
    BY DEF Inv
  <2>3. InitialOffset <= nextOffset
    BY DEF Inv
  <2>4. Covers(freeList, x) => x < nextOffset
    BY <1>7
  <2>. QED
    BY <2>1, <2>2, <2>3, <2>4, <1>1
<1>9. InitialOffset <= nextOffset + size
  BY <1>1 DEF Inv
<1>10. Inv'
  BY <1>3, <1>5, <1>6, <1>8, <1>9 DEF Inv
<1>11. Addresses(b) = nextOffset .. (nextOffset + size - 1)
  <2>1. \A x : x \in nextOffset .. (nextOffset + size - 1) <=>
                   x \in Nat /\ nextOffset <= x /\ x < nextOffset + size
    BY <1>1
  <2>. QED
    BY <2>1, <1>4
<1>. QED
  BY <1>3, <1>10, <1>11

\* Freeing held addresses: they go to the free list, or the file shrinks.
LEMMA FreeInv ==
    ASSUME Inv, NEW b \in Block, b.size > 0, Free(b)
    PROVE  Inv' /\ nextOffset' <= nextOffset /\ held' = held \ Addresses(b)
<1>1. /\ freeList \in Seq(Block) /\ nextOffset \in Nat /\ InitialOffset \in Nat
      /\ InitialOffset <= nextOffset /\ Apart(freeList)
      /\ Within(freeList, InitialOffset, nextOffset)
  BY AllocatorAssumption DEF Inv, TypeOK
<1>b. /\ b.offset \in Nat /\ b.size \in Nat /\ End(b) \in Nat
      /\ End(b) = b.offset + b.size
  BY BlockFacts
<1>2. \A x : x \in Addresses(b) <=> x \in Nat /\ b.offset <= x /\ x < End(b)
  BY AddressesFacts
<1>3. \A x \in Nat : b.offset <= x /\ x < End(b) =>
          InitialOffset <= x /\ x < nextOffset /\ ~ Covers(freeList, x)
  BY <1>2 DEF Free, Inv
<1>4. InitialOffset <= b.offset /\ End(b) <= nextOffset
  <2>1. b.offset \in Nat /\ b.offset <= b.offset /\ b.offset < End(b)
    BY <1>b
  <2>2. End(b) - 1 \in Nat /\ b.offset <= End(b) - 1 /\ End(b) - 1 < End(b)
    BY <1>b
  <2>3. InitialOffset <= b.offset /\ End(b) - 1 < nextOffset
    BY <2>1, <2>2, <1>3
  <2>. QED
    BY <2>3, <1>1, <1>b
<1>5. /\ IsABag(blocks') /\ DOMAIN blocks' \subseteq Block
      /\ held' \subseteq Nat /\ partial' \in BOOLEAN
      /\ held' = held \ Addresses(b)
  <2>1. IsABag(blocks') /\ DOMAIN blocks' \subseteq Block
    BY BagFacts DEF Free, Inv, TypeOK
  <2>2. partial' \in BOOLEAN
    BY DEF Free, Inv, TypeOK
  <2>. QED
    BY <2>1, <2>2 DEF Free, Inv, TypeOK
<1>6. \A x \in Nat : x \in held' <=> /\ InitialOffset <= x /\ x < nextOffset
                                     /\ ~ Covers(freeList, x)
                                     /\ ~ (b.offset <= x /\ x < End(b))
  BY <1>2, <1>5 DEF Inv
<1>7. CASE End(b) = nextOffset
  <2>1. /\ nextOffset' = ShrunkEnd(freeList, b.offset)
        /\ freeList' = ShrinkTrailingFreeBlocks(freeList, b.offset)
    BY <1>7 DEF Free
  <2>2. ASSUME NEW k \in 1 .. Len(freeList)
        PROVE  InitialOffset <= freeList[k].offset /\ End(freeList[k]) <= b.offset
    <3>1. /\ InitialOffset <= freeList[k].offset /\ End(freeList[k]) < nextOffset
          /\ freeList[k].offset \in Nat /\ freeList[k].size \in Nat
          /\ End(freeList[k]) = freeList[k].offset + freeList[k].size
          /\ freeList[k].size > 0
      BY <1>1, ListFacts DEF Within, Apart
    <3>. SUFFICES ASSUME b.offset < End(freeList[k]) PROVE FALSE
      BY <3>1, <1>b
    <3>. DEFINE x == End(freeList[k]) - 1
    <3>2. /\ x \in Nat /\ freeList[k].offset <= x /\ x < End(freeList[k])
          /\ b.offset <= x /\ x < End(b)
      BY <3>1, <1>7, <1>b, <1>1
    <3>. HIDE DEF x
    <3>3. Covers(freeList, x)
      BY <3>2 DEF Covers
    <3>. QED
      BY <3>2, <3>3, <1>3
  <2>3. /\ freeList' \in Seq(Block) /\ nextOffset' \in Nat
        /\ InitialOffset <= nextOffset' /\ nextOffset' <= b.offset
        /\ Apart(freeList')
        /\ Within(freeList', InitialOffset, nextOffset')
        /\ \A x \in Nat : x < nextOffset' =>
               (Covers(freeList', x) <=> Covers(freeList, x))
        /\ \A x \in Nat : nextOffset' <= x /\ x < b.offset => Covers(freeList, x)
    BY <1>1, <1>b, <1>4, <2>1, <2>2, ShrinkProps
  <2>4. nextOffset' <= nextOffset
    BY <2>3, <1>b, <1>4, <1>1
  <2>5. ASSUME NEW x \in Nat
        PROVE  x \in held' <=> /\ InitialOffset <= x /\ x < nextOffset'
                               /\ ~ Covers(freeList', x)
    <3>1. CASE x < nextOffset'
      <4>1. x < nextOffset /\ ~ (b.offset <= x /\ x < End(b))
        BY <3>1, <2>3, <2>4, <1>1, <1>b
      <4>2. Covers(freeList', x) <=> Covers(freeList, x)
        BY <3>1, <2>3
      <4>. QED
        BY <4>1, <4>2, <3>1, <1>6
    <3>2. CASE ~ (x < nextOffset')
      <4>1. \/ nextOffset' <= x /\ x < b.offset
            \/ b.offset <= x /\ x < End(b)
            \/ ~ (x < nextOffset)
        BY <3>2, <1>7, <2>3, <1>1, <1>b
      <4>2. x \notin held'
        BY <4>1, <1>6, <2>3
      <4>. QED
        BY <4>2, <3>2
    <3>. QED
      BY <3>1, <3>2
  <2>. QED
    BY <2>3, <2>4, <2>5, <1>5 DEF Inv, TypeOK
<1>8. CASE End(b) # nextOffset
  <2>1. freeList' = AddToFreeList(freeList, b) /\ nextOffset' = nextOffset
    BY <1>8 DEF Free
  <2>2. End(b) < nextOffset
    BY <1>8, <1>4, <1>b, <1>1
  <2>3. /\ freeList' \in Seq(Block) /\ Apart(freeList')
        /\ \A lo, hi \in Nat :
               Within(freeList, lo, hi) /\ lo <= b.offset /\ End(b) < hi
                   => Within(freeList', lo, hi)
        /\ \A x \in Nat : Covers(freeList', x) <=>
               Covers(freeList, x) \/ (b.offset <= x /\ x < End(b))
    BY <1>1, <1>3, <2>1, AddToFreeListProps
  <2>4. Within(freeList', InitialOffset, nextOffset)
    BY <2>2, <2>3, <1>1, <1>4
  <2>5. \A x \in Nat : x \in held' <=> /\ InitialOffset <= x /\ x < nextOffset
                                       /\ ~ Covers(freeList', x)
    BY <2>3, <1>6
  <2>6. nextOffset <= nextOffset
    BY <1>1
  <2>. QED
    BY <2>1, <2>3, <2>4, <2>5, <2>6, <1>1, <1>5 DEF Inv, TypeOK
<1>. QED
  BY <1>7, <1>8

\* Every step keeps the invariant.
LEMMA NextInv == Inv /\ [Next]_vars => Inv'
<1>. SUFFICES ASSUME Inv, [Next]_vars PROVE Inv'
  OBVIOUS
<1>1. ASSUME NEW size \in Sizes, AllocateReuse(size) PROVE Inv'
  BY <1>1, ReuseInv
<1>2. ASSUME NEW size \in Sizes, AllocateAtEnd(size) PROVE Inv'
  BY <1>2, AtEndInv
<1>3. ASSUME NEW o \in InitialOffset .. (nextOffset - 1),
             NEW n \in 1 .. (nextOffset - o),
             Free([offset |-> o, size |-> n])
      PROVE  Inv'
  <2>. DEFINE b == [offset |-> o, size |-> n]
  <2>1. InitialOffset \in Nat /\ nextOffset \in Nat
    BY AllocatorAssumption DEF Inv, TypeOK
  <2>2. o \in Nat /\ n \in Nat /\ n > 0
    BY <2>1
  <2>3. b \in Block /\ b.size > 0
    BY <2>2 DEF Block
  <2>. HIDE DEF b
  <2>4. Free(b)
    BY <1>3 DEF b
  <2>. QED
    BY <2>3, <2>4, FreeInv
<1>4. CASE UNCHANGED vars
  BY <1>4 DEF vars, Inv, TypeOK, Apart, Within, Covers
<1>. QED
  BY <1>1, <1>2, <1>3, <1>4 DEF Next

\* Inv is an invariant of the allocator.
LEMMA InvHolds == Spec => []Inv
BY InitInv, NextInv, PTL DEF Spec

-----------------------------------------------------------------------------
(* The theorems *)

\* The allocator's fields keep their types: the tracked blocks a bag of
\* blocks, the free list a sequence of blocks, the end of the file a natural
\* number, whatever is allocated and freed.
THEOREM TypeCorrect == Spec => []TypeOK
<1>1. Inv => TypeOK
  BY DEF Inv
<1>. QED
  BY <1>1, InvHolds, PTL

\* The free list stays sorted and coalesced (addToFreeList).
THEOREM FreeListSafe == Spec => []FreeListCoalesced
<1>1. Inv => FreeListCoalesced
  <2>. SUFFICES ASSUME Inv PROVE FreeListCoalesced
    OBVIOUS
  <2>1. freeList \in Seq(Block) /\ DOMAIN freeList = 1 .. Len(freeList)
    BY DEF Inv, TypeOK
  <2>2. \A k \in 1 .. Len(freeList) : freeList[k].offset \in Nat
    BY <2>1, ListFacts
  <2>3. \A k \in 1 .. Len(freeList) : freeList[k].offset >= InitialOffset
    BY <2>2, AllocatorAssumption DEF Inv, Within
  <2>. QED
    BY <2>1, <2>3 DEF Inv, Apart, FreeListCoalesced
<1>. QED
  BY <1>1, InvHolds, PTL

\* The file never ends in free space (shrinkTrailingFreeBlocks).
THEOREM EndOfFileTight == Spec => []NoTrailingFree
<1>1. Inv => NoTrailingFree
  BY DEF Inv, TypeOK, Within, NoTrailingFree
<1>. QED
  BY <1>1, InvHolds, PTL

\* No address is both free and held, and none is lost: what Allocate returns
\* was in nobody's hands, and what Free is given can be allocated again.
THEOREM SpaceSafe == Spec => []SpaceConserved
<1>1. Inv => SpaceConserved
  <2>. SUFFICES ASSUME Inv,
                       NEW x \in held \cup (InitialOffset .. (nextOffset - 1))
                PROVE  (x \in held) <=>
                         /\ x \in InitialOffset .. (nextOffset - 1)
                         /\ \A k \in DOMAIN freeList : x \notin Addresses(freeList[k])
    BY DEF SpaceConserved
  <2>1. /\ freeList \in Seq(Block) /\ DOMAIN freeList = 1 .. Len(freeList)
        /\ nextOffset \in Nat /\ InitialOffset \in Nat /\ held \subseteq Nat
    BY AllocatorAssumption DEF Inv, TypeOK
  <2>2. x \in Nat
    BY <2>1
  <2>3. \A k \in 1 .. Len(freeList) :
            x \in Addresses(freeList[k]) <=>
                freeList[k].offset <= x /\ x < End(freeList[k])
    BY <2>1, <2>2, ListFacts, AddressesFacts
  <2>4. Covers(freeList, x) <=> \E k \in DOMAIN freeList : x \in Addresses(freeList[k])
    BY <2>1, <2>3 DEF Covers
  <2>5. x \in InitialOffset .. (nextOffset - 1) <=> InitialOffset <= x /\ x < nextOffset
    BY <2>1, <2>2
  <2>. QED
    BY <2>2, <2>4, <2>5 DEF Inv
<1>. QED
  BY <1>1, InvHolds, PTL

\* In a state where Inv holds the file ends right after the last held address.
LEMMA EndsAfterUse == ASSUME Inv PROVE SM!EndsAfterUse(held, nextOffset)
<1>1. /\ freeList \in Seq(Block) /\ nextOffset \in Nat /\ InitialOffset \in Nat
      /\ held \subseteq Nat /\ InitialOffset <= nextOffset
  BY AllocatorAssumption DEF Inv, TypeOK
<1>2. held \subseteq InitialOffset .. (nextOffset - 1)
  BY <1>1 DEF Inv
<1>3. ASSUME nextOffset # InitialOffset PROVE nextOffset - 1 \in held
  <2>1. /\ nextOffset - 1 \in Nat /\ InitialOffset <= nextOffset - 1
        /\ nextOffset - 1 < nextOffset
    BY <1>1, <1>3
  <2>2. ASSUME NEW k \in 1 .. Len(freeList), nextOffset - 1 < End(freeList[k])
        PROVE  FALSE
    <3>1. End(freeList[k]) < nextOffset /\ End(freeList[k]) \in Nat
      BY <1>1, ListFacts DEF Inv, Within
    <3>. QED
      BY <3>1, <2>2, <1>1
  <2>3. ~ Covers(freeList, nextOffset - 1)
    BY <2>2 DEF Covers
  <2>. QED
    BY <2>1, <2>3 DEF Inv
<1>. QED
  BY <1>2, <1>3 DEF SM!EndsAfterUse

\* The allocator implements the abstract space manager: best fit, splitting,
\* coalescing and shrinking are invisible to the clients, who are granted
\* unused runs and give runs back.
THEOREM Refinement == Spec => ImplementsSpaceManager
<1>1. Init => SM!Init
  BY DEF Init, SM!Init
<1>2. Inv /\ Inv' /\ [Next]_vars => [SM!Next]_SM!vars
  <2>. SUFFICES ASSUME Inv, Inv', [Next]_vars PROVE [SM!Next]_SM!vars
    OBVIOUS
  <2>a. /\ nextOffset \in Nat /\ InitialOffset \in Nat /\ nextOffset' \in Nat
        /\ InitialOffset <= nextOffset /\ InitialOffset <= nextOffset'
        /\ Sizes \subseteq Nat \ {0}
    BY AllocatorAssumption DEF Inv, TypeOK
  <2>e. SM!EndsAfterUse(held', nextOffset')
    <3>1. SM!EndsAfterUse(held, nextOffset)'
      BY EndsAfterUse, PTL
    <3>. QED
      BY <3>1 DEF SM!EndsAfterUse
  <2>1. ASSUME NEW size \in Sizes, AllocateReuse(size) PROVE SM!Next
    <3>1. PICK a \in InitialOffset .. (nextOffset - 1) :
              /\ a + size < nextOffset
              /\ \A x \in Nat : a <= x /\ x < a + size => x \notin held
              /\ held' = held \cup (a .. (a + size - 1))
      BY <2>1, ReuseInv
    <3>2. nextOffset' = nextOffset
      BY <2>1 DEF AllocateReuse
    <3>3. a \in InitialOffset .. nextOffset /\ a # nextOffset /\ size \in Nat
      BY <2>a
    <3>4. SM!Run(a, size) \cap held = {}
      <4>1. \A x \in a .. (a + size - 1) : x \in Nat /\ a <= x /\ x < a + size
        BY <2>a, <3>3
      <4>. QED
        BY <4>1, <3>1 DEF SM!Run
    <3>5. SM!Grant(size)
      BY <3>1, <3>2, <3>3, <3>4, <2>e DEF SM!Grant, SM!Run
    <3>. QED
      BY <3>5 DEF SM!Next
  <2>2. ASSUME NEW size \in Sizes, AllocateAtEnd(size) PROVE SM!Next
    <3>1. /\ held' = held \cup (nextOffset .. (nextOffset + size - 1))
          /\ nextOffset' = nextOffset + size
      BY <2>2, AtEndInv
    <3>2. nextOffset \in InitialOffset .. nextOffset
      BY <2>a
    <3>3. SM!Run(nextOffset, size) \cap held = {}
      <4>1. \A x \in nextOffset .. (nextOffset + size - 1) :
                x \in Nat /\ ~ (x < nextOffset)
        BY <2>a
      <4>. QED
        BY <4>1 DEF SM!Run, Inv
    <3>4. SM!Grant(size)
      BY <3>1, <3>2, <3>3, <2>e DEF SM!Grant, SM!Run
    <3>. QED
      BY <3>4 DEF SM!Next
  <2>3. ASSUME NEW o \in InitialOffset .. (nextOffset - 1),
               NEW n \in 1 .. (nextOffset - o),
               Free([offset |-> o, size |-> n])
        PROVE  SM!Next
    <3>. DEFINE b == [offset |-> o, size |-> n]
    <3>1. o \in Nat /\ n \in Nat /\ n > 0
      BY <2>a
    <3>2. b \in Block /\ b.size > 0 /\ Addresses(b) = o .. (o + n - 1)
      BY <3>1 DEF Block, Addresses, End
    <3>. HIDE DEF b
    <3>3. Free(b)
      BY <2>3 DEF b
    <3>4. nextOffset' <= nextOffset /\ held' = held \ Addresses(b)
      BY <3>2, <3>3, FreeInv
    <3>5. nextOffset' \in InitialOffset .. nextOffset
      BY <3>4, <2>a
    <3>6. Addresses(b) \subseteq held
      BY <3>3 DEF Free
    <3>7. SM!Release
      BY <3>2, <3>4, <3>5, <3>6, <2>e DEF SM!Release, SM!Run
    <3>. QED
      BY <3>7 DEF SM!Next
  <2>4. CASE UNCHANGED vars
    BY <2>4 DEF vars, SM!vars
  <2>. QED
    BY <2>1, <2>2, <2>3, <2>4 DEF Next
<1>. QED
  BY <1>1, <1>2, InvHolds, PTL DEF Spec, SM!Spec, ImplementsSpaceManager

-----------------------------------------------------------------------------
(* Tracked blocks *)

\* B tracks the addresses h: each of its blocks once, no two of them
\* overlapping, all of them together exactly h.
Tracks(B, h) ==
    /\ \A b \in DOMAIN B : b.size > 0 /\ B[b] = 1
    /\ \A x : x \in h <=> \E b \in DOMAIN B : x \in Addresses(b)
    /\ \A b, c \in DOMAIN B : b # c => ~ \E x : x \in Addresses(b) /\ x \in Addresses(c)

\* A block of addresses that were not tracked is added.
LEMMA TrackOneMore ==
    ASSUME NEW B, DOMAIN B \subseteq Block, NEW h, Tracks(B, h),
           NEW b \in Block, b.size > 0, Addresses(b) \cap h = {}
    PROVE  Tracks(B (+) SetToBag({b}), h \cup Addresses(b))
<1>. DEFINE S == SetToBag({b})
            C == B (+) S
<1>1. DOMAIN S = {b} /\ S[b] = 1
  BY DEF SetToBag
<1>2. b.offset \in Addresses(b)
  BY AddressesFacts, BlockFacts
<1>3. b \notin DOMAIN B
  BY <1>2 DEF Tracks
<1>. HIDE DEF S
<1>4. /\ DOMAIN C = DOMAIN B \cup {b}
      /\ \A c \in DOMAIN B : C[c] = B[c] + 0
      /\ C[b] = 0 + 1
  BY <1>1, <1>3 DEF (+)
<1>. HIDE DEF C
<1>5. \A c \in DOMAIN C : c.size > 0 /\ C[c] = 1
  BY <1>4 DEF Tracks
<1>6. \A x : x \in h \cup Addresses(b) <=> \E c \in DOMAIN C : x \in Addresses(c)
  BY <1>4 DEF Tracks
<1>7. ASSUME NEW c \in DOMAIN C, NEW d \in DOMAIN C, c # d,
             NEW x, x \in Addresses(c), x \in Addresses(d)
      PROVE  FALSE
  BY <1>7, <1>4 DEF Tracks
<1>. QED
  BY <1>5, <1>6, <1>7 DEF Tracks, C, S

\* A tracked block is removed.
LEMMA TrackOneLess ==
    ASSUME NEW B, NEW h, Tracks(B, h), NEW b \in DOMAIN B
    PROVE  Tracks(B (-) SetToBag({b}), h \ Addresses(b))
<1>. DEFINE S == SetToBag({b})
            C == B (-) S
<1>1. DOMAIN S = {b} /\ S[b] = 1
  BY DEF SetToBag
<1>2. \A c \in DOMAIN B : B[c] = 1
  BY DEF Tracks
<1>. HIDE DEF S
<1>. DEFINE D == [x \in DOMAIN B |-> IF x \in DOMAIN S THEN B[x] - S[x] ELSE B[x]]
<1>3. C = [x \in {d \in DOMAIN D : D[d] > 0} |-> D[x]]
  BY DEF (-)
<1>4. /\ DOMAIN D = DOMAIN B /\ D[b] = 0
      /\ \A c \in DOMAIN B \ {b} : D[c] = 1
  BY <1>1, <1>2
<1>. HIDE DEF C, D
<1>5. DOMAIN C = DOMAIN B \ {b}
  BY <1>3, <1>4
<1>6. \A c \in DOMAIN C : C[c] = B[c]
  BY <1>2, <1>3, <1>4, <1>5
<1>7. \A c \in DOMAIN C : c.size > 0 /\ C[c] = 1
  BY <1>6, <1>5 DEF Tracks
<1>8. \A x : x \in h \ Addresses(b) <=> \E c \in DOMAIN C : x \in Addresses(c)
  BY <1>5 DEF Tracks
<1>9. ASSUME NEW c \in DOMAIN C, NEW d \in DOMAIN C, c # d,
             NEW x, x \in Addresses(c), x \in Addresses(d)
      PROVE  FALSE
  BY <1>9, <1>5 DEF Tracks
<1>. QED
  BY <1>7, <1>8, <1>9 DEF Tracks, C, S

TrackInv == Inv /\ (~ partial => Tracks(blocks, held))

\* Every step keeps track of what is held, until part of a block is freed.
LEMMA TrackStep == TrackInv /\ [Next]_vars => TrackInv'
<1>. SUFFICES ASSUME TrackInv, [Next]_vars, ~ partial'
              PROVE  Tracks(blocks', held')
  BY NextInv DEF TrackInv
<1>. Inv /\ TypeOK
  BY DEF TrackInv, Inv
<1>1. ASSUME NEW size \in Sizes, AllocateReuse(size)
      PROVE  Tracks(blocks', held')
  <2>. DEFINE b == [offset |-> freeList[BestFit(freeList, size)].offset, size |-> size]
  <2>1. /\ ~ partial
        /\ blocks' = blocks (+) SetToBag({b}) /\ held' = held \cup Addresses(b)
    BY <1>1 DEF AllocateReuse
  <2>2. BestFit(freeList, size) \in Fits(freeList, size)
    BY <1>1, BestFitProps, AllocatorAssumption DEF AllocateReuse, TypeOK
  <2>3. b \in Block /\ b.size > 0
    BY <2>2, ListFacts, AllocatorAssumption DEF Fits, TypeOK, Block
  <2>4. Addresses(b) \cap held = {}
    <3>. SUFFICES ASSUME NEW x \in Addresses(b) PROVE x \notin held
      OBVIOUS
    <3>1. x \in Nat /\ b.offset <= x /\ x < End(b)
      BY <2>3, AddressesFacts
    <3>2. Covers(freeList, x)
      <4>. DEFINE i == BestFit(freeList, size)
      <4>1. i \in 1 .. Len(freeList) /\ freeList[i].size >= size
        BY <2>2 DEF Fits
      <4>. HIDE DEF i
      <4>2. /\ freeList[i].offset \in Nat /\ freeList[i].size \in Nat /\ size \in Nat
            /\ End(freeList[i]) = freeList[i].offset + freeList[i].size
        BY <4>1, ListFacts, AllocatorAssumption DEF TypeOK
      <4>3. b.offset = freeList[i].offset /\ End(b) = freeList[i].offset + size
        BY DEF End, i
      <4>. QED
        BY <3>1, <4>1, <4>2, <4>3 DEF Covers
    <3>. QED
      BY <3>1, <3>2 DEF Inv
  <2>. HIDE DEF b
  <2>. QED
    BY <2>1, <2>3, <2>4, TrackOneMore DEF TrackInv, TypeOK
<1>2. ASSUME NEW size \in Sizes, AllocateAtEnd(size)
      PROVE  Tracks(blocks', held')
  <2>. DEFINE b == [offset |-> nextOffset, size |-> size]
  <2>1. /\ ~ partial
        /\ blocks' = blocks (+) SetToBag({b}) /\ held' = held \cup Addresses(b)
    BY <1>2 DEF AllocateAtEnd
  <2>2. b \in Block /\ b.size > 0 /\ b.offset = nextOffset
    BY AllocatorAssumption DEF TypeOK, Block
  <2>. HIDE DEF b
  <2>3. Addresses(b) \cap held = {}
    BY <2>2, AddressesFacts DEF Inv, TypeOK
  <2>. QED
    BY <2>1, <2>2, <2>3, TrackOneMore DEF TrackInv, TypeOK
<1>3. ASSUME NEW b, Free(b) PROVE Tracks(blocks', held')
  <2>1. ~ partial /\ b \in DOMAIN blocks
    BY <1>3 DEF Free, BagIn, BagToSet
  <2>. QED
    BY <1>3, <2>1, TrackOneLess DEF Free, TrackInv
<1>4. CASE UNCHANGED vars
  BY <1>4 DEF vars, TrackInv
<1>. QED
  BY <1>1, <1>2, <1>3, <1>4 DEF Next

\* As long as only whole blocks are freed, a.blocks is exactly what clients
\* hold and ValidateNoOverlaps accepts it (Allocate, Free).
THEOREM TrackedSafe == Spec => []TrackedExactly
<1>1. Init => TrackInv
  <2>. SUFFICES ASSUME Init PROVE TrackInv
    OBVIOUS
  <2>1. DOMAIN blocks = {} /\ held = {}
    BY DEF Init, EmptyBag, SetToBag
  <2>2. Tracks(blocks, held)
    BY <2>1 DEF Tracks
  <2>. QED
    BY <2>2, InitInv DEF TrackInv
<1>2. TrackInv => TrackedExactly
  <2>. SUFFICES ASSUME TrackInv, ~ partial
                PROVE  TrackedExactly
    BY DEF TrackedExactly
  <2>. Tracks(blocks, held)
    BY DEF TrackInv
  <2>1. held = UNION {Addresses(b) : b \in BagToSet(blocks)}
    BY DEF Tracks, BagToSet
  <2>2. ValidateNoOverlaps
    BY DEF Tracks, BagToSet, ValidateNoOverlaps
  <2>. QED
    BY <2>1, <2>2 DEF TrackedExactly
<1>. QED
  BY <1>1, <1>2, TrackStep, PTL DEF Spec
=============================================================================
