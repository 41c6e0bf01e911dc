-------------------------- MODULE ObjectLinksProofs --------------------------
(***************************************************************************)
(* Proofs about ObjectLinks, for every set of names and addresses, every   *)
(* capacity of a group and every bound on reference counts: a count that   *)
(* nothing was written over is never below the number of links, so that no *)
(* link dangles as long as objects are freed by their own counts.          *)
(***************************************************************************)
EXTENDS ObjectLinks, SequenceFacts, FiniteSetTheorems

\* The links to x in the directories of d, live or not.
Links(d, x) == {l \in All \X (1 .. Capacity) :
                    /\ l[2] \in DOMAIN d[l[1]].entries
                    /\ d[l[1]].entries[l[2]].obj = x}

\* The links to an object are counted by a number.
LEMMA LinksFinite ==
    ASSUME NEW d, NEW x
    PROVE  IsFiniteSet(Links(d, x)) /\ Cardinality(Links(d, x)) \in Nat
<1>1. IsFiniteSet(All)
  BY FS_AddElement, ObjectLinksAssumption DEF All
<1>2. IsFiniteSet(1 .. Capacity)
  BY FS_Interval, ObjectLinksAssumption
<1>3. IsFiniteSet(All \X (1 .. Capacity))
  BY <1>1, <1>2, FS_Product
<1>4. Links(d, x) \subseteq All \X (1 .. Capacity)
  BY DEF Links
<1>. QED
  BY <1>3, <1>4, FS_Subset, FS_CardinalityType

\* Live links are links.
LEMMA LiveLinks ==
    ASSUME alloc \subseteq Addrs, NEW a
    PROVE  /\ LinksTo(a) \subseteq Links(disk, a)
           /\ IsFiniteSet(LinksTo(a)) /\ Cardinality(LinksTo(a)) \in Nat
           /\ Cardinality(LinksTo(a)) <= Cardinality(Links(disk, a))
<1>1. LinksTo(a) \subseteq Links(disk, a)
  BY DEF LinksTo, Links, LiveGroups, All
<1>. QED
  BY <1>1, LinksFinite, FS_Subset, FS_CardinalityType

\* d2 is d with entry e inserted as number k of the directory of g.
OneEntryMore(d, d2, g, k, e) ==
    /\ d[g].entries \in Seq(Entry) /\ d2[g].entries \in Seq(Entry)
    /\ Len(d2[g].entries) = Len(d[g].entries) + 1
    /\ Len(d2[g].entries) <= Capacity
    /\ k \in 1 .. Len(d2[g].entries)
    /\ \A i \in 1 .. Len(d2[g].entries) :
           d2[g].entries[i] = IF i < k THEN d[g].entries[i]
                              ELSE IF i = k THEN e ELSE d[g].entries[i - 1]
    /\ \A h \in All \ {g} : d2[h].entries = d[h].entries

\* One entry more is one link more to its object and no other link more or
\* less, wherever the entry is inserted.
LEMMA LinksMore ==
    ASSUME NEW d, NEW d2, NEW g \in All, NEW k, NEW e,
           OneEntryMore(d, d2, g, k, e), NEW x
    PROVE  Cardinality(Links(d2, x)) =
               IF e.obj = x THEN Cardinality(Links(d, x)) + 1
                            ELSE Cardinality(Links(d, x))
<1>. DEFINE s == d[g].entries
            t == d2[g].entries
            L == Links(d, x)
            M == Links(d2, x) \ {<<g, k>>}
            f == [l \in L |-> IF l[1] = g /\ l[2] >= k THEN <<g, l[2] + 1>> ELSE l]
<1>1. /\ Len(s) \in Nat /\ DOMAIN s = 1 .. Len(s) /\ DOMAIN t = 1 .. (Len(s) + 1)
      /\ Len(s) + 1 <= Capacity /\ Capacity \in Nat
      /\ k \in 1 .. (Len(s) + 1)
      /\ \A i \in 1 .. (Len(s) + 1) :
             t[i] = IF i < k THEN s[i] ELSE IF i = k THEN e ELSE s[i - 1]
  BY ObjectLinksAssumption DEF OneEntryMore
<1>2. \A h \in All \ {g} : d2[h].entries = d[h].entries
  BY DEF OneEntryMore
<1>3. \A l : l \in L <=> /\ l \in All \X (1 .. Capacity)
                         /\ l[1] = g => l[2] \in 1 .. Len(s) /\ s[l[2]].obj = x
                         /\ l[1] # g => /\ l[2] \in DOMAIN d[l[1]].entries
                                        /\ d[l[1]].entries[l[2]].obj = x
  BY <1>1 DEF Links
<1>4. \A l : l \in Links(d2, x) <=>
                         /\ l \in All \X (1 .. Capacity)
                         /\ l[1] = g => l[2] \in 1 .. (Len(s) + 1) /\ t[l[2]].obj = x
                         /\ l[1] # g => /\ l[2] \in DOMAIN d[l[1]].entries
                                        /\ d[l[1]].entries[l[2]].obj = x
  BY <1>1, <1>2 DEF Links
<1>5. \A l \in L : /\ l = <<l[1], l[2]>> /\ l[1] \in All /\ l[2] \in 1 .. Capacity
  BY <1>3
<1>. HIDE DEF s, t, L
<1>6. ASSUME NEW l \in L PROVE f[l] \in M
  <2>1. CASE l[1] = g /\ l[2] >= k
    <3>1. /\ l[2] \in 1 .. Len(s) /\ s[l[2]].obj = x
          /\ l[2] + 1 \in 1 .. (Len(s) + 1) /\ t[l[2] + 1] = s[l[2]] /\ l[2] + 1 # k
      BY <2>1, <1>1, <1>3
    <3>2. <<g, l[2] + 1>> \in Links(d2, x)
      BY <3>1, <1>1, <1>4
    <3>. QED
      BY <2>1, <3>1, <3>2
  <2>2. CASE ~ (l[1] = g /\ l[2] >= k)
    <3>1. l \in Links(d2, x)
      BY <2>2, <1>1, <1>3, <1>4, <1>5
    <3>2. l # <<g, k>>
      BY <2>2, <1>1
    <3>. QED
      BY <2>2, <3>1, <3>2
  <2>. QED
    BY <2>1, <2>2
<1>7. ASSUME NEW l \in L, NEW m \in L, f[l] = f[m] PROVE l = m
  <2>. USE <1>5, <1>7
  <2>1. CASE l[1] = g /\ l[2] >= k /\ m[1] = g /\ m[2] >= k
    BY <2>1
  <2>2. CASE l[1] = g /\ l[2] >= k /\ ~ (m[1] = g /\ m[2] >= k)
    BY <2>2, <1>1
  <2>3. CASE ~ (l[1] = g /\ l[2] >= k) /\ m[1] = g /\ m[2] >= k
    BY <2>3, <1>1
  <2>4. CASE ~ (l[1] = g /\ l[2] >= k) /\ ~ (m[1] = g /\ m[2] >= k)
    BY <2>4
  <2>. QED
    BY <2>1, <2>2, <2>3, <2>4
<1>8. ASSUME NEW m \in M PROVE \E l \in L : f[l] = m
  <2>. m \in Links(d2, x) /\ m = <<m[1], m[2]>> /\ m[1] \in All /\ m[2] \in 1 .. Capacity
    BY <1>4
  <2>1. CASE m[1] = g /\ m[2] > k
    <3>. DEFINE l == <<g, m[2] - 1>>
    <3>1. m[2] - 1 \in 1 .. Len(s) /\ t[m[2]] = s[m[2] - 1]
      BY <2>1, <1>1, <1>4
    <3>2. l \in L
      BY <2>1, <3>1, <1>1, <1>3, <1>4
    <3>3. f[l] = <<g, (m[2] - 1) + 1>>
      BY <2>1, <3>2, <1>1
    <3>. QED
      BY <2>1, <3>2, <3>3
  <2>2. CASE m[1] # g \/ m[2] < k
    <3>1. m \in L
      BY <2>2, <1>1, <1>3, <1>4
    <3>2. ~ (m[1] = g /\ m[2] >= k)
      BY <2>2, <1>1
    <3>. QED
      BY <3>1, <3>2
  <2>3. m[1] = g /\ m[2] = k => FALSE
    OBVIOUS
  <2>. QED
    BY <2>1, <2>2, <2>3, <1>1
<1>9. f \in [L -> M]
  BY <1>6
<1>10. <<g, k>> \in Links(d2, x) <=> e.obj = x
  BY <1>1, <1>4
<1>11. Cardinality(M) = IF e.obj = x THEN Cardinality(Links(d2, x)) - 1
                                     ELSE Cardinality(Links(d2, x))
  BY <1>10, LinksFinite, FS_RemoveElement
<1>. HIDE DEF f, M
<1>12. ExistsBijection(L, M)
  BY <1>7, <1>8, <1>9 DEF ExistsBijection, Bijection, Injection, Surjection, IsInjective
<1>13. Cardinality(M) = Cardinality(L)
  BY <1>12, FS_Bijection, LinksFinite DEF L
<1>. QED
  BY <1>11, <1>13, LinksFinite DEF L

\* The number of links to x in the directories of d.
Count(d, x) == Cardinality(Links(d, x))

\* Only entries count.
LEMMA CountSame ==
    ASSUME NEW d, NEW d2, \A h \in All : d2[h].entries = d[h].entries, NEW x
    PROVE  Count(d2, x) = Count(d, x)
<1>1. Links(d2, x) = Links(d, x)
  BY DEF Links
<1>. QED
  BY <1>1 DEF Count

-----------------------------------------------------------------------------
(* Files and what the operations make of them *)

\* What is written in the file, at every address.
Disks == {d \in [All -> Object] : \A g \in All : /\ d[g].rc \in 0 .. MaxRefCount
                                                 /\ Len(d[g].entries) <= Capacity}

\* The parts of an object.
LEMMA DiskFacts ==
    ASSUME NEW d \in Disks, NEW g \in All
    PROVE  /\ d[g] \in Object /\ d[g].kind \in Kinds
           /\ d[g].rc \in 0 .. MaxRefCount /\ d[g].rc \in Nat
           /\ d[g].counted \in BOOLEAN /\ d[g].slack \in BOOLEAN
           /\ d[g].entries \in Seq(Entry) /\ Len(d[g].entries) <= Capacity
BY ObjectLinksAssumption DEF Disks, Object

LEMMA EntryFacts == \A e \in Entry : e.name \in Names /\ e.obj \in Addrs
BY DEF Entry

\* Entry e is inserted somewhere.
LEMMA InsertedProps ==
    ASSUME NEW es \in Seq(Entry), NEW e \in Entry
    PROVE  \E k \in 1 .. (Len(es) + 1) :
               /\ Inserted(es, e) \in Seq(Entry)
               /\ Len(Inserted(es, e)) = Len(es) + 1
               /\ \A i \in 1 .. (Len(es) + 1) :
                      Inserted(es, e)[i] = IF i < k THEN es[i]
                                           ELSE IF i = k THEN e ELSE es[i - 1]
<1>. DEFINE Fits(i) == /\ i = Len(es) + 1 \/ es[i].name > e.name
                       /\ \A j \in 1 .. i - 1 : es[j].name <= e.name
            T == {i \in 1 .. (Len(es) + 1) : i = Len(es) + 1 \/ es[i].name > e.name}
<1>0. Len(es) \in Nat /\ \A i \in 1 .. Len(es) : es[i] \in Entry
  OBVIOUS
<1>1. e.name \in Nat /\ \A i \in 1 .. Len(es) : es[i].name \in Nat
  BY <1>0, ObjectLinksAssumption, EntryFacts
<1>2. T \subseteq Nat /\ Len(es) + 1 \in T
  BY <1>0, <1>1
<1>3. PICK m \in T : \A j \in T : m <= j
  BY <1>2, LeastNat
<1>4. m \in 1 .. (Len(es) + 1) /\ Fits(m)
  BY <1>0, <1>1, <1>3
<1>. DEFINE n == CHOOSE i \in 1 .. Len(es) + 1 : Fits(i)
            fs == InsertAt(es, n, e)
<1>5. n \in 1 .. (Len(es) + 1)
  BY <1>4
<1>6. Inserted(es, e) = fs
  BY DEF Inserted
<1>. HIDE DEF n, Fits, T
<1>7. /\ fs \in Seq(Entry) /\ Len(fs) = Len(es) + 1
      /\ \A i \in 1 .. (Len(es) + 1) :
             fs[i] = IF i < n THEN es[i] ELSE IF i = n THEN e ELSE es[i - 1]
  BY <1>5, InsertAtProps
<1>. HIDE DEF fs
<1>. QED
  BY <1>5, <1>6, <1>7

\* Linking adds one entry and changes nothing else.
LEMMA LinkProps ==
    ASSUME NEW d \in Disks, NEW g \in All, ~ LinkFails(d, g),
           NEW name \in Names, NEW a \in Addrs
    PROVE  LET d2 == LinkToParent(d, g, name, a)
           IN  /\ d2 \in Disks
               /\ \E k : OneEntryMore(d, d2, g, k, [name |-> name, obj |-> a])
               /\ \A h \in All : d2[h].rc = d[h].rc /\ d2[h].kind = d[h].kind
<1>. DEFINE d2 == LinkToParent(d, g, name, a)
            e == [name |-> name, obj |-> a]
            es == d[g].entries
            fs == Inserted(es, e)
<1>0. e \in Entry
  BY DEF Entry
<1>1. es \in Seq(Entry) /\ Len(es) \in Nat
  BY DiskFacts
<1>2. Len(es) + 1 <= Capacity
  BY <1>1, ObjectLinksAssumption DEF LinkFails
<1>3. PICK k \in 1 .. (Len(es) + 1) :
               /\ fs \in Seq(Entry)
               /\ Len(fs) = Len(es) + 1
               /\ \A i \in 1 .. (Len(es) + 1) :
                      fs[i] = IF i < k THEN es[i] ELSE IF i = k THEN e ELSE es[i - 1]
  BY <1>0, <1>1, InsertedProps
<1>4. d2 = [d EXCEPT ![g].entries = fs]
  BY DEF LinkToParent
<1>. HIDE DEF d2, e, fs
<1>5. /\ d2 \in [All -> Object] /\ d2[g].entries = fs
      /\ \A h \in All \ {g} : d2[h] = d[h]
      /\ \A h \in All : d2[h].rc = d[h].rc /\ d2[h].kind = d[h].kind
  BY <1>3, <1>4 DEF Disks, Object
<1>6. d2 \in Disks
  BY <1>2, <1>3, <1>5 DEF Disks
<1>7. OneEntryMore(d, d2, g, k, e)
  BY <1>1, <1>2, <1>3, <1>5 DEF OneEntryMore
<1>. QED
  BY <1>5, <1>6, <1>7 DEF d2, e

\* Writing a count changes nothing else.
LEMMA CountProps ==
    ASSUME NEW d \in Disks, NEW a \in Addrs, NEW n \in 0 .. MaxRefCount
    PROVE  LET d2 == WriteRefCount(d, a, n)
           IN  /\ d2 \in Disks
               /\ \A h \in All : d2[h].entries = d[h].entries /\ d2[h].kind = d[h].kind
               /\ d2[a].rc = n /\ \A h \in All \ {a} : d2[h].rc = d[h].rc
<1>. DEFINE d2 == WriteRefCount(d, a, n)
<1>1. a \in All /\ n \in Nat
  BY ObjectLinksAssumption DEF All
<1>2. d \in [All -> Object] /\ \A h \in All : d[h] \in Object
  BY DEF Disks
<1>3. d2 \in [All -> Object] /\ \A h \in All \ {a} : d2[h] = d[h]
  BY <1>1, <1>2 DEF WriteRefCount, Object
<1>4. d2[a].rc = n /\ d2[a].entries = d[a].entries /\ d2[a].kind = d[a].kind
  BY <1>1, <1>2 DEF WriteRefCount, Object
<1>. HIDE DEF d2
<1>5. \A h \in All : d2[h].entries = d[h].entries /\ d2[h].kind = d[h].kind
  BY <1>3, <1>4
<1>6. d2 \in Disks
  BY <1>3, <1>4, <1>5 DEF Disks
<1>. QED
  BY <1>3, <1>4, <1>5, <1>6 DEF d2

\* Writing a new object drops the entries that were at its address.
LEMMA NewProps ==
    ASSUME NEW d \in Disks, NEW a \in Addrs, NEW kind \in Kinds,
           NEW d2, d2 = [d EXCEPT ![a] = NewObject(kind)]
    PROVE  /\ d2 \in Disks /\ d2[a] = NewObject(kind)
           /\ \A h \in All \ {a} : d2[h] = d[h]
           /\ \A x : Count(d2, x) \in Nat /\ Count(d2, x) <= Count(d, x)
<1>1. NewObject(kind) \in Object /\ NewObject(kind).rc = 1 /\ NewObject(kind).entries = <<>>
  BY DEF NewObject, Object
<1>2. d2[a] = NewObject(kind) /\ \A h \in All \ {a} : d2[h] = d[h]
  BY DEF Disks, All
<1>3. d2 \in Disks
  <2>1. d2 \in [All -> Object]
    BY <1>1 DEF Disks
  <2>2. d2[a].rc \in 0 .. MaxRefCount /\ Len(d2[a].entries) <= Capacity
    BY <1>1, <1>2, ObjectLinksAssumption
  <2>. QED
    BY <1>2, <2>1, <2>2 DEF Disks
<1>4. ASSUME NEW x PROVE Count(d2, x) \in Nat /\ Count(d2, x) <= Count(d, x)
  <2>1. Links(d2, x) \subseteq Links(d, x)
    BY <1>1, <1>2 DEF Links
  <2>. QED
    BY <2>1, LinksFinite, FS_Subset DEF Count
<1>. QED
  BY <1>2, <1>3, <1>4

\* The first entry of a name is an entry of that name.
LEMMA FirstMatchProps ==
    ASSUME NEW es \in Seq(Entry), NEW name, Matches(es, name) # {}
    PROVE  /\ FirstMatch(es, name) \in 1 .. Len(es)
           /\ es[FirstMatch(es, name)].name = name
<1>1. Matches(es, name) \subseteq 1 .. Len(es) /\ Matches(es, name) \subseteq Nat
  BY DEF Matches
<1>2. \E i \in Matches(es, name) : \A j \in Matches(es, name) : i <= j
  BY <1>1, LeastNat
<1>3. FirstMatch(es, name) \in Matches(es, name)
  BY <1>2 DEF FirstMatch
<1>. QED
  BY <1>1, <1>3 DEF Matches

\* Paths are sequences of one or two names.
LEMMA PathFacts ==
    ASSUME NEW p \in Paths
    PROVE  /\ p \in Seq(Names) /\ Len(p) \in {1, 2} /\ Last(p) \in Names
           /\ Len(p) = 1 => p = <<Last(p)>>
           /\ Len(p) = 2 => p = <<Front(p)[1], Last(p)>> /\ Len(Front(p)) = 1
<1>1. PICK n \in 1 .. 2 : p \in [1 .. n -> Names]
  BY DEF Paths
<1>2. n \in Nat /\ p \in Seq(Names) /\ Len(p) = n
  BY <1>1
<1>3. p[n] \in Names /\ Last(p) = p[n]
  BY <1>1, <1>2 DEF Last
<1>4. CASE n = 1
  BY <1>1, <1>2, <1>3, <1>4
<1>5. CASE n = 2
  <2>1. Front(p) = SubSeq(p, 1, 1)
    BY <1>2, <1>5 DEF Front
  <2>2. Len(Front(p)) = 1 /\ Front(p)[1] = p[1]
    BY <1>2, <1>5, <2>1, SubSeqProperties
  <2>3. p = <<p[1], p[2]>>
    BY <1>2, <1>5
  <2>. QED
    BY <1>2, <1>3, <1>5, <2>2, <2>3
<1>. QED
  BY <1>1, <1>4, <1>5

\* The parent of a path whose parent is known has an address in the file.
LEMMA ParentFacts ==
    ASSUME NEW path \in Paths, ParentKnown(path),
           \A p \in DOMAIN groups : groups[p] \in Addrs
    PROVE  ParentAddr(path) \in All
BY DEF ParentKnown, ParentAddr, All

\* A path that resolves names an object; removing its entry from the
\* directory of its parent leaves a file of which this one has an entry more.
LEMMA UnlinkedProps ==
    ASSUME disk \in Disks, NEW path \in Paths, Resolves(path),
           \A p \in DOMAIN groups : groups[p] \in Addrs
    PROVE  LET d == Unlinked(path)
               g == ParentAddr(path)
               k == FirstMatch(disk[g].entries, Last(path))
           IN  /\ g \in All /\ Resolve(path) \in Addrs
               /\ d \in Disks
               /\ k \in DOMAIN disk[g].entries
               /\ disk[g].entries[k].name = Last(path)
               /\ disk[g].entries[k].obj = Resolve(path)
               /\ OneEntryMore(d, disk, g, k, disk[g].entries[k])
               /\ \A h \in All : d[h].rc = disk[h].rc /\ d[h].kind = disk[h].kind
<1>. DEFINE d == Unlinked(path)
            g == ParentAddr(path)
            es == disk[g].entries
            k == FirstMatch(es, Last(path))
            fs == RemoveAt(es, k)
<1>1. g \in All
  BY ParentFacts DEF Resolves
<1>2. es \in Seq(Entry) /\ Len(es) <= Capacity
  BY <1>1, DiskFacts
<1>3. k \in 1 .. Len(es) /\ es[k].name = Last(path)
  BY <1>2, FirstMatchProps DEF Resolves
<1>4. Resolve(path) = es[k].obj
  BY DEF Resolve
<1>5. d = [disk EXCEPT ![g].entries = fs]
  BY DEF Unlinked
<1>. HIDE DEF g, d, k
<1>6. /\ fs \in Seq(Entry) /\ Len(fs) = Len(es) - 1
      /\ \A i \in 1 .. (Len(es) - 1) : fs[i] = IF i < k THEN es[i] ELSE es[i + 1]
  BY <1>2, <1>3, RemoveAtProps
<1>. HIDE DEF fs, es
<1>7. es[k] \in Entry /\ Len(es) \in Nat /\ DOMAIN es = 1 .. Len(es)
  BY <1>2, <1>3
<1>8. /\ d \in [All -> Object] /\ d[g].entries = fs
      /\ \A h \in All \ {g} : d[h] = disk[h]
      /\ \A h \in All : d[h].rc = disk[h].rc /\ d[h].kind = disk[h].kind
  BY <1>1, <1>5, <1>6 DEF Disks, Object
<1>9. d \in Disks
  <2>1. Len(fs) <= Capacity
    BY <1>2, <1>6, <1>7, ObjectLinksAssumption
  <2>2. \A h \in All : d[h].rc \in 0 .. MaxRefCount
    BY <1>8, DiskFacts
  <2>3. \A h \in All : Len(d[h].entries) <= Capacity
    BY <1>8, <2>1, DiskFacts
  <2>. QED
    BY <1>8, <2>2, <2>3 DEF Disks
<1>10. ASSUME NEW i \in 1 .. Len(es)
       PROVE  es[i] = IF i < k THEN fs[i] ELSE IF i = k THEN es[k] ELSE fs[i - 1]
  <2>1. CASE i < k
    BY <2>1, <1>3, <1>6, <1>7
  <2>2. CASE i > k
    <3>1. i - 1 \in 1 .. (Len(es) - 1) /\ ~ (i - 1 < k) /\ (i - 1) + 1 = i
      BY <2>2, <1>3, <1>7
    <3>. QED
      BY <2>2, <3>1, <1>6, <1>3
  <2>. QED
    BY <2>1, <2>2, <1>3
<1>11. OneEntryMore(d, disk, g, k, es[k])
  BY <1>2, <1>3, <1>6, <1>7, <1>8, <1>10 DEF OneEntryMore, es
<1>12. Resolve(path) \in Addrs
  BY <1>4, <1>7, EntryFacts
<1>. QED
  BY <1>1, <1>3, <1>4, <1>7, <1>8, <1>9, <1>11, <1>12 DEF d, g, k, es

-----------------------------------------------------------------------------
(* Types *)

TypeInv ==
    /\ disk \in Disks
    /\ alloc \subseteq Addrs /\ failed \subseteq Addrs /\ overwritten \subseteq Addrs
    /\ broken \subseteq All
    /\ dense \subseteq [group : Addrs, obj : Addrs]
    /\ shared \in BOOLEAN /\ loose \in BOOLEAN
    /\ DOMAIN groups \subseteq Paths
    /\ \A p \in DOMAIN groups : groups[p] \in Addrs

\* A new object is written, and linked only where that works.
LEMMA EnterDisk ==
    ASSUME TypeInv, NEW path \in Paths, NEW a \in Addrs, NEW kind \in Kinds,
           NEW ok \in BOOLEAN, Enter(path, a, kind, ok)
    PROVE  /\ Written(a, kind) \in Disks /\ disk' \in Disks /\ failed' \subseteq Addrs
           /\ ok => /\ ParentKnown(path) /\ ParentAddr(path) \in All /\ Last(path) \in Names
                    /\ ~ LinkFails(Written(a, kind), ParentAddr(path))
                    /\ disk' = LinkToParent(Written(a, kind), ParentAddr(path), Last(path), a)
           /\ ~ ok => disk' = Written(a, kind)
<1>. DEFINE w == Written(a, kind)
            g == ParentAddr(path)
<1>1. w = [disk EXCEPT ![a] = NewObject(kind)] /\ disk \in Disks
  BY DEF Written, TypeInv
<1>2. failed' \subseteq Addrs
  BY DEF Enter, TypeInv
<1>. HIDE DEF w
<1>3. w \in Disks
  BY <1>1, NewProps
<1>4. ok => /\ ParentKnown(path) /\ ~ LinkFails(w, g)
            /\ disk' = LinkToParent(w, g, Last(path), a)
  BY DEF Enter, LinkOutcomes, w
<1>5. ~ ok => disk' = w
  BY DEF Enter, w
<1>6. Last(path) \in Names
  BY PathFacts
<1>7. ParentKnown(path) => g \in All
  BY ParentFacts DEF TypeInv
<1>. HIDE DEF g
<1>8. ok => disk' \in Disks
  BY <1>3, <1>4, <1>6, <1>7, LinkProps
<1>. QED
  BY <1>2, <1>3, <1>4, <1>5, <1>6, <1>7, <1>8 DEF w, g

\* Rewriting the header of one object.
LEMMA HeaderProps ==
    ASSUME NEW d \in Disks, NEW a \in Addrs, NEW d2,
           \/ \E n \in 0 .. MaxRefCount : d2 = [d EXCEPT ![a].rc = n]
           \/ d2 = [d EXCEPT ![a].slack = TRUE]
    PROVE  /\ d2 \in Disks
           /\ \A h \in All : d2[h].entries = d[h].entries /\ d2[h].kind = d[h].kind
           /\ \A h \in All \ {a} : d2[h].rc = d[h].rc
           /\ d2 = [d EXCEPT ![a].slack = TRUE] => d2[a].rc = d[a].rc
<1>1. a \in All /\ d \in [All -> Object] /\ d[a] \in Object
  BY ObjectLinksAssumption DEF All, Disks
<1>2. CASE d2 = [d EXCEPT ![a].slack = TRUE]
  <2>1. /\ d2 \in [All -> Object] /\ \A h \in All \ {a} : d2[h] = d[h]
        /\ d2[a].rc = d[a].rc /\ d2[a].entries = d[a].entries /\ d2[a].kind = d[a].kind
    BY <1>1, <1>2 DEF Object
  <2>. QED
    BY <1>1, <2>1 DEF Disks
<1>3. CASE \E n \in 0 .. MaxRefCount : d2 = [d EXCEPT ![a].rc = n]
  <2>1. PICK n \in 0 .. MaxRefCount : d2 = [d EXCEPT ![a].rc = n]
    BY <1>3
  <2>2. n \in Nat
    BY ObjectLinksAssumption
  <2>3. /\ d2 \in [All -> Object] /\ \A h \in All \ {a} : d2[h] = d[h]
        /\ d2[a].rc = n /\ d2[a].entries = d[a].entries /\ d2[a].kind = d[a].kind
    BY <1>1, <2>1, <2>2 DEF Object
  <2>. QED
    BY <1>1, <1>2, <2>3 DEF Disks
<1>. QED
  BY <1>2, <1>3

\* Freeing an object drops the entries that it still has.
LEMMA FreedProps ==
    ASSUME NEW d \in Disks, NEW a \in Addrs, NEW d2, d2 = [d EXCEPT ![a].entries = <<>>]
    PROVE  /\ d2 \in Disks /\ d2[a].entries = <<>>
           /\ \A h \in All : d2[h].rc = d[h].rc /\ d2[h].kind = d[h].kind
           /\ \A h \in All \ {a} : d2[h] = d[h]
           /\ \A x : Count(d2, x) \in Nat /\ Count(d2, x) <= Count(d, x)
<1>1. a \in All /\ d \in [All -> Object] /\ d[a] \in Object
  BY ObjectLinksAssumption DEF All, Disks
<1>2. /\ d2 \in [All -> Object] /\ \A h \in All \ {a} : d2[h] = d[h]
      /\ d2[a].rc = d[a].rc /\ d2[a].entries = <<>> /\ d2[a].kind = d[a].kind
  <2>1. <<>> \in Seq(Entry)
    OBVIOUS
  <2>2. d2 = [d EXCEPT ![a] = [d[a] EXCEPT !.entries = <<>>]]
    OBVIOUS
  <2>3. [d[a] EXCEPT !.entries = <<>>] \in Object
    BY <1>1, <2>1 DEF Object
  <2>4. /\ [d[a] EXCEPT !.entries = <<>>].rc = d[a].rc
        /\ [d[a] EXCEPT !.entries = <<>>].entries = <<>>
        /\ [d[a] EXCEPT !.entries = <<>>].kind = d[a].kind
    BY <1>1 DEF Object
  <2>. HIDE DEF Object
  <2>. QED
    BY <1>1, <2>2, <2>3, <2>4
<1>3. d2 \in Disks
  <2>1. Len(d2[a].entries) <= Capacity
    BY <1>2, ObjectLinksAssumption
  <2>2. \A h \in All : d2[h].rc \in 0 .. MaxRefCount /\ Len(d2[h].entries) <= Capacity
    BY <1>2, <2>1 DEF Disks
  <2>. QED
    BY <1>2, <2>2 DEF Disks
<1>4. ASSUME NEW x PROVE Count(d2, x) \in Nat /\ Count(d2, x) <= Count(d, x)
  <2>1. Links(d2, x) \subseteq Links(d, x)
    BY <1>2 DEF Links
  <2>. QED
    BY <2>1, LinksFinite, FS_Subset DEF Count
<1>. QED
  BY <1>1, <1>2, <1>3, <1>4

-----------------------------------------------------------------------------
(* What every operation keeps: types, and counts that cover the links *)

\* The counts of d cover the links to the objects in al, where nothing was
\* written over them, and there are no links to anything else.
Covered(d, al, ov) == /\ \A a \in al \ ov : Count(d, a) <= d[a].rc
                      /\ \A a \in Addrs \ al : Count(d, a) = 0

\* Directories are read and written through fw.groups whether their storage
\* is still theirs or not: links in freed groups are counted as well.
Inv == TypeInv /\ Covered(disk, alloc, overwritten)

LEMMA CountNat == \A d, x : Count(d, x) \in Nat
BY LinksFinite DEF Count

\* What may be broken are objects.
LEMMA HitsProps ==
    ASSUME NEW B, B \subseteq All, NEW S, S \subseteq All, NEW b, b \in Hits(B, S)
    PROVE  b \subseteq All
BY DEF Hits

\* Writing a count above one changes nothing else, any other nothing at all.
LEMMA V2Props ==
    ASSUME NEW d \in Disks, NEW a \in Addrs, NEW n \in 0 .. MaxRefCount,
           NEW d2, d2 = WriteV2RefCount(d, a, n)
    PROVE  /\ d2 \in Disks
           /\ \A h \in All : d2[h].entries = d[h].entries /\ d2[h].kind = d[h].kind
           /\ \A h \in All \ {a} : d2[h].rc = d[h].rc
           /\ d2[a].rc = IF n > 1 THEN n ELSE d[a].rc
<1>1. CASE n > 1
  <2>1. d2 = WriteRefCount(d, a, n)
    BY <1>1 DEF WriteV2RefCount, WriteRefCount
  <2>. QED
    BY <1>1, <2>1, CountProps
<1>2. CASE ~ (n > 1)
  BY <1>2 DEF WriteV2RefCount
<1>. QED
  BY <1>1, <1>2

\* A new object is written and linked, if that works: its count is one.
LEMMA EnterCovered ==
    ASSUME Inv, NEW path \in Paths, NEW a \in Addrs \ alloc, NEW kind \in Kinds,
           NEW ok \in BOOLEAN, Enter(path, a, kind, ok)
    PROVE  Covered(disk', alloc \cup {a}, overwritten \ {a})
<1>. DEFINE w == Written(a, kind)
            g == ParentAddr(path)
            e == [name |-> Last(path), obj |-> a]
<1>0. TypeInv /\ disk \in Disks /\ alloc \subseteq Addrs /\ a \in All
  BY DEF Inv, TypeInv, All
<1>1. /\ w \in Disks /\ disk' \in Disks
      /\ ok => /\ g \in All /\ Last(path) \in Names /\ ~ LinkFails(w, g)
               /\ disk' = LinkToParent(w, g, Last(path), a)
      /\ ~ ok => disk' = w
  BY <1>0, EnterDisk
<1>2. w = [disk EXCEPT ![a] = NewObject(kind)]
  BY DEF Written
<1>. HIDE DEF w, g
<1>3. /\ w[a] = NewObject(kind) /\ \A h \in All \ {a} : w[h] = disk[h]
      /\ \A x : Count(w, x) \in Nat /\ Count(w, x) <= Count(disk, x)
  <2>1. disk \in Disks /\ a \in Addrs
    BY <1>0
  <2>2. w[a] = NewObject(kind)
    BY <1>2, <2>1 DEF Disks, All
  <2>3. \A h \in All \ {a} : w[h] = disk[h]
    BY <1>2, <2>1, NewProps
  <2>4. \A x : Count(w, x) \in Nat /\ Count(w, x) <= Count(disk, x)
    BY <1>2, <2>1, NewProps
  <2>. QED
    BY <2>2, <2>3, <2>4
<1>4. w[a].rc = 1
  BY <1>3 DEF NewObject
<1>5. \A x \in Addrs \ alloc : Count(w, x) = 0
  BY <1>3, CountNat DEF Inv, Covered
<1>6. ASSUME NEW x \in alloc \ overwritten PROVE Count(w, x) <= w[x].rc
  <2>1. x \in All \ {a} /\ Count(disk, x) <= disk[x].rc /\ disk[x].rc \in Nat
    BY <1>0, DiskFacts DEF Inv, Covered, All
  <2>. QED
    BY <1>3, <2>1, CountNat
<1>7. CASE ~ ok
  BY <1>1, <1>4, <1>5, <1>6, <1>7 DEF Covered
<1>8. CASE ok
  <2>. DEFINE d == LinkToParent(w, g, Last(path), a)
  <2>1. /\ \E k : OneEntryMore(w, d, g, k, e)
        /\ \A h \in All : d[h].rc = w[h].rc
    BY <1>1, <1>8, LinkProps
  <2>2. PICK k : OneEntryMore(w, d, g, k, e)
    BY <2>1
  <2>3. e.obj = a
    OBVIOUS
  <2>. HIDE DEF e, d
  <2>4. \A x : Count(d, x) = IF a = x THEN Count(w, x) + 1 ELSE Count(w, x)
    BY <1>1, <1>8, <2>2, <2>3, LinksMore DEF Count
  <2>5. Count(d, a) = 1
    BY <1>5, <2>4
  <2>6. \A x \in (alloc \cup {a}) \ (overwritten \ {a}) : Count(d, x) <= d[x].rc
    BY <1>0, <1>4, <1>6, <2>1, <2>4, <2>5 DEF All
  <2>7. \A x \in Addrs \ (alloc \cup {a}) : Count(d, x) = 0
    BY <1>5, <2>4
  <2>8. disk' = d
    BY <1>1, <1>8 DEF d
  <2>. QED
    BY <2>6, <2>7, <2>8 DEF Covered
<1>. QED
  BY <1>7, <1>8

\* A path that resolves names an object with a link to be removed.
LEMMA ResolveProps ==
    ASSUME TypeInv, NEW path \in Paths, Resolves(path)
    PROVE  LET a == Resolve(path)
               d == Unlinked(path)
           IN  /\ a \in Addrs /\ a \in All /\ d \in Disks
               /\ \A h \in All : d[h].rc = disk[h].rc /\ d[h].kind = disk[h].kind
               /\ \A x : Count(disk, x) = IF a = x THEN Count(d, x) + 1 ELSE Count(d, x)
<1>. DEFINE d == Unlinked(path)
            g == ParentAddr(path)
            k == FirstMatch(disk[g].entries, Last(path))
            e == disk[g].entries[k]
            a == Resolve(path)
<1>1. /\ g \in All /\ d \in Disks /\ e.obj = a /\ a \in Addrs
      /\ OneEntryMore(d, disk, g, k, e)
      /\ \A h \in All : d[h].rc = disk[h].rc /\ d[h].kind = disk[h].kind
  BY UnlinkedProps DEF TypeInv
<1>. HIDE DEF d, g, k, e, a
<1>2. \A x : Count(disk, x) = IF a = x THEN Count(d, x) + 1 ELSE Count(d, x)
  BY <1>1, LinksMore DEF Count
<1>3. a \in All
  BY <1>1 DEF All
<1>. QED
  BY <1>1, <1>2, <1>3 DEF a, d

\* What has a link is allocated.
LEMMA ResolveLive ==
    ASSUME Inv, NEW path \in Paths, Resolves(path)
    PROVE  Resolve(path) \in alloc
<1>. DEFINE a == Resolve(path)
            d == Unlinked(path)
<1>1. a \in Addrs /\ Count(disk, a) = Count(d, a) + 1
  BY ResolveProps DEF Inv
<1>. HIDE DEF a, d
<1>2. Count(disk, a) # 0
  BY <1>1, CountNat
<1>. QED
  BY <1>1, <1>2 DEF Inv, Covered, a

\* A hard link, counted and then made or given up.
LEMMA HardLinkProps ==
    ASSUME TypeInv, NEW path \in Paths, NEW target \in Paths, CreateHardLink(path, target)
    PROVE  /\ disk' \in Disks /\ failed' \subseteq Addrs /\ broken' \subseteq All
           /\ Inv => Covered(disk', alloc, overwritten)
<1>. DEFINE a == Resolve(target)
            n == disk[a].rc
            d == CountLink(a)
            g == ParentAddr(path)
            f == LinkToParent(d, g, Last(path), a)
            u == WriteV2RefCount(d, a, n)
<1>1. /\ Resolves(target) /\ n < MaxRefCount /\ HitBehind(d, a)
      /\ \/ disk' = d /\ failed' = failed \cup {a}
         \/ disk' = u /\ failed' = failed \cup {a}
         \/ /\ ParentKnown(path) /\ ~ LinkFails(d, g)
            /\ disk' = f /\ failed' = failed
  BY DEF CreateHardLink, LinkOutcomes
<1>2. a \in Addrs /\ a \in All /\ disk \in Disks /\ failed \subseteq Addrs /\ alloc \subseteq Addrs
  BY <1>1, ResolveProps DEF TypeInv
<1>3. n \in 0 .. MaxRefCount /\ n + 1 \in 0 .. MaxRefCount /\ n \in Nat
  BY <1>1, <1>2, DiskFacts, ObjectLinksAssumption
<1>4. d = WriteV2RefCount(disk, a, n + 1) /\ u = WriteV2RefCount(d, a, n)
  BY DEF CountLink
<1>5. broken' \subseteq All
  <2>1. broken \subseteq All /\ (IF Over(d, a) THEN All \ {a} ELSE {}) \subseteq All
    BY DEF TypeInv
  <2>. QED
    BY <1>1, <2>1, HitsProps DEF HitBehind
<1>. HIDE DEF a, d, g, u
<1>6. /\ d \in Disks
      /\ \A h \in All : d[h].entries = disk[h].entries
      /\ d[a].rc = (IF n + 1 > 1 THEN n + 1 ELSE n)
      /\ \A h \in All \ {a} : d[h].rc = disk[h].rc
  BY <1>2, <1>3, <1>4, V2Props
<1>7. /\ u \in Disks
      /\ \A h \in All : u[h].entries = d[h].entries
      /\ u[a].rc = (IF n > 1 THEN n ELSE d[a].rc)
      /\ \A h \in All \ {a} : u[h].rc = d[h].rc
  BY <1>2, <1>3, <1>4, <1>6, V2Props
<1>. HIDE DEF n
<1>8. \A x : Count(d, x) = Count(disk, x) /\ Count(u, x) = Count(disk, x) /\ Count(d, x) \in Nat
  BY <1>6, <1>7, CountSame, CountNat
<1>9. d[a].rc >= n /\ u[a].rc >= n /\ d[a].rc \in Nat /\ u[a].rc \in Nat
  BY <1>2, <1>3, <1>6, <1>7, DiskFacts
<1>10. Inv => /\ \A x \in alloc \ overwritten : x \in All /\ Count(disk, x) <= disk[x].rc
              /\ \A x \in Addrs \ alloc : Count(disk, x) = 0
              /\ a \notin overwritten => Count(disk, a) <= n /\ Count(disk, a) >= 1
  <2>. SUFFICES ASSUME Inv PROVE
              /\ \A x \in alloc \ overwritten : x \in All /\ Count(disk, x) <= disk[x].rc
              /\ \A x \in Addrs \ alloc : Count(disk, x) = 0
              /\ a \notin overwritten => Count(disk, a) <= n /\ Count(disk, a) >= 1
    OBVIOUS
  <2>1. a \in alloc
    BY <1>1, ResolveLive DEF a
  <2>2. Count(disk, a) = Count(Unlinked(target), a) + 1
    BY <1>1, ResolveProps DEF a
  <2>3. Count(disk, a) >= 1
    BY <2>2, CountNat
  <2>. QED
    BY <1>2, <2>1, <2>3 DEF Inv, Covered, All, n
<1>11. CASE disk' = d /\ failed' = failed \cup {a}
  <2>1. Inv => Covered(disk', alloc, overwritten)
    BY <1>2, <1>3, <1>6, <1>8, <1>9, <1>10, <1>11 DEF Covered
  <2>. QED
    BY <1>2, <1>5, <1>6, <1>11, <2>1
<1>12. CASE disk' = u /\ failed' = failed \cup {a}
  <2>1. Inv => Covered(disk', alloc, overwritten)
    BY <1>2, <1>3, <1>6, <1>7, <1>8, <1>9, <1>10, <1>12 DEF Covered
  <2>. QED
    BY <1>2, <1>5, <1>7, <1>12, <2>1
<1>13. CASE /\ ParentKnown(path) /\ ~ LinkFails(d, g)
            /\ disk' = f /\ failed' = failed
  <2>. DEFINE e == [name |-> Last(path), obj |-> a]
  <2>1. g \in All /\ Last(path) \in Names
    BY <1>13, ParentFacts, PathFacts DEF TypeInv, g
  <2>2. /\ f \in Disks /\ \E k : OneEntryMore(d, f, g, k, e)
        /\ \A h \in All : f[h].rc = d[h].rc
    BY <1>2, <1>6, <1>13, <2>1, LinkProps
  <2>3. PICK k : OneEntryMore(d, f, g, k, e)
    BY <2>2
  <2>4. e.obj = a
    OBVIOUS
  <2>. HIDE DEF e, f
  <2>5. \A x : Count(f, x) = IF a = x THEN Count(d, x) + 1 ELSE Count(d, x)
    BY <2>1, <2>3, <2>4, LinksMore DEF Count
  <2>6. ASSUME Inv, NEW x \in alloc \ overwritten PROVE Count(f, x) <= f[x].rc
    <3>1. CASE x = a
      BY <1>2, <1>3, <1>6, <1>8, <1>10, <2>2, <2>5, <2>6, <3>1
    <3>2. CASE x # a
      BY <1>6, <1>8, <1>10, <2>2, <2>5, <2>6, <3>2
    <3>. QED
      BY <3>1, <3>2
  <2>7. ASSUME Inv, NEW x \in Addrs \ alloc PROVE Count(f, x) = 0
    <3>1. x # a
      BY <1>1, <2>7, ResolveLive DEF a
    <3>. QED
      BY <1>8, <1>10, <2>5, <2>7, <3>1
  <2>8. Inv => Covered(f, alloc, overwritten)
    BY <2>6, <2>7 DEF Covered
  <2>. QED
    BY <1>2, <1>5, <1>13, <2>2, <2>8
<1>. QED
  BY <1>1, <1>11, <1>12, <1>13

\* A deletion: the entry goes first, then the count or the object.  Unless the
\* object goes by a count that was written over, it goes with its last link.
LEMMA DeleteProps ==
    ASSUME TypeInv, NEW path \in Paths, Delete(path)
    PROVE  /\ disk' \in Disks /\ alloc' \subseteq Addrs /\ failed' \subseteq Addrs
           /\ broken' \subseteq All /\ overwritten' = overwritten
           /\ Inv /\ ~ loose' => Covered(disk', alloc', overwritten')
<1>. DEFINE a == Resolve(path)
            d == Unlinked(path)
            n == disk[a].rc
            f == WriteRefCount(d, a, n - 1)
            c == [d EXCEPT ![a].entries = <<>>]
            K == {d[a].entries[i].obj : i \in DOMAIN d[a].entries}
<1>1. /\ Resolves(path) /\ overwritten' = overwritten
      /\ \/ /\ disk' = d /\ alloc' = alloc /\ failed' = failed \cup {a} /\ broken' = broken
         \/ /\ ~ (n <= 1) /\ disk' = f /\ alloc' = alloc /\ failed' = failed
            /\ HitBehind(d, a)
         \/ /\ n <= 1 /\ disk' = c /\ alloc' = alloc \ {a} /\ failed' = failed \cup K
            /\ HitBehind(d, a) /\ loose' = (loose \/ a \in overwritten)
  BY DEF Delete, DeleteFails, LastLink, CascadeDelete
<1>2. /\ a \in Addrs /\ a \in All /\ d \in Disks
      /\ \A h \in All : d[h].rc = disk[h].rc
      /\ \A x : Count(disk, x) = IF a = x THEN Count(d, x) + 1 ELSE Count(d, x)
  BY <1>1, ResolveProps
<1>3. alloc \subseteq Addrs /\ failed \subseteq Addrs /\ disk \in Disks /\ broken \subseteq All
  BY DEF TypeInv
<1>4. n \in 0 .. MaxRefCount /\ n \in Nat
  BY <1>2, <1>3, DiskFacts, ObjectLinksAssumption
<1>5. broken' \subseteq All
  <2>1. (IF Over(d, a) THEN All \ {a} ELSE {}) \subseteq All
    OBVIOUS
  <2>2. HitBehind(d, a) => broken' \subseteq All
    BY <1>3, <2>1, HitsProps DEF HitBehind
  <2>. QED
    BY <1>1, <1>3, <2>2
<1>6. K \subseteq Addrs
  <2>1. d[a].entries \in Seq(Entry)
    BY <1>2, DiskFacts
  <2>2. \A i \in DOMAIN d[a].entries : d[a].entries[i] \in Entry
    BY <2>1
  <2>. QED
    BY <2>2, EntryFacts
<1>. HIDE DEF a, d, K
<1>7. c \in Disks /\ \A h \in All : c[h].rc = d[h].rc
  BY <1>2, FreedProps
<1>8. \A x : Count(c, x) \in Nat /\ Count(c, x) <= Count(d, x)
  BY <1>2, FreedProps
<1>. HIDE DEF c
<1>9. Inv => /\ \A x : Count(d, x) \in Nat
             /\ \A x \in alloc \ overwritten : /\ x \in All /\ Count(disk, x) <= disk[x].rc
                                               /\ d[x].rc = disk[x].rc /\ d[x].rc \in Nat
             /\ \A x \in Addrs \ alloc : Count(disk, x) = 0
             /\ a \in alloc
  <2>. SUFFICES ASSUME Inv
                PROVE  /\ \A x : Count(d, x) \in Nat
                       /\ \A x \in alloc \ overwritten :
                              /\ x \in All /\ Count(disk, x) <= disk[x].rc
                              /\ d[x].rc = disk[x].rc /\ d[x].rc \in Nat
                       /\ \A x \in Addrs \ alloc : Count(disk, x) = 0
                       /\ a \in alloc
    OBVIOUS
  <2>1. a \in alloc
    BY <1>1, ResolveLive DEF a
  <2>2. \A x \in alloc : x \in All /\ d[x].rc = disk[x].rc /\ d[x].rc \in Nat
    BY <1>2, <1>3, DiskFacts DEF All
  <2>. QED
    BY <2>1, <2>2, CountNat DEF Inv, Covered
<1>10. CASE /\ disk' = d /\ alloc' = alloc /\ failed' = failed \cup {a} /\ broken' = broken
  <2>1. Inv => Covered(d, alloc, overwritten)
    BY <1>2, <1>9 DEF Covered
  <2>. QED
    BY <1>1, <1>2, <1>3, <1>10, <2>1
<1>11. CASE ~ (n <= 1) /\ disk' = f /\ alloc' = alloc /\ failed' = failed
  <2>1. n - 1 \in 0 .. MaxRefCount
    BY <1>4, <1>11, ObjectLinksAssumption
  <2>2. /\ f \in Disks
        /\ \A h \in All : f[h].entries = d[h].entries
        /\ f[a].rc = n - 1 /\ \A h \in All \ {a} : f[h].rc = d[h].rc
    BY <1>2, <2>1, CountProps
  <2>. HIDE DEF f
  <2>3. \A x : Count(f, x) = Count(d, x)
    BY <2>2, CountSame
  <2>4. Inv => Covered(f, alloc, overwritten)
    BY <1>2, <1>4, <1>9, <2>2, <2>3 DEF Covered
  <2>. QED
    BY <1>1, <1>3, <1>5, <1>11, <2>2, <2>4
<1>12. CASE /\ n <= 1 /\ disk' = c /\ alloc' = alloc \ {a} /\ failed' = failed \cup K
            /\ loose' = (loose \/ a \in overwritten)
  <2>1. ASSUME Inv, ~ loose' PROVE Covered(c, alloc \ {a}, overwritten)
    <3>1. a \in alloc \ overwritten
      BY <1>9, <1>12, <2>1
    <3>2. Count(d, a) = 0
      BY <1>2, <1>4, <1>9, <1>12, <2>1, <3>1
    <3>3. Count(c, a) = 0
      BY <1>8, <3>2
    <3>4. \A x \in Addrs \ alloc : Count(c, x) = 0
      BY <1>2, <1>8, <1>9, <2>1, <3>1
    <3>5. ASSUME NEW x \in (alloc \ {a}) \ overwritten PROVE Count(c, x) <= c[x].rc
      BY <1>2, <1>7, <1>8, <1>9, <2>1
    <3>. QED
      BY <3>3, <3>4, <3>5 DEF Covered
  <2>. QED
    BY <1>1, <1>3, <1>5, <1>6, <1>7, <1>12, <2>1
<1>. QED
  BY <1>1, <1>10, <1>11, <1>12

\* The neighbour writes, or the padding goes: no link changes.
LEMMA HeaderStep ==
    ASSUME TypeInv, NEW a \in Addrs,
           \/ /\ \E n \in 0 .. MaxRefCount : disk' = [disk EXCEPT ![a].rc = n]
              /\ overwritten' = overwritten \cup {a}
           \/ /\ disk' = [disk EXCEPT ![a].slack = TRUE]
              /\ overwritten' = overwritten,
           alloc' = alloc
    PROVE  /\ disk' \in Disks /\ overwritten' \subseteq Addrs
           /\ Inv => Covered(disk', alloc', overwritten')
<1>1. disk \in Disks /\ alloc \subseteq Addrs /\ overwritten \subseteq Addrs
  BY DEF TypeInv
<1>2. /\ disk' \in Disks /\ \A h \in All : disk'[h].entries = disk[h].entries
      /\ \A h \in All \ {a} : disk'[h].rc = disk[h].rc
      /\ disk' = [disk EXCEPT ![a].slack = TRUE] => disk'[a].rc = disk[a].rc
  BY <1>1, HeaderProps
<1>3. \A x : Count(disk', x) = Count(disk, x)
  BY <1>2, CountSame
<1>4. overwritten' \subseteq Addrs /\ overwritten \subseteq overwritten'
  BY <1>1
<1>5. \A x \in Addrs \ overwritten' : x \in All /\ disk'[x].rc = disk[x].rc
  BY <1>2 DEF All
<1>6. Inv => Covered(disk', alloc', overwritten')
  BY <1>1, <1>3, <1>4, <1>5 DEF Inv, Covered
<1>. QED
  BY <1>2, <1>4, <1>6

\* A new object at an address that was free.
LEMMA CreateProps ==
    ASSUME TypeInv, NEW path \in Paths, NEW a, NEW kind \in Kinds,
           Allocate(a), \E ok \in BOOLEAN : Enter(path, a, kind, ok)
    PROVE  /\ disk' \in Disks /\ alloc' \subseteq Addrs /\ failed' \subseteq Addrs
           /\ overwritten' \subseteq Addrs /\ broken' \subseteq All
           /\ shared' = shared /\ loose' = loose /\ a \in Addrs
           /\ Inv => Covered(disk', alloc', overwritten')
<1>1. /\ a \in Addrs \ alloc /\ alloc' = alloc \cup {a} /\ overwritten' = overwritten \ {a}
      /\ broken' \in Hits(broken \ {a}, IF shared THEN All ELSE {})
      /\ shared' = shared /\ loose' = loose
  BY DEF Allocate
<1>2. PICK ok \in BOOLEAN : Enter(path, a, kind, ok)
  OBVIOUS
<1>3. disk' \in Disks /\ failed' \subseteq Addrs
  BY <1>1, <1>2, EnterDisk
<1>4. broken' \subseteq All
  <2>1. broken \ {a} \subseteq All /\ (IF shared THEN All ELSE {}) \subseteq All
    BY DEF TypeInv
  <2>. QED
    BY <1>1, <2>1, HitsProps
<1>5. Inv => Covered(disk', alloc \cup {a}, overwritten \ {a})
  BY <1>1, <1>2, EnterCovered
<1>. QED
  BY <1>1, <1>3, <1>4, <1>5 DEF TypeInv

\* Every step keeps the types and, as long as no object is freed by a count
\* not its own, the counts above the links.
LEMMA StepProps ==
    ASSUME TypeInv, [Next]_vars
    PROVE  /\ TypeInv'
           /\ Inv /\ ~ loose' => Covered(disk, alloc, overwritten)'
           /\ loose => loose'
<1>. /\ disk \in Disks /\ alloc \subseteq Addrs /\ failed \subseteq Addrs
     /\ overwritten \subseteq Addrs /\ broken \subseteq All
     /\ dense \subseteq [group : Addrs, obj : Addrs]
     /\ shared \in BOOLEAN /\ loose \in BOOLEAN /\ DOMAIN groups \subseteq Paths
     /\ \A p \in DOMAIN groups : groups[p] \in Addrs
  BY DEF TypeInv
<1>0. "group" \in Kinds /\ "dataset" \in Kinds /\ "dense" \in Kinds
  BY DEF Kinds
<1>1. ASSUME NEW path \in Paths, NEW a \in Addrs, CreateGroup(path, a)
      PROVE  /\ TypeInv' /\ loose' = loose
             /\ Inv => Covered(disk, alloc, overwritten)'
  <2>1. /\ Allocate(a) /\ dense' = dense
        /\ \E ok \in BOOLEAN : Enter(path, a, "group", ok)
    BY <1>1 DEF CreateGroup
  <2>2. /\ disk' \in Disks /\ alloc' \subseteq Addrs /\ failed' \subseteq Addrs
        /\ overwritten' \subseteq Addrs /\ broken' \subseteq All
        /\ shared' = shared /\ loose' = loose
        /\ Inv => Covered(disk', alloc', overwritten')
    BY <1>0, <2>1, CreateProps
  <2>3. /\ DOMAIN groups' \subseteq Paths
        /\ \A p \in DOMAIN groups' : groups'[p] \in Addrs
    BY <1>1 DEF CreateGroup
  <2>. QED
    BY <2>1, <2>2, <2>3 DEF TypeInv
<1>2. ASSUME NEW path \in Paths, NEW a \in Addrs, CreateDataset(path, a)
      PROVE  /\ TypeInv' /\ loose' = loose
             /\ Inv => Covered(disk, alloc, overwritten)'
  <2>1. /\ Allocate(a) /\ dense' = dense /\ groups' = groups
        /\ \E ok \in BOOLEAN : Enter(path, a, "dataset", ok)
    BY <1>2 DEF CreateDataset
  <2>2. /\ disk' \in Disks /\ alloc' \subseteq Addrs /\ failed' \subseteq Addrs
        /\ overwritten' \subseteq Addrs /\ broken' \subseteq All
        /\ shared' = shared /\ loose' = loose
        /\ Inv => Covered(disk', alloc', overwritten')
    BY <1>0, <2>1, CreateProps
  <2>. QED
    BY <2>1, <2>2 DEF TypeInv
<1>3. ASSUME NEW path \in Paths, NEW target \in Paths, NEW a \in Addrs,
             CreateDenseGroup(path, a, target)
      PROVE  /\ TypeInv' /\ loose' = loose
             /\ Inv => Covered(disk, alloc, overwritten)'
  <2>1. /\ Allocate(a) /\ groups' = groups /\ Resolves(target)
        /\ \E ok \in BOOLEAN : Enter(path, a, "dense", ok)
        /\ dense' = dense \cup {[group |-> a, obj |-> Resolve(target)]}
    BY <1>3 DEF CreateDenseGroup
  <2>2. /\ disk' \in Disks /\ alloc' \subseteq Addrs /\ failed' \subseteq Addrs
        /\ overwritten' \subseteq Addrs /\ broken' \subseteq All
        /\ shared' = shared /\ loose' = loose
        /\ Inv => Covered(disk', alloc', overwritten')
    BY <1>0, <2>1, CreateProps
  <2>3. Resolve(target) \in Addrs
    BY <2>1, ResolveProps
  <2>4. dense' \subseteq [group : Addrs, obj : Addrs]
    BY <2>1, <2>3
  <2>. QED
    BY <2>1, <2>2, <2>4 DEF TypeInv
<1>4. ASSUME NEW path \in Paths, NEW target \in Paths, CreateHardLink(path, target)
      PROVE  /\ TypeInv' /\ loose' = loose
             /\ Inv => Covered(disk, alloc, overwritten)'
  <2>1. /\ alloc' = alloc /\ groups' = groups /\ dense' = dense /\ shared' = shared
        /\ overwritten' = overwritten /\ loose' = loose
    BY <1>4 DEF CreateHardLink
  <2>2. /\ disk' \in Disks /\ failed' \subseteq Addrs /\ broken' \subseteq All
        /\ Inv => Covered(disk', alloc, overwritten)
    BY <1>4, HardLinkProps
  <2>. QED
    BY <2>1, <2>2 DEF TypeInv
<1>5. ASSUME NEW a \in Addrs, NEW n \in 0 .. MaxRefCount, WriteBehind(a, n)
      PROVE  /\ TypeInv' /\ loose' = loose
             /\ Inv => Covered(disk, alloc, overwritten)'
  <2>1. /\ alloc' = alloc /\ groups' = groups /\ dense' = dense /\ shared' = shared
        /\ failed' = failed /\ broken' = broken /\ loose' = loose
        /\ disk' = [disk EXCEPT ![a].rc = n] /\ overwritten' = overwritten \cup {a}
    BY <1>5 DEF WriteBehind
  <2>2. /\ disk' \in Disks /\ overwritten' \subseteq Addrs
        /\ Inv => Covered(disk', alloc', overwritten')
    BY <2>1, HeaderStep
  <2>. QED
    BY <2>1, <2>2 DEF TypeInv
<1>6. ASSUME NEW path \in Paths, WriteAttribute(path)
      PROVE  /\ TypeInv' /\ loose' = loose
             /\ Inv => Covered(disk, alloc, overwritten)'
  <2>. DEFINE a == Resolve(path)
  <2>1. /\ alloc' = alloc /\ groups' = groups /\ dense' = dense /\ shared' = shared
        /\ failed' = failed /\ broken' = broken /\ loose' = loose
        /\ disk' = [disk EXCEPT ![a].slack = TRUE] /\ overwritten' = overwritten
        /\ Resolves(path)
    BY <1>6 DEF WriteAttribute
  <2>2. a \in Addrs
    BY <2>1, ResolveProps
  <2>. HIDE DEF a
  <2>3. /\ disk' \in Disks /\ overwritten' \subseteq Addrs
        /\ Inv => Covered(disk', alloc', overwritten')
    BY <2>1, <2>2, HeaderStep
  <2>. QED
    BY <2>1, <2>3 DEF TypeInv
<1>7. ASSUME NEW path \in Paths, Delete(path)
      PROVE  /\ TypeInv' /\ (loose => loose')
             /\ Inv /\ ~ loose' => Covered(disk, alloc, overwritten)'
  <2>1. /\ groups' = groups \/ groups' = Forget(path)
        /\ dense' \subseteq dense /\ shared' \in BOOLEAN
        /\ \/ loose' = loose
           \/ loose' = (loose \/ Resolve(path) \in overwritten)
    BY <1>7 DEF Delete, DeleteFails, CascadeDelete
  <2>5. loose' \in BOOLEAN /\ (loose => loose')
    <3>1. CASE loose' = loose
      BY <3>1
    <3>2. CASE loose' = (loose \/ Resolve(path) \in overwritten)
      BY <3>2, Zenon
    <3>. QED
      BY <2>1, <3>1, <3>2
  <2>2. /\ DOMAIN groups' \subseteq Paths
        /\ \A p \in DOMAIN groups' : groups'[p] \in Addrs
    BY <2>1 DEF Forget
  <2>3. /\ disk' \in Disks /\ alloc' \subseteq Addrs /\ failed' \subseteq Addrs
        /\ broken' \subseteq All /\ overwritten' = overwritten
        /\ Inv /\ ~ loose' => Covered(disk', alloc', overwritten')
    BY <1>7, DeleteProps
  <2>4. dense' \subseteq [group : Addrs, obj : Addrs]
    BY <2>1
  <2>. QED
    BY <2>1, <2>2, <2>3, <2>4, <2>5 DEF TypeInv
<1>8. CASE Reopen
  BY <1>8 DEF Reopen, TypeInv, Inv
<1>9. CASE UNCHANGED vars
  BY <1>9 DEF vars, TypeInv, Inv
<1>. QED
  BY <1>1, <1>2, <1>3, <1>4, <1>5, <1>6, <1>7, <1>8, <1>9 DEF Next

\* An empty file has no links.
LEMMA InitInv == Init => Inv
<1>. SUFFICES ASSUME Init PROVE Inv
  OBVIOUS
<1>1. \A kind \in {"group", "dataset"} :
          /\ NewObject(kind) \in Object /\ NewObject(kind).rc = 1
          /\ NewObject(kind).entries = <<>>
  BY DEF NewObject, Object, Kinds
<1>2. \A h \in All : \E kind \in {"group", "dataset"} : disk[h] = NewObject(kind)
  BY DEF Init, All
<1>3. disk \in [All -> Object]
  BY <1>1 DEF Init, All
<1>4. \A h \in All : /\ disk[h].rc \in 0 .. MaxRefCount
                     /\ disk[h].entries = <<>> /\ Len(disk[h].entries) <= Capacity
  BY <1>1, <1>2, ObjectLinksAssumption
<1>5. disk \in Disks
  BY <1>3, <1>4 DEF Disks
<1>6. \A x : Count(disk, x) = 0
  <2>1. \A x : Links(disk, x) = {}
    BY <1>4 DEF Links
  <2>. QED
    BY <2>1, FS_EmptySet DEF Count
<1>7. alloc = {} /\ DOMAIN groups = {}
  BY DEF Init
<1>8. TypeInv
  BY <1>5, <1>7 DEF Init, TypeInv
<1>. QED
  BY <1>6, <1>7, <1>8 DEF Inv, Covered

\* Types whatever happens; counts until an object is freed by a wrong one.
Good == TypeInv /\ (loose \/ Covered(disk, alloc, overwritten))

LEMMA GoodHolds == Spec => []Good
<1>1. Init => Good
  BY InitInv DEF Inv, Good
<1>2. Good /\ [Next]_vars => Good'
  BY StepProps DEF Inv, Good
<1>. QED
  BY <1>1, <1>2, PTL DEF Spec

\* Objects, directories and fw.groups keep their types, whatever counts were
\* written over; no directory grows past the capacity that linkToParent
\* checks and no count past its bound.
THEOREM TypeCorrect == Spec => []TypeOK
<1>1. Good => TypeOK
  <2>. SUFFICES ASSUME TypeInv PROVE TypeOK
    BY DEF Good
  <2>1. \A a \in All : /\ disk[a].kind \in Kinds
                       /\ disk[a].rc \in 0 .. MaxRefCount
                       /\ disk[a].counted \in BOOLEAN /\ disk[a].slack \in BOOLEAN
                       /\ disk[a].entries \in Seq(Entry)
                       /\ Len(disk[a].entries) <= Capacity
    BY DiskFacts, ObjectLinksAssumption DEF TypeInv
  <2>2. Range(groups) \subseteq Addrs
    BY DEF TypeInv, Range
  <2>. QED
    BY <2>1, <2>2 DEF TypeInv, TypeOK
<1>. QED
  BY <1>1, GoodHolds, PTL

\* Whatever CreateHardLink and Delete leave behind when they fail, and also
\* with hard links to groups, a count that its neighbour did not write over is
\* never below the number of links.
THEOREM CountsCover == Spec => []RefCountCovers
<1>1. Good => RefCountCovers
  <2>. SUFFICES ASSUME Inv, NEW a \in alloc \ overwritten
                PROVE  disk[a].rc >= Cardinality(LinksTo(a))
    BY DEF RefCountCovers, Good, Inv
  <2>1. a \in All /\ disk[a].rc \in Nat /\ Count(disk, a) <= disk[a].rc
    BY DiskFacts DEF Inv, TypeInv, Covered, All
  <2>2. /\ Cardinality(LinksTo(a)) \in Nat /\ Count(disk, a) \in Nat
        /\ Cardinality(LinksTo(a)) <= Count(disk, a)
    BY LiveLinks, CountNat DEF Inv, TypeInv, Count
  <2>. QED
    BY <2>1, <2>2
<1>. QED
  BY <1>1, GoodHolds, PTL

\* As long as every object is freed by a count that is its own, Delete frees
\* none to which a link is left: no entry of a live group names storage that
\* is free or that another object got.
THEOREM LinksAreLive == Spec => []NoDanglingLink
<1>1. Good => NoDanglingLink
  <2>. SUFFICES ASSUME Inv, NEW g \in LiveGroups, NEW i \in DOMAIN disk[g].entries
                PROVE  disk[g].entries[i].obj \in alloc
    BY DEF NoDanglingLink, Good, Inv
  <2>. DEFINE a == disk[g].entries[i].obj
  <2>1. g \in All
    BY DEF LiveGroups, Inv, TypeInv, All
  <2>2. /\ disk[g].entries \in Seq(Entry) /\ Len(disk[g].entries) <= Capacity
        /\ Len(disk[g].entries) \in Nat /\ i \in 1 .. Len(disk[g].entries)
        /\ disk[g].entries[i] \in Entry
    BY <2>1, DiskFacts DEF Inv, TypeInv
  <2>3. a \in Addrs /\ i \in 1 .. Capacity
    BY <2>2, EntryFacts, ObjectLinksAssumption
  <2>4. <<g, i>> \in Links(disk, a)
    BY <2>1, <2>3 DEF Links
  <2>5. Count(disk, a) # 0
    BY <2>4, LinksFinite, FS_EmptySet DEF Count
  <2>. QED
    BY <2>3, <2>5 DEF Inv, Covered
<1>. QED
  BY <1>1, GoodHolds, PTL

-----------------------------------------------------------------------------
(* Exact counts and live groups, without hard links to groups *)

\* With hard links to groups, Delete forgets one path of a group when it
\* frees the group by another: the first path then leads into freed storage.
NoGroupLinks == "group" \notin LinkKinds

\* Directory h of d has entry e.
Has(d, h, e) == \E i \in DOMAIN d[h].entries : d[h].entries[i] = e

\* Only live groups have entries; a known path has an address of its own; and
\* when the name of a path whose parent is known leads to a known group, it
\* is by that path that the group is known.
OneNameInv ==
    /\ disk[RootAddr].kind = "group"
    /\ \A h \in All : \A e : Has(disk, h, e) => h \in LiveGroups
    /\ \A p, q \in DOMAIN groups : groups[p] = groups[q] => p = q
    /\ \A p \in Paths, q \in DOMAIN groups : \A e :
           /\ ParentKnown(p) /\ Has(disk, ParentAddr(p), e)
           /\ e.name = Last(p) /\ e.obj = groups[q]
           => p = q

KnownLive == \A p \in DOMAIN groups : groups[p] \in LiveGroups

ExactInv == /\ Inv
            /\ OneNameInv
            /\ KnownLive
            /\ \A a \in alloc \ (failed \cup overwritten) : disk[a].rc = Count(disk, a)

\* One entry more in one directory.
LEMMA HasMore ==
    ASSUME NEW d, NEW d2, NEW g \in All, NEW k, NEW e, OneEntryMore(d, d2, g, k, e),
           NEW h \in All, NEW f
    PROVE  Has(d2, h, f) <=> Has(d, h, f) \/ (h = g /\ f = e)
<1>1. CASE h # g
  BY <1>1 DEF OneEntryMore, Has
<1>2. CASE h = g
  <2>. DEFINE s == d[g].entries
              t == d2[g].entries
  <2>1. /\ Len(s) \in Nat /\ DOMAIN s = 1 .. Len(s) /\ DOMAIN t = 1 .. (Len(s) + 1)
        /\ k \in 1 .. (Len(s) + 1)
        /\ \A i \in 1 .. (Len(s) + 1) :
               t[i] = IF i < k THEN s[i] ELSE IF i = k THEN e ELSE s[i - 1]
    BY DEF OneEntryMore
  <2>. HIDE DEF s, t
  <2>2. ASSUME NEW i \in DOMAIN t PROVE t[i] = e \/ \E j \in DOMAIN s : s[j] = t[i]
    <3>1. CASE i < k
      BY <2>1, <3>1
    <3>2. CASE i > k
      <4>1. i - 1 \in DOMAIN s /\ t[i] = s[i - 1]
        BY <2>1, <3>2
      <4>. QED
        BY <4>1
    <3>. QED
      BY <2>1, <3>1, <3>2
  <2>3. ASSUME NEW j \in DOMAIN s PROVE \E i \in DOMAIN t : t[i] = s[j]
    <3>1. CASE j < k
      <4>1. j \in DOMAIN t /\ t[j] = s[j]
        BY <2>1, <3>1
      <4>. QED
        BY <4>1
    <3>2. CASE ~ (j < k)
      <4>1. j + 1 \in DOMAIN t /\ t[j + 1] = s[(j + 1) - 1] /\ (j + 1) - 1 = j
        BY <2>1, <3>2
      <4>. QED
        BY <4>1
    <3>. QED
      BY <3>1, <3>2
  <2>4. k \in DOMAIN t /\ t[k] = e
    BY <2>1
  <2>. QED
    BY <1>2, <2>2, <2>3, <2>4 DEF Has, s, t
<1>. QED
  BY <1>1, <1>2

\* An entry is a link to its object.
LEMMA HasCount ==
    ASSUME NEW d \in Disks, NEW h \in All, NEW e, Has(d, h, e)
    PROVE  e \in Entry /\ Count(d, e.obj) # 0
<1>1. PICK i \in DOMAIN d[h].entries : d[h].entries[i] = e
  BY DEF Has
<1>2. /\ d[h].entries \in Seq(Entry) /\ Len(d[h].entries) <= Capacity
      /\ Len(d[h].entries) \in Nat /\ i \in 1 .. Len(d[h].entries) /\ e \in Entry
  BY <1>1, DiskFacts
<1>3. i \in 1 .. Capacity
  BY <1>2, ObjectLinksAssumption
<1>4. <<h, i>> \in Links(d, e.obj)
  BY <1>1, <1>3 DEF Links
<1>. QED
  BY <1>2, <1>4, LinksFinite, FS_EmptySet DEF Count

\* A known parent is a live group.
LEMMA ParentLive ==
    ASSUME ExactInv, NEW path \in Paths, ParentKnown(path)
    PROVE  ParentAddr(path) \in LiveGroups /\ ParentAddr(path) \in All
BY DEF ExactInv, OneNameInv, Inv, TypeInv, KnownLive, ParentKnown, ParentAddr, LiveGroups, All

\* Two paths with the same parent and the same name are the same.
LEMMA PathUnique ==
    ASSUME ExactInv, NEW p \in Paths, NEW q \in Paths, ParentKnown(p), ParentKnown(q),
           ParentAddr(p) = ParentAddr(q), Last(p) = Last(q)
    PROVE  p = q
<1>. USE PathFacts
<1>1. RootAddr \notin Addrs
  BY ObjectLinksAssumption DEF RootAddr
<1>2. CASE Len(p) = 1 /\ Len(q) = 1
  BY <1>2
<1>3. CASE Len(p) = 1 /\ Len(q) = 2
  BY <1>1, <1>3 DEF ParentKnown, ParentAddr, ExactInv, Inv, TypeInv
<1>4. CASE Len(p) = 2 /\ Len(q) = 1
  BY <1>1, <1>4 DEF ParentKnown, ParentAddr, ExactInv, Inv, TypeInv
<1>5. CASE Len(p) = 2 /\ Len(q) = 2
  <2>1. Front(p) = Front(q)
    BY <1>5 DEF ParentKnown, ParentAddr, ExactInv, OneNameInv
  <2>. QED
    BY <1>5, <2>1
<1>. QED
  BY <1>2, <1>3, <1>4, <1>5

\* A new object is written where nothing had entries.
LEMMA NewExact ==
    ASSUME ExactInv, NEW a \in Addrs \ alloc, NEW kind \in Kinds,
           NEW w, w = [disk EXCEPT ![a] = NewObject(kind)]
    PROVE  /\ w \in Disks /\ w[a].kind = kind /\ w[a].rc = 1
           /\ \A h \in All \ {a} : w[h] = disk[h]
           /\ \A h \in All : w[h].entries = disk[h].entries
<1>1. disk \in Disks /\ a \in Addrs /\ a \in All /\ a \notin LiveGroups
  BY ObjectLinksAssumption DEF ExactInv, Inv, TypeInv, All, LiveGroups, RootAddr
<1>2. w \in Disks
  BY <1>1, NewProps
<1>3. w[a] = NewObject(kind) /\ \A h \in All \ {a} : w[h] = disk[h]
  BY <1>1 DEF Disks
<1>4. w[a].kind = kind /\ w[a].rc = 1 /\ w[a].entries = <<>>
  BY <1>3 DEF NewObject
<1>5. disk[a].entries = <<>>
  <2>1. disk[a].entries \in Seq(Entry)
    BY <1>1, DiskFacts
  <2>2. /\ DOMAIN disk[a].entries = 1 .. Len(disk[a].entries)
        /\ Len(disk[a].entries) \in Nat
    BY <2>1
  <2>3. 1 \notin DOMAIN disk[a].entries
    BY <1>1 DEF ExactInv, OneNameInv, Has
  <2>4. Len(disk[a].entries) = 0
    BY <2>2, <2>3
  <2>. QED
    BY <2>1, <2>4, EmptySeq
<1>. QED
  BY <1>2, <1>3, <1>4, <1>5

\* A new object is written, and linked if that works.
LEMMA EnterExact ==
    ASSUME ExactInv, NEW path \in Paths, NEW a \in Addrs \ alloc, NEW kind \in Kinds,
           NEW ok \in BOOLEAN, Enter(path, a, kind, ok)
    PROVE  LET g == ParentAddr(path)
           IN  /\ disk'[a].kind = kind /\ disk'[a].rc = 1
               /\ \A h \in All \ {a} : disk'[h].kind = disk[h].kind /\ disk'[h].rc = disk[h].rc
               /\ \A h \in All : \A f : Has(disk', h, f) <=>
                      \/ Has(disk, h, f)
                      \/ ok /\ h = g /\ f = [name |-> Last(path), obj |-> a]
               /\ \A x : x # a => Count(disk', x) = Count(disk, x)
               /\ ok => Count(disk', a) = 1 /\ ParentKnown(path)
               /\ failed' = IF ok THEN failed \ {a} ELSE failed \cup {a}
<1>. DEFINE w == Written(a, kind)
            g == ParentAddr(path)
            e == [name |-> Last(path), obj |-> a]
<1>0. w = [disk EXCEPT ![a] = NewObject(kind)]
  BY DEF Written
<1>. HIDE DEF w
<1>1. /\ w \in Disks /\ w[a].kind = kind /\ w[a].rc = 1
      /\ \A h \in All \ {a} : w[h] = disk[h]
      /\ \A h \in All : \A f : Has(w, h, f) <=> Has(disk, h, f)
      /\ Count(disk, a) = 0 /\ \A x : Count(w, x) = Count(disk, x)
  <2>1. w \in Disks
    BY <1>0, NewExact
  <2>2. w[a] = NewObject(kind)
    BY <1>0 DEF ExactInv, Inv, TypeInv, Disks, All
  <2>3. w[a].kind = kind /\ w[a].rc = 1
    BY <2>2 DEF NewObject
  <2>4. \A h \in All \ {a} : w[h] = disk[h]
    BY <1>0, NewExact
  <2>5. \A h \in All : w[h].entries = disk[h].entries
    BY <1>0, NewExact
  <2>6. \A h \in All : \A f : Has(w, h, f) <=> Has(disk, h, f)
    BY <2>5 DEF Has
  <2>7. \A x : Count(w, x) = Count(disk, x)
    BY <2>5, CountSame
  <2>8. Count(disk, a) = 0
    BY DEF ExactInv, Inv, Covered
  <2>. QED
    BY <2>1, <2>3, <2>4, <2>6, <2>7, <2>8
<1>2. /\ failed' = IF ok THEN failed \ {a} ELSE failed \cup {a}
      /\ a \in All /\ a \in Addrs
  BY DEF Enter, All
<1>3. /\ ok => /\ ParentKnown(path) /\ g \in All /\ Last(path) \in Names
               /\ ~ LinkFails(w, g)
               /\ disk' = LinkToParent(w, g, Last(path), a)
      /\ ~ ok => disk' = w
  BY <1>2, EnterDisk DEF w, ExactInv, Inv
<1>. HIDE DEF g, e
<1>5. CASE ~ ok
  <2>1. disk' = w
    BY <1>3, <1>5
  <2>. QED
    BY <1>1, <1>2, <1>5, <2>1
<1>6. CASE ok
  <2>. DEFINE d == LinkToParent(w, g, Last(path), a)
  <2>1. disk' = d
    BY <1>3, <1>6
  <2>2. /\ \E k : OneEntryMore(w, d, g, k, e)
        /\ \A h \in All : d[h].rc = w[h].rc /\ d[h].kind = w[h].kind
    BY <1>1, <1>2, <1>3, <1>6, LinkProps DEF e
  <2>3. PICK k : OneEntryMore(w, d, g, k, e)
    BY <2>2
  <2>4. e.obj = a
    BY DEF e
  <2>. HIDE DEF d
  <2>5. \A x : Count(d, x) = IF a = x THEN Count(w, x) + 1 ELSE Count(w, x)
    BY <1>3, <1>6, <2>3, <2>4, LinksMore DEF Count
  <2>6. Count(d, a) = 1 /\ \A x : x # a => Count(d, x) = Count(disk, x)
    BY <1>1, <2>5
  <2>7. \A h \in All : \A f : Has(d, h, f) <=> Has(disk, h, f) \/ (h = g /\ f = e)
    BY <1>1, <1>3, <1>6, <2>3, HasMore
  <2>8. /\ d[a].kind = kind /\ d[a].rc = 1
        /\ \A h \in All \ {a} : d[h].kind = disk[h].kind /\ d[h].rc = disk[h].rc
    BY <1>1, <1>2, <2>2
  <2>. QED
    BY <1>2, <1>3, <1>6, <2>1, <2>6, <2>7, <2>8 DEF g, e
<1>. QED
  BY <1>5, <1>6

LEMMA CreateGroupExact ==
    ASSUME ExactInv, Inv', NEW path \in Paths, NEW a \in Addrs, CreateGroup(path, a)
    PROVE  ExactInv'
<1>. DEFINE g == ParentAddr(path)
            e == [name |-> Last(path), obj |-> a]
<1>1. /\ ParentKnown(path) /\ a \in Addrs \ alloc /\ overwritten' = overwritten \ {a}
      /\ alloc' = alloc \cup {a}
  BY DEF CreateGroup, Allocate
<1>0. PICK ok \in BOOLEAN : Enter(path, a, "group", ok)
  BY DEF CreateGroup
<1>2. /\ DOMAIN groups' = DOMAIN groups \cup {path}
      /\ groups'[path] = a
      /\ \A p \in DOMAIN groups \ {path} : groups'[p] = groups[p]
  BY DEF CreateGroup
<1>3. /\ disk'[a].kind = "group" /\ disk'[a].rc = 1
      /\ \A h \in All \ {a} : disk'[h].kind = disk[h].kind /\ disk'[h].rc = disk[h].rc
      /\ \A h \in All : \A f : Has(disk', h, f) <=> Has(disk, h, f) \/ (ok /\ h = g /\ f = e)
      /\ \A x : x # a => Count(disk', x) = Count(disk, x)
      /\ ok => Count(disk', a) = 1
      /\ failed' = IF ok THEN failed \ {a} ELSE failed \cup {a}
  BY <1>0, <1>1, EnterExact DEF Kinds
<1>4. g \in LiveGroups /\ g \in All
  BY <1>1, ParentLive
<1>5. /\ disk \in Disks /\ alloc \subseteq Addrs /\ RootAddr \notin Addrs
      /\ DOMAIN groups \subseteq Paths /\ \A p \in DOMAIN groups : groups[p] \in Addrs
  BY ObjectLinksAssumption DEF ExactInv, Inv, TypeInv, RootAddr
<1>6. \A p \in DOMAIN groups : groups[p] \in alloc /\ groups[p] # a
  BY <1>1, <1>5 DEF ExactInv, KnownLive, LiveGroups
<1>7. \A h \in All : \A f : Has(disk, h, f) => f.obj # a
  BY <1>1, <1>5, HasCount DEF ExactInv, Inv, Covered
<1>8. \A h \in LiveGroups : h \in All /\ h # a /\ h \in LiveGroups'
  BY <1>1, <1>3, <1>5 DEF LiveGroups, All
<1>. HIDE DEF g
<1>9. disk'[RootAddr].kind = "group"
  BY <1>3, <1>5 DEF ExactInv, OneNameInv, All
<1>10. \A h \in All : \A f : Has(disk', h, f) => h \in LiveGroups'
  BY <1>3, <1>4, <1>8 DEF ExactInv, OneNameInv
<1>11. \A p, q \in DOMAIN groups' : groups'[p] = groups'[q] => p = q
  BY <1>2, <1>6 DEF ExactInv, OneNameInv
<1>12. ASSUME NEW p \in Paths, NEW q \in DOMAIN groups', NEW f,
              ParentKnown(p)', Has(disk', ParentAddr(p)', f),
              f.name = Last(p), f.obj = groups'[q]
       PROVE  p = q
  <2>1. CASE Len(p) # 1 /\ Front(p) = path
    <3>1. ParentAddr(p)' = a
      BY <1>2, <2>1 DEF ParentAddr
    <3>. QED
      BY <1>3, <1>4, <1>5, <1>8, <1>12, <3>1 DEF ExactInv, OneNameInv, All
  <2>2. CASE ~ (Len(p) # 1 /\ Front(p) = path)
    <3>. DEFINE h == ParentAddr(p)
    <3>1. ParentKnown(p) /\ ParentAddr(p)' = h
      BY <1>2, <1>12, <2>2 DEF ParentKnown, ParentAddr
    <3>2. h \in All
      BY <3>1, ParentLive
    <3>. HIDE DEF h
    <3>3. CASE Has(disk, h, f)
      <4>1. f.obj # a
        BY <1>7, <3>2, <3>3
      <4>2. q \in DOMAIN groups /\ groups'[q] = groups[q]
        BY <1>2, <1>12, <4>1
      <4>. QED
        BY <1>12, <3>1, <3>3, <4>2 DEF ExactInv, OneNameInv, h
    <3>4. CASE h = g /\ f = e
      <4>1. groups'[q] = a /\ Last(p) = Last(path)
        BY <1>12, <3>4
      <4>2. q = path
        BY <1>2, <1>6, <4>1
      <4>3. p = path
        BY <1>1, <3>1, <3>4, <4>1, PathUnique DEF g, h
      <4>. QED
        BY <4>2, <4>3
    <3>. QED
      BY <1>3, <1>12, <3>1, <3>2, <3>3, <3>4
  <2>. QED
    BY <2>1, <2>2
<1>13. \A p \in DOMAIN groups' : groups'[p] \in LiveGroups'
  <2>1. a \in LiveGroups'
    BY <1>1, <1>3 DEF LiveGroups
  <2>. QED
    BY <1>2, <1>8, <2>1 DEF ExactInv, KnownLive
<1>14. ASSUME NEW x \in alloc' \ (failed \cup overwritten)' PROVE disk'[x].rc = Count(disk', x)
  <2>1. CASE x = a
    BY <1>1, <1>3, <2>1
  <2>2. CASE x # a
    <3>1. x \in alloc \ (failed \cup overwritten) /\ x \in All
      BY <1>1, <1>3, <1>5, <2>2 DEF All
    <3>. QED
      BY <1>3, <2>2, <3>1 DEF ExactInv
  <2>. QED
    BY <2>1, <2>2
<1>15. OneNameInv'
  BY <1>9, <1>10, <1>11, <1>12 DEF OneNameInv
<1>16. KnownLive'
  BY <1>13 DEF KnownLive
<1>. QED
  BY <1>14, <1>15, <1>16 DEF ExactInv

\* What an operation has to keep that leaves fw.groups alone and frees nothing.
LEMMA SameGroups ==
    ASSUME ExactInv, Inv', groups' = groups, alloc \subseteq alloc',
           \A h \in alloc \cup {RootAddr} : disk'[h].kind = disk[h].kind,
           \A h \in All : \A f : Has(disk', h, f) =>
               \/ Has(disk, h, f)
               \/ h \in LiveGroups /\ \A q \in DOMAIN groups : f.obj # groups[q],
           \A x \in alloc' \ (failed \cup overwritten)' : disk'[x].rc = Count(disk', x)
    PROVE  ExactInv'
<1>1. LiveGroups \subseteq LiveGroups'
  BY DEF LiveGroups
<1>2. disk'[RootAddr].kind = "group"
  BY DEF ExactInv, OneNameInv
<1>3. \A h \in All : \A f : Has(disk', h, f) => h \in LiveGroups'
  BY <1>1 DEF ExactInv, OneNameInv
<1>4. ASSUME NEW p \in Paths, NEW q \in DOMAIN groups', NEW f,
             ParentKnown(p)', Has(disk', ParentAddr(p)', f),
             f.name = Last(p), f.obj = groups'[q]
      PROVE  p = q
  <2>. DEFINE h == ParentAddr(p)
  <2>1. ParentKnown(p) /\ ParentAddr(p)' = h
    BY <1>4 DEF ParentKnown, ParentAddr
  <2>2. h \in All
    BY <2>1, ParentLive
  <2>. HIDE DEF h
  <2>3. Has(disk, h, f)
    BY <1>4, <2>1, <2>2
  <2>. QED
    BY <1>4, <2>1, <2>3 DEF ExactInv, OneNameInv, h
<1>5. OneNameInv'
  BY <1>2, <1>3, <1>4 DEF ExactInv, OneNameInv
<1>6. KnownLive'
  BY <1>1 DEF ExactInv, KnownLive
<1>. QED
  BY <1>5, <1>6 DEF ExactInv

\* A new object that is not a group is entered in no list of groups.
LEMMA CreateOtherExact ==
    ASSUME ExactInv, Inv', NEW path \in Paths, NEW a \in Addrs, NEW kind \in Kinds,
           Allocate(a), \E ok \in BOOLEAN : Enter(path, a, kind, ok), groups' = groups
    PROVE  ExactInv'
<1>. DEFINE g == ParentAddr(path)
            e == [name |-> Last(path), obj |-> a]
<1>1. a \in Addrs \ alloc /\ alloc' = alloc \cup {a} /\ overwritten' = overwritten \ {a}
  BY DEF Allocate
<1>2. /\ alloc \subseteq Addrs /\ a \in All
      /\ \A h \in alloc \cup {RootAddr} : h \in All /\ h # a
      /\ \A q \in DOMAIN groups : groups[q] # a
  BY <1>1, ObjectLinksAssumption
     DEF ExactInv, Inv, TypeInv, All, RootAddr, KnownLive, LiveGroups
<1>3. PICK ok \in BOOLEAN : Enter(path, a, kind, ok)
  OBVIOUS
<1>4. /\ disk'[a].rc = 1
      /\ \A h \in All \ {a} : disk'[h].kind = disk[h].kind /\ disk'[h].rc = disk[h].rc
      /\ \A h \in All : \A f : Has(disk', h, f) <=> Has(disk, h, f) \/ (ok /\ h = g /\ f = e)
      /\ \A x : x # a => Count(disk', x) = Count(disk, x)
      /\ ok => Count(disk', a) = 1 /\ ParentKnown(path)
      /\ failed' = IF ok THEN failed \ {a} ELSE failed \cup {a}
  BY <1>1, <1>3, EnterExact
<1>5. ok => g \in LiveGroups
  BY <1>4, ParentLive
<1>6. e.obj = a
  OBVIOUS
<1>. HIDE DEF g, e
<1>7. ASSUME NEW x \in alloc' \ (failed \cup overwritten)' PROVE disk'[x].rc = Count(disk', x)
  <2>1. CASE x = a
    BY <1>4, <1>7, <2>1
  <2>2. CASE x # a
    <3>1. x \in alloc \ (failed \cup overwritten) /\ x \in All
      BY <1>1, <1>2, <1>4, <1>7, <2>2
    <3>. QED
      BY <1>4, <2>2, <3>1 DEF ExactInv
  <2>. QED
    BY <2>1, <2>2
<1>8. \A h \in alloc \cup {RootAddr} : disk'[h].kind = disk[h].kind
  BY <1>2, <1>4
<1>9. \A h \in All : \A f : Has(disk', h, f) =>
          \/ Has(disk, h, f)
          \/ h \in LiveGroups /\ \A q \in DOMAIN groups : f.obj # groups[q]
  BY <1>2, <1>4, <1>5, <1>6
<1>. QED
  BY <1>1, <1>7, <1>8, <1>9, SameGroups

LEMMA HardLinkExact ==
    ASSUME NoGroupLinks, ExactInv, Inv', NEW path \in Paths, NEW target \in Paths,
           CreateHardLink(path, target)
    PROVE  ExactInv'
<1>. DEFINE a == Resolve(target)
            n == disk[a].rc
            d == CountLink(a)
            g == ParentAddr(path)
            f == LinkToParent(d, g, Last(path), a)
            u == WriteV2RefCount(d, a, n)
<1>1. /\ Resolves(target) /\ disk[a].kind # "group" /\ n < MaxRefCount
      /\ alloc' = alloc /\ groups' = groups /\ overwritten' = overwritten
      /\ \/ disk' \in {d, u} /\ failed' = failed \cup {a}
         \/ /\ ParentKnown(path) /\ ~ LinkFails(d, g)
            /\ disk' = f /\ failed' = failed
  BY DEF CreateHardLink, NoGroupLinks, LinkOutcomes
<1>2. Inv /\ TypeInv /\ disk \in Disks
  BY DEF ExactInv, Inv, TypeInv
<1>3. a \in alloc /\ a \in Addrs /\ a \in All /\ alloc \subseteq Addrs
  BY <1>1, <1>2, ResolveLive, ResolveProps DEF TypeInv
<1>4. n \in 0 .. MaxRefCount /\ n + 1 \in 0 .. MaxRefCount /\ n \in Nat
  BY <1>1, <1>2, <1>3, DiskFacts, ObjectLinksAssumption
<1>5. d = WriteV2RefCount(disk, a, n + 1) /\ u = WriteV2RefCount(d, a, n)
  BY DEF CountLink
<1>6. Count(disk, a) = Count(Unlinked(target), a) + 1
  BY <1>1, <1>2, ResolveProps
<1>. HIDE DEF a, d, g, u
<1>7. /\ d \in Disks
      /\ \A h \in All : d[h].entries = disk[h].entries /\ d[h].kind = disk[h].kind
      /\ d[a].rc = (IF n + 1 > 1 THEN n + 1 ELSE n)
      /\ \A h \in All \ {a} : d[h].rc = disk[h].rc
  BY <1>2, <1>3, <1>4, <1>5, V2Props
<1>8. /\ \A h \in All : u[h].entries = d[h].entries /\ u[h].kind = d[h].kind
      /\ \A h \in All \ {a} : u[h].rc = d[h].rc
  BY <1>3, <1>4, <1>5, <1>7, V2Props
<1>. HIDE DEF n
<1>9. \A h \in alloc \cup {RootAddr} : h \in All
  BY <1>3 DEF All
<1>10. \A q \in DOMAIN groups : groups[q] # a
  BY <1>1 DEF ExactInv, KnownLive, LiveGroups
<1>11. ASSUME NEW v \in {d, u}
       PROVE  /\ \A h \in All : v[h].entries = disk[h].entries /\ v[h].kind = disk[h].kind
              /\ \A h \in All \ {a} : v[h].rc = disk[h].rc
  BY <1>7, <1>8
<1>12. CASE disk' \in {d, u} /\ failed' = failed \cup {a}
  <2>0. /\ \A h \in All : disk'[h].entries = disk[h].entries /\ disk'[h].kind = disk[h].kind
        /\ \A h \in All \ {a} : disk'[h].rc = disk[h].rc
    BY <1>11, <1>12
  <2>1. \A x : Count(disk', x) = Count(disk, x)
    BY <2>0, CountSame
  <2>2. ASSUME NEW x \in alloc' \ (failed \cup overwritten)'
        PROVE  disk'[x].rc = Count(disk', x)
    <3>1. x \in alloc \ (failed \cup overwritten) /\ x \in All \ {a}
      BY <1>1, <1>9, <1>12, <2>2
    <3>. QED
      BY <2>0, <2>1, <3>1 DEF ExactInv
  <2>3. \A h \in alloc \cup {RootAddr} : disk'[h].kind = disk[h].kind
    BY <1>9, <2>0
  <2>4. \A h \in All : \A e : Has(disk', h, e) => Has(disk, h, e)
    BY <2>0 DEF Has
  <2>. QED
    BY <1>1, <2>2, <2>3, <2>4, SameGroups
<1>13. CASE /\ ParentKnown(path) /\ ~ LinkFails(d, g)
            /\ disk' = f /\ failed' = failed
  <2>. DEFINE e == [name |-> Last(path), obj |-> a]
  <2>1. g \in All /\ g \in LiveGroups /\ Last(path) \in Names
    BY <1>13, ParentLive, PathFacts DEF g
  <2>2. /\ \E k : OneEntryMore(d, f, g, k, e)
        /\ \A h \in All : f[h].rc = d[h].rc /\ f[h].kind = d[h].kind
    BY <1>3, <1>7, <1>13, <2>1, LinkProps
  <2>3. PICK k : OneEntryMore(d, f, g, k, e)
    BY <2>2
  <2>4. e.obj = a
    OBVIOUS
  <2>. HIDE DEF e, f
  <2>5. \A x : Count(disk', x) = IF a = x THEN Count(d, x) + 1 ELSE Count(d, x)
    BY <1>13, <2>1, <2>3, <2>4, LinksMore DEF Count
  <2>6. \A x : Count(d, x) = Count(disk, x)
    BY <1>7, CountSame
  <2>7. ASSUME NEW x \in alloc' \ (failed \cup overwritten)'
        PROVE  disk'[x].rc = Count(disk', x)
    <3>1. x \in alloc /\ x \in All /\ disk[x].rc = Count(disk, x)
      BY <1>1, <1>9, <1>13, <2>7 DEF ExactInv
    <3>2. CASE x = a
      <4>1. n = Count(disk, a) /\ n >= 1
        BY <1>6, <3>1, <3>2, CountNat DEF n
      <4>. QED
        BY <1>3, <1>4, <1>7, <1>13, <2>2, <2>5, <2>6, <3>2, <4>1
    <3>3. CASE x # a
      BY <1>7, <1>13, <2>2, <2>5, <2>6, <3>1, <3>3
    <3>. QED
      BY <3>2, <3>3
  <2>8. \A h \in alloc \cup {RootAddr} : disk'[h].kind = disk[h].kind
    BY <1>7, <1>9, <1>13, <2>2
  <2>9. \A h \in All : \A x : Has(d, h, x) <=> Has(disk, h, x)
    BY <1>7 DEF Has
  <2>10. \A h \in All : \A x : Has(disk', h, x) => Has(disk, h, x) \/ (h = g /\ x = e)
    BY <1>13, <2>1, <2>3, <2>9, HasMore
  <2>11. \A h \in All : \A x : Has(disk', h, x) =>
            \/ Has(disk, h, x)
            \/ h \in LiveGroups /\ \A q \in DOMAIN groups : x.obj # groups[q]
    BY <1>10, <2>1, <2>4, <2>10
  <2>. QED
    BY <1>1, <2>7, <2>8, <2>11, SameGroups
<1>. QED
  BY <1>1, <1>12, <1>13

\* A header is rewritten, or its count is written over: no entry changes.
LEMMA HeaderExact ==
    ASSUME ExactInv, Inv', NEW a \in Addrs,
           \/ /\ \E n \in 0 .. MaxRefCount : disk' = [disk EXCEPT ![a].rc = n]
              /\ overwritten' = overwritten \cup {a}
           \/ /\ disk' = [disk EXCEPT ![a].slack = TRUE]
              /\ overwritten' = overwritten,
           alloc' = alloc, groups' = groups, failed' = failed
    PROVE  ExactInv'
<1>1. disk \in Disks /\ alloc \subseteq Addrs
  BY DEF ExactInv, Inv, TypeInv
<1>2. /\ \A h \in All : disk'[h].entries = disk[h].entries /\ disk'[h].kind = disk[h].kind
      /\ \A h \in All \ {a} : disk'[h].rc = disk[h].rc
      /\ disk' = [disk EXCEPT ![a].slack = TRUE] => disk'[a].rc = disk[a].rc
  BY <1>1, HeaderProps
<1>3. \A x : Count(disk', x) = Count(disk, x)
  BY <1>2, CountSame
<1>4. ASSUME NEW x \in alloc' \ (failed \cup overwritten)' PROVE disk'[x].rc = Count(disk', x)
  <2>1. x \in alloc \ (failed \cup overwritten) /\ x \in All
    BY <1>1 DEF All
  <2>2. disk'[x].rc = disk[x].rc
    BY <1>2, <1>4, <2>1
  <2>. QED
    BY <1>3, <2>1, <2>2 DEF ExactInv
<1>5. \A h \in alloc \cup {RootAddr} : disk'[h].kind = disk[h].kind
  BY <1>1, <1>2 DEF All
<1>6. \A h \in All : \A e : Has(disk', h, e) => Has(disk, h, e)
  BY <1>2 DEF Has
<1>. QED
  BY <1>4, <1>5, <1>6, SameGroups

\* Only the objects that it names lose a link when a group is freed.
LEMMA FreedCount ==
    ASSUME NEW d \in Disks, NEW a \in Addrs, NEW d2, d2 = [d EXCEPT ![a].entries = <<>>],
           NEW x, x \notin {d[a].entries[i].obj : i \in DOMAIN d[a].entries}
    PROVE  Count(d2, x) = Count(d, x)
<1>1. d2[a].entries = <<>> /\ \A h \in All \ {a} : d2[h] = d[h]
  <2>1. d2[a].entries = <<>>
    BY FreedProps
  <2>2. \A h \in All \ {a} : d2[h] = d[h]
    BY FreedProps
  <2>. QED
    BY <2>1, <2>2
<1>2. Links(d2, x) = Links(d, x)
  BY <1>1 DEF Links
<1>. QED
  BY <1>2 DEF Count

LEMMA DeleteExact ==
    ASSUME ExactInv, Inv', NEW path \in Paths, Delete(path)
    PROVE  ExactInv'
<1>. DEFINE a == Resolve(path)
            d == Unlinked(path)
            n == disk[a].rc
            f == WriteRefCount(d, a, n - 1)
            c == [d EXCEPT ![a].entries = <<>>]
            K == {d[a].entries[i].obj : i \in DOMAIN d[a].entries}
            g == ParentAddr(path)
            k == FirstMatch(disk[g].entries, Last(path))
            e == disk[g].entries[k]
<1>1. /\ Resolves(path) /\ overwritten' = overwritten
      /\ \/ /\ ~ (n <= 1) /\ disk' = f
            /\ alloc' = alloc /\ groups' = groups /\ failed' = failed
         \/ /\ disk' = d /\ failed' = failed \cup {a}
            /\ alloc' = alloc /\ groups' = groups
         \/ /\ disk' = c
            /\ alloc' = alloc \ {a} /\ groups' = Forget(path) /\ failed' = failed \cup K
  BY DEF Delete, DeleteFails, LastLink, CascadeDelete
<1>2. Inv /\ TypeInv /\ disk \in Disks
  BY DEF ExactInv, Inv, TypeInv
<1>3. /\ a \in alloc /\ a \in All /\ a \in Addrs /\ d \in Disks
      /\ \A h \in All : d[h].rc = disk[h].rc /\ d[h].kind = disk[h].kind
      /\ \A x : Count(disk, x) = IF a = x THEN Count(d, x) + 1 ELSE Count(d, x)
  BY <1>1, <1>2, ResolveLive, ResolveProps
<1>4. /\ g \in All /\ k \in DOMAIN disk[g].entries
      /\ e.name = Last(path) /\ e.obj = a /\ OneEntryMore(d, disk, g, k, e)
  BY <1>1, <1>2, UnlinkedProps DEF TypeInv
<1>5. alloc \subseteq Addrs /\ RootAddr # a
  BY <1>2, <1>3, ObjectLinksAssumption DEF TypeInv, RootAddr
<1>6. n \in 0 .. MaxRefCount /\ n \in Nat
  BY <1>2, <1>3, DiskFacts, ObjectLinksAssumption
<1>7. Has(disk, g, e)
  BY <1>4 DEF Has
<1>8. ParentKnown(path)
  BY <1>1 DEF Resolves
<1>. HIDE DEF a, d, k, e
<1>9. \A h \in All : \A x : Has(d, h, x) => Has(disk, h, x)
  BY <1>4, HasMore
<1>10. \A h \in alloc \cup {RootAddr} : h \in All /\ d[h].kind = disk[h].kind
  BY <1>3, <1>5 DEF All
<1>11. \A x \in alloc : Count(d, x) \in Nat
  BY CountNat
<1>12. CASE /\ ~ (n <= 1) /\ disk' = f
            /\ alloc' = alloc /\ groups' = groups /\ failed' = failed
  <2>1. n - 1 \in 0 .. MaxRefCount
    BY <1>6, <1>12, ObjectLinksAssumption
  <2>2. /\ \A h \in All : f[h].entries = d[h].entries /\ f[h].kind = d[h].kind
        /\ f[a].rc = n - 1 /\ \A h \in All \ {a} : f[h].rc = d[h].rc
    BY <1>3, <2>1, CountProps
  <2>. HIDE DEF f
  <2>3. \A x : Count(disk', x) = Count(d, x)
    BY <1>12, <2>2, CountSame
  <2>4. ASSUME NEW x \in alloc' \ (failed \cup overwritten)'
        PROVE  disk'[x].rc = Count(disk', x)
    <3>1. disk[x].rc = Count(disk, x) /\ x \in All /\ x \in alloc
      BY <1>1, <1>10, <1>12, <2>4 DEF ExactInv
    <3>2. CASE x = a
      BY <1>3, <1>11, <1>12, <2>2, <2>3, <3>1, <3>2
    <3>3. CASE x # a
      BY <1>3, <1>12, <2>2, <2>3, <3>1, <3>3
    <3>. QED
      BY <3>2, <3>3
  <2>5. \A h \in alloc \cup {RootAddr} : disk'[h].kind = disk[h].kind
    BY <1>10, <1>12, <2>2
  <2>6. \A h \in All : \A x : Has(f, h, x) <=> Has(d, h, x)
    BY <2>2 DEF Has
  <2>7. \A h \in All : \A x : Has(disk', h, x) => Has(disk, h, x)
    BY <1>9, <1>12, <2>6
  <2>. QED
    BY <1>12, <2>4, <2>5, <2>7, SameGroups
<1>13. CASE /\ disk' = d /\ failed' = failed \cup {a}
            /\ alloc' = alloc /\ groups' = groups
  <2>1. \A x \in alloc' \ (failed \cup overwritten)' : disk'[x].rc = Count(disk', x)
    BY <1>1, <1>3, <1>10, <1>13 DEF ExactInv
  <2>. QED
    BY <1>9, <1>10, <1>13, <2>1, SameGroups
<1>14. CASE /\ disk' = c
            /\ alloc' = alloc \ {a} /\ groups' = Forget(path) /\ failed' = failed \cup K
  <2>0. /\ c[a].entries = <<>>
        /\ \A h \in All : c[h].rc = d[h].rc /\ c[h].kind = d[h].kind
        /\ \A h \in All \ {a} : c[h] = d[h]
    <3>1. c = [d EXCEPT ![a].entries = <<>>]
      OBVIOUS
    <3>. HIDE DEF c
    <3>2. c[a].entries = <<>>
      BY <1>3, <3>1, FreedProps
    <3>3. \A h \in All : c[h].rc = d[h].rc /\ c[h].kind = d[h].kind
      BY <1>3, <3>1, FreedProps
    <3>4. \A h \in All \ {a} : c[h] = d[h]
      BY <1>3, <3>1, FreedProps
    <3>. QED
      BY <3>2, <3>3, <3>4
  <2>. HIDE DEF c
  <2>1. /\ DOMAIN groups' = DOMAIN groups \ {path}
        /\ \A q \in DOMAIN groups \ {path} : groups'[q] = groups[q]
    BY <1>14 DEF Forget
  <2>2. \A h \in LiveGroups : h # a => h \in LiveGroups'
    BY <1>10, <1>14, <2>0 DEF LiveGroups
  <2>3. disk'[RootAddr].kind = "group"
    BY <1>10, <1>14, <2>0 DEF ExactInv, OneNameInv
  <2>4. \A h \in All : \A x : Has(disk', h, x) => h # a /\ Has(disk, h, x)
    BY <1>9, <1>14, <2>0 DEF Has
  <2>5. \A h \in All : \A x : Has(disk', h, x) => h \in LiveGroups'
    BY <2>2, <2>4 DEF ExactInv, OneNameInv
  <2>6. \A p, q \in DOMAIN groups' : groups'[p] = groups'[q] => p = q
    BY <2>1 DEF ExactInv, OneNameInv
  <2>7. ASSUME NEW p \in Paths, NEW q \in DOMAIN groups', NEW x,
               ParentKnown(p)', Has(disk', ParentAddr(p)', x),
               x.name = Last(p), x.obj = groups'[q]
        PROVE  p = q
    <3>. DEFINE h == ParentAddr(p)
    <3>1. ParentKnown(p) /\ ParentAddr(p)' = h
      BY <2>1, <2>7 DEF ParentKnown, ParentAddr
    <3>2. h \in All
      BY <3>1, ParentLive
    <3>. HIDE DEF h
    <3>3. Has(disk, h, x)
      BY <2>4, <2>7, <3>1, <3>2
    <3>. QED
      BY <2>1, <2>7, <3>1, <3>3 DEF ExactInv, OneNameInv, h
  \* The freed group is forgotten: it was known by no other path.
  <2>8. ASSUME NEW q \in DOMAIN groups' PROVE groups'[q] \in LiveGroups'
    <3>1. q \in DOMAIN groups /\ q # path /\ groups'[q] = groups[q]
      BY <2>1
    <3>2. groups[q] # a
      BY <1>4, <1>7, <1>8, <3>1 DEF ExactInv, OneNameInv
    <3>. QED
      BY <2>2, <3>1, <3>2 DEF ExactInv, KnownLive
  <2>9. ASSUME NEW x \in alloc' \ (failed \cup overwritten)'
        PROVE  disk'[x].rc = Count(disk', x)
    <3>1. /\ x \in alloc /\ x # a /\ x \notin K /\ x \in All
          /\ disk[x].rc = Count(disk, x)
      BY <1>1, <1>10, <1>14, <2>9 DEF ExactInv
    <3>2. Count(c, x) = Count(d, x)
      BY <1>3, <3>1, FreedCount DEF c
    <3>. QED
      BY <1>3, <1>14, <2>0, <3>1, <3>2
  <2>10. OneNameInv'
    BY <2>3, <2>5, <2>6, <2>7 DEF OneNameInv
  <2>11. KnownLive'
    BY <2>8 DEF KnownLive
  <2>. QED
    BY <2>9, <2>10, <2>11 DEF ExactInv
<1>. QED
  BY <1>1, <1>12, <1>13, <1>14

\* Without hard links to groups, every step keeps counts exact and known
\* groups live, as long as no object is freed by a count not its own.
LEMMA ExactStep ==
    ASSUME NoGroupLinks PROVE ExactInv /\ [Next]_vars /\ ~ loose' => ExactInv'
<1>. SUFFICES ASSUME ExactInv, [Next]_vars, ~ loose' PROVE ExactInv'
  OBVIOUS
<1>0. Inv'
  BY StepProps DEF ExactInv, Inv
<1>1. ASSUME NEW path \in Paths, NEW a \in Addrs, CreateGroup(path, a) PROVE ExactInv'
  BY <1>0, <1>1, CreateGroupExact
<1>2. ASSUME NEW path \in Paths, NEW a \in Addrs, CreateDataset(path, a) PROVE ExactInv'
  BY <1>0, <1>2, CreateOtherExact DEF CreateDataset, Kinds
<1>3. ASSUME NEW path \in Paths, NEW target \in Paths, NEW a \in Addrs,
             CreateDenseGroup(path, a, target)
      PROVE  ExactInv'
  BY <1>0, <1>3, CreateOtherExact DEF CreateDenseGroup, Kinds
<1>4. ASSUME NEW path \in Paths, NEW target \in Paths, CreateHardLink(path, target)
      PROVE  ExactInv'
  BY <1>0, <1>4, HardLinkExact
<1>5. ASSUME NEW a \in Addrs, NEW n \in 0 .. MaxRefCount, WriteBehind(a, n) PROVE ExactInv'
  <2>1. /\ disk' = [disk EXCEPT ![a].rc = n] /\ overwritten' = overwritten \cup {a}
        /\ alloc' = alloc /\ groups' = groups /\ failed' = failed
    BY <1>5 DEF WriteBehind
  <2>. QED
    BY <1>0, <2>1, HeaderExact
<1>6. ASSUME NEW path \in Paths, WriteAttribute(path) PROVE ExactInv'
  <2>. DEFINE a == Resolve(path)
  <2>1. /\ disk' = [disk EXCEPT ![a].slack = TRUE] /\ overwritten' = overwritten
        /\ alloc' = alloc /\ groups' = groups /\ failed' = failed /\ Resolves(path)
    BY <1>6 DEF WriteAttribute
  <2>2. a \in Addrs
    BY <2>1, ResolveProps DEF ExactInv, Inv
  <2>. HIDE DEF a
  <2>. QED
    BY <1>0, <2>1, <2>2, HeaderExact
<1>7. ASSUME NEW path \in Paths, Delete(path) PROVE ExactInv'
  BY <1>0, <1>7, DeleteExact
<1>8. CASE Reopen
  <2>1. /\ DOMAIN groups' = {} /\ disk' = disk /\ alloc' = alloc /\ failed' = failed
        /\ overwritten' = overwritten
    BY <1>8 DEF Reopen
  <2>2. LiveGroups' = LiveGroups
    BY <2>1 DEF LiveGroups
  <2>3. OneNameInv' /\ KnownLive'
    BY <2>1, <2>2 DEF ExactInv, OneNameInv, KnownLive
  <2>. QED
    BY <1>0, <2>1, <2>3 DEF ExactInv
<1>9. CASE UNCHANGED vars
  <2>1. LiveGroups' = LiveGroups /\ \A p : /\ ParentKnown(p)' <=> ParentKnown(p)
                                           /\ ParentAddr(p)' = ParentAddr(p)
    BY <1>9 DEF vars, LiveGroups, ParentKnown, ParentAddr
  <2>2. OneNameInv' /\ KnownLive'
    BY <1>9, <2>1 DEF vars, ExactInv, OneNameInv, KnownLive
  <2>. QED
    BY <1>0, <1>9, <2>2 DEF vars, ExactInv
<1>. QED
  BY <1>1, <1>2, <1>3, <1>4, <1>5, <1>6, <1>7, <1>8, <1>9 DEF Next

LEMMA InitExact == Init => ExactInv
<1>. SUFFICES ASSUME Init PROVE ExactInv
  OBVIOUS
<1>1. DOMAIN groups = {} /\ alloc = {}
  BY DEF Init
<1>2. disk[RootAddr].kind = "group" /\ \A h \in All : disk[h].entries = <<>>
  BY DEF Init, NewObject, All
<1>3. OneNameInv /\ KnownLive
  BY <1>1, <1>2 DEF OneNameInv, KnownLive, Has
<1>. QED
  BY <1>1, <1>3, InitInv DEF ExactInv

GoodExact == TypeInv /\ (loose \/ ExactInv)

LEMMA ExactHolds == ASSUME NoGroupLinks PROVE Spec => []GoodExact
<1>1. Init => GoodExact
  BY InitExact DEF GoodExact, ExactInv, Inv
<1>2. GoodExact /\ [Next]_vars => GoodExact'
  <2>. SUFFICES ASSUME GoodExact, [Next]_vars PROVE GoodExact'
    OBVIOUS
  <2>1. TypeInv' /\ (loose => loose')
    BY StepProps DEF GoodExact
  <2>. QED
    BY <2>1, ExactStep DEF GoodExact
<1>. QED
  BY <1>1, <1>2, PTL DEF Spec

\* Without hard links to groups, the count of an object on which no operation
\* failed and whose count its neighbour did not write over is the number of its
\* links: Delete frees it with the last.
THEOREM CountsExact == ASSUME NoGroupLinks PROVE Spec => []RefCountExact
<1>1. GoodExact => RefCountExact
  <2>. SUFFICES ASSUME ExactInv, NEW a \in alloc \ (failed \cup overwritten)
                PROVE  disk[a].rc = Cardinality(LinksTo(a))
    BY DEF RefCountExact, GoodExact
  <2>1. LinksTo(a) \subseteq Links(disk, a)
    BY LiveLinks DEF ExactInv, Inv, TypeInv
  <2>2. ASSUME NEW l \in Links(disk, a) PROVE l \in LinksTo(a)
    <3>1. /\ l \in All \X (1 .. Capacity) /\ l[1] \in All
          /\ l[2] \in DOMAIN disk[l[1]].entries
          /\ disk[l[1]].entries[l[2]].obj = a
      BY DEF Links
    <3>2. Has(disk, l[1], disk[l[1]].entries[l[2]])
      BY <3>1 DEF Has
    <3>3. l[1] \in LiveGroups
      BY <3>1, <3>2 DEF ExactInv, OneNameInv
    <3>. QED
      BY <3>1, <3>3 DEF LinksTo
  <2>3. LinksTo(a) = Links(disk, a)
    BY <2>1, <2>2
  <2>. QED
    BY <2>3 DEF ExactInv, Count
<1>. QED
  BY <1>1, ExactHolds, PTL

\* Without hard links to groups (a group that has two paths is the subject of
\* a run of its own), every path of fw.groups leads to a live group: creating
\* and linking write into no freed storage.
THEOREM KnownAreLive == ASSUME NoGroupLinks PROVE Spec => []KnownGroupsLive
<1>1. GoodExact => KnownGroupsLive
  BY DEF GoodExact, ExactInv, KnownLive, KnownGroupsLive
<1>. QED
  BY <1>1, ExactHolds, PTL
=============================================================================
