-------------------------- MODULE SymbolTableProofs --------------------------
(***************************************************************************)
(* Proofs about the symbol table of a group: what is read back from disk   *)
(* is what was linked, the keys of the B-tree bracket its nodes, and the   *)
(* symbol table implements a directory.                                    *)
(***************************************************************************)
EXTENDS SymbolTable, SequenceFacts

-----------------------------------------------------------------------------
(* Distributing a sequence over nodes of fixed capacity *)

LEMMA ConstantTypes ==
    /\ Root \in Groups /\ SnodCapacity \in Nat \ {0} /\ K \in Nat \ {0}
    /\ HeapSize \in Nat \ {0} /\ Length \in [Names -> Nat \ {0}]
    /\ Names \subseteq Nat \ {0}
  BY SymbolTableAssumption

LEMMA MinOfTwo ==
    ASSUME NEW a \in Int, NEW b \in Int
    PROVE  Min({a, b}) = IF a <= b THEN a ELSE b
<1>. DEFINE m == IF a <= b THEN a ELSE b
<1>1. m \in {a, b} /\ \A y \in {a, b} : m <= y
  OBVIOUS
<1>2. \A x \in {a, b} : (\A y \in {a, b} : x <= y) => x = m
  OBVIOUS
<1>. QED
  BY <1>1, <1>2 DEF Min

\* Nodes are as many as needed, and none but the first one is empty.
LEMMA NumSNODsProps ==
    ASSUME NEW len \in Nat
    PROVE  /\ NumSNODs(len) \in Nat \ {0}
           /\ len <= NumSNODs(len) * SnodCapacity
           /\ \A i \in 1 .. NumSNODs(len) :
                 /\ (i - 1) * SnodCapacity \in Nat /\ i * SnodCapacity \in Nat
                 /\ i * SnodCapacity = (i - 1) * SnodCapacity + SnodCapacity
                 /\ (i - 1) * SnodCapacity <= len
                 /\ i > 1 => (i - 1) * SnodCapacity < len
<1>. DEFINE c == SnodCapacity
            n == NumSNODs(len)
<1>0. c \in Nat /\ c > 0
  BY ConstantTypes
<1>1. CASE len = 0
  BY <1>0, <1>1 DEF NumSNODs
<1>2. CASE len # 0
  <2>. DEFINE d == len + c - 1
  <2>1. n = d \div c /\ d \in Nat
    BY <1>0, <1>2 DEF NumSNODs
  <2>. HIDE DEF n
  <2>2. n \in Int /\ n * c <= d /\ d < n * c + c
    BY <1>0, <2>1
  <2>3. n > 0
    BY <1>0, <1>2, <2>1, <2>2
  <2>4. len <= n * c /\ n * c - c < len
    BY <1>0, <1>2, <2>2
  <2>5. ASSUME NEW i \in 1 .. n
        PROVE  /\ (i - 1) * c \in Nat /\ i * c \in Nat
               /\ i * c = (i - 1) * c + c
               /\ i * c <= n * c
    BY <1>0, <2>2, <2>3
  <2>. QED
    BY <1>0, <2>2, <2>3, <2>4, <2>5 DEF n
<1>. QED
  BY <1>1, <1>2

\* Where the i-th node begins and ends.
Lo(i) == (i - 1) * SnodCapacity
Hi(es, i) == Min({i * SnodCapacity, Len(es)})

\* The entries of the i-th node.
Part(es, i) == SubSeq(es, Lo(i) + 1, Hi(es, i))

LEMMA BoundsProps ==
    ASSUME NEW es \in Seq(Entry), NEW i \in 1 .. NumSNODs(Len(es))
    PROVE  /\ Lo(i) \in Nat /\ Hi(es, i) \in Nat
           /\ Lo(i) <= Hi(es, i) /\ Hi(es, i) <= Len(es)
           /\ Hi(es, i) - Lo(i) <= SnodCapacity
           /\ i < NumSNODs(Len(es)) => Hi(es, i) = Lo(i + 1)
           /\ i = NumSNODs(Len(es)) => Hi(es, i) = Len(es)
<1>. DEFINE n == NumSNODs(Len(es))
<1>1. Len(es) \in Nat /\ SnodCapacity \in Nat
  BY ConstantTypes
<1>2. /\ n \in Nat /\ Len(es) <= n * SnodCapacity
      /\ \A k \in 1 .. n : /\ (k - 1) * SnodCapacity \in Nat /\ k * SnodCapacity \in Nat
                           /\ k * SnodCapacity = (k - 1) * SnodCapacity + SnodCapacity
                           /\ (k - 1) * SnodCapacity <= Len(es)
  BY <1>1, NumSNODsProps
<1>3. Hi(es, i) = IF i * SnodCapacity <= Len(es) THEN i * SnodCapacity ELSE Len(es)
  BY <1>1, <1>2, MinOfTwo DEF Hi
<1>4. i < n => i + 1 \in 1 .. n /\ (i + 1) - 1 = i
  BY <1>2
<1>. QED
  BY <1>1, <1>2, <1>3, <1>4 DEF Lo

\* The elements of es behind the first lo, up to the hi-th.
LEMMA SubSeqShift ==
    ASSUME NEW S, NEW es \in Seq(S), NEW lo \in Nat, NEW hi \in Nat,
           lo <= hi, hi <= Len(es)
    PROVE  /\ SubSeq(es, lo + 1, hi) \in Seq(S)
           /\ Len(SubSeq(es, lo + 1, hi)) = hi - lo
           /\ \A k \in 1 .. (hi - lo) : SubSeq(es, lo + 1, hi)[k] = es[lo + k]
<1>. Len(es) \in Nat
  OBVIOUS
<1>. QED
  BY SubSeqProperties

LEMMA PartProps ==
    ASSUME NEW es \in Seq(Entry), NEW i \in 1 .. NumSNODs(Len(es))
    PROVE  /\ Part(es, i) \in Seq(Entry)
           /\ Len(Part(es, i)) = Hi(es, i) - Lo(i)
           /\ Len(Part(es, i)) <= SnodCapacity
           /\ \A k \in 1 .. Len(Part(es, i)) :
                  /\ Lo(i) + k \in 1 .. Len(es)
                  /\ Part(es, i)[k] = es[Lo(i) + k]
<1>1. /\ Lo(i) \in Nat /\ Hi(es, i) \in Nat /\ Lo(i) <= Hi(es, i)
      /\ Hi(es, i) <= Len(es) /\ Hi(es, i) - Lo(i) <= SnodCapacity
      /\ Len(es) \in Nat
  BY BoundsProps
<1>2. /\ SubSeq(es, Lo(i) + 1, Hi(es, i)) \in Seq(Entry)
      /\ Len(SubSeq(es, Lo(i) + 1, Hi(es, i))) = Hi(es, i) - Lo(i)
      /\ \A k \in 1 .. (Hi(es, i) - Lo(i)) :
             SubSeq(es, Lo(i) + 1, Hi(es, i))[k] = es[Lo(i) + k]
  BY <1>1, SubSeqShift
<1>. QED
  BY <1>1, <1>2 DEF Part

LEMMA EntryTypes ==
    ASSUME NEW es \in Seq(Entry), NEW i \in 1 .. Len(es)
    PROVE  es[i] \in Entry /\ es[i].off \in Nat /\ es[i].obj \in Objs
<1>1. es[i] \in Entry
  OBVIOUS
<1>. QED
  BY <1>1 DEF Entry

\* A prefix and what follows it.
LEMMA PrefixGrows ==
    ASSUME NEW S, NEW es \in Seq(S), NEW a \in Nat, NEW b \in Nat, a <= b, b <= Len(es)
    PROVE  SubSeq(es, 1, a) \o SubSeq(es, a + 1, b) = SubSeq(es, 1, b)
<1>. DEFINE p == SubSeq(es, 1, a)
            q == SubSeq(es, a + 1, b)
            r == SubSeq(es, 1, b)
<1>0. Len(es) \in Nat
  OBVIOUS
<1>1. p \in Seq(S) /\ Len(p) = a /\ \A k \in 1 .. a : p[k] = es[k]
  BY <1>0, SubSeqProperties
<1>2. q \in Seq(S) /\ Len(q) = b - a /\ \A k \in 1 .. (b - a) : q[k] = es[a + k]
  BY <1>0, SubSeqProperties
<1>3. r \in Seq(S) /\ Len(r) = b /\ \A k \in 1 .. b : r[k] = es[k]
  BY <1>0, SubSeqProperties
<1>. HIDE DEF p, q, r
<1>4. /\ p \o q \in Seq(S) /\ Len(p \o q) = a + (b - a)
      /\ \A k \in 1 .. (a + (b - a)) : (p \o q)[k] = IF k <= a THEN p[k] ELSE q[k - a]
  <2>1. p \in Seq(S) /\ q \in Seq(S)
    BY <1>1, <1>2
  <2>2. /\ p \o q \in Seq(S) /\ Len(p \o q) = Len(p) + Len(q)
        /\ \A k \in 1 .. (Len(p) + Len(q)) :
               (p \o q)[k] = IF k <= Len(p) THEN p[k] ELSE q[k - Len(p)]
    BY <2>1, ConcatProperties
  <2>3. Len(p) = a /\ Len(q) = b - a
    BY <1>1, <1>2
  <2>. QED
    BY <2>2, <2>3
<1>5. /\ Len(p \o q) = b
      /\ \A k \in 1 .. b : (p \o q)[k] = IF k <= a THEN p[k] ELSE q[k - a]
  <2>1. a + (b - a) = b
    OBVIOUS
  <2>. QED
    BY <1>4, <2>1
<1>6. ASSUME NEW k \in 1 .. b PROVE (p \o q)[k] = r[k]
  <2>1. CASE k <= a
    BY <2>1, <1>1, <1>3, <1>5
  <2>2. CASE ~ (k <= a)
    <3>1. k - a \in 1 .. (b - a) /\ a + (k - a) = k
      BY <2>2
    <3>. QED
      BY <2>2, <3>1, <1>2, <1>3, <1>5
  <2>. QED
    BY <2>1, <2>2
<1>7. p \o q = r
  BY <1>3, <1>4, <1>5, <1>6, SeqEqual
<1>. QED
  BY <1>7 DEF p, q, r

-----------------------------------------------------------------------------
(* The B-tree node and the SNODs of a group *)

\* The node lists SNODs that were written, none of them twice, and no SNOD
\* has more entries than it holds.
TreeOK(node, nodes) ==
    /\ node.used \in Nat \ {0}
    /\ node.children \in Seq(1 .. Len(nodes))
    /\ Len(node.children) <= node.used
    /\ \A i, j \in 1 .. Len(node.children) :
           node.children[i] = node.children[j] => i = j
    /\ nodes \in Seq(Seq(Entry))
    /\ \A a \in 1 .. Len(nodes) : Len(nodes[a]) <= SnodCapacity

\* The node lists all of its SNODs.
Complete(node) == Len(node.children) = node.used

\* The SNODs of the node hold the entries es, in order.
Laid(node, nodes, es) ==
    /\ node.used = NumSNODs(Len(es))
    /\ Complete(node)
    /\ \A i \in 1 .. node.used : nodes[node.children[i]] = Part(es, i)

\* The keys are offsets of the last entries of the nodes on their left.
Keyed(node, es) ==
    /\ \A i \in 1 .. node.used : node.keys[i] = LeftKey(es, i)
    /\ Len(es) > 0 => node.keys[node.used + 1] = es[Len(es)].off

LEMMA EntriesLaid ==
    ASSUME NEW node, NEW nodes, NEW es \in Seq(Entry), Laid(node, nodes, es)
    PROVE  EntriesOf(node, nodes) = es
<1>. DEFINE n == NumSNODs(Len(es))
            to(i) == IF i = 0 THEN 0 ELSE Hi(es, i)
            f == [i \in 0 .. n |-> SubSeq(es, 1, to(i))]
            IsUpTo(g) == g = [i \in 0 .. n |-> IF i = 0 THEN <<>>
                                   ELSE g[i - 1] \o nodes[SnodAddr(node, i)]]
            c == CHOOSE g : IsUpTo(g)
<1>0. Len(es) \in Nat /\ n \in Nat \ {0}
  BY NumSNODsProps
<1>1. EntriesOf(node, nodes) = c[n]
  BY DEF EntriesOf, Laid
<1>2. \A i \in 1 .. n : nodes[SnodAddr(node, i)] = Part(es, i)
  BY <1>0 DEF Laid, Complete, SnodAddr
<1>3. \A i \in 0 .. n : f[i] = SubSeq(es, 1, to(i))
  OBVIOUS
<1>4. ASSUME NEW i \in 1 .. n
      PROVE  /\ to(i - 1) = Lo(i) /\ Lo(i) \in Nat /\ to(i) \in Nat
             /\ Lo(i) <= to(i) /\ to(i) <= Len(es)
  <2>1. Lo(i) \in Nat /\ Hi(es, i) \in Nat /\ Lo(i) <= Hi(es, i) /\ Hi(es, i) <= Len(es)
    BY BoundsProps
  <2>2. CASE i = 1
    BY <2>1, <2>2, ConstantTypes DEF Lo
  <2>3. CASE i # 1
    <3>1. i - 1 \in 1 .. n /\ i - 1 < n /\ (i - 1) + 1 = i
      BY <1>0, <2>3
    <3>2. Hi(es, i - 1) = Lo((i - 1) + 1)
      BY <3>1, BoundsProps
    <3>. QED
      BY <2>1, <2>3, <3>1, <3>2
  <2>. QED
    BY <2>2, <2>3
<1>5. f[0] = <<>>
  <2>1. SubSeq(es, 1, 0) = <<>>
    BY <1>0
  <2>. QED
    BY <2>1, <1>0, <1>3
<1>6. ASSUME NEW i \in 1 .. n PROVE f[i] = f[i - 1] \o nodes[SnodAddr(node, i)]
  <2>1. i \in 0 .. n /\ i - 1 \in 0 .. n
    BY <1>0
  <2>2. f[i] = SubSeq(es, 1, to(i)) /\ f[i - 1] = SubSeq(es, 1, Lo(i))
    BY <2>1, <1>3, <1>4
  <2>3. nodes[SnodAddr(node, i)] = SubSeq(es, Lo(i) + 1, to(i))
    BY <1>2 DEF Part
  <2>. HIDE DEF f, to
  <2>4. SubSeq(es, 1, Lo(i)) \o SubSeq(es, Lo(i) + 1, to(i)) = SubSeq(es, 1, to(i))
    BY <1>4, PrefixGrows
  <2>. QED
    BY <2>2, <2>3, <2>4
<1>7. IsUpTo(f)
  <2>1. ASSUME NEW i \in 0 .. n
        PROVE  f[i] = IF i = 0 THEN <<>> ELSE f[i - 1] \o nodes[SnodAddr(node, i)]
    <3>. HIDE DEF f
    <3>1. CASE i = 0
      BY <3>1, <1>5
    <3>2. CASE i # 0
      <4>1. i \in 1 .. n
        BY <1>0, <3>2
      <4>. QED
        BY <4>1, <3>2, <1>6
    <3>. QED
      BY <3>1, <3>2
  <2>2. f = [i \in 0 .. n |-> f[i]]
    OBVIOUS
  <2>. HIDE DEF f
  <2>. QED
    BY <2>1, <2>2
<1>8. IsUpTo(c)
  <2>. HIDE DEF IsUpTo
  <2>. QED
    BY <1>7
<1>. HIDE DEF f
<1>9. \A i \in 0 .. n : c[i] = IF i = 0 THEN <<>>
                               ELSE c[i - 1] \o nodes[SnodAddr(node, i)]
  <2>. HIDE DEF c
  <2>. QED
    BY <1>8
<1>. HIDE DEF c
<1>. DEFINE T == {i \in 0 .. n : c[i] # f[i]}
<1>10. T = {}
  <2>. SUFFICES ASSUME T # {} PROVE FALSE
    OBVIOUS
  <2>1. T \subseteq Nat
    OBVIOUS
  <2>2. PICK x \in T : \A y \in T : x <= y
    <3>. HIDE DEF T
    <3>. QED
      BY <2>1, LeastNat
  <2>3. x # 0
    BY <1>0, <2>2, <1>5, <1>9
  <2>4. x \in 1 .. n /\ x - 1 \in 0 .. n /\ x - 1 \notin T
    BY <1>0, <2>2, <2>3
  <2>5. c[x - 1] = f[x - 1]
    BY <2>4
  <2>6. c[x] = c[x - 1] \o nodes[SnodAddr(node, x)]
    BY <1>9, <2>2, <2>3
  <2>7. f[x] = f[x - 1] \o nodes[SnodAddr(node, x)]
    BY <1>6, <2>4
  <2>8. c[x] = f[x]
    BY <2>5, <2>6, <2>7
  <2>. QED
    BY <2>2, <2>8
<1>11. c[n] = SubSeq(es, 1, Len(es))
  <2>1. n \in 0 .. n /\ n \in 1 .. n
    BY <1>0
  <2>2. c[n] = f[n]
    BY <1>10, <2>1
  <2>3. to(n) = Len(es)
    BY <1>0, <2>1, BoundsProps
  <2>. QED
    BY <2>1, <2>2, <2>3, <1>3
<1>12. SubSeq(es, 1, Len(es)) = es
  OBVIOUS
<1>. QED
  BY <1>1, <1>11, <1>12

LEMMA TreeProps ==
    ASSUME NEW node, NEW nodes, TreeOK(node, nodes)
    PROVE  /\ node.used \in Nat \ {0} /\ Len(node.children) \in Nat
           /\ Len(node.children) <= node.used /\ Len(nodes) \in Nat
           /\ \A i \in 1 .. Len(node.children) : node.children[i] \in 1 .. Len(nodes)
<1>1. /\ node.used \in Nat \ {0} /\ node.children \in Seq(1 .. Len(nodes))
      /\ Len(node.children) <= node.used /\ nodes \in Seq(Seq(Entry))
  BY DEF TreeOK
<1>. QED
  BY <1>1

\* A reader finds all SNODs of a group when the node lists them.
LEMMA ReadableIsComplete ==
    ASSUME NEW g, TreeOK(btree[g], snods[g])
    PROVE  /\ Readable(g) <=> Complete(btree[g])
           /\ Complete(btree[g]) =>
                 SnodAddrs(g) = [i \in 1 .. btree[g].used |-> btree[g].children[i]]
<1>. DEFINE node == btree[g]
<1>1. /\ node.used \in Nat \ {0} /\ Len(node.children) \in Nat
      /\ Len(node.children) <= node.used
      /\ \A i \in 1 .. Len(node.children) : node.children[i] \in 1 .. Len(snods[g])
  BY TreeProps
<1>2. Readable(g) <=> \A i \in 1 .. node.used : SnodAddr(node, i) # 0
  BY DEF Readable, SnodAddrs, Range, NoSnod
<1>3. ASSUME Complete(node), NEW i \in 1 .. node.used
      PROVE  SnodAddr(node, i) = node.children[i] /\ SnodAddr(node, i) # 0
  BY <1>1, <1>3 DEF Complete, SnodAddr
<1>4. ASSUME ~ Complete(node) PROVE SnodAddr(node, node.used) = 0
  BY <1>1, <1>4 DEF Complete, SnodAddr, NoSnod
<1>5. node.used \in 1 .. node.used
  BY <1>1
<1>6. Readable(g) <=> Complete(node)
  BY <1>2, <1>3, <1>4, <1>5
<1>7. Complete(node) => SnodAddrs(g) = [i \in 1 .. node.used |-> node.children[i]]
  BY <1>3 DEF SnodAddrs
<1>. QED
  BY <1>6, <1>7

\* The addresses of SnodsFor: those of the old SNODs, then of new ones.
AddrsFor(node, nodes, n) ==
    [i \in 1 .. n |-> IF i <= node.used THEN node.children[i]
                                        ELSE Len(nodes) + i - node.used]

\* How many SNODs there are then.
SnodsThen(node, nodes, n) ==
    IF n <= node.used THEN Len(nodes) ELSE Len(nodes) + n - node.used

\* Addresses of n SNODs, of which those not among the old ones are new ones.
AddrsOK(nodes, n, addrs, size) ==
    /\ size \in Nat /\ Len(nodes) <= size
    /\ addrs \in Seq(1 .. size) /\ Len(addrs) = n /\ DOMAIN addrs = 1 .. n
    /\ \A i \in 1 .. n : addrs[i] \in 1 .. size
    /\ \A i, j \in 1 .. n : addrs[i] = addrs[j] => i = j
    /\ \A a \in 1 .. size : a <= Len(nodes) \/ \E i \in 1 .. n : addrs[i] = a
    /\ Max({Len(nodes)} \cup Range(addrs)) = size

LEMMA AddrsProps ==
    ASSUME NEW node, NEW nodes, TreeOK(node, nodes), Complete(node),
           NEW n \in Nat \ {0}
    PROVE  AddrsOK(nodes, n, AddrsFor(node, nodes, n), SnodsThen(node, nodes, n))
<1>. DEFINE addrs == AddrsFor(node, nodes, n)
            size == SnodsThen(node, nodes, n)
            u == node.used
            m == Len(nodes)
<1>1. /\ u \in Nat \ {0} /\ m \in Nat /\ Len(node.children) = u
      /\ \A i \in 1 .. u : node.children[i] \in 1 .. m
      /\ \A i, j \in 1 .. u : node.children[i] = node.children[j] => i = j
  <2>1. \A i, j \in 1 .. Len(node.children) :
            node.children[i] = node.children[j] => i = j
    BY DEF TreeOK
  <2>2. Len(node.children) = u
    BY DEF Complete
  <2>. QED
    BY <2>1, <2>2, TreeProps
<1>2. size = IF n <= u THEN m ELSE m + n - u
  BY DEF SnodsThen
<1>3. DOMAIN addrs = 1 .. n
      /\ \A i \in 1 .. n : addrs[i] = IF i <= u THEN node.children[i] ELSE m + i - u
  BY DEF AddrsFor
<1>. HIDE DEF addrs, size, u, m
<1>4. size \in Nat /\ m <= size
  BY <1>1, <1>2
<1>5. \A i \in 1 .. n : addrs[i] \in 1 .. size
  BY <1>1, <1>2, <1>3
<1>6. addrs \in Seq(1 .. size) /\ Len(addrs) = n
  <2>1. addrs = [i \in 1 .. n |-> addrs[i]]
    BY <1>3 DEF addrs, AddrsFor
  <2>2. addrs \in [1 .. n -> 1 .. size]
    BY <2>1, <1>5
  <2>. QED
    BY <2>2, <1>4
<1>7. \A i, j \in 1 .. n : addrs[i] = addrs[j] => i = j
  BY <1>1, <1>3
<1>8. ASSUME NEW a \in 1 .. size PROVE a <= m \/ \E i \in 1 .. n : addrs[i] = a
  <2>. SUFFICES ASSUME ~ (a <= m) PROVE \E i \in 1 .. n : addrs[i] = a
    OBVIOUS
  <2>. DEFINE i == a - m + u
  <2>1. i \in 1 .. n /\ ~ (i <= u) /\ m + i - u = a
    BY <1>1, <1>2
  <2>2. addrs[i] = a
    BY <2>1, <1>3
  <2>. QED
    BY <2>1, <2>2
<1>9. Max({m} \cup Range(addrs)) = size
  <2>. DEFINE S == {m} \cup Range(addrs)
  <2>1. \A x \in S : x \in Int /\ x <= size
    BY <1>1, <1>3, <1>4, <1>5 DEF Range
  <2>2. size \in S
    <3>1. CASE n <= u
      BY <3>1, <1>2
    <3>2. CASE ~ (n <= u)
      <4>1. n \in 1 .. n /\ addrs[n] = size
        BY <3>2, <1>2, <1>3
      <4>. QED
        BY <4>1, <1>3 DEF Range
    <3>. QED
      BY <3>1, <3>2
  <2>. HIDE DEF S
  <2>3. \A x \in S : (\A y \in S : x >= y) => x = size
    BY <1>4, <2>1, <2>2
  <2>4. \A y \in S : size >= y
    BY <1>4, <2>1
  <2>. QED
    BY <2>2, <2>3, <2>4 DEF Max, S
<1>. QED
  BY <1>3, <1>4, <1>5, <1>6, <1>7, <1>8, <1>9 DEF AddrsOK, addrs, size, m

\* The SNODs after es is distributed over those at addrs.
DistributeOK(es, n, addrs, size, new) ==
    /\ new \in Seq(Seq(Entry)) /\ Len(new) = size
    /\ \A a \in 1 .. Len(new) : Len(new[a]) <= SnodCapacity
    /\ \A i \in 1 .. n : new[addrs[i]] = Part(es, i)

LEMMA DistributeProps ==
    ASSUME NEW node, NEW nodes, TreeOK(node, nodes), Complete(node),
           NEW es \in Seq(Entry), NEW n, n = NumSNODs(Len(es)),
           NEW addrs, addrs = AddrsFor(node, nodes, n),
           NEW new, new = Distribute(nodes, es, addrs)
    PROVE  DistributeOK(es, n, addrs, SnodsThen(node, nodes, n), new)
<1>. DEFINE size == SnodsThen(node, nodes, n)
            at(a) == CHOOSE i \in DOMAIN addrs : addrs[i] = a
<1>0. n \in Nat \ {0} /\ Len(es) \in Nat /\ size = SnodsThen(node, nodes, n)
  BY NumSNODsProps
<1>. HIDE DEF size
<1>1. /\ size \in Nat /\ Len(nodes) <= size
      /\ \A i \in 1 .. n : addrs[i] \in 1 .. size
      /\ DOMAIN addrs = 1 .. n
      /\ \A i, j \in 1 .. n : addrs[i] = addrs[j] => i = j
      /\ \A a \in 1 .. size : a <= Len(nodes) \/ \E i \in 1 .. n : addrs[i] = a
      /\ Max({Len(nodes)} \cup Range(addrs)) = size
  <2>1. AddrsOK(nodes, n, AddrsFor(node, nodes, n), SnodsThen(node, nodes, n))
    BY <1>0, AddrsProps
  <2>2. AddrsOK(nodes, n, addrs, size)
    BY <2>1, <1>0
  <2>. QED
    BY <2>2 DEF AddrsOK
<1>2. nodes \in Seq(Seq(Entry)) /\ \A a \in 1 .. Len(nodes) : Len(nodes[a]) <= SnodCapacity
  BY DEF TreeOK
<1>3. new = [a \in 1 .. size |-> IF \E i \in DOMAIN addrs : addrs[i] = a
                                 THEN Part(es, at(a)) ELSE nodes[a]]
  BY <1>1 DEF Distribute, Part, Lo, Hi
<1>4. \A i \in 1 .. n : at(addrs[i]) = i
  BY <1>1
<1>5. \A i \in 1 .. n : new[addrs[i]] = Part(es, i)
  BY <1>1, <1>3, <1>4
<1>6. \A i \in 1 .. n : Part(es, i) \in Seq(Entry) /\ Len(Part(es, i)) <= SnodCapacity
  BY PartProps
<1>7. ASSUME NEW a \in 1 .. size
      PROVE  new[a] \in Seq(Entry) /\ Len(new[a]) <= SnodCapacity
  <2>1. CASE \E i \in 1 .. n : addrs[i] = a
    BY <2>1, <1>5, <1>6
  <2>2. CASE ~ \E i \in 1 .. n : addrs[i] = a
    <3>1. new[a] = nodes[a] /\ a \in 1 .. Len(nodes)
      BY <2>2, <1>1, <1>3
    <3>. QED
      BY <3>1, <1>2
  <2>. QED
    BY <2>1, <2>2
<1>8. new \in Seq(Seq(Entry)) /\ Len(new) = size
  <2>1. new = [a \in 1 .. size |-> new[a]]
    BY <1>3
  <2>2. new \in [1 .. size -> Seq(Entry)]
    BY <2>1, <1>7
  <2>. QED
    BY <2>2, <1>1
<1>. QED
  BY <1>5, <1>7, <1>8 DEF DistributeOK, size

\* A rewrite keeps the node and the SNODs sound, and when the node has room for
\* all of its children, they hold es and its keys are those of es.
LEMMA RewriteProps ==
    ASSUME NEW node, NEW nodes, TreeOK(node, nodes), Complete(node),
           NEW es \in Seq(Entry), NEW n, n = NumSNODs(Len(es)),
           NEW addrs, addrs = AddrsFor(node, nodes, n),
           NEW new, new = Distribute(nodes, es, addrs),
           NEW node2, node2 = BTreeNode(es, addrs)
    PROVE  /\ TreeOK(node2, new)
           /\ Complete(node2) => Laid(node2, new, es) /\ Keyed(node2, es)
<1>. DEFINE size == SnodsThen(node, nodes, n)
            right == IF es = <<>> THEN 0 ELSE Last(es).off
            keys == [i \in 1 .. (n + 1) |-> IF i <= n THEN LeftKey(es, i) ELSE right]
            kids == Min({n, 2 * K})
<1>0. /\ n \in Nat \ {0} /\ Len(es) \in Nat /\ K \in Nat \ {0} /\ 2 * K \in Nat
      /\ size = SnodsThen(node, nodes, n)
  BY NumSNODsProps, ConstantTypes
<1>1. /\ new \in Seq(Seq(Entry)) /\ Len(new) = size
      /\ \A a \in 1 .. Len(new) : Len(new[a]) <= SnodCapacity
      /\ \A i \in 1 .. n : new[addrs[i]] = Part(es, i)
  <2>1. DistributeOK(es, n, addrs, size, new)
    BY DistributeProps
  <2>. QED
    BY <2>1 DEF DistributeOK
<1>. HIDE DEF size
<1>2. AddrsOK(nodes, n, addrs, size)
  BY <1>0, AddrsProps
<1>3. /\ size \in Nat /\ addrs \in Seq(1 .. size) /\ Len(addrs) = n
      /\ \A i, j \in 1 .. n : addrs[i] = addrs[j] => i = j
  BY <1>2 DEF AddrsOK
<1>4. kids = (IF n <= 2 * K THEN n ELSE 2 * K) /\ kids \in 1 .. n
  <2>1. kids = IF n <= 2 * K THEN n ELSE 2 * K
    BY <1>0, MinOfTwo
  <2>. QED
    BY <2>1, <1>0
<1>5. /\ node2.used = n
      /\ node2.children = SubSeq(addrs, 1, kids)
      /\ node2.keys = SubSeq(keys, 1, Min({n + 1, 2 * K + 1}))
  BY DEF BTreeNode
<1>. HIDE DEF kids
<1>6. /\ node2.children \in Seq(1 .. size) /\ Len(node2.children) = kids
      /\ \A i \in 1 .. kids : node2.children[i] = addrs[i]
  <2>1. /\ SubSeq(addrs, 1, kids) \in Seq(1 .. size)
        /\ Len(SubSeq(addrs, 1, kids)) = kids
        /\ \A i \in 1 .. kids : SubSeq(addrs, 1, kids)[i] = addrs[i]
    BY <1>0, <1>3, <1>4
  <2>. QED
    BY <2>1, <1>5
<1>7. TreeOK(node2, new)
  <2>1. \A i, j \in 1 .. kids : node2.children[i] = node2.children[j] => i = j
    <3>1. \A i \in 1 .. kids : i \in 1 .. n
      BY <1>0, <1>4
    <3>. QED
      BY <3>1, <1>3, <1>6
  <2>. QED
    BY <2>1, <1>0, <1>1, <1>4, <1>5, <1>6 DEF TreeOK
<1>8. ASSUME Complete(node2) PROVE kids = n /\ n <= 2 * K
  BY <1>0, <1>4, <1>5, <1>6, <1>8 DEF Complete
<1>9. ASSUME Complete(node2) PROVE Laid(node2, new, es)
  BY <1>1, <1>5, <1>6, <1>8, <1>9 DEF Laid
<1>10. keys \in Seq(Nat) /\ Len(keys) = n + 1
  <2>1. \A i \in 1 .. Len(es) : es[i].off \in Nat
    BY EntryTypes
  <2>2. right \in Nat
    BY <2>1, <1>0 DEF Last
  <2>3. ASSUME NEW i \in 1 .. n PROVE LeftKey(es, i) \in Nat
    <3>1. CASE i = 1
      BY <3>1 DEF LeftKey
    <3>2. CASE i # 1
      <4>1. (i - 1) * SnodCapacity \in Nat /\ (i - 1) * SnodCapacity < Len(es)
        BY <1>0, <3>2, NumSNODsProps
      <4>2. i - 1 >= 1 /\ i - 1 \in Int /\ SnodCapacity >= 1 /\ SnodCapacity \in Int
        BY <1>0, <3>2, ConstantTypes
      <4>3. (i - 1) * SnodCapacity >= 1
        BY <4>2
      <4>. QED
        BY <2>1, <3>2, <4>1, <4>3, <1>0 DEF LeftKey
    <3>. QED
      BY <3>1, <3>2
  <2>. HIDE DEF right
  <2>4. keys \in [1 .. (n + 1) -> Nat]
    <3>1. \A i \in 1 .. (n + 1) : i <= n => i \in 1 .. n
      BY <1>0
    <3>. QED
      BY <2>2, <2>3, <3>1
  <2>. HIDE DEF keys
  <2>. QED
    BY <2>4, <1>0
<1>11. /\ \A i \in 1 .. n : keys[i] = LeftKey(es, i)
       /\ keys[n + 1] = right
  BY <1>0
<1>. HIDE DEF keys
<1>12. ASSUME Complete(node2) PROVE Keyed(node2, es)
  <2>1. Min({n + 1, 2 * K + 1}) = n + 1
    BY <1>0, <1>8, <1>12, MinOfTwo
  <2>2. node2.keys = SubSeq(keys, 1, n + 1)
    BY <2>1, <1>5
  <2>3. \A i \in 1 .. (n + 1) : node2.keys[i] = keys[i]
    BY <2>2, <1>0, <1>10
  <2>4. Len(es) > 0 => right = es[Len(es)].off
    BY DEF Last
  <2>. HIDE DEF right
  <2>5. n + 1 \in 1 .. (n + 1) /\ \A i \in 1 .. n : i \in 1 .. (n + 1)
    BY <1>0
  <2>. QED
    BY <2>3, <2>4, <2>5, <1>5, <1>11 DEF Keyed
<1>. QED
  BY <1>7, <1>9, <1>12

\* The same for a group.
LEMMA RewriteStep ==
    ASSUME NEW g \in Groups, DOMAIN btree = Groups, DOMAIN snods = Groups,
           TreeOK(btree[g], snods[g]), Readable(g),
           NEW es \in Seq(Entry), Rewrite(g, es)
    PROVE  /\ TreeOK(btree'[g], snods'[g])
           /\ Complete(btree'[g]) => /\ Laid(btree'[g], snods'[g], es)
                                     /\ Keyed(btree'[g], es)
           /\ DOMAIN btree' = Groups /\ DOMAIN snods' = Groups
           /\ \A x \in Groups : x # g => btree'[x] = btree[x] /\ snods'[x] = snods[x]
<1>. DEFINE n == NumSNODs(Len(es))
            addrs == SnodsFor(g, n)
            node == btree[g]
            nodes == snods[g]
<1>1. Complete(node) /\ SnodAddrs(g) = [i \in 1 .. node.used |-> node.children[i]]
  BY ReadableIsComplete
<1>2. node.used \in Nat
  BY TreeProps
<1>3. Len(SnodAddrs(g)) = node.used
      /\ \A i \in 1 .. node.used : SnodAddrs(g)[i] = node.children[i]
  BY <1>1, <1>2
<1>4. addrs = AddrsFor(node, nodes, n)
  <2>1. n \in Nat
    BY NumSNODsProps
  <2>. HIDE DEF n
  <2>. QED
    BY <1>2, <1>3, <2>1 DEF SnodsFor, AddrsFor
<1>5. /\ btree' = [btree EXCEPT ![g] = BTreeNode(es, addrs)]
      /\ snods' = [snods EXCEPT ![g] = Distribute(nodes, es, addrs)]
  BY DEF Rewrite
<1>6. btree'[g] = BTreeNode(es, addrs) /\ snods'[g] = Distribute(nodes, es, addrs)
  BY <1>5
<1>7. /\ TreeOK(btree'[g], snods'[g])
      /\ Complete(btree'[g]) => Laid(btree'[g], snods'[g], es) /\ Keyed(btree'[g], es)
  BY <1>1, <1>4, <1>6, RewriteProps
<1>8. /\ DOMAIN btree' = Groups /\ DOMAIN snods' = Groups
      /\ \A x \in Groups : x # g => btree'[x] = btree[x] /\ snods'[x] = snods[x]
  BY <1>5
<1>. QED
  BY <1>7, <1>8

-----------------------------------------------------------------------------
(* The local heap *)

Strings == UNION {[S -> Names] : S \in SUBSET Nat}

\* Every string ends before the part of the heap that is not in use.
HeapOK(h) ==
    /\ h \in [size : Nat, used : Nat, strings : Strings]
    /\ h.used \in 1 .. h.size
    /\ \A o \in DOMAIN h.strings : o > 0 /\ o + Length[h.strings[o]] < h.used

LEMMA HeapTypes ==
    ASSUME NEW h, HeapOK(h)
    PROVE  /\ h.size \in Nat /\ h.used \in Nat /\ h.used > 0 /\ h.used <= h.size
           /\ h.strings = [o \in DOMAIN h.strings |-> h.strings[o]]
           /\ \A o \in DOMAIN h.strings : /\ o \in Nat /\ h.strings[o] \in Names
                                          /\ Length[h.strings[o]] \in Nat
                                          /\ Length[h.strings[o]] > 0
<1>1. h.size \in Nat /\ h.used \in Nat /\ h.strings \in Strings /\ h.used \in 1 .. h.size
  BY DEF HeapOK
<1>2. PICK S \in SUBSET Nat : h.strings \in [S -> Names]
  BY <1>1 DEF Strings
<1>3. \A n \in Names : Length[n] \in Nat /\ Length[n] > 0
  BY ConstantTypes
<1>4. /\ h.strings = [o \in DOMAIN h.strings |-> h.strings[o]]
      /\ \A o \in DOMAIN h.strings : o \in Nat /\ h.strings[o] \in Names
  BY <1>2
<1>5. h.used > 0 /\ h.used <= h.size
  BY <1>1
<1>. QED
  BY <1>1, <1>3, <1>4, <1>5

\* A string that was added is found where it was put.
LEMMA HeapReads ==
    ASSUME NEW h, HeapOK(h)
    PROVE  /\ \A o \in DOMAIN h.strings : GetString(h, o) = h.strings[o]
           /\ \A o : o \notin DOMAIN h.strings => GetString(h, o) = 0
           /\ \A o : GetString(h, o) \in Nat
           /\ GetString(h, 0) = 0
<1>1. ASSUME NEW o \in DOMAIN h.strings PROVE GetString(h, o) = h.strings[o]
  <2>1. o + Length[h.strings[o]] < h.used /\ o \in Nat /\ Length[h.strings[o]] \in Nat
    BY HeapTypes DEF HeapOK
  <2>2. o + Length[h.strings[o]] < h.size
    <3>1. h.used \in Nat /\ h.size \in Nat /\ h.used <= h.size
      BY HeapTypes
    <3>. QED
      BY <2>1, <3>1
  <2>. QED
    BY <2>2 DEF GetString
<1>2. ASSUME NEW o, o \notin DOMAIN h.strings PROVE GetString(h, o) = 0
  BY <1>2 DEF GetString, Unnamed
<1>3. ASSUME NEW o PROVE GetString(h, o) \in Nat
  <2>1. CASE o \in DOMAIN h.strings
    BY <2>1, <1>1, HeapTypes, ConstantTypes
  <2>2. CASE o \notin DOMAIN h.strings
    BY <2>2, <1>2
  <2>. QED
    BY <2>1, <2>2
<1>4. 0 \notin DOMAIN h.strings
  BY DEF HeapOK
<1>. QED
  BY <1>1, <1>2, <1>3, <1>4

\* Adding a string that fits leaves the others where they are.
LEMMA HeapAdd ==
    ASSUME NEW h, HeapOK(h), NEW name \in Names, HasRoom(h, name),
           NEW h2, h2 = AddString(h, name)
    PROVE  /\ HeapOK(h2)
           /\ DOMAIN h2.strings = DOMAIN h.strings \cup {h.used}
           /\ GetString(h2, h.used) = name
           /\ \A o \in DOMAIN h.strings : GetString(h2, o) = GetString(h, o)
<1>1. /\ h \in [size : Nat, used : Nat, strings : Strings]
      /\ h.size \in Nat /\ h.used \in Nat /\ h.used > 0 /\ h.used <= h.size
      /\ Length[name] \in Nat /\ Length[name] > 0
  BY HeapTypes, ConstantTypes DEF HeapOK
<1>2. h.used + Length[name] + 1 <= h.size
  BY DEF HasRoom
<1>. DEFINE strings == [o \in DOMAIN h.strings \cup {h.used} |->
                           IF o = h.used THEN name ELSE h.strings[o]]
<1>3. h2 = [h EXCEPT !.used = h.used + Length[name] + 1, !.strings = strings]
  BY DEF AddString
<1>4. strings \in Strings
  <2>1. DOMAIN h.strings \cup {h.used} \in SUBSET Nat
    BY <1>1, HeapTypes
  <2>2. strings \in [DOMAIN h.strings \cup {h.used} -> Names]
    BY HeapTypes
  <2>. HIDE DEF strings
  <2>. QED
    BY <2>1, <2>2 DEF Strings
<1>5. /\ DOMAIN strings = DOMAIN h.strings \cup {h.used}
      /\ strings[h.used] = name
      /\ \A o \in DOMAIN h.strings : o # h.used => strings[o] = h.strings[o]
  OBVIOUS
<1>. HIDE DEF strings
<1>6. /\ h2 \in [size : Nat, used : Nat, strings : Strings]
      /\ h2.size = h.size /\ h2.used = h.used + Length[name] + 1
      /\ h2.strings = strings
  <2>. DEFINE used == h.used + Length[name] + 1
  <2>1. used \in Nat
    BY <1>1
  <2>2. h2 = [h EXCEPT !.used = used, !.strings = strings]
    BY <1>3
  <2>3. h = [size |-> h.size, used |-> h.used, strings |-> h.strings]
    BY <1>1
  <2>. HIDE DEF used
  <2>4. h2 = [size |-> h.size, used |-> used, strings |-> strings]
    BY <2>2, <2>3
  <2>. QED
    BY <2>1, <2>4, <1>1, <1>4 DEF used
<1>7. ASSUME NEW o \in DOMAIN h.strings
      PROVE  /\ o # h.used /\ o > 0 /\ strings[o] = h.strings[o]
             /\ o + Length[h.strings[o]] < h2.used
  <2>1. /\ o + Length[h.strings[o]] < h.used /\ o > 0 /\ o \in Nat
        /\ Length[h.strings[o]] \in Nat /\ Length[h.strings[o]] > 0
    BY HeapTypes DEF HeapOK
  <2>2. o # h.used
    BY <2>1, <1>1
  <2>. QED
    BY <2>1, <2>2, <1>1, <1>5, <1>6
<1>8. HeapOK(h2)
  <2>1. h2.used \in 1 .. h2.size
    BY <1>1, <1>2, <1>6
  <2>2. ASSUME NEW o \in DOMAIN h2.strings
        PROVE  o > 0 /\ o + Length[h2.strings[o]] < h2.used
    <3>1. CASE o = h.used
      BY <3>1, <1>1, <1>5, <1>6
    <3>2. CASE o # h.used
      BY <3>2, <1>5, <1>6, <1>7
    <3>. QED
      BY <3>1, <3>2
  <2>. QED
    BY <2>1, <2>2, <1>6 DEF HeapOK
<1>9. \A o \in DOMAIN h.strings : GetString(h2, o) = GetString(h, o)
  BY <1>5, <1>6, <1>7, <1>8, HeapReads
<1>10. GetString(h2, h.used) = name
  BY <1>5, <1>6, <1>8, HeapReads
<1>. QED
  BY <1>5, <1>6, <1>8, <1>9, <1>10

\* The heap that replaces a full one has the same strings.
LEMMA HeapExpand ==
    ASSUME NEW h, HeapOK(h), NEW h2, h2 = Expanded(h)
    PROVE  /\ HeapOK(h2) /\ h2.used = h.used
           /\ DOMAIN h2.strings = DOMAIN h.strings
           /\ \A o : GetString(h2, o) = GetString(h, o)
<1>1. h \in [size : Nat, used : Nat, strings : Strings] /\ h.size \in Nat
  BY HeapTypes DEF HeapOK
<1>2. /\ h2 \in [size : Nat, used : Nat, strings : Strings]
      /\ h2.size = 2 * h.size /\ h2.used = h.used /\ h2.strings = h.strings
  BY <1>1 DEF Expanded
<1>3. HeapOK(h2)
  BY <1>1, <1>2 DEF HeapOK
<1>4. ASSUME NEW o PROVE GetString(h2, o) = GetString(h, o)
  <2>1. CASE o \in DOMAIN h.strings
    BY <2>1, <1>2, <1>3, HeapReads
  <2>2. CASE o \notin DOMAIN h.strings
    BY <2>2, <1>2, <1>3, HeapReads
  <2>. QED
    BY <2>1, <2>2
<1>. QED
  BY <1>2, <1>3, <1>4

-----------------------------------------------------------------------------
(* Names of entries *)

ListEntry(h, e) == [name |-> GetString(h, e.off), obj |-> e.obj]
List(es, h) == [i \in DOMAIN es |-> ListEntry(h, es[i])]

\* The name of each entry is in the heap.
NamedIn(h, es) == \A i \in 1 .. Len(es) : es[i].off \in DOMAIN h.strings

Sorted(es, h) ==
    \A i, j \in 1 .. Len(es) :
        i <= j => GetString(h, es[i].off) <= GetString(h, es[j].off)

LEMMA ListProps ==
    ASSUME NEW h, HeapOK(h), NEW es \in Seq(Entry)
    PROVE  /\ List(es, h) \in Seq([name : Nat, obj : Objs])
           /\ Len(List(es, h)) = Len(es)
           /\ \A i \in 1 .. Len(es) : List(es, h)[i] = ListEntry(h, es[i])
           /\ NamedIn(h, es) => List(es, h) \in Seq(Link)
<1>. DEFINE L == [name : Nat, obj : Objs]
<1>1. DOMAIN es = 1 .. Len(es) /\ Len(es) \in Nat
  OBVIOUS
<1>2. ASSUME NEW i \in 1 .. Len(es) PROVE ListEntry(h, es[i]) \in L
  BY HeapReads, EntryTypes DEF ListEntry
<1>3. ASSUME NamedIn(h, es), NEW i \in 1 .. Len(es) PROVE ListEntry(h, es[i]) \in Link
  <2>1. es[i].off \in DOMAIN h.strings /\ es[i].obj \in Objs
    BY <1>3, EntryTypes DEF NamedIn
  <2>2. h.strings[es[i].off] \in Names
    BY <2>1, HeapTypes
  <2>3. GetString(h, es[i].off) = h.strings[es[i].off]
    BY <2>1, HeapReads
  <2>. QED
    BY <2>1, <2>2, <2>3 DEF ListEntry, Link
<1>4. List(es, h) = [i \in 1 .. Len(es) |-> ListEntry(h, es[i])]
  BY <1>1 DEF List
<1>. HIDE DEF L
<1>5. List(es, h) \in [1 .. Len(es) -> L]
  BY <1>2, <1>4
<1>6. NamedIn(h, es) => List(es, h) \in [1 .. Len(es) -> Link]
  BY <1>3, <1>4
<1>7. \A i \in 1 .. Len(es) : List(es, h)[i] = ListEntry(h, es[i])
  BY <1>4
<1>8. List(es, h) \in Seq(L) /\ Len(List(es, h)) = Len(es)
  BY <1>1, <1>5
<1>9. NamedIn(h, es) => List(es, h) \in Seq(Link)
  BY <1>1, <1>6
<1>. QED
  BY <1>7, <1>8, <1>9 DEF L

\* Sorting puts the entries in the order of their names and loses none.
LEMMA SortProps ==
    ASSUME NEW h, HeapOK(h), NEW es \in Seq(Entry),
           NEW s, s = SortEntriesByName(es, h)
    PROVE  /\ s \in Seq(Entry) /\ Len(s) = Len(es) /\ Sorted(s, h)
           /\ ToBag(List(s, h)) = ToBag(List(es, h))
           /\ NamedIn(h, es) => NamedIn(h, s)
<1>. DEFINE n == Len(es)
            name(i) == GetString(h, es[i].off)
            rank(i) == Cardinality({j \in 1 .. n :
                           name(j) < name(i) \/ (name(j) = name(i) /\ j <= i)})
            key == [i \in 1 .. n |-> name(i)]
            rk == [i \in 1 .. n |-> rank(i)]
            p == [k \in 1 .. n |-> CHOOSE i \in 1 .. n : rk[i] = k]
<1>1. n \in Nat /\ DOMAIN es = 1 .. n
  OBVIOUS
<1>2. \A i \in 1 .. n : key[i] = name(i) /\ key[i] \in Int
  BY HeapReads
<1>3. \A i \in 1 .. n : rk[i] = Cardinality({j \in 1 .. n :
               key[j] < key[i] \/ (key[j] = key[i] /\ j <= i)})
  <2>1. ASSUME NEW i \in 1 .. n
        PROVE  {j \in 1 .. n : name(j) < name(i) \/ (name(j) = name(i) /\ j <= i)}
                 = {j \in 1 .. n : key[j] < key[i] \/ (key[j] = key[i] /\ j <= i)}
    <3>. HIDE DEF key, name
    <3>. QED
      BY <1>2
  <2>. QED
    BY <2>1
<1>4. s = [k \in 1 .. n |-> es[CHOOSE i \in 1 .. n : rank(i) = k]]
  BY <1>1 DEF SortEntriesByName
<1>5. \A k \in 1 .. n : s[k] = es[p[k]]
  <2>1. \A i \in 1 .. n : rk[i] = rank(i)
    OBVIOUS
  <2>. HIDE DEF rk, rank
  <2>2. ASSUME NEW k \in 1 .. n
        PROVE  (CHOOSE i \in 1 .. n : rank(i) = k) = (CHOOSE i \in 1 .. n : rk[i] = k)
    BY <2>1
  <2>. QED
    BY <2>2, <1>4
<1>6. DOMAIN s = 1 .. n /\ s = [k \in 1 .. n |-> s[k]]
  BY <1>4
<1>. HIDE DEF name, rank, key, rk
<1>7. /\ \A i \in 1 .. n : rk[i] \in 1 .. n
      /\ \A i, j \in 1 .. n : rk[i] = rk[j] => i = j
      /\ \A k \in 1 .. n : \E i \in 1 .. n : rk[i] = k
      /\ \A i, j \in 1 .. n : rk[i] < rk[j] => key[i] <= key[j]
  BY <1>1, <1>2, <1>3, RankPermutes
<1>8. \A k \in 1 .. n : p[k] \in 1 .. n /\ rk[p[k]] = k
  BY <1>7
<1>9. p \in [1 .. n -> 1 .. n]
  BY <1>8
<1>. HIDE DEF p
<1>10. \A i, j \in 1 .. n : p[i] = p[j] => i = j
  BY <1>8
<1>11. \A k \in 1 .. n : \E i \in 1 .. n : p[i] = k
  <2>. SUFFICES ASSUME NEW k \in 1 .. n PROVE p[rk[k]] = k
    BY <1>7
  <2>. QED
    BY <1>7, <1>8
<1>12. s \in Seq(Entry) /\ Len(s) = n
  <2>1. s \in [1 .. n -> Entry]
    BY <1>5, <1>6, <1>8, EntryTypes
  <2>. QED
    BY <2>1, <1>1
<1>13. Sorted(s, h)
  <2>. SUFFICES ASSUME NEW i \in 1 .. n, NEW j \in 1 .. n, i <= j
                PROVE  GetString(h, s[i].off) <= GetString(h, s[j].off)
    BY <1>12 DEF Sorted
  <2>1. GetString(h, s[i].off) = key[p[i]] /\ GetString(h, s[j].off) = key[p[j]]
    BY <1>2, <1>5, <1>8 DEF name
  <2>2. key[p[i]] <= key[p[j]]
    <3>1. CASE i = j
      BY <3>1, <1>2, <1>8
    <3>2. CASE i # j
      <4>1. p[i] \in 1 .. n /\ p[j] \in 1 .. n
        BY <1>8
      <4>2. rk[p[i]] = i /\ rk[p[j]] = j
        BY <1>8
      <4>3. i < j
        BY <3>2, <1>1
      <4>4. rk[p[i]] < rk[p[j]]
        BY <4>2, <4>3
      <4>5. \A x, y \in 1 .. n : rk[x] < rk[y] => key[x] <= key[y]
        BY <1>7
      <4>. QED
        BY <4>1, <4>4, <4>5, Zenon
    <3>. QED
      BY <3>1, <3>2
  <2>. QED
    BY <2>1, <2>2
<1>14. ToBag(List(s, h)) = ToBag(List(es, h))
  <2>. DEFINE L == [name : Nat, obj : Objs]
              a == List(es, h)
              b == List(s, h)
  <2>1. /\ a \in Seq(L) /\ Len(a) = n
        /\ \A i \in 1 .. n : a[i] = ListEntry(h, es[i])
    BY ListProps
  <2>2. /\ b \in Seq(L) /\ Len(b) = n
        /\ \A i \in 1 .. n : b[i] = ListEntry(h, s[i])
    BY <1>12, ListProps
  <2>. HIDE DEF a, b, L, n
  <2>3. \A i \in 1 .. n : b[i] = a[p[i]]
    BY <2>1, <2>2, <1>5, <1>8
  <2>4. ToBag(b) = ToBag(a)
    <3>1. a \in Seq(L) /\ b \in Seq(L) /\ Len(b) = Len(a)
      BY <2>1, <2>2
    <3>2. p \in [1 .. Len(a) -> 1 .. Len(a)]
      BY <2>1, <1>9
    <3>3. \A i, j \in 1 .. Len(a) : p[i] = p[j] => i = j
      BY <2>1, <1>10
    <3>4. \A k \in 1 .. Len(a) : \E i \in 1 .. Len(a) : p[i] = k
      BY <2>1, <1>11
    <3>5. \A i \in 1 .. Len(a) : b[i] = a[p[i]]
      BY <2>1, <2>3
    <3>. QED
      BY <3>1, <3>2, <3>3, <3>4, <3>5, BagOfPermutation, Zenon
  <2>. QED
    BY <2>4 DEF a, b
<1>15. NamedIn(h, es) => NamedIn(h, s)
  BY <1>5, <1>8, <1>12 DEF NamedIn
<1>. QED
  BY <1>12, <1>13, <1>14, <1>15

\* A listing does not change with what is not among its names.
LEMMA ListSame ==
    ASSUME NEW h, NEW h2, NEW es \in Seq(Entry), NamedIn(h, es),
           \A o \in DOMAIN h.strings : GetString(h2, o) = GetString(h, o)
    PROVE  List(es, h2) = List(es, h)
<1>1. DOMAIN es = 1 .. Len(es)
  OBVIOUS
<1>2. \A i \in DOMAIN es : ListEntry(h2, es[i]) = ListEntry(h, es[i])
  BY <1>1 DEF NamedIn, ListEntry
<1>. QED
  BY <1>2 DEF List

LEMMA ListAppend ==
    ASSUME NEW h, HeapOK(h), NEW es \in Seq(Entry), NEW e \in Entry
    PROVE  List(Append(es, e), h) = Append(List(es, h), ListEntry(h, e))
<1>. DEFINE L == [name : Nat, obj : Objs]
            s == Append(es, e)
            a == List(es, h)
            b == List(s, h)
            c == Append(a, ListEntry(h, e))
<1>1. /\ s \in Seq(Entry) /\ Len(s) = Len(es) + 1 /\ Len(es) \in Nat
      /\ \A i \in 1 .. (Len(es) + 1) : s[i] = IF i <= Len(es) THEN es[i] ELSE e
  OBVIOUS
<1>2. ListEntry(h, e) \in L
  BY HeapReads DEF ListEntry, Entry
<1>3. a \in Seq(L) /\ Len(a) = Len(es) /\ \A i \in 1 .. Len(es) : a[i] = ListEntry(h, es[i])
  BY ListProps
<1>4. b \in Seq(L) /\ Len(b) = Len(s) /\ \A i \in 1 .. Len(s) : b[i] = ListEntry(h, s[i])
  BY <1>1, ListProps
<1>. HIDE DEF a, b, L, s
<1>5. /\ c \in Seq(L) /\ Len(c) = Len(es) + 1
      /\ \A i \in 1 .. (Len(es) + 1) : c[i] = IF i <= Len(es) THEN a[i] ELSE ListEntry(h, e)
  BY <1>1, <1>2, <1>3
<1>. HIDE DEF c
<1>6. ASSUME NEW i \in 1 .. Len(b) PROVE b[i] = c[i]
  BY <1>1, <1>3, <1>4, <1>5
<1>7. b = c
  BY <1>1, <1>4, <1>5, <1>6, SeqEqual
<1>. QED
  BY <1>7 DEF a, b, c, s

LEMMA ListRemove ==
    ASSUME NEW h, HeapOK(h), NEW es \in Seq(Entry), NEW k \in 1 .. Len(es)
    PROVE  List(RemoveAt(es, k), h) = RemoveAt(List(es, h), k)
<1>. DEFINE L == [name : Nat, obj : Objs]
            s == RemoveAt(es, k)
            a == List(es, h)
            b == List(s, h)
            c == RemoveAt(a, k)
<1>1. /\ s \in Seq(Entry) /\ Len(s) = Len(es) - 1 /\ Len(es) \in Nat
      /\ \A i \in 1 .. (Len(es) - 1) : s[i] = IF i < k THEN es[i] ELSE es[i + 1]
  <2>1. Len(es) \in Nat
    OBVIOUS
  <2>. QED
    BY <2>1, RemoveAtProps
<1>2. a \in Seq(L) /\ Len(a) = Len(es) /\ \A i \in 1 .. Len(es) : a[i] = ListEntry(h, es[i])
  BY ListProps
<1>3. b \in Seq(L) /\ Len(b) = Len(s) /\ \A i \in 1 .. Len(s) : b[i] = ListEntry(h, s[i])
  BY <1>1, ListProps
<1>. HIDE DEF a, b, L, s
<1>4. /\ c \in Seq(L) /\ Len(c) = Len(es) - 1
      /\ \A i \in 1 .. (Len(es) - 1) : c[i] = IF i < k THEN a[i] ELSE a[i + 1]
  BY <1>1, <1>2, RemoveAtProps
<1>. HIDE DEF c
<1>5. ASSUME NEW i \in 1 .. Len(b) PROVE b[i] = c[i]
  <2>1. /\ i \in 1 .. Len(s) /\ i \in 1 .. (Len(es) - 1)
        /\ i \in 1 .. Len(es) /\ i + 1 \in 1 .. Len(es)
    BY <1>1, <1>3
  <2>2. b[i] = ListEntry(h, s[i])
    BY <2>1, <1>3
  <2>3. CASE i < k
    BY <2>1, <2>2, <2>3, <1>1, <1>2, <1>4
  <2>4. CASE ~ (i < k)
    <3>1. s[i] = es[i + 1] /\ c[i] = a[i + 1]
      BY <2>1, <2>4, <1>1, <1>4
    <3>2. a[i + 1] = ListEntry(h, es[i + 1])
      BY <2>1, <1>2
    <3>. QED
      BY <2>2, <3>1, <3>2
  <2>. QED
    BY <2>3, <2>4
<1>6. b = c
  BY <1>1, <1>3, <1>4, <1>5, SeqEqual
<1>. QED
  BY <1>6 DEF a, b, c, s

-----------------------------------------------------------------------------
(* The invariant *)

HeapsOK(hs) ==
    /\ hs \in Seq([size : Nat, used : Nat, strings : Strings])
    /\ \A i \in 1 .. Len(hs) : HeapOK(hs[i])

LinksOK(ls) == IsABag(ls) /\ BagToSet(ls) \subseteq Link

\* The SNODs hold the entries es, the keys are theirs, the heap h has their
\* names, and they stand for the links ls.
Holds(node, nodes, es, h, ls, sorted) ==
    /\ es \in Seq(Entry) /\ Laid(node, nodes, es) /\ Keyed(node, es)
    /\ NamedIn(h, es) /\ ToBag(List(es, h)) = ls
    /\ sorted => Sorted(es, h)

\* The same as a conjunct of GroupOK: the entries are those that are read.
GroupOK(node, nodes, hs, a, m, ls, unsorted) ==
    /\ TreeOK(node, nodes)
    /\ HeapsOK(hs) /\ a \in 1 .. Len(hs) /\ m \in 1 .. Len(hs)
    /\ LinksOK(ls)
    /\ Complete(node) =>
           Holds(node, nodes, EntriesOf(node, nodes), hs[a], ls, ~ unsorted)

DomainsOK == /\ heapAddr = [g \in Groups |-> heapAddr[g]]
             /\ msgHeap = [g \in Groups |-> msgHeap[g]]
             /\ heaps = [g \in Groups |-> heaps[g]]
             /\ btree = [g \in Groups |-> btree[g]]
             /\ snods = [g \in Groups |-> snods[g]]
             /\ links = [g \in Groups |-> links[g]]
             /\ grown = [g \in Groups |-> grown[g]]

\* The inductive invariant: the properties are about what is read, and follow
\* from what a rewrite lays out.
Inv == /\ DomainsOK
       /\ \A g \in Groups : GroupOK(btree[g], snods[g], heaps[g], heapAddr[g],
                                    msgHeap[g], links[g], grown[g])
       /\ msgHeap[Root] = heapAddr[Root]

LEMMA HeapsProps ==
    ASSUME NEW hs, HeapsOK(hs), NEW i \in 1 .. Len(hs)
    PROVE  HeapOK(hs[i]) /\ hs[i].size \in Nat /\ hs[i].used \in 1 .. hs[i].size
  BY DEF HeapsOK, HeapOK

\* Adding a link to a bag of links, and removing one.
LEMMA LinksAdd ==
    ASSUME NEW ls, LinksOK(ls), NEW l \in Link
    PROVE  LinksOK(ls (+) SetToBag({l}))
<1>. DEFINE b == ls (+) SetToBag({l})
<1>1. ls \in [DOMAIN ls -> {n \in Nat : n > 0}] /\ DOMAIN ls \subseteq Link
  BY DEF LinksOK, IsABag, BagToSet
<1>2. /\ DOMAIN b = DOMAIN ls \cup {l}
      /\ \A x \in DOMAIN b : b[x] = (IF x \in DOMAIN ls THEN ls[x] ELSE 0)
                                      + (IF x = l THEN 1 ELSE 0)
      /\ b = [x \in DOMAIN b |-> b[x]]
  BY DEF (+), SetToBag
<1>. HIDE DEF b
<1>3. ASSUME NEW x \in DOMAIN b PROVE b[x] \in Nat /\ b[x] > 0
  <2>1. CASE x \in DOMAIN ls
    <3>1. ls[x] \in Nat /\ ls[x] > 0
      BY <1>1, <2>1
    <3>. QED
      BY <2>1, <3>1, <1>2
  <2>2. CASE x \notin DOMAIN ls
    <3>1. b[x] = 0 + 1
      BY <2>2, <1>2
    <3>. QED
      BY <3>1
  <2>. QED
    BY <2>1, <2>2
<1>4. b \in [DOMAIN b -> {n \in Nat : n > 0}]
  BY <1>2, <1>3
<1>5. DOMAIN b \subseteq Link
  BY <1>1, <1>2
<1>6. LinksOK(b)
  BY <1>4, <1>5 DEF LinksOK, IsABag, BagToSet
<1>. QED
  BY <1>6 DEF b

LEMMA LinksRemove ==
    ASSUME NEW ls, LinksOK(ls), NEW l
    PROVE  LinksOK(ls (-) SetToBag({l}))
<1>. DEFINE b == ls (-) SetToBag({l})
            rest == [x \in DOMAIN ls |-> IF x = l THEN ls[x] - 1 ELSE ls[x]]
            S == {x \in DOMAIN ls : rest[x] > 0}
<1>1. ls \in [DOMAIN ls -> {n \in Nat : n > 0}] /\ DOMAIN ls \subseteq Link
  BY DEF LinksOK, IsABag, BagToSet
<1>2. b = [x \in S |-> rest[x]]
  <2>1. b = LET B == [e \in DOMAIN ls |-> IF e \in DOMAIN SetToBag({l})
                                             THEN ls[e] - SetToBag({l})[e]
                                             ELSE ls[e]]
            IN  [e \in {d \in DOMAIN B : B[d] > 0} |-> B[e]]
    BY DEF (-)
  <2>. QED
    BY <2>1 DEF SetToBag
<1>. HIDE DEF b
<1>3. \A x \in DOMAIN ls : rest[x] \in Int
  BY <1>1
<1>. HIDE DEF rest
<1>4. b \in [S -> {n \in Nat : n > 0}] /\ DOMAIN b = S
  BY <1>2, <1>3
<1>5. LinksOK(b)
  BY <1>1, <1>4 DEF LinksOK, IsABag, BagToSet
<1>. QED
  BY <1>5 DEF b

\* Reading a group whose entries are laid out.
LEMMA ListingProps ==
    ASSUME Inv, NEW g \in Groups, Readable(g), NEW es, es = AllEntries(g)
    PROVE  /\ es \in Seq(Entry) /\ Laid(btree[g], snods[g], es) /\ Keyed(btree[g], es)
           /\ HeapOK(CurrentHeap(g)) /\ NamedIn(CurrentHeap(g), es)
           /\ Listing(g, heapAddr[g]) = List(es, CurrentHeap(g))
           /\ ToBag(List(es, CurrentHeap(g))) = links[g]
           /\ ~ grown[g] => Sorted(es, CurrentHeap(g))
<1>1. GroupOK(btree[g], snods[g], heaps[g], heapAddr[g], msgHeap[g], links[g], grown[g])
  BY DEF Inv
<1>2. TreeOK(btree[g], snods[g]) /\ HeapsOK(heaps[g]) /\ heapAddr[g] \in 1 .. Len(heaps[g])
  BY <1>1 DEF GroupOK
<1>3. Complete(btree[g])
  BY <1>2, ReadableIsComplete
<1>4. Holds(btree[g], snods[g], es, CurrentHeap(g), links[g], ~ grown[g])
  BY <1>1, <1>3 DEF GroupOK, AllEntries, CurrentHeap
<1>5. HeapOK(CurrentHeap(g))
  BY <1>2, HeapsProps DEF CurrentHeap
<1>6. Listing(g, heapAddr[g]) = List(es, CurrentHeap(g))
  BY DEF Listing, List, ListEntry, CurrentHeap
<1>. QED
  BY <1>4, <1>5, <1>6 DEF Holds

\* A group after a rewrite, when the heap names the entries and they stand for
\* the links.
LEMMA GroupRewritten ==
    ASSUME Inv, NEW g \in Groups, Readable(g),
           NEW es \in Seq(Entry), Rewrite(g, es),
           HeapsOK(heaps'[g]), heapAddr'[g] \in 1 .. Len(heaps'[g]),
           msgHeap'[g] \in 1 .. Len(heaps'[g]), LinksOK(links'[g]),
           NEW h, h = heaps'[g][heapAddr'[g]],
           NamedIn(h, es), ToBag(List(es, h)) = links'[g],
           ~ grown'[g] => Sorted(es, h)
    PROVE  /\ GroupOK(btree'[g], snods'[g], heaps'[g], heapAddr'[g], msgHeap'[g],
                      links'[g], grown'[g])
           /\ btree' = [x \in Groups |-> btree'[x]]
           /\ snods' = [x \in Groups |-> snods'[x]]
           /\ \A x \in Groups : x # g => btree'[x] = btree[x] /\ snods'[x] = snods[x]
<1>1. /\ TreeOK(btree[g], snods[g])
      /\ btree = [x \in Groups |-> btree[x]] /\ snods = [x \in Groups |-> snods[x]]
  BY DEF Inv, GroupOK, DomainsOK
<1>2. DOMAIN btree = Groups /\ DOMAIN snods = Groups
  BY <1>1
<1>3. /\ TreeOK(btree'[g], snods'[g])
      /\ Complete(btree'[g]) => Laid(btree'[g], snods'[g], es) /\ Keyed(btree'[g], es)
      /\ \A x \in Groups : x # g => btree'[x] = btree[x] /\ snods'[x] = snods[x]
  BY <1>1, <1>2, RewriteStep
<1>4. ASSUME Complete(btree'[g])
      PROVE  Holds(btree'[g], snods'[g], EntriesOf(btree'[g], snods'[g]), h,
                   links'[g], ~ grown'[g])
  <2>1. Laid(btree'[g], snods'[g], es)
    BY <1>3, <1>4
  <2>2. EntriesOf(btree'[g], snods'[g]) = es
    BY <2>1, EntriesLaid
  <2>. QED
    BY <2>1, <2>2, <1>3, <1>4 DEF Holds
<1>5. btree' = [x \in Groups |-> btree'[x]] /\ snods' = [x \in Groups |-> snods'[x]]
  BY <1>1 DEF Rewrite
<1>. QED
  BY <1>3, <1>4, <1>5 DEF GroupOK

\* The new heap of a group among its heaps.
LEMMA HeapsChange ==
    ASSUME NEW hs, HeapsOK(hs), NEW h, HeapOK(h)
    PROVE  /\ \A a \in 1 .. Len(hs) : /\ HeapsOK([hs EXCEPT ![a] = h])
                                      /\ Len([hs EXCEPT ![a] = h]) = Len(hs)
                                      /\ [hs EXCEPT ![a] = h][a] = h
           /\ HeapsOK(Append(hs, h)) /\ Len(Append(hs, h)) = Len(hs) + 1
           /\ Append(hs, h)[Len(hs) + 1] = h /\ Len(hs) \in Nat
<1>. DEFINE R == [size : Nat, used : Nat, strings : Strings]
<1>1. /\ hs \in Seq(R) /\ h \in R /\ Len(hs) \in Nat
      /\ \A i \in 1 .. Len(hs) : HeapOK(hs[i])
  BY DEF HeapsOK, HeapOK
<1>. HIDE DEF R
<1>2. ASSUME NEW a \in 1 .. Len(hs)
      PROVE  /\ [hs EXCEPT ![a] = h] \in Seq(R)
             /\ Len([hs EXCEPT ![a] = h]) = Len(hs)
             /\ \A i \in 1 .. Len(hs) :
                    [hs EXCEPT ![a] = h][i] = IF i = a THEN h ELSE hs[i]
  BY <1>1
<1>3. ASSUME NEW a \in 1 .. Len(hs)
      PROVE  HeapsOK([hs EXCEPT ![a] = h]) /\ [hs EXCEPT ![a] = h][a] = h
  BY <1>1, <1>2 DEF HeapsOK, R
<1>4. /\ Append(hs, h) \in Seq(R) /\ Len(Append(hs, h)) = Len(hs) + 1
      /\ \A i \in 1 .. (Len(hs) + 1) :
             Append(hs, h)[i] = IF i <= Len(hs) THEN hs[i] ELSE h
  BY <1>1
<1>5. HeapsOK(Append(hs, h)) /\ Append(hs, h)[Len(hs) + 1] = h
  <2>1. \A i \in 1 .. (Len(hs) + 1) : i <= Len(hs) => i \in 1 .. Len(hs)
    BY <1>1
  <2>. HIDE DEF HeapOK
  <2>2. \A i \in 1 .. (Len(hs) + 1) : HeapOK(Append(hs, h)[i])
    BY <2>1, <1>1, <1>4
  <2>3. Len(hs) + 1 \in 1 .. (Len(hs) + 1) /\ ~ (Len(hs) + 1 <= Len(hs))
    BY <1>1
  <2>. QED
    BY <2>2, <2>3, <1>4 DEF HeapsOK, R
<1>. QED
  BY <1>1, <1>2, <1>3, <1>5, <1>4

\* One more entry, whose name was put at offset o of the heap, stands for one
\* more link.
MoreNames(h, h2, o, name) ==
    /\ HeapOK(h) /\ HeapOK(h2) /\ o \in Nat
    /\ DOMAIN h2.strings = DOMAIN h.strings \cup {o}
    /\ GetString(h2, o) = name
    /\ \A x \in DOMAIN h.strings : GetString(h2, x) = GetString(h, x)

NewEntry(o, obj) == [off |-> o, obj |-> obj]

MoreEntries(es, h, s, h2, l) ==
    /\ s \in Seq(Entry) /\ NamedIn(h2, s)
    /\ ToBag(List(s, h2)) = ToBag(List(es, h)) (+) SetToBag({l})

LEMMA OneMoreEntry ==
    ASSUME NEW h, NEW h2, NEW o, NEW l \in Link, MoreNames(h, h2, o, l.name),
           NEW es \in Seq(Entry), NamedIn(h, es)
    PROVE  MoreEntries(es, h, Append(es, NewEntry(o, l.obj)), h2, l)
<1>. DEFINE e == NewEntry(o, l.obj)
            s == Append(es, e)
<1>0. /\ HeapOK(h) /\ HeapOK(h2) /\ o \in Nat
      /\ DOMAIN h2.strings = DOMAIN h.strings \cup {o}
      /\ GetString(h2, o) = l.name
      /\ \A x \in DOMAIN h.strings : GetString(h2, x) = GetString(h, x)
  BY DEF MoreNames
<1>1. l.obj \in Objs /\ l = [name |-> l.name, obj |-> l.obj]
  BY DEF Link
<1>2. e \in Entry
  BY <1>0, <1>1 DEF Entry, NewEntry
<1>3. e.off = o /\ e.obj = l.obj /\ s = Append(es, e)
  BY DEF NewEntry
<1>. HIDE DEF e, s
<1>4. ListEntry(h2, e) = l
  BY <1>0, <1>1, <1>3 DEF ListEntry
<1>5. /\ s \in Seq(Entry) /\ Len(s) = Len(es) + 1 /\ Len(es) \in Nat
      /\ \A i \in 1 .. (Len(es) + 1) : s[i] = IF i <= Len(es) THEN es[i] ELSE e
  BY <1>2, <1>3
<1>6. NamedIn(h2, s)
  <2>. SUFFICES ASSUME NEW i \in 1 .. (Len(es) + 1) PROVE s[i].off \in DOMAIN h2.strings
    BY <1>5 DEF NamedIn
  <2>1. CASE i <= Len(es)
    BY <2>1, <1>0, <1>5 DEF NamedIn
  <2>2. CASE ~ (i <= Len(es))
    BY <2>2, <1>0, <1>3, <1>5
  <2>. QED
    BY <2>1, <2>2
<1>7. List(es, h2) = List(es, h)
  BY <1>0, ListSame
<1>8. List(s, h2) = Append(List(es, h), l)
  BY <1>0, <1>2, <1>3, <1>4, <1>7, ListAppend
<1>9. List(es, h) \in Seq(Link)
  BY <1>0, ListProps
<1>10. ToBag(Append(List(es, h), l)) = ToBag(List(es, h)) (+) SetToBag({l})
  BY <1>9, BagOfAppend
<1>. QED
  BY <1>5, <1>6, <1>8, <1>10 DEF MoreEntries, s, e

\* An operation on one group changes no other one.
LEMMA OtherGroups ==
    ASSUME Inv, NEW g \in Groups,
           GroupOK(btree'[g], snods'[g], heaps'[g], heapAddr'[g], msgHeap'[g],
                   links'[g], grown'[g]),
           \A x \in Groups : x # g =>
               /\ btree'[x] = btree[x] /\ snods'[x] = snods[x]
               /\ heaps'[x] = heaps[x] /\ heapAddr'[x] = heapAddr[x]
               /\ msgHeap'[x] = msgHeap[x] /\ links'[x] = links[x]
               /\ grown'[x] = grown[x],
           DomainsOK', msgHeap'[Root] = heapAddr'[Root]
    PROVE  Inv'
<1>1. ASSUME NEW x \in Groups
      PROVE  GroupOK(btree'[x], snods'[x], heaps'[x], heapAddr'[x], msgHeap'[x],
                     links'[x], grown'[x])
  <2>1. GroupOK(btree[x], snods[x], heaps[x], heapAddr[x], msgHeap[x], links[x], grown[x])
    BY DEF Inv
  <2>. HIDE DEF GroupOK
  <2>2. CASE x = g
    BY <2>2
  <2>3. CASE x # g
    BY <2>1, <2>3
  <2>. QED
    BY <2>2, <2>3
<1>. QED
  BY <1>1 DEF Inv

LEMMA LinkToParentKeeps ==
    ASSUME Inv, NEW g \in Groups, NEW l \in Link, LinkToParent(g, l)
    PROVE  Inv'
<1>. DEFINE h == CurrentHeap(g)
            h2 == AddString(h, l.name)
            es == AllEntries(g)
            s == Append(es, [off |-> h.used, obj |-> l.obj])
            t == SortEntriesByName(s, h2)
<1>1. /\ HasRoom(h, l.name) /\ Readable(g) /\ Rewrite(g, t)
      /\ heaps' = [heaps EXCEPT ![g][heapAddr[g]] = h2]
      /\ links' = [links EXCEPT ![g] = links[g] (+) SetToBag({l})]
      /\ grown' = [grown EXCEPT ![g] = FALSE]
      /\ heapAddr' = heapAddr /\ msgHeap' = msgHeap
  BY DEF LinkToParent
<1>2. /\ es \in Seq(Entry) /\ HeapOK(h) /\ NamedIn(h, es)
      /\ ToBag(List(es, h)) = links[g]
  BY <1>1, ListingProps
<1>3. /\ heapAddr[g] \in 1 .. Len(heaps[g]) /\ msgHeap[g] \in 1 .. Len(heaps[g])
      /\ HeapsOK(heaps[g]) /\ LinksOK(links[g]) /\ DomainsOK
      /\ msgHeap[Root] = heapAddr[Root]
  BY DEF Inv, GroupOK
<1>4. l.name \in Names /\ h.used \in Nat
  BY <1>2, HeapTypes DEF Link
<1>. HIDE DEF h, es
<1>5. /\ HeapOK(h2) /\ DOMAIN h2.strings = DOMAIN h.strings \cup {h.used}
      /\ GetString(h2, h.used) = l.name
      /\ \A o \in DOMAIN h.strings : GetString(h2, o) = GetString(h, o)
  BY <1>1, <1>2, <1>4, HeapAdd
<1>. HIDE DEF h2
<1>6. /\ s \in Seq(Entry) /\ NamedIn(h2, s)
      /\ ToBag(List(s, h2)) = links[g] (+) SetToBag({l})
  <2>1. s = Append(es, NewEntry(h.used, l.obj))
    BY DEF NewEntry
  <2>2. MoreNames(h, h2, h.used, l.name)
    BY <1>2, <1>4, <1>5 DEF MoreNames
  <2>3. MoreEntries(es, h, s, h2, l)
    BY <2>1, <2>2, <1>2, OneMoreEntry
  <2>. HIDE DEF s
  <2>. QED
    BY <2>3, <1>2 DEF MoreEntries
<1>. HIDE DEF s
<1>7. /\ t \in Seq(Entry) /\ NamedIn(h2, t) /\ Sorted(t, h2)
      /\ ToBag(List(t, h2)) = links[g] (+) SetToBag({l})
  BY <1>5, <1>6, SortProps
<1>. HIDE DEF t
<1>8. /\ HeapsOK([heaps[g] EXCEPT ![heapAddr[g]] = h2])
      /\ Len([heaps[g] EXCEPT ![heapAddr[g]] = h2]) = Len(heaps[g])
      /\ [heaps[g] EXCEPT ![heapAddr[g]] = h2][heapAddr[g]] = h2
  BY <1>3, <1>5, HeapsChange
<1>9. DomainsOK => /\ heaps'[g] = [heaps[g] EXCEPT ![heapAddr[g]] = h2]
                   /\ links'[g] = links[g] (+) SetToBag({l})
                   /\ grown'[g] = FALSE
                   /\ heaps' = [x \in Groups |-> heaps'[x]]
                   /\ links' = [x \in Groups |-> links'[x]]
                   /\ grown' = [x \in Groups |-> grown'[x]]
                   /\ \A x \in Groups : x # g =>
                          /\ heaps'[x] = heaps[x] /\ links'[x] = links[x]
                          /\ grown'[x] = grown[x]
  BY <1>1 DEF DomainsOK
<1>10. LinksOK(links'[g])
  BY <1>3, <1>9, LinksAdd
<1>11. /\ GroupOK(btree'[g], snods'[g], heaps'[g], heapAddr'[g], msgHeap'[g],
                  links'[g], grown'[g])
       /\ btree' = [x \in Groups |-> btree'[x]]
       /\ snods' = [x \in Groups |-> snods'[x]]
       /\ \A x \in Groups : x # g => btree'[x] = btree[x] /\ snods'[x] = snods[x]
  <2>1. /\ HeapsOK(heaps'[g]) /\ heapAddr'[g] \in 1 .. Len(heaps'[g])
        /\ msgHeap'[g] \in 1 .. Len(heaps'[g]) /\ h2 = heaps'[g][heapAddr'[g]]
    BY <1>1, <1>3, <1>8, <1>9
  <2>2. ToBag(List(t, h2)) = links'[g]
    BY <1>3, <1>7, <1>9
  <2>. QED
    BY <2>1, <2>2, <1>1, <1>7, <1>10, GroupRewritten
<1>12. DomainsOK'
  BY <1>1, <1>3, <1>9, <1>11 DEF DomainsOK
<1>. QED
  BY <1>1, <1>3, <1>9, <1>11, <1>12, OtherGroups

LEMMA LinkExpandHeapKeeps ==
    ASSUME Inv, NEW g \in Groups, NEW l \in Link, LinkExpandHeap(g, l)
    PROVE  Inv'
<1>. DEFINE h == CurrentHeap(g)
            h1 == Expanded(h)
            h2 == AddString(h1, l.name)
            es == AllEntries(g)
            s == Append(es, [off |-> h1.used, obj |-> l.obj])
            a == Len(heaps[g]) + 1
<1>1. /\ HasRoom(h1, l.name) /\ Readable(g) /\ Rewrite(g, s)
      /\ heaps' = [heaps EXCEPT ![g] = Append(heaps[g], h2)]
      /\ links' = [links EXCEPT ![g] = links[g] (+) SetToBag({l})]
      /\ grown' = [grown EXCEPT ![g] = TRUE]
      /\ heapAddr' = [heapAddr EXCEPT ![g] = a]
      /\ msgHeap' = IF g = Root THEN [msgHeap EXCEPT ![g] = a] ELSE msgHeap
  BY DEF LinkExpandHeap, UpdateGroupHeapAddr
<1>2. /\ es \in Seq(Entry) /\ HeapOK(h) /\ NamedIn(h, es)
      /\ ToBag(List(es, h)) = links[g]
  BY <1>1, ListingProps
<1>3. /\ msgHeap[g] \in 1 .. Len(heaps[g])
      /\ HeapsOK(heaps[g]) /\ LinksOK(links[g]) /\ DomainsOK
      /\ msgHeap[Root] = heapAddr[Root]
  BY DEF Inv, GroupOK
<1>. HIDE DEF h, es
<1>4. /\ HeapOK(h1) /\ DOMAIN h1.strings = DOMAIN h.strings
      /\ \A o : GetString(h1, o) = GetString(h, o)
  BY <1>2, HeapExpand
<1>5. l.name \in Names /\ h1.used \in Nat
  BY <1>4, HeapTypes DEF Link
<1>. HIDE DEF h1
<1>6. /\ HeapOK(h2) /\ DOMAIN h2.strings = DOMAIN h1.strings \cup {h1.used}
      /\ GetString(h2, h1.used) = l.name
      /\ \A o \in DOMAIN h1.strings : GetString(h2, o) = GetString(h1, o)
  BY <1>1, <1>4, <1>5, HeapAdd
<1>. HIDE DEF h2
<1>7. /\ s \in Seq(Entry) /\ NamedIn(h2, s)
      /\ ToBag(List(s, h2)) = links[g] (+) SetToBag({l})
  <2>1. s = Append(es, NewEntry(h1.used, l.obj))
    BY DEF NewEntry
  <2>2. MoreNames(h, h2, h1.used, l.name)
    BY <1>2, <1>4, <1>5, <1>6 DEF MoreNames
  <2>3. MoreEntries(es, h, s, h2, l)
    BY <2>1, <2>2, <1>2, OneMoreEntry
  <2>. HIDE DEF s
  <2>. QED
    BY <2>3, <1>2 DEF MoreEntries
<1>. HIDE DEF s
<1>8. /\ HeapsOK(Append(heaps[g], h2)) /\ Len(Append(heaps[g], h2)) = a
      /\ Append(heaps[g], h2)[a] = h2 /\ Len(heaps[g]) \in Nat
  BY <1>3, <1>6, HeapsChange
<1>9. DomainsOK => /\ heaps'[g] = Append(heaps[g], h2)
                   /\ links'[g] = links[g] (+) SetToBag({l})
                   /\ grown'[g] = TRUE /\ heapAddr'[g] = a
                   /\ heaps' = [x \in Groups |-> heaps'[x]]
                   /\ links' = [x \in Groups |-> links'[x]]
                   /\ grown' = [x \in Groups |-> grown'[x]]
                   /\ heapAddr' = [x \in Groups |-> heapAddr'[x]]
                   /\ \A x \in Groups : x # g =>
                          /\ heaps'[x] = heaps[x] /\ links'[x] = links[x]
                          /\ grown'[x] = grown[x] /\ heapAddr'[x] = heapAddr[x]
  BY <1>1 DEF DomainsOK
<1>10. /\ msgHeap' = [x \in Groups |-> msgHeap'[x]]
       /\ \A x \in Groups : x # g => msgHeap'[x] = msgHeap[x]
       /\ msgHeap'[g] = IF g = Root THEN a ELSE msgHeap[g]
       /\ msgHeap'[Root] = heapAddr'[Root]
  <2>1. Root \in Groups /\ msgHeap = [x \in Groups |-> msgHeap[x]]
    BY <1>3, ConstantTypes DEF DomainsOK
  <2>2. CASE g = Root
    BY <2>1, <2>2, <1>1, <1>3, <1>9
  <2>3. CASE g # Root
    BY <2>1, <2>3, <1>1, <1>3, <1>9
  <2>. QED
    BY <2>2, <2>3
<1>11. LinksOK(links'[g])
  BY <1>3, <1>9, LinksAdd
<1>12. /\ GroupOK(btree'[g], snods'[g], heaps'[g], heapAddr'[g], msgHeap'[g],
                  links'[g], grown'[g])
       /\ btree' = [x \in Groups |-> btree'[x]]
       /\ snods' = [x \in Groups |-> snods'[x]]
       /\ \A x \in Groups : x # g => btree'[x] = btree[x] /\ snods'[x] = snods[x]
  <2>1. /\ HeapsOK(heaps'[g]) /\ heapAddr'[g] \in 1 .. Len(heaps'[g])
        /\ msgHeap'[g] \in 1 .. Len(heaps'[g]) /\ h2 = heaps'[g][heapAddr'[g]]
    <3>1. /\ heaps'[g] = Append(heaps[g], h2) /\ heapAddr'[g] = a
          /\ msgHeap'[g] = IF g = Root THEN a ELSE msgHeap[g]
      BY <1>3, <1>9, <1>10
    <3>2. HeapsOK(heaps'[g]) /\ Len(heaps'[g]) = a /\ h2 = heaps'[g][heapAddr'[g]]
      BY <3>1, <1>8
    <3>3. a \in 1 .. a /\ msgHeap[g] \in 1 .. a
      BY <1>3, <1>8
    <3>. HIDE DEF a
    <3>. QED
      BY <3>1, <3>2, <3>3
  <2>2. ToBag(List(s, h2)) = links'[g] /\ grown'[g]
    BY <1>3, <1>7, <1>9
  <2>. QED
    BY <2>1, <2>2, <1>1, <1>7, <1>11, GroupRewritten
<1>13. DomainsOK'
  BY <1>3, <1>9, <1>10, <1>12 DEF DomainsOK
<1>. QED
  BY <1>3, <1>9, <1>10, <1>12, <1>13, OtherGroups

\* unlinkFromParent finds an entry when there is one.
LEMMA FoundProps ==
    ASSUME NEW g, NEW name, NEW list, list = Listing(g, heapAddr[g]),
           NEW S, list \in Seq(S), \E i \in 1 .. Len(list) : list[i].name = name
    PROVE  Found(g, name) \in 1 .. Len(list) /\ list[Found(g, name)].name = name
<1>. DEFINE T == {i \in 1 .. Len(list) : list[i].name = name}
<1>1. DOMAIN list = 1 .. Len(list) /\ Len(list) \in Nat
  OBVIOUS
<1>2. T \subseteq Nat /\ T # {}
  OBVIOUS
<1>3. PICK x \in T : \A y \in T : x <= y
  <2>. HIDE DEF T
  <2>. QED
    BY <1>2, LeastNat
<1>4. /\ x \in DOMAIN list /\ list[x].name = name
      /\ \A j \in 1 .. (x - 1) : list[j].name # name
  <2>1. ASSUME NEW j \in 1 .. (x - 1) PROVE list[j].name # name
    <3>1. j \in 1 .. Len(list) /\ ~ (x <= j)
      BY <1>1, <1>3
    <3>. QED
      BY <3>1, <1>3
  <2>. QED
    BY <2>1, <1>1, <1>3
<1>. QED
  BY <1>1, <1>4 DEF Found

LEMMA SortedRemove ==
    ASSUME NEW h, NEW es \in Seq(Entry), NEW k \in 1 .. Len(es)
    PROVE  /\ RemoveAt(es, k) \in Seq(Entry)
           /\ NamedIn(h, es) => NamedIn(h, RemoveAt(es, k))
           /\ Sorted(es, h) => Sorted(RemoveAt(es, k), h)
<1>. DEFINE s == RemoveAt(es, k)
            n == Len(es)
            at(i) == IF i < k THEN i ELSE i + 1
<1>1. n \in Nat
  OBVIOUS
<1>2. /\ s \in Seq(Entry) /\ Len(s) = n - 1
      /\ \A i \in 1 .. (n - 1) : s[i] = IF i < k THEN es[i] ELSE es[i + 1]
  BY <1>1, RemoveAtProps
<1>. HIDE DEF s
<1>3. ASSUME NEW i \in 1 .. Len(s) PROVE at(i) \in 1 .. n /\ s[i] = es[at(i)]
  <2>1. i \in 1 .. (n - 1)
    BY <1>2
  <2>. QED
    BY <2>1, <1>1, <1>2
<1>4. \A i, j \in 1 .. Len(s) : i <= j => at(i) <= at(j)
  BY <1>1, <1>2
<1>. HIDE DEF at, n
<1>5. NamedIn(h, es) => NamedIn(h, s)
  BY <1>3 DEF NamedIn, n
<1>6. ASSUME Sorted(es, h) PROVE Sorted(s, h)
  <2>. SUFFICES ASSUME NEW i \in 1 .. Len(s), NEW j \in 1 .. Len(s), i <= j
                PROVE  GetString(h, s[i].off) <= GetString(h, s[j].off)
    BY DEF Sorted
  <2>1. at(i) \in 1 .. n /\ at(j) \in 1 .. n /\ at(i) <= at(j)
    BY <1>3, <1>4
  <2>2. GetString(h, es[at(i)].off) <= GetString(h, es[at(j)].off)
    BY <2>1, <1>6 DEF Sorted, n
  <2>. QED
    BY <2>2, <1>3
<1>. QED
  BY <1>2, <1>5, <1>6 DEF s

LEMMA UnlinkFromParentKeeps ==
    ASSUME Inv, NEW g \in Groups, NEW name \in Names, UnlinkFromParent(g, name)
    PROVE  /\ Inv'
           /\ \E l \in Link : /\ l \in BagToSet(links[g])
                              /\ links' = [links EXCEPT ![g] = @ (-) SetToBag({l})]
<1>. DEFINE h == CurrentHeap(g)
            es == AllEntries(g)
            list == Listing(g, heapAddr[g])
            i == Found(g, name)
            s == RemoveAt(es, i)
<1>1. /\ Readable(g) /\ \E j \in DOMAIN es : list[j].name = name
      /\ Rewrite(g, s)
      /\ links' = [links EXCEPT ![g] = links[g] (-) SetToBag({list[i]})]
      /\ heapAddr' = heapAddr /\ msgHeap' = msgHeap /\ heaps' = heaps /\ grown' = grown
  BY DEF UnlinkFromParent
<1>2. /\ es \in Seq(Entry) /\ HeapOK(h) /\ NamedIn(h, es)
      /\ list = List(es, h) /\ ToBag(List(es, h)) = links[g]
      /\ ~ grown[g] => Sorted(es, h)
  BY <1>1, ListingProps
<1>3. /\ heapAddr[g] \in 1 .. Len(heaps[g]) /\ msgHeap[g] \in 1 .. Len(heaps[g])
      /\ HeapsOK(heaps[g]) /\ LinksOK(links[g]) /\ DomainsOK
      /\ msgHeap[Root] = heapAddr[Root]
  BY DEF Inv, GroupOK
<1>. HIDE DEF h, es
<1>4. list \in Seq(Link) /\ Len(list) = Len(es) /\ DOMAIN es = 1 .. Len(es)
  <2>1. List(es, h) \in Seq(Link) /\ Len(List(es, h)) = Len(es)
    BY <1>2, ListProps
  <2>. QED
    BY <2>1, <1>2
<1>5. i \in 1 .. Len(list)
  <2>1. \E j \in 1 .. Len(list) : list[j].name = name
    BY <1>1, <1>4
  <2>. QED
    BY <2>1, <1>4, FoundProps
<1>. HIDE DEF i, list
<1>6. /\ s \in Seq(Entry) /\ NamedIn(h, s) /\ (~ grown[g] => Sorted(s, h))
  BY <1>2, <1>4, <1>5, SortedRemove
<1>7. ToBag(List(s, h)) = links[g] (-) SetToBag({list[i]})
  <2>1. List(s, h) = RemoveAt(list, i)
    BY <1>2, <1>4, <1>5, ListRemove
  <2>2. ToBag(RemoveAt(list, i)) = ToBag(list) (-) SetToBag({list[i]})
    BY <1>4, <1>5, BagOfRemoval
  <2>. QED
    BY <2>1, <2>2, <1>2
<1>. HIDE DEF s
<1>8. /\ links'[g] = links[g] (-) SetToBag({list[i]})
      /\ links' = [x \in Groups |-> links'[x]]
      /\ \A x \in Groups : x # g => links'[x] = links[x]
  BY <1>1, <1>3 DEF DomainsOK
<1>9. LinksOK(links'[g])
  BY <1>3, <1>8, LinksRemove
<1>10. /\ GroupOK(btree'[g], snods'[g], heaps'[g], heapAddr'[g], msgHeap'[g],
                  links'[g], grown'[g])
       /\ btree' = [x \in Groups |-> btree'[x]]
       /\ snods' = [x \in Groups |-> snods'[x]]
       /\ \A x \in Groups : x # g => btree'[x] = btree[x] /\ snods'[x] = snods[x]
  <2>1. h = heaps'[g][heapAddr'[g]]
    BY <1>1 DEF h, CurrentHeap
  <2>2. ToBag(List(s, h)) = links'[g]
    BY <1>7, <1>8
  <2>. QED
    BY <2>1, <2>2, <1>1, <1>3, <1>6, <1>9, GroupRewritten
<1>11. DomainsOK'
  BY <1>1, <1>3, <1>8, <1>10 DEF DomainsOK
<1>12. Inv'
  BY <1>1, <1>3, <1>8, <1>10, <1>11, OtherGroups
<1>13. list[i] \in Link /\ list[i] \in BagToSet(links[g])
  <2>1. list[i] \in Link /\ list[i] \in Range(list)
    BY <1>4, <1>5 DEF Range
  <2>2. links[g] = ToBag(list)
    BY <1>2
  <2>3. DOMAIN ToBag(list) = Range(list)
    BY DEF ToBag
  <2>. QED
    BY <2>1, <2>2, <2>3 DEF BagToSet
<1>. QED
  BY <1>1, <1>12, <1>13

LEMMA InitHolds ==
    ASSUME Init
    PROVE  Inv
<1>. DEFINE node == [used |-> 1, keys |-> <<0>>, children |-> <<1>>]
            nodes == <<<<>>>>
            h == NewLocalHeap(HeapSize)
            es == <<>>
<1>1. ASSUME NEW g \in Groups
      PROVE  /\ heapAddr[g] = 1 /\ msgHeap[g] = 1 /\ heaps[g] = <<h>>
             /\ btree[g] = node /\ snods[g] = nodes /\ links[g] = EmptyBag
             /\ grown[g] = FALSE
  BY DEF Init
<1>2. DomainsOK
  BY DEF Init, DomainsOK
<1>3. HeapOK(h)
  <2>1. h \in [size : Nat, used : Nat, strings : Strings]
    <3>1. <<>> \in [{} -> Names] /\ {} \in SUBSET Nat
      OBVIOUS
    <3>2. <<>> \in Strings
      BY <3>1 DEF Strings
    <3>. QED
      BY <3>2, ConstantTypes DEF NewLocalHeap
  <2>2. h.used \in 1 .. h.size /\ DOMAIN h.strings = {}
    BY ConstantTypes DEF NewLocalHeap
  <2>. QED
    BY <2>1, <2>2 DEF HeapOK
<1>4. HeapsOK(<<h>>) /\ 1 \in 1 .. Len(<<h>>) /\ <<h>>[1] = h
  <2>1. h \in [size : Nat, used : Nat, strings : Strings]
    BY <1>3 DEF HeapOK
  <2>. HIDE DEF h
  <2>2. Len(<<h>>) = 1 /\ <<h>>[1] = h
    OBVIOUS
  <2>3. \A k \in 1 .. Len(<<h>>) : <<h>>[k] = h
    BY <2>2
  <2>. QED
    BY <2>1, <2>2, <2>3, <1>3 DEF HeapsOK
<1>5. LinksOK(EmptyBag)
  BY DEF LinksOK, EmptyBag, SetToBag, IsABag, BagToSet
<1>6. es \in Seq(Entry) /\ Len(es) = 0
  OBVIOUS
<1>7. NumSNODs(0) = 1
  BY DEF NumSNODs
<1>8. TreeOK(node, nodes) /\ Complete(node)
  <2>1. nodes \in Seq(Seq(Entry)) /\ Len(nodes) = 1 /\ nodes[1] = <<>> /\ Len(nodes[1]) = 0
    BY <1>6
  <2>2. <<1>> \in Seq(1 .. 1) /\ Len(<<1>>) = 1
    OBVIOUS
  <2>. HIDE DEF nodes
  <2>. QED
    BY <2>1, <2>2, ConstantTypes DEF TreeOK, Complete
<1>9. Laid(node, nodes, es)
  <2>1. 1 \in 1 .. NumSNODs(Len(es)) /\ 1 = NumSNODs(Len(es))
    BY <1>6, <1>7
  <2>. HIDE DEF es
  <2>2. Hi(es, 1) = Len(es)
    BY <2>1, <1>6, BoundsProps
  <2>3. Lo(1) = 0
    BY ConstantTypes DEF Lo
  <2>4. Part(es, 1) \in Seq(Entry) /\ Len(Part(es, 1)) = Hi(es, 1) - Lo(1)
    BY <2>1, <1>6, PartProps
  <2>5. Part(es, 1) = <<>>
    BY <2>2, <2>3, <2>4, <1>6
  <2>. QED
    BY <2>1, <2>5, <1>8 DEF Laid
<1>10. EntriesOf(node, nodes) = es
  BY <1>6, <1>9, EntriesLaid
<1>11. Keyed(node, es)
  BY <1>6 DEF Keyed, LeftKey
<1>12. NamedIn(h, es) /\ Sorted(es, h)
  BY <1>6 DEF NamedIn, Sorted
<1>13. ToBag(List(es, h)) = EmptyBag
  <2>1. DOMAIN es = {}
    OBVIOUS
  <2>. HIDE DEF es
  <2>2. Range(List(es, h)) = {}
    BY <2>1 DEF List, Range
  <2>. QED
    BY <2>2 DEF ToBag, EmptyBag, SetToBag
<1>14. Holds(node, nodes, es, h, EmptyBag, TRUE)
  BY <1>6, <1>9, <1>11, <1>12, <1>13 DEF Holds
<1>15. GroupOK(node, nodes, <<h>>, 1, 1, EmptyBag, FALSE)
  <2>. HIDE DEF node, nodes, h, es
  <2>1. Holds(node, nodes, EntriesOf(node, nodes), <<h>>[1], EmptyBag, ~ FALSE)
    BY <1>4, <1>10, <1>14
  <2>. QED
    BY <2>1, <1>4, <1>5, <1>8 DEF GroupOK
<1>. HIDE DEF node, nodes, h
<1>16. ASSUME NEW g \in Groups
       PROVE  GroupOK(btree[g], snods[g], heaps[g], heapAddr[g], msgHeap[g],
                      links[g], grown[g])
  BY <1>1, <1>15
<1>17. msgHeap[Root] = heapAddr[Root]
  BY <1>1, ConstantTypes
<1>. QED
  BY <1>2, <1>16, <1>17 DEF Inv

-----------------------------------------------------------------------------
(* Theorems *)

LEMMA Step ==
    ASSUME Inv, Next
    PROVE  Inv'
  BY LinkToParentKeeps, LinkExpandHeapKeeps, UnlinkFromParentKeeps DEF Next

\* The invariant holds in every state, for any groups, names, objects and sizes.
THEOREM Invariance == Spec => []Inv
<1>1. Init => Inv
  BY InitHolds
<1>2. Inv /\ [Next]_vars => Inv'
  <2>. SUFFICES ASSUME Inv, [Next]_vars PROVE Inv'
    OBVIOUS
  <2>1. CASE Next
    BY <2>1, Step
  <2>2. CASE UNCHANGED vars
    BY <2>2 DEF vars, Inv, DomainsOK
  <2>. QED
    BY <2>1, <2>2
<1>. QED
  BY <1>1, <1>2, PTL DEF Spec

\* Type correctness: heaps, children and entries that are referred to exist, no
\* heap is overfull and no SNOD has more entries than it holds.
THEOREM TypeCorrect == Spec => []TypeOK
<1>1. Inv => TypeOK
  <2>. SUFFICES ASSUME Inv, NEW g \in Groups
                PROVE  /\ heapAddr[g] \in DOMAIN heaps[g] /\ msgHeap[g] \in DOMAIN heaps[g]
                       /\ \A h \in DOMAIN heaps[g] :
                              /\ heaps[g][h].used \in 1 .. heaps[g][h].size
                              /\ Range(heaps[g][h].strings) \subseteq Names
                       /\ Range(btree[g].children) \subseteq DOMAIN snods[g]
                       /\ \A a \in DOMAIN snods[g] : /\ snods[g][a] \in Seq(Entry)
                                                     /\ Len(snods[g][a]) <= SnodCapacity
                       /\ IsABag(links[g]) /\ BagToSet(links[g]) \subseteq Link
    BY DEF TypeOK
  <2>1. /\ TreeOK(btree[g], snods[g]) /\ HeapsOK(heaps[g]) /\ LinksOK(links[g])
        /\ heapAddr[g] \in 1 .. Len(heaps[g]) /\ msgHeap[g] \in 1 .. Len(heaps[g])
    BY DEF Inv, GroupOK
  <2>2. DOMAIN heaps[g] = 1 .. Len(heaps[g])
    BY <2>1 DEF HeapsOK
  <2>3. ASSUME NEW h \in 1 .. Len(heaps[g])
        PROVE  /\ heaps[g][h].used \in 1 .. heaps[g][h].size
               /\ Range(heaps[g][h].strings) \subseteq Names
    <3>1. HeapOK(heaps[g][h]) /\ heaps[g][h].used \in 1 .. heaps[g][h].size
      BY <2>1, HeapsProps
    <3>2. \A o \in DOMAIN heaps[g][h].strings : heaps[g][h].strings[o] \in Names
      BY <3>1, HeapTypes
    <3>. QED
      BY <3>1, <3>2 DEF Range
  <2>4. /\ DOMAIN snods[g] = 1 .. Len(snods[g])
        /\ \A a \in 1 .. Len(snods[g]) : /\ snods[g][a] \in Seq(Entry)
                                         /\ Len(snods[g][a]) <= SnodCapacity
    BY <2>1 DEF TreeOK
  <2>5. Range(btree[g].children) \subseteq 1 .. Len(snods[g])
    <3>1. btree[g].children \in Seq(1 .. Len(snods[g]))
      BY <2>1 DEF TreeOK
    <3>. QED
      BY <3>1 DEF Range
  <2>. QED
    BY <2>1, <2>2, <2>3, <2>4, <2>5 DEF LinksOK
<1>. QED
  BY <1>1, Invariance, PTL

LEMMA ReadsLinks ==
    ASSUME Inv, NEW g \in Groups, Readable(g)
    PROVE  ToBag(Listing(g, heapAddr[g])) = links[g]
  BY ListingProps

\* What the session reads is what it linked and did not unlink: rewriting every
\* node, the B-tree and the heap loses, duplicates and renames no link.
THEOREM SessionReads == Spec => []SessionReadsBack
<1>1. Inv => SessionReadsBack
  BY ReadsLinks DEF SessionReadsBack
<1>. QED
  BY <1>1, Invariance, PTL

\* A later reader of the file finds the links of the root group: its symbol
\* table message always names the heap in use.
THEOREM RootReads == Spec => []RootReadsBack
<1>1. Inv => RootReadsBack
  <2>. SUFFICES ASSUME Inv, Readable(Root)
                PROVE  ToBag(Listing(Root, msgHeap[Root])) = links[Root]
    BY DEF RootReadsBack
  <2>1. msgHeap[Root] = heapAddr[Root] /\ Root \in Groups
    BY ConstantTypes DEF Inv
  <2>. QED
    BY <2>1, ReadsLinks
<1>. QED
  BY <1>1, Invariance, PTL

\* The keys of a group around the entries of a node.
LEMMA Brackets ==
    ASSUME NEW h, HeapOK(h), NEW es \in Seq(Entry), Sorted(es, h),
           NEW node, NEW nodes, Laid(node, nodes, es), Keyed(node, es),
           NEW i \in 1 .. node.used, NEW e \in Range(nodes[node.children[i]])
    PROVE  /\ GetString(h, node.keys[i]) <= GetString(h, e.off)
           /\ GetString(h, e.off) <= GetString(h, node.keys[i + 1])
<1>. DEFINE n == NumSNODs(Len(es))
            p == Part(es, i)
<1>1. node.used = n /\ nodes[node.children[i]] = p /\ i \in 1 .. n
  BY DEF Laid
<1>2. n \in Nat /\ Len(es) \in Nat
  BY NumSNODsProps
<1>3. /\ p \in Seq(Entry) /\ Len(p) = Hi(es, i) - Lo(i) /\ DOMAIN p = 1 .. Len(p)
      /\ \A k \in 1 .. Len(p) : Lo(i) + k \in 1 .. Len(es) /\ p[k] = es[Lo(i) + k]
  <2>1. /\ p \in Seq(Entry) /\ Len(p) = Hi(es, i) - Lo(i)
        /\ \A k \in 1 .. Len(p) : Lo(i) + k \in 1 .. Len(es) /\ p[k] = es[Lo(i) + k]
    BY <1>1, PartProps
  <2>. HIDE DEF p
  <2>. QED
    BY <2>1
<1>. HIDE DEF p, n
<1>4. /\ Lo(i) \in Nat /\ Hi(es, i) \in Nat /\ Hi(es, i) <= Len(es)
      /\ i < n => Hi(es, i) = Lo(i + 1)
      /\ i = n => Hi(es, i) = Len(es)
  BY <1>1, BoundsProps DEF n
<1>5. PICK k \in 1 .. Len(p) : e = p[k]
  BY <1>1, <1>3 DEF Range
<1>. DEFINE x == Lo(i) + k
<1>6. x \in 1 .. Len(es) /\ e = es[x] /\ Lo(i) < x /\ x <= Hi(es, i)
  BY <1>3, <1>4, <1>5
<1>. HIDE DEF x
<1>7. \A y, z \in 1 .. Len(es) :
          y <= z => GetString(h, es[y].off) <= GetString(h, es[z].off)
  BY DEF Sorted
<1>8. GetString(h, node.keys[i]) <= GetString(h, e.off)
  <2>1. node.keys[i] = LeftKey(es, i)
    BY DEF Keyed
  <2>2. CASE i = 1
    <3>1. GetString(h, node.keys[i]) = 0
      BY <2>1, <2>2, HeapReads DEF LeftKey
    <3>2. GetString(h, e.off) \in Nat
      BY HeapReads
    <3>. QED
      BY <3>1, <3>2
  <2>3. CASE i # 1
    <3>1. node.keys[i] = es[Lo(i)].off
      BY <2>1, <2>3 DEF LeftKey, Lo
    <3>2. Lo(i) # 0
      <4>1. i - 1 \in Int /\ i - 1 > 0 /\ SnodCapacity \in Int /\ SnodCapacity > 0
        BY <2>3, <1>1, <1>2, ConstantTypes
      <4>2. (i - 1) * SnodCapacity > 0
        BY <4>1
      <4>. QED
        BY <4>2 DEF Lo
    <3>3. Lo(i) \in 1 .. Len(es) /\ Lo(i) <= x
      BY <3>2, <1>2, <1>4, <1>6
    <3>. QED
      BY <3>1, <3>3, <1>6, <1>7
  <2>. QED
    BY <2>2, <2>3
<1>9. GetString(h, e.off) <= GetString(h, node.keys[i + 1])
  <2>1. Hi(es, i) \in 1 .. Len(es)
    BY <1>2, <1>4, <1>6
  <2>2. node.keys[i + 1] = es[Hi(es, i)].off
    <3>1. CASE i < n
      <4>1. i + 1 \in 1 .. node.used /\ i + 1 # 1 /\ (i + 1) - 1 = i
        BY <3>1, <1>1, <1>2
      <4>2. node.keys[i + 1] = LeftKey(es, i + 1)
        BY <4>1 DEF Keyed
      <4>3. LeftKey(es, i + 1) = es[Lo(i + 1)].off
        BY <4>1 DEF LeftKey, Lo
      <4>. QED
        BY <3>1, <4>2, <4>3, <1>4
    <3>2. CASE ~ (i < n)
      <4>1. i = n /\ i = node.used
        BY <3>2, <1>1, <1>2
      <4>2. Len(es) > 0
        BY <1>2, <1>6
      <4>. QED
        BY <4>1, <4>2, <1>4 DEF Keyed
    <3>. QED
      BY <3>1, <3>2
  <2>. QED
    BY <2>1, <2>2, <1>6, <1>7
<1>. QED
  BY <1>8, <1>9

\* The keys of the B-tree bracket the names in the node between them, whenever
\* the last link to the group was not one that replaced its heap.
THEOREM KeysBracket == Spec => []KeysBracketSnods
<1>1. Inv => KeysBracketSnods
  <2>. SUFFICES ASSUME Inv, NEW g \in Groups, Readable(g), ~ grown[g],
                       NEW i \in 1 .. btree[g].used,
                       NEW e \in Range(snods[g][SnodAddrs(g)[i]])
                PROVE  /\ GetString(CurrentHeap(g), btree[g].keys[i])
                            <= GetString(CurrentHeap(g), e.off)
                       /\ GetString(CurrentHeap(g), e.off)
                            <= GetString(CurrentHeap(g), btree[g].keys[i + 1])
    BY DEF KeysBracketSnods
  <2>. DEFINE es == AllEntries(g)
  <2>1. /\ es \in Seq(Entry) /\ Laid(btree[g], snods[g], es) /\ Keyed(btree[g], es)
        /\ HeapOK(CurrentHeap(g)) /\ Sorted(es, CurrentHeap(g))
    BY ListingProps
  <2>2. SnodAddrs(g)[i] = btree[g].children[i]
    <3>1. TreeOK(btree[g], snods[g])
      BY DEF Inv, GroupOK
    <3>2. SnodAddrs(g) = [k \in 1 .. btree[g].used |-> btree[g].children[k]]
      BY <3>1, ReadableIsComplete
    <3>. QED
      BY <3>2
  <2>3. e \in Range(snods[g][btree[g].children[i]])
    BY <2>2
  <2>. HIDE DEF es
  <2>. QED
    BY <2>1, <2>3, Brackets
<1>. QED
  BY <1>1, Invariance, PTL

AllReadable == \A g \in Groups : Readable(g)

LEMMA DirIsLinks ==
    ASSUME Inv, AllReadable
    PROVE  [g \in Groups |-> ToBag(Listing(g, heapAddr[g]))] = links
<1>1. \A g \in Groups : ToBag(Listing(g, heapAddr[g])) = links[g]
  BY ReadsLinks DEF AllReadable
<1>2. links = [g \in Groups |-> links[g]]
  BY DEF Inv, DomainsOK
<1>. QED
  BY <1>1, <1>2

LEMMA DirIsLinksThen ==
    (Inv /\ AllReadable => [g \in Groups |-> ToBag(Listing(g, heapAddr[g]))] = links)'
<1>1. Inv /\ AllReadable => [g \in Groups |-> ToBag(Listing(g, heapAddr[g]))] = links
  BY DirIsLinks
<1>. QED
  BY <1>1, PTL

LEMMA DirNext ==
    ASSUME Inv, AllReadable, Inv', AllReadable', [Next]_vars
    PROVE  [D!Next]_([g \in Groups |-> ToBag(Listing(g, heapAddr[g]))])
<1>. DEFINE dir == [g \in Groups |-> ToBag(Listing(g, heapAddr[g]))]
<1>1. dir = links
  BY DirIsLinks
<1>2. dir' = links'
  BY DirIsLinksThen
<1>3. ASSUME NEW g \in Groups, NEW l \in Link,
             links' = [links EXCEPT ![g] = links[g] (+) SetToBag({l})]
      PROVE  D!Next
  <2>1. D!AddLink(g, l)
    BY <1>1, <1>2, <1>3 DEF D!AddLink, D!(+), (+), D!SetToBag, SetToBag
  <2>2. l \in D!Link
    BY DEF D!Link, Link
  <2>. QED
    BY <2>1, <2>2 DEF D!Next
<1>4. ASSUME NEW g \in Groups, NEW l \in Link, l \in BagToSet(links[g]),
             links' = [links EXCEPT ![g] = links[g] (-) SetToBag({l})]
      PROVE  D!Next
  <2>1. D!RemoveLink(g, l)
    <3>. HIDE DEF dir
    <3>1. D!SetToBag({l}) = SetToBag({l})
      BY DEF D!SetToBag, SetToBag
    <3>2. D!(-)(links[g], SetToBag({l})) = links[g] (-) SetToBag({l})
      BY DEF D!(-), (-)
    <3>3. D!BagIn(l, links[g])
      BY <1>4 DEF D!BagIn, D!BagToSet, BagToSet
    <3>4. dir' = [dir EXCEPT ![g] = D!(-)(dir[g], D!SetToBag({l}))]
      BY <3>1, <3>2, <1>1, <1>2, <1>4
    <3>5. D!BagIn(l, dir[g])
      BY <3>3, <1>1
    <3>. QED
      BY <3>4, <3>5 DEF D!RemoveLink, dir
  <2>2. l \in D!Link
    BY DEF D!Link, Link
  <2>. QED
    BY <2>1, <2>2 DEF D!Next
<1>. HIDE DEF dir
<1>5. CASE UNCHANGED vars
  <2>1. links' = links
    BY <1>5 DEF vars
  <2>. QED
    BY <2>1, <1>1, <1>2 DEF dir
<1>6. CASE Next
  <2>1. PICK g \in Groups : \/ \E l \in Link : LinkToParent(g, l) \/ LinkExpandHeap(g, l)
                            \/ \E name \in Names : UnlinkFromParent(g, name)
    BY <1>6 DEF Next
  <2>2. ASSUME NEW l \in Link, LinkToParent(g, l) \/ LinkExpandHeap(g, l)
        PROVE  D!Next
    <3>1. links' = [links EXCEPT ![g] = links[g] (+) SetToBag({l})]
      BY <2>2 DEF LinkToParent, LinkExpandHeap
    <3>. QED
      BY <3>1, <1>3
  <2>3. ASSUME NEW name \in Names, UnlinkFromParent(g, name)
        PROVE  D!Next
    <3>1. PICK l \in Link : /\ l \in BagToSet(links[g])
                            /\ links' = [links EXCEPT ![g] = links[g] (-) SetToBag({l})]
      BY <2>3, UnlinkFromParentKeeps
    <3>. QED
      BY <3>1, <1>4
  <2>. QED
    BY <2>1, <2>2, <2>3
<1>. QED
  BY <1>5, <1>6

\* What the session reads implements a directory, as long as every B-tree node
\* lists all of its SNODs: each operation adds one link or removes one, and
\* shows in no other group.
THEOREM Refinement == Spec /\ []AllReadable => ImplementsDirectory
<1>1. Init /\ AllReadable => D!Init
  <2>. SUFFICES ASSUME Init, AllReadable PROVE D!Init
    OBVIOUS
  <2>1. [g \in Groups |-> ToBag(Listing(g, heapAddr[g]))] = links
    BY InitHolds, DirIsLinks
  <2>. QED
    BY <2>1 DEF Init, D!Init, EmptyBag, D!EmptyBag, SetToBag, D!SetToBag
<1>2. Inv /\ AllReadable /\ Inv' /\ AllReadable' /\ [Next]_vars
        => [D!Next]_([g \in Groups |-> ToBag(Listing(g, heapAddr[g]))])
  BY DirNext
<1>. QED
  BY <1>1, <1>2, Invariance, PTL DEF Spec, ImplementsDirectory, D!Spec
=============================================================================
