----------------------- MODULE AttributeStorageProofs -----------------------
(***************************************************************************)
(* Proofs about AttributeStorage: what is read back is what was written,   *)
(* an object has compact or dense attributes and never both, and adding an *)
(* attribute to a header of known size stays inside its allocation.        *)
(***************************************************************************)
EXTENDS AttributeStorage, SequenceFacts

LEMMA ConstantTypes ==
    /\ Kinds \subseteq {"root", "group", "dataset"} /\ Values \subseteq Nat \ {0}
    /\ ContSize \in Nat /\ InfoSize \in Nat /\ AllocSize \in Nat
    /\ MaxCompact \in Nat /\ InfoSize <= AllocSize
  BY AttributeAssumption

-----------------------------------------------------------------------------
(* The messages of some types *)

\* The elements of t are those of the first n of s whose type is in T; the k-th
\* of them comes from the e[k]-th of s.
Picks(s, T, n, t, e) ==
    /\ e \in [1 .. Len(t) -> 1 .. n]
    /\ \A k \in 1 .. Len(t) : t[k] = s[e[k]] /\ s[e[k]].type \in T
    /\ \A j, k \in 1 .. Len(t) : e[j] = e[k] => j = k
    /\ \A i \in 1 .. n : s[i].type \in T => \E k \in 1 .. Len(t) : e[k] = i

LEMMA PicksNext ==
    ASSUME NEW M, NEW s \in Seq(M), NEW T, NEW i \in 1 .. Len(s),
           NEW t \in Seq(M), NEW e, Picks(s, T, i - 1, t, e),
           NEW u, u = IF s[i].type \in T THEN Append(t, s[i]) ELSE t
    PROVE  u \in Seq(M) /\ \E d : Picks(s, T, i, u, d)
<1>. DEFINE n == Len(t)
<1>1. n \in Nat /\ Len(s) \in Nat /\ s[i] \in M /\ i \in Nat
  OBVIOUS
<1>2. /\ e \in [1 .. n -> 1 .. (i - 1)]
      /\ \A k \in 1 .. n : t[k] = s[e[k]] /\ s[e[k]].type \in T
      /\ \A j, k \in 1 .. n : e[j] = e[k] => j = k
      /\ \A x \in 1 .. (i - 1) : s[x].type \in T => \E k \in 1 .. n : e[k] = x
  BY DEF Picks
<1>3. \A x \in 1 .. i : x # i => x \in 1 .. (i - 1)
  BY <1>1
<1>4. \A x \in 1 .. (i - 1) : x \in 1 .. i /\ x # i
  BY <1>1
<1>5. CASE s[i].type \notin T
  <2>1. u = t
    BY <1>5
  <2>2. e \in [1 .. n -> 1 .. i]
    BY <1>2, <1>4
  <2>3. ASSUME NEW x \in 1 .. i, s[x].type \in T PROVE \E k \in 1 .. n : e[k] = x
    BY <1>2, <1>3, <1>5, <2>3
  <2>4. Picks(s, T, i, t, e)
    BY <1>2, <2>2, <2>3 DEF Picks
  <2>. QED
    BY <2>1, <2>4
<1>6. CASE s[i].type \in T
  <2>. DEFINE d == [k \in 1 .. (n + 1) |-> IF k = n + 1 THEN i ELSE e[k]]
  <2>1. /\ u \in Seq(M) /\ Len(u) = n + 1
        /\ \A k \in 1 .. n : u[k] = t[k]
        /\ u[n + 1] = s[i]
    BY <1>1, <1>6
  <2>2. \A k \in 1 .. (n + 1) : k # n + 1 => k \in 1 .. n
    BY <1>1
  <2>3. \A k \in 1 .. n : k \in 1 .. (n + 1) /\ k # n + 1
    BY <1>1
  <2>4. n + 1 \in 1 .. (n + 1) /\ i \in 1 .. i
    BY <1>1
  <2>5. d[n + 1] = i /\ \A k \in 1 .. n : d[k] = e[k]
    BY <2>3, <2>4
  <2>6. d \in [1 .. (n + 1) -> 1 .. i]
    BY <1>2, <1>4, <2>2, <2>4
  <2>. HIDE DEF d, n
  <2>7. \A k \in 1 .. n : e[k] \in 1 .. (i - 1)
    BY <1>2
  <2>8. ASSUME NEW k \in 1 .. (n + 1)
        PROVE  u[k] = s[d[k]] /\ s[d[k]].type \in T
    <3>1. CASE k = n + 1
      BY <3>1, <1>6, <2>1, <2>5
    <3>2. CASE k # n + 1
      BY <3>2, <1>2, <2>1, <2>2, <2>5
    <3>. QED
      BY <3>1, <3>2
  <2>9. ASSUME NEW j \in 1 .. (n + 1), NEW k \in 1 .. (n + 1), d[j] = d[k]
        PROVE  j = k
    <3>1. CASE j = n + 1 /\ k = n + 1
      BY <3>1
    <3>2. CASE j = n + 1 /\ k # n + 1
      <4>1. k \in 1 .. n /\ d[j] = i /\ d[k] = e[k]
        BY <3>2, <2>2, <2>5
      <4>. QED
        BY <4>1, <1>4, <2>7, <2>9
    <3>3. CASE j # n + 1 /\ k = n + 1
      <4>1. j \in 1 .. n /\ d[k] = i /\ d[j] = e[j]
        BY <3>3, <2>2, <2>5
      <4>. QED
        BY <4>1, <1>4, <2>7, <2>9
    <3>4. CASE j # n + 1 /\ k # n + 1
      <4>1. j \in 1 .. n /\ k \in 1 .. n /\ d[k] = e[k] /\ d[j] = e[j]
        BY <3>4, <2>2, <2>5
      <4>. QED
        BY <4>1, <1>2, <2>9
    <3>. QED
      BY <3>1, <3>2, <3>3, <3>4
  <2>10. ASSUME NEW x \in 1 .. i, s[x].type \in T
         PROVE  \E k \in 1 .. (n + 1) : d[k] = x
    <3>1. CASE x = i
      BY <3>1, <2>4, <2>5
    <3>2. CASE x # i
      <4>1. PICK k \in 1 .. n : e[k] = x
        BY <3>2, <1>2, <1>3, <2>10
      <4>. QED
        BY <4>1, <2>3, <2>5
    <3>. QED
      BY <3>1, <3>2
  <2>11. Picks(s, T, i, u, d)
    BY <2>1, <2>6, <2>8, <2>9, <2>10 DEF Picks
  <2>. QED
    BY <2>1, <2>11
<1>. QED
  BY <1>5, <1>6

LEMMA OfTypesPicks ==
    ASSUME NEW M, NEW s \in Seq(M), NEW T
    PROVE  /\ OfTypes(s, T) \in Seq(M)
           /\ \E e : Picks(s, T, Len(s), OfTypes(s, T), e)
<1>. DEFINE n == Len(s)
            step == [p \in (1 .. n) \X Seq(M) |->
                        IF s[p[1]].type \in T THEN Append(p[2], s[p[1]]) ELSE p[2]]
            IsUpTo(g) == g = [i \in 0 .. n |-> IF i = 0 THEN <<>>
                                 ELSE IF s[i].type \in T THEN Append(g[i - 1], s[i])
                                                         ELSE g[i - 1]]
            c == CHOOSE g : IsUpTo(g)
<1>0. n \in Nat /\ \A i \in 1 .. n : s[i] \in M
  OBVIOUS
<1>1. OfTypes(s, T) = c[n]
  BY DEF OfTypes
<1>2. \E g : IsUpTo(g)
  <2>1. step \in [(1 .. n) \X Seq(M) -> Seq(M)]
    <3>1. ASSUME NEW p \in (1 .. n) \X Seq(M)
          PROVE  (IF s[p[1]].type \in T THEN Append(p[2], s[p[1]]) ELSE p[2]) \in Seq(M)
      <4>1. p[1] \in 1 .. n /\ p[2] \in Seq(M)
        OBVIOUS
      <4>2. s[p[1]] \in M
        BY <4>1, <1>0
      <4>. QED
        BY <4>1, <4>2
    <3>. QED
      BY <3>1
  <2>2. <<>> \in Seq(M)
    OBVIOUS
  <2>3. \A i \in 1 .. n, t \in Seq(M) :
            step[<<i, t>>] = IF s[i].type \in T THEN Append(t, s[i]) ELSE t
    OBVIOUS
  <2>. HIDE DEF step
  <2>4. PICK f \in [0 .. n -> Seq(M)] :
            \A i \in 0 .. n : f[i] = IF i = 0 THEN <<>> ELSE step[<<i, f[i - 1]>>]
    <3>1. \E f : Recursion(n, Seq(M), <<>>, step, f)
      BY <1>0, <2>1, <2>2, RecursionExists
    <3>. QED
      BY <3>1 DEF Recursion
  <2>5. ASSUME NEW i \in 0 .. n
        PROVE  f[i] = IF i = 0 THEN <<>>
                      ELSE IF s[i].type \in T THEN Append(f[i - 1], s[i]) ELSE f[i - 1]
    <3>1. CASE i = 0
      BY <3>1, <2>4
    <3>2. CASE i # 0
      <4>1. i \in 1 .. n /\ i - 1 \in 0 .. n
        BY <3>2, <1>0
      <4>2. f[i - 1] \in Seq(M)
        BY <4>1, <2>4
      <4>. QED
        BY <3>2, <4>1, <4>2, <2>3, <2>4
    <3>. QED
      BY <3>1, <3>2
  <2>6. f = [i \in 0 .. n |-> f[i]]
    BY <2>4
  <2>7. IsUpTo(f)
    BY <2>5, <2>6
  <2>. HIDE DEF IsUpTo
  <2>. QED
    BY <2>7
<1>3. IsUpTo(c)
  <2>. HIDE DEF IsUpTo
  <2>. QED
    BY <1>2
<1>. HIDE DEF c
<1>4. \A i \in 0 .. n : c[i] = IF i = 0 THEN <<>>
                               ELSE IF s[i].type \in T THEN Append(c[i - 1], s[i])
                                                       ELSE c[i - 1]
  BY <1>3
<1>. DEFINE Good(i) == c[i] \in Seq(M) /\ \E e : Picks(s, T, i, c[i], e)
            B == {i \in 0 .. n : ~ Good(i)}
<1>5. Good(0)
  <2>1. c[0] = <<>>
    BY <1>0, <1>4
  <2>2. Picks(s, T, 0, <<>>, <<>>)
    BY DEF Picks
  <2>. QED
    BY <2>1, <2>2
<1>6. ASSUME NEW i \in 1 .. n, Good(i - 1) PROVE Good(i)
  <2>1. c[i] = IF s[i].type \in T THEN Append(c[i - 1], s[i]) ELSE c[i - 1]
    BY <1>0, <1>4
  <2>2. PICK e : Picks(s, T, i - 1, c[i - 1], e)
    BY <1>6
  <2>. QED
    BY <2>1, <2>2, <1>6, PicksNext
<1>. HIDE DEF Good
<1>7. B = {}
  <2>. SUFFICES ASSUME B # {} PROVE FALSE
    OBVIOUS
  <2>1. B \subseteq Nat
    OBVIOUS
  <2>2. PICK x \in B : \A y \in B : x <= y
    <3>. HIDE DEF B
    <3>. QED
      BY <2>1, LeastNat
  <2>3. x # 0 /\ x \in 0 .. n /\ ~ Good(x)
    BY <2>2, <1>5
  <2>4. x \in 1 .. n /\ x - 1 \in 0 .. n /\ ~ (x <= x - 1)
    BY <1>0, <2>3
  <2>5. Good(x - 1)
    BY <2>2, <2>4
  <2>. QED
    BY <2>3, <2>4, <2>5, <1>6
<1>8. n \in 0 .. n
  BY <1>0
<1>9. Good(n)
  BY <1>7, <1>8
<1>. QED
  BY <1>1, <1>9 DEF Good

-----------------------------------------------------------------------------
(* Messages and sizes *)

AttrMessage == [type : {"attr"}, name : Names, val : Values]

\* Messages that refer to one of b blocks and one of n stores.
Message(b, n) == {Padding} \cup AttrMessage \cup [type : {"cont"}, block : 1 .. b]
                           \cup [type : {"info"}, store : 1 .. n]

Header(b, n) == [own : Seq(Message(b, n)), continued : Seq(AttrMessage)]

LEMMA MessageKinds ==
    ASSUME NEW b, NEW n, NEW m \in Message(b, n)
    PROVE  /\ m.type \in Types
           /\ m.type = "attr" => m \in AttrMessage /\ m.name \in Names /\ m.val \in Values
           /\ m.type = "cont" => m.block \in 1 .. b
           /\ m.type = "info" => m.store \in 1 .. n
           /\ m.type = "nil" => m = Padding
  BY DEF Message, AttrMessage, Padding, Types

LEMMA MessageGrows ==
    ASSUME NEW b \in Nat, NEW n \in Nat, NEW b2 \in Nat, NEW n2 \in Nat,
           b <= b2, n <= n2
    PROVE  /\ Message(b, n) \subseteq Message(b2, n2)
           /\ AttrMessage \subseteq Message(b, n)
           /\ Seq(Message(b, n)) \subseteq Seq(Message(b2, n2))
           /\ Header(b, n) \subseteq Header(b2, n2)
<1>1. Message(b, n) \subseteq Message(b2, n2)
  <2>1. 1 .. b \subseteq 1 .. b2 /\ 1 .. n \subseteq 1 .. n2
    OBVIOUS
  <2>2. /\ [type : {"cont"}, block : 1 .. b] \subseteq [type : {"cont"}, block : 1 .. b2]
        /\ [type : {"info"}, store : 1 .. n] \subseteq [type : {"info"}, store : 1 .. n2]
    BY <2>1
  <2>. QED
    BY <2>2 DEF Message
<1>2. AttrMessage \subseteq Message(b, n)
  BY DEF Message
<1>3. Seq(Message(b, n)) \subseteq Seq(Message(b2, n2))
  <2>. HIDE DEF Message
  <2>. SUFFICES ASSUME NEW s \in Seq(Message(b, n)) PROVE s \in Seq(Message(b2, n2))
    OBVIOUS
  <2>1. s \in [1 .. Len(s) -> Message(b2, n2)] /\ Len(s) \in Nat
    BY <1>1
  <2>. QED
    BY <2>1
<1>4. Header(b, n) \subseteq Header(b2, n2)
  BY <1>3 DEF Header
<1>. QED
  BY <1>1, <1>2, <1>3, <1>4

LEMMA SizeNat ==
    ASSUME NEW b, NEW k, NEW s \in Seq(Message(b, k))
    PROVE  /\ Size(s) \in Nat
           /\ Len(s) = 1 => Size(s) = MessageSize(s[1])
<1>. DEFINE n == Len(s)
            step == [p \in (1 .. n) \X Nat |-> p[2] + MessageSize(s[p[1]])]
            IsUpTo(g) == g = [i \in 0 .. n |-> IF i = 0 THEN 0
                                                ELSE g[i - 1] + MessageSize(s[i])]
            c == CHOOSE g : IsUpTo(g)
<1>0. n \in Nat /\ \A i \in 1 .. n : s[i] \in Message(b, k)
  OBVIOUS
<1>1. ASSUME NEW i \in 1 .. n PROVE MessageSize(s[i]) \in Nat
  <2>1. s[i].type \in Types /\ (s[i].type = "attr" => s[i].val \in Values)
    BY <1>0, MessageKinds
  <2>. QED
    BY <2>1, ConstantTypes DEF MessageSize, Types
<1>2. Size(s) = c[n]
  BY DEF Size
<1>3. \E g : IsUpTo(g)
  <2>1. step \in [(1 .. n) \X Nat -> Nat]
    <3>1. ASSUME NEW p \in (1 .. n) \X Nat
          PROVE  p[2] + MessageSize(s[p[1]]) \in Nat
      <4>1. p[1] \in 1 .. n /\ p[2] \in Nat
        OBVIOUS
      <4>2. MessageSize(s[p[1]]) \in Nat
        BY <4>1, <1>1
      <4>. QED
        BY <4>1, <4>2
    <3>. QED
      BY <3>1
  <2>2. \A i \in 1 .. n, t \in Nat : step[<<i, t>>] = t + MessageSize(s[i])
    OBVIOUS
  <2>. HIDE DEF step
  <2>3. \E f : Recursion(n, Nat, 0, step, f)
    BY <1>0, <2>1, RecursionExists
  <2>4. PICK f \in [0 .. n -> Nat] :
            \A i \in 0 .. n : f[i] = IF i = 0 THEN 0 ELSE step[<<i, f[i - 1]>>]
    BY <2>3 DEF Recursion
  <2>5. ASSUME NEW i \in 0 .. n
        PROVE  f[i] = IF i = 0 THEN 0 ELSE f[i - 1] + MessageSize(s[i])
    <3>1. CASE i = 0
      BY <3>1, <2>4
    <3>2. CASE i # 0
      <4>1. i \in 1 .. n /\ i - 1 \in 0 .. n
        BY <3>2, <1>0
      <4>2. f[i - 1] \in Nat
        BY <4>1, <2>4
      <4>. QED
        BY <3>2, <4>1, <4>2, <2>2, <2>4
    <3>. QED
      BY <3>1, <3>2
  <2>6. f = [i \in 0 .. n |-> f[i]]
    BY <2>4
  <2>7. IsUpTo(f)
    BY <2>5, <2>6
  <2>. HIDE DEF IsUpTo
  <2>. QED
    BY <2>7
<1>4. IsUpTo(c)
  <2>. HIDE DEF IsUpTo
  <2>. QED
    BY <1>3
<1>. HIDE DEF c
<1>5. \A i \in 0 .. n : c[i] = IF i = 0 THEN 0 ELSE c[i - 1] + MessageSize(s[i])
  BY <1>4
<1>. DEFINE B == {i \in 0 .. n : c[i] \notin Nat}
<1>6. B = {}
  <2>. SUFFICES ASSUME B # {} PROVE FALSE
    OBVIOUS
  <2>1. B \subseteq Nat
    OBVIOUS
  <2>2. PICK x \in B : \A y \in B : x <= y
    <3>. HIDE DEF B
    <3>. QED
      BY <2>1, LeastNat
  <2>3. x # 0 /\ x \in 0 .. n /\ c[x] \notin Nat
    BY <2>2, <1>5
  <2>4. x \in 1 .. n /\ x - 1 \in 0 .. n /\ ~ (x <= x - 1)
    BY <1>0, <2>3
  <2>5. c[x - 1] \in Nat
    BY <2>2, <2>4
  <2>6. c[x] = c[x - 1] + MessageSize(s[x])
    BY <2>3, <1>5
  <2>. QED
    BY <2>3, <2>4, <2>5, <2>6, <1>1
<1>7. n \in 0 .. n
  BY <1>0
<1>8. n = 1 => c[1] = c[0] + MessageSize(s[1]) /\ c[0] = 0
  BY <1>5
<1>. QED
  BY <1>1, <1>2, <1>6, <1>7, <1>8

-----------------------------------------------------------------------------
(* Searching the messages of a header *)

LEMMA IndexProps ==
    ASSUME NEW M, NEW s \in Seq(M), NEW x, NEW i, i = IndexOf(s, x)
    PROVE  /\ i \in 0 .. Len(s)
           /\ i # 0 => s[i].type = "attr" /\ s[i].name = x
           /\ i = 0 => \A j \in 1 .. Len(s) : ~ (s[j].type = "attr" /\ s[j].name = x)
<1>. DEFINE found == {j \in 1 .. Len(s) : s[j].type = "attr" /\ s[j].name = x}
<1>1. Len(s) \in Nat /\ DOMAIN s = 1 .. Len(s)
  OBVIOUS
<1>2. i = IF found = {} THEN 0 ELSE CHOOSE k \in found : \A j \in found : k <= j
  BY <1>1 DEF IndexOf
<1>3. found \subseteq Nat
  OBVIOUS
<1>4. ASSUME found # {} PROVE i \in found
  <2>. HIDE DEF found
  <2>1. \E k \in found : \A j \in found : k <= j
    BY <1>3, <1>4, LeastNat
  <2>. QED
    BY <2>1, <1>2, <1>4
<1>5. CASE found = {}
  BY <1>1, <1>2, <1>5
<1>6. CASE found # {}
  BY <1>1, <1>4, <1>6
<1>. QED
  BY <1>5, <1>6

NoInfo(s) == \A i \in 1 .. Len(s) : s[i].type # "info"

\* The messages of a header, and how the two parts of it lie in them.
LEMMA MessagesProps ==
    ASSUME NEW b \in Nat, NEW n \in Nat, NEW oh \in Header(b, n)
    PROVE  /\ oh.own \in Seq(Message(b, n)) /\ oh.continued \in Seq(AttrMessage)
           /\ Messages(oh) \in Seq(Message(b, n))
           /\ Len(oh.own) \in Nat /\ Len(oh.continued) \in Nat
           /\ Len(Messages(oh)) = Len(oh.own) + Len(oh.continued)
           /\ \A i \in 1 .. Len(oh.own) : Messages(oh)[i] = oh.own[i]
           /\ \A i \in 1 .. Len(oh.continued) :
                  Messages(oh)[Len(oh.own) + i] = oh.continued[i]
           /\ oh.continued = <<>> => Messages(oh) = oh.own
<1>. DEFINE s == oh.own
            t == oh.continued
            M == Message(b, n)
<1>1. s \in Seq(M) /\ t \in Seq(AttrMessage) /\ AttrMessage \subseteq M
  BY MessageGrows DEF Header
<1>2. t \in Seq(M)
  <2>. HIDE DEF M, t
  <2>1. t \in [1 .. Len(t) -> M] /\ Len(t) \in Nat
    BY <1>1
  <2>. QED
    BY <2>1
<1>. HIDE DEF s, t, M
<1>3. Len(s) \in Nat /\ Len(t) \in Nat
  BY <1>1
<1>4. /\ s \o t \in Seq(M) /\ Len(s \o t) = Len(s) + Len(t)
      /\ \A i \in 1 .. (Len(s) + Len(t)) :
             (s \o t)[i] = IF i <= Len(s) THEN s[i] ELSE t[i - Len(s)]
  BY <1>1, <1>2, ConcatProperties
<1>5. \A i \in 1 .. Len(s) : (s \o t)[i] = s[i]
  BY <1>3, <1>4
<1>6. ASSUME NEW i \in 1 .. Len(t) PROVE (s \o t)[Len(s) + i] = t[i]
  <2>1. /\ Len(s) + i \in 1 .. (Len(s) + Len(t)) /\ ~ (Len(s) + i <= Len(s))
        /\ (Len(s) + i) - Len(s) = i
    BY <1>3
  <2>. QED
    BY <2>1, <1>4
<1>7. t = <<>> => s \o t = s
  BY <1>1
<1>. QED
  BY <1>1, <1>3, <1>4, <1>5, <1>6, <1>7 DEF Messages, s, t, M

LEMMA TwoParts ==
    ASSUME NEW a \in Nat, NEW c \in Nat
    PROVE  /\ \A i \in 1 .. a : i \in 1 .. (a + c)
           /\ \A i \in 1 .. c : a + i \in 1 .. (a + c) /\ ~ (a + i <= a) /\ (a + i) - a = i
           /\ \A i \in 1 .. (a + c) : i <= a => i \in 1 .. a
           /\ \A i \in 1 .. (a + c) : ~ (i <= a) => i - a \in 1 .. c /\ a + (i - a) = i
  OBVIOUS

\* Where an index into the messages of a header falls.
LEMMA MessagesSplit ==
    ASSUME NEW b \in Nat, NEW n \in Nat, NEW oh \in Header(b, n),
           NEW i \in 1 .. Len(Messages(oh))
    PROVE  \/ i \in 1 .. Len(oh.own) /\ Messages(oh)[i] = oh.own[i]
           \/ /\ i - Len(oh.own) \in 1 .. Len(oh.continued) /\ ~ (i <= Len(oh.own))
              /\ Messages(oh)[i] = oh.continued[i - Len(oh.own)]
<1>1. /\ Len(oh.own) \in Nat /\ Len(oh.continued) \in Nat
      /\ Len(Messages(oh)) = Len(oh.own) + Len(oh.continued)
      /\ \A j \in 1 .. Len(oh.own) : Messages(oh)[j] = oh.own[j]
      /\ \A j \in 1 .. Len(oh.continued) :
             Messages(oh)[Len(oh.own) + j] = oh.continued[j]
  BY MessagesProps
<1>0. /\ Len(oh.own) \in Nat /\ Len(oh.continued) \in Nat
      /\ i \in 1 .. (Len(oh.own) + Len(oh.continued))
  BY <1>1
<1>2. CASE i <= Len(oh.own)
  <2>1. i \in 1 .. Len(oh.own)
    BY <1>0, <1>2
  <2>. QED
    BY <1>1, <2>1
<1>3. CASE ~ (i <= Len(oh.own))
  <2>. DEFINE j == i - Len(oh.own)
  <2>1. j \in 1 .. Len(oh.continued) /\ Len(oh.own) + j = i
    BY <1>0, <1>3, TwoParts
  <2>. HIDE DEF j
  <2>2. Messages(oh)[i] = oh.continued[j]
    BY <2>1, <1>1
  <2>. QED
    BY <2>1, <2>2, <1>3 DEF j
<1>. QED
  BY <1>2, <1>3

\* The store of a header is that of one of its info messages.
LEMMA StoreProps ==
    ASSUME NEW b \in Nat, NEW n \in Nat, NEW oh \in Header(b, n)
    PROVE  /\ StoreOf(oh) \in 0 .. n
           /\ StoreOf(oh) = 0 <=> NoInfo(oh.own)
           /\ StoreOf(oh) # 0 => \E i \in 1 .. Len(oh.own) :
                  oh.own[i].type = "info" /\ oh.own[i].store = StoreOf(oh)
<1>. DEFINE s == Messages(oh)
            infos == OfTypes(s, {"info"})
<1>1. s \in Seq(Message(b, n)) /\ Len(s) \in Nat
  <2>1. s \in Seq(Message(b, n))
    BY MessagesProps
  <2>. HIDE DEF s
  <2>. QED
    BY <2>1
<1>. HIDE DEF s
<1>2. infos \in Seq(Message(b, n)) /\ \E e : Picks(s, {"info"}, Len(s), infos, e)
  BY <1>1, OfTypesPicks
<1>3. StoreOf(oh) = IF infos = <<>> THEN 0 ELSE infos[1].store
  BY DEF StoreOf, s
<1>. HIDE DEF infos
<1>4. PICK e : Picks(s, {"info"}, Len(s), infos, e)
  BY <1>2
<1>5. ASSUME NEW i \in 1 .. Len(s), s[i].type = "info"
      PROVE  i \in 1 .. Len(oh.own) /\ s[i] = oh.own[i]
  <2>1. \/ i \in 1 .. Len(oh.own) /\ s[i] = oh.own[i]
        \/ /\ i - Len(oh.own) \in 1 .. Len(oh.continued)
           /\ s[i] = oh.continued[i - Len(oh.own)]
    BY MessagesSplit DEF s
  <2>2. \A j \in 1 .. Len(oh.continued) : oh.continued[j].type = "attr"
    <3>1. oh.continued \in Seq(AttrMessage)
      BY MessagesProps
    <3>2. \A j \in 1 .. Len(oh.continued) : oh.continued[j] \in AttrMessage
      BY <3>1
    <3>. QED
      BY <3>2 DEF AttrMessage
  <2>. QED
    BY <2>1, <2>2, <1>5
<1>6. CASE infos = <<>>
  <2>1. NoInfo(oh.own)
    <3>. SUFFICES ASSUME NEW i \in 1 .. Len(oh.own), oh.own[i].type = "info" PROVE FALSE
      BY DEF NoInfo
    <3>1. i \in 1 .. Len(s) /\ s[i] = oh.own[i]
      <4>1. /\ Len(oh.own) \in Nat /\ Len(oh.continued) \in Nat
            /\ Len(s) = Len(oh.own) + Len(oh.continued) /\ s[i] = oh.own[i]
        BY MessagesProps DEF s
      <4>2. i \in 1 .. (Len(oh.own) + Len(oh.continued))
        BY <4>1, TwoParts
      <4>. QED
        BY <4>1, <4>2
    <3>2. Len(infos) = 0
      BY <1>6
    <3>. QED
      BY <3>1, <3>2, <1>4 DEF Picks
  <2>. QED
    BY <2>1, <1>3, <1>6
<1>7. CASE infos # <<>>
  <2>1. 1 \in 1 .. Len(infos)
    BY <1>2, <1>7
  <2>2. e[1] \in 1 .. Len(s) /\ infos[1] = s[e[1]] /\ s[e[1]].type = "info"
    BY <2>1, <1>4 DEF Picks
  <2>3. e[1] \in 1 .. Len(oh.own) /\ s[e[1]] = oh.own[e[1]]
    BY <2>2, <1>5
  <2>4. s[e[1]].store \in 1 .. n
    BY <2>2, <1>1, MessageKinds
  <2>5. StoreOf(oh) = oh.own[e[1]].store /\ oh.own[e[1]].type = "info"
    BY <2>2, <2>3, <1>3, <1>7
  <2>6. StoreOf(oh) \in 1 .. n
    BY <2>2, <2>4, <1>3, <1>7
  <2>7. ~ NoInfo(oh.own)
    BY <2>3, <2>5 DEF NoInfo
  <2>. QED
    BY <2>3, <2>5, <2>6, <2>7
<1>. QED
  BY <1>6, <1>7

-----------------------------------------------------------------------------
(* The invariant *)

\* Maps from some names to values.
Stores == UNION {[D -> Values] : D \in {E \in SUBSET Names : IsFiniteSet(E)}}

TypeInv ==
    /\ kind \in Kinds
    /\ main \in Seq(Message(Len(ochk), Len(stores)))
    /\ ochk \in Seq(AttrMessage)
    /\ stores \in Seq(Stores)
    /\ known \in Nat
    /\ room \in Nat /\ AllocSize <= room
    /\ atEnd \in BOOLEAN /\ torn \in BOOLEAN /\ spoilt \in BOOLEAN
    /\ handle \in [created : BOOLEAN, cached : BOOLEAN,
                   header : Header(Len(ochk), Len(stores)), info : 0 .. Len(stores)]
    /\ attrs \in Stores

\* A chunk with an info message has no other: no attribute, not even a continued
\* one.  Such a chunk is never longer than its allocation.
Pure(s) == NoInfo(s) \/ Len(s) = 1

FormInv == Pure(main) /\ Pure(handle.header.own)

\* Only a dataset's handle caches a header, and no dataset has a continuation
\* block.  A handle that knows of a dense store is that of a dataset which was
\* opened, and nothing replaces the header of that dataset any more.
HandleInv ==
    /\ kind = "dataset" => known = 0 /\ ochk = <<>>
    /\ handle.cached => kind = "dataset"
    /\ handle.header.continued = <<>>
    /\ handle.info # 0 => handle.cached /\ ~ handle.created /\ StoreOf(Read) = handle.info

\* The messages of the main chunk that stand for an attribute, and the attribute
\* message itself.
Carrier(m) == m.type \in {"attr", "cont"}
Carried(blocks, m) == IF m.type = "cont" THEN blocks[m.block] ELSE m

\* Each attribute of as is carried by one message of s.
Carries(s, blocks, as) ==
    /\ \A i \in 1 .. Len(s) : Carrier(s[i]) =>
           /\ Carried(blocks, s[i]).name \in DOMAIN as
           /\ Carried(blocks, s[i]).val = as[Carried(blocks, s[i]).name]
    /\ \A x \in DOMAIN as :
           \E i \in 1 .. Len(s) : Carrier(s[i]) /\ Carried(blocks, s[i]).name = x
    /\ \A i, j \in 1 .. Len(s) :
           (/\ Carrier(s[i]) /\ Carrier(s[j])
            /\ Carried(blocks, s[i]).name = Carried(blocks, s[j]).name) => i = j

ReadInv ==
    ~ spoilt => IF StoreOf(Read) = 0 THEN Carries(main, ochk, attrs)
                                     ELSE stores[StoreOf(Read)] = attrs

Inv == TypeInv /\ FormInv /\ HandleInv /\ ReadInv

-----------------------------------------------------------------------------
(* What is read *)

\* t has the blocks that the continuation messages of s refer to.
Continues(s, blocks, t, e) ==
    /\ e \in [1 .. Len(t) -> 1 .. Len(s)]
    /\ \A k \in 1 .. Len(t) : s[e[k]].type = "cont" /\ t[k] = blocks[s[e[k]].block]
    /\ \A j, k \in 1 .. Len(t) : e[j] = e[k] => j = k
    /\ \A i \in 1 .. Len(s) : s[i].type = "cont" => \E k \in 1 .. Len(t) : e[k] = i

LEMMA ReadProps ==
    ASSUME TypeInv
    PROVE  /\ Len(ochk) \in Nat /\ Len(stores) \in Nat
           /\ Read \in Header(Len(ochk), Len(stores)) /\ Read.own = main
           /\ \E e : Continues(main, ochk, Read.continued, e)
<1>. DEFINE b == Len(ochk)
            M == Message(b, Len(stores))
            conts == OfTypes(main, {"cont"})
            t == [i \in DOMAIN conts |-> ochk[conts[i].block]]
<1>1. /\ main \in Seq(M) /\ ochk \in Seq(AttrMessage) /\ b \in Nat /\ Len(stores) \in Nat
  BY DEF TypeInv
<1>2. Read.own = main /\ Read.continued = t /\ Read = [own |-> main, continued |-> t]
  BY DEF Read
<1>3. conts \in Seq(M) /\ \E e : Picks(main, {"cont"}, Len(main), conts, e)
  BY <1>1, OfTypesPicks
<1>. HIDE DEF conts
<1>4. PICK e : Picks(main, {"cont"}, Len(main), conts, e)
  BY <1>3
<1>5. DOMAIN conts = 1 .. Len(conts) /\ Len(conts) \in Nat
  BY <1>3
<1>6. ASSUME NEW k \in 1 .. Len(conts) PROVE conts[k].block \in 1 .. b
  <2>1. conts[k].type = "cont"
    BY <1>4 DEF Picks
  <2>2. conts[k] \in M
    BY <1>3
  <2>. QED
    BY <2>1, <2>2, MessageKinds
<1>7. t \in [1 .. Len(conts) -> AttrMessage]
  BY <1>1, <1>5, <1>6
<1>8. t \in Seq(AttrMessage) /\ Len(t) = Len(conts)
  BY <1>5, <1>7
<1>9. \A k \in 1 .. Len(conts) : t[k] = ochk[conts[k].block]
  BY <1>5
<1>. HIDE DEF t, b
<1>10. Continues(main, ochk, t, e)
  BY <1>4, <1>8, <1>9 DEF Picks, Continues
<1>11. Read \in Header(b, Len(stores))
  BY <1>1, <1>2, <1>8 DEF Header
<1>. QED
  BY <1>1, <1>2, <1>10, <1>11 DEF b

\* What the attribute messages of s say.
Lists(s, as) ==
    /\ \A i \in 1 .. Len(s) : s[i].type = "attr" =>
           s[i].name \in DOMAIN as /\ s[i].val = as[s[i].name]
    /\ \A x \in DOMAIN as : \E i \in 1 .. Len(s) : s[i].type = "attr" /\ s[i].name = x
    /\ \A i, j \in 1 .. Len(s) :
           (s[i].type = "attr" /\ s[j].type = "attr" /\ s[i].name = s[j].name) => i = j

\* A reader lists what the main chunk carries.
LEMMA CarriedIsListed ==
    ASSUME TypeInv, Carries(main, ochk, attrs)
    PROVE  Lists(Messages(Read), attrs)
<1>. DEFINE oh == Read
            s == Messages(oh)
            a == Len(main)
            c == Len(oh.continued)
<1>1. /\ Len(ochk) \in Nat /\ Len(stores) \in Nat
      /\ oh \in Header(Len(ochk), Len(stores)) /\ oh.own = main
  BY ReadProps
<1>2. PICK e : Continues(main, ochk, oh.continued, e)
  BY ReadProps
<1>. HIDE DEF oh
<1>3. /\ a \in Nat /\ c \in Nat /\ Len(s) = a + c
      /\ \A i \in 1 .. a : s[i] = main[i]
      /\ \A i \in 1 .. c : s[a + i] = oh.continued[i]
  BY <1>1, MessagesProps
<1>4. \A k \in 1 .. c : oh.continued[k].type = "attr"
  <2>1. oh.continued \in Seq(AttrMessage)
    BY <1>1, MessagesProps
  <2>2. \A k \in 1 .. c : oh.continued[k] \in AttrMessage
    BY <2>1
  <2>. QED
    BY <2>2 DEF AttrMessage
<1>. DEFINE from(i) == IF i <= a THEN i ELSE e[i - a]
<1>5. ASSUME NEW i \in 1 .. (a + c), s[i].type = "attr"
      PROVE  /\ from(i) \in 1 .. a /\ Carrier(main[from(i)])
             /\ Carried(ochk, main[from(i)]) = s[i]
             /\ main[from(i)].type = (IF i <= a THEN "attr" ELSE "cont")
  <2>1. CASE i <= a
    <3>1. i \in 1 .. a
      BY <2>1, <1>3
    <3>2. s[i] = main[i]
      BY <3>1, <1>3
    <3>. QED
      BY <2>1, <3>1, <3>2, <1>5 DEF Carrier, Carried
  <2>2. CASE ~ (i <= a)
    <3>. DEFINE k == i - a
    <3>1. k \in 1 .. c /\ a + k = i
      BY <2>2, <1>3, TwoParts
    <3>. HIDE DEF k
    <3>2. s[i] = oh.continued[k]
      BY <3>1, <1>3
    <3>3. e[k] \in 1 .. a /\ main[e[k]].type = "cont"
          /\ oh.continued[k] = ochk[main[e[k]].block]
      BY <3>1, <1>2 DEF Continues
    <3>4. from(i) = e[k]
      BY <2>2 DEF k
    <3>. HIDE DEF from
    <3>. QED
      BY <2>2, <3>2, <3>3, <3>4 DEF Carrier, Carried
  <2>. QED
    BY <2>1, <2>2
<1>6. ASSUME NEW i \in 1 .. (a + c), NEW j \in 1 .. (a + c),
             s[i].type = "attr", s[j].type = "attr", from(i) = from(j)
      PROVE  i = j
  <2>1. (i <= a) <=> (j <= a)
    <3>1. /\ main[from(i)].type = (IF i <= a THEN "attr" ELSE "cont")
          /\ main[from(j)].type = (IF j <= a THEN "attr" ELSE "cont")
      BY <1>5, <1>6
    <3>. HIDE DEF from
    <3>. QED
      BY <3>1, <1>6
  <2>2. CASE i <= a
    BY <2>1, <2>2, <1>6
  <2>3. CASE ~ (i <= a)
    <3>1. i - a \in 1 .. c /\ j - a \in 1 .. c /\ a + (i - a) = i /\ a + (j - a) = j
      BY <2>1, <2>3, <1>3, TwoParts
    <3>2. e[i - a] = e[j - a]
      BY <2>1, <2>3, <1>6
    <3>3. i - a = j - a
      BY <3>1, <3>2, <1>2 DEF Continues
    <3>. QED
      BY <3>1, <3>3
  <2>. QED
    BY <2>2, <2>3
<1>7. ASSUME NEW k \in 1 .. a, Carrier(main[k])
      PROVE  \E i \in 1 .. (a + c) : s[i].type = "attr" /\ s[i] = Carried(ochk, main[k])
  <2>1. CASE main[k].type = "attr"
    BY <2>1, <1>3, TwoParts DEF Carried
  <2>2. CASE main[k].type = "cont"
    <3>1. PICK x \in 1 .. c : e[x] = k
      BY <2>2, <1>2 DEF Continues
    <3>2. a + x \in 1 .. (a + c) /\ s[a + x] = oh.continued[x]
      BY <1>3, TwoParts
    <3>3. oh.continued[x] = Carried(ochk, main[k])
      BY <2>2, <3>1, <1>2 DEF Continues, Carried
    <3>. QED
      BY <3>2, <3>3, <1>4
  <2>. QED
    BY <2>1, <2>2, <1>7 DEF Carrier
<1>. HIDE DEF from, s, a, c
<1>8. ASSUME NEW i \in 1 .. (a + c), s[i].type = "attr"
      PROVE  s[i].name \in DOMAIN attrs /\ s[i].val = attrs[s[i].name]
  <2>1. from(i) \in 1 .. a /\ Carrier(main[from(i)]) /\ Carried(ochk, main[from(i)]) = s[i]
    BY <1>5, <1>8
  <2>. QED
    BY <2>1 DEF Carries, a
<1>9. ASSUME NEW x \in DOMAIN attrs
      PROVE  \E i \in 1 .. (a + c) : s[i].type = "attr" /\ s[i].name = x
  <2>1. PICK k \in 1 .. a : Carrier(main[k]) /\ Carried(ochk, main[k]).name = x
    BY DEF Carries, a
  <2>. QED
    BY <2>1, <1>7
<1>10. ASSUME NEW i \in 1 .. (a + c), NEW j \in 1 .. (a + c),
              s[i].type = "attr", s[j].type = "attr", s[i].name = s[j].name
       PROVE  i = j
  <2>1. /\ from(i) \in 1 .. a /\ Carrier(main[from(i)])
        /\ Carried(ochk, main[from(i)]) = s[i]
    BY <1>5, <1>10
  <2>2. /\ from(j) \in 1 .. a /\ Carrier(main[from(j)])
        /\ Carried(ochk, main[from(j)]) = s[j]
    BY <1>5, <1>10
  <2>3. from(i) = from(j)
    BY <2>1, <2>2, <1>10 DEF Carries, a
  <2>. QED
    BY <2>3, <1>6, <1>10
<1>11. Lists(s, attrs)
  BY <1>3, <1>8, <1>9, <1>10 DEF Lists
<1>. QED
  BY <1>11 DEF s, oh

-----------------------------------------------------------------------------
(* What a chunk carries after it was changed *)

With(as, x, v) == [y \in DOMAIN as \cup {x} |-> IF y = x THEN v ELSE as[y]]
Less(as, x) == [y \in DOMAIN as \ {x} |-> as[y]]

LEMMA AttrProps ==
    ASSUME NEW x, NEW v
    PROVE  /\ Attr(x, v).type = "attr" /\ Attr(x, v).name = x /\ Attr(x, v).val = v
           /\ Carrier(Attr(x, v)) /\ \A blocks : Carried(blocks, Attr(x, v)) = Attr(x, v)
  BY DEF Attr, Carrier, Carried

LEMMA CarriesFilter ==
    ASSUME NEW M, NEW s \in Seq(M), NEW T, {"attr", "cont"} \subseteq T,
           NEW blocks, NEW as, Carries(s, blocks, as)
    PROVE  Carries(OfTypes(s, T), blocks, as)
<1>. DEFINE t == OfTypes(s, T)
<1>1. PICK e : Picks(s, T, Len(s), t, e)
  BY OfTypesPicks
<1>. HIDE DEF t
<1>2. /\ \A k \in 1 .. Len(t) : e[k] \in 1 .. Len(s) /\ t[k] = s[e[k]]
      /\ \A j, k \in 1 .. Len(t) : e[j] = e[k] => j = k
      /\ \A i \in 1 .. Len(s) : s[i].type \in T => \E k \in 1 .. Len(t) : e[k] = i
  BY <1>1 DEF Picks
<1>3. ASSUME NEW k \in 1 .. Len(t), Carrier(t[k])
      PROVE  /\ Carried(blocks, t[k]).name \in DOMAIN as
             /\ Carried(blocks, t[k]).val = as[Carried(blocks, t[k]).name]
  <2>1. e[k] \in 1 .. Len(s) /\ t[k] = s[e[k]]
    BY <1>2
  <2>2. Carrier(s[e[k]])
    BY <2>1, <1>3
  <2>3. /\ Carried(blocks, s[e[k]]).name \in DOMAIN as
        /\ Carried(blocks, s[e[k]]).val = as[Carried(blocks, s[e[k]]).name]
    BY <2>1, <2>2 DEF Carries
  <2>. QED
    BY <2>1, <2>3
<1>4. ASSUME NEW x \in DOMAIN as
      PROVE  \E k \in 1 .. Len(t) : Carrier(t[k]) /\ Carried(blocks, t[k]).name = x
  <2>1. PICK i \in 1 .. Len(s) : Carrier(s[i]) /\ Carried(blocks, s[i]).name = x
    BY DEF Carries
  <2>2. PICK k \in 1 .. Len(t) : e[k] = i
    BY <2>1, <1>2 DEF Carrier
  <2>. QED
    BY <2>1, <2>2, <1>2
<1>5. ASSUME NEW j \in 1 .. Len(t), NEW k \in 1 .. Len(t), Carrier(t[j]), Carrier(t[k]),
             Carried(blocks, t[j]).name = Carried(blocks, t[k]).name
      PROVE  j = k
  <2>1. /\ e[j] \in 1 .. Len(s) /\ e[k] \in 1 .. Len(s)
        /\ t[j] = s[e[j]] /\ t[k] = s[e[k]]
    BY <1>2
  <2>2. e[j] = e[k]
    BY <2>1, <1>5 DEF Carries
  <2>. QED
    BY <2>2, <1>2
<1>6. Carries(t, blocks, as)
  BY <1>3, <1>4, <1>5 DEF Carries
<1>. QED
  BY <1>6 DEF t

LEMMA CarriesAppend ==
    ASSUME NEW M, NEW s \in Seq(M), NEW m \in M, NEW blocks, NEW as, NEW x, NEW v,
           Carries(s, blocks, as), Carrier(m), Carried(blocks, m) = Attr(x, v),
           x \notin DOMAIN as
    PROVE  Carries(Append(s, m), blocks, With(as, x, v))
<1>. DEFINE t == Append(s, m)
            n == Len(s)
            new == With(as, x, v)
<1>1. /\ n \in Nat /\ Len(t) = n + 1 /\ t[n + 1] = m
      /\ \A i \in 1 .. n : t[i] = s[i]
  OBVIOUS
<1>2. /\ DOMAIN new = DOMAIN as \cup {x} /\ new[x] = v
      /\ \A y \in DOMAIN as : y # x /\ new[y] = as[y]
  BY DEF With
<1>3. Carried(blocks, m).name = x /\ Carried(blocks, m).val = v
  BY AttrProps
<1>4. /\ \A i \in 1 .. (n + 1) : i # n + 1 => i \in 1 .. n
      /\ \A i \in 1 .. n : i \in 1 .. (n + 1)
      /\ n + 1 \in 1 .. (n + 1)
  BY <1>1
<1>. HIDE DEF t, new
<1>5. ASSUME NEW i \in 1 .. n, Carrier(s[i])
      PROVE  /\ Carried(blocks, s[i]).name \in DOMAIN as
             /\ Carried(blocks, s[i]).val = as[Carried(blocks, s[i]).name]
  BY <1>5 DEF Carries
<1>6. ASSUME NEW i \in 1 .. (n + 1), Carrier(t[i])
      PROVE  /\ Carried(blocks, t[i]).name \in DOMAIN new
             /\ Carried(blocks, t[i]).val = new[Carried(blocks, t[i]).name]
  <2>1. CASE i = n + 1
    BY <2>1, <1>1, <1>2, <1>3
  <2>2. CASE i # n + 1
    BY <2>2, <1>1, <1>2, <1>4, <1>5, <1>6
  <2>. QED
    BY <2>1, <2>2
<1>7. ASSUME NEW y \in DOMAIN new
      PROVE  \E i \in 1 .. (n + 1) : Carrier(t[i]) /\ Carried(blocks, t[i]).name = y
  <2>1. CASE y = x
    BY <2>1, <1>1, <1>3, <1>4
  <2>2. CASE y # x
    <3>1. PICK i \in 1 .. n : Carrier(s[i]) /\ Carried(blocks, s[i]).name = y
      BY <2>2, <1>2 DEF Carries
    <3>. QED
      BY <3>1, <1>1, <1>4
  <2>. QED
    BY <2>1, <2>2
<1>8. ASSUME NEW i \in 1 .. (n + 1), NEW j \in 1 .. (n + 1), Carrier(t[i]), Carrier(t[j]),
             Carried(blocks, t[i]).name = Carried(blocks, t[j]).name
      PROVE  i = j
  <2>1. ASSUME NEW k \in 1 .. n, Carrier(s[k]) PROVE Carried(blocks, s[k]).name # x
    BY <2>1, <1>2, <1>5
  <2>2. CASE i = n + 1 /\ j # n + 1
    BY <2>1, <2>2, <1>1, <1>3, <1>4, <1>8
  <2>3. CASE i # n + 1 /\ j = n + 1
    BY <2>1, <2>3, <1>1, <1>3, <1>4, <1>8
  <2>4. CASE i # n + 1 /\ j # n + 1
    <3>1. i \in 1 .. n /\ j \in 1 .. n /\ t[i] = s[i] /\ t[j] = s[j]
      BY <2>4, <1>1, <1>4
    <3>. QED
      BY <3>1, <1>8 DEF Carries
  <2>. QED
    BY <2>2, <2>3, <2>4
<1>9. Carries(t, blocks, new)
  BY <1>1, <1>6, <1>7, <1>8 DEF Carries
<1>. QED
  BY <1>9 DEF t, new

\* More blocks make no difference.
LEMMA CarriesBlocks ==
    ASSUME NEW b \in Nat, NEW n, NEW s \in Seq(Message(b, n)), NEW blocks, NEW more,
           \A k \in 1 .. b : more[k] = blocks[k], NEW as, Carries(s, blocks, as)
    PROVE  Carries(s, more, as)
<1>1. ASSUME NEW i \in 1 .. Len(s) PROVE Carried(more, s[i]) = Carried(blocks, s[i])
  <2>1. s[i] \in Message(b, n)
    OBVIOUS
  <2>2. s[i].type = "cont" => s[i].block \in 1 .. b
    BY <2>1, MessageKinds
  <2>. QED
    BY <2>2 DEF Carried
<1>. QED
  BY <1>1 DEF Carries

LEMMA CarriesReplace ==
    ASSUME NEW M, NEW s \in Seq(M), NEW blocks, NEW as, NEW i \in 1 .. Len(s),
           NEW x, NEW v, Carries(s, blocks, as), s[i].type = "attr", s[i].name = x
    PROVE  Carries([s EXCEPT ![i] = Attr(x, v)], blocks, With(as, x, v))
<1>. DEFINE t == [s EXCEPT ![i] = Attr(x, v)]
            new == With(as, x, v)
            name(k) == Carried(blocks, s[k]).name
<1>1. /\ Len(t) = Len(s) /\ t[i] = Attr(x, v)
      /\ \A k \in 1 .. Len(s) : k # i => t[k] = s[k]
  <2>1. s = [k \in 1 .. Len(s) |-> s[k]] /\ Len(s) \in Nat
    OBVIOUS
  <2>2. DOMAIN t = 1 .. Len(s) /\ t = [k \in 1 .. Len(s) |-> t[k]]
    BY <2>1
  <2>3. /\ t[i] = Attr(x, v) /\ \A k \in 1 .. Len(s) : k # i => t[k] = s[k]
    BY <2>1
  <2>. HIDE DEF t
  <2>4. Len(t) = Len(s)
    BY <2>1, <2>2
  <2>. QED
    BY <2>3, <2>4
<1>2. /\ DOMAIN new = DOMAIN as \cup {x} /\ new[x] = v
      /\ \A y \in DOMAIN as : y # x => new[y] = as[y]
  BY DEF With
<1>3. Carrier(s[i]) /\ name(i) = x
  BY DEF Carrier, Carried
<1>4. Carrier(t[i]) /\ Carried(blocks, t[i]).name = x /\ Carried(blocks, t[i]).val = v
  BY <1>1, AttrProps
<1>. HIDE DEF t, new
<1>5. ASSUME NEW k \in 1 .. Len(s), Carrier(t[k])
      PROVE  Carrier(s[k]) /\ Carried(blocks, t[k]).name = name(k)
  <2>1. CASE k = i
    BY <2>1, <1>3, <1>4
  <2>2. CASE k # i
    BY <2>2, <1>1, <1>5
  <2>. QED
    BY <2>1, <2>2
<1>7. ASSUME NEW k \in 1 .. Len(s), Carrier(t[k])
      PROVE  /\ Carried(blocks, t[k]).name \in DOMAIN new
             /\ Carried(blocks, t[k]).val = new[Carried(blocks, t[k]).name]
  <2>1. CASE k = i
    BY <2>1, <1>2, <1>4
  <2>2. CASE k # i
    <3>1. t[k] = s[k] /\ Carrier(s[k])
      BY <2>2, <1>1, <1>7
    <3>2. name(k) \in DOMAIN as /\ Carried(blocks, s[k]).val = as[name(k)]
      BY <3>1 DEF Carries
    <3>3. name(k) # x
      BY <2>2, <3>1, <1>3 DEF Carries
    <3>. QED
      BY <3>1, <3>2, <3>3, <1>2
  <2>. QED
    BY <2>1, <2>2
<1>8. ASSUME NEW y \in DOMAIN new
      PROVE  \E k \in 1 .. Len(s) : Carrier(t[k]) /\ Carried(blocks, t[k]).name = y
  <2>1. CASE y = x
    BY <2>1, <1>4
  <2>2. CASE y # x
    <3>1. PICK k \in 1 .. Len(s) : Carrier(s[k]) /\ name(k) = y
      BY <2>2, <1>2 DEF Carries
    <3>2. k # i
      BY <2>2, <3>1, <1>3
    <3>. QED
      BY <3>1, <3>2, <1>1
  <2>. QED
    BY <2>1, <2>2
<1>9. ASSUME NEW j \in 1 .. Len(s), NEW k \in 1 .. Len(s), Carrier(t[j]), Carrier(t[k]),
             Carried(blocks, t[j]).name = Carried(blocks, t[k]).name
      PROVE  j = k
  <2>1. Carrier(s[j]) /\ Carrier(s[k]) /\ name(j) = name(k)
    BY <1>5, <1>9
  <2>. QED
    BY <2>1 DEF Carries
<1>10. Carries(t, blocks, new)
  BY <1>1, <1>7, <1>8, <1>9 DEF Carries
<1>. QED
  BY <1>10 DEF t, new

LEMMA CarriesRemove ==
    ASSUME NEW M, NEW s \in Seq(M), NEW blocks, NEW as, NEW i \in 1 .. Len(s),
           NEW x, Carries(s, blocks, as), s[i].type = "attr", s[i].name = x
    PROVE  Carries(RemoveAt(s, i), blocks, Less(as, x))
<1>. DEFINE t == RemoveAt(s, i)
            new == Less(as, x)
            n == Len(s)
            at(k) == IF k < i THEN k ELSE k + 1
<1>1. n \in Nat
  OBVIOUS
<1>2. /\ Len(t) = n - 1
      /\ \A k \in 1 .. (n - 1) : t[k] = IF k < i THEN s[k] ELSE s[k + 1]
  BY <1>1, RemoveAtProps
<1>3. DOMAIN new = DOMAIN as \ {x} /\ \A y \in DOMAIN as : y # x => new[y] = as[y]
  BY DEF Less
<1>4. Carrier(s[i]) /\ Carried(blocks, s[i]).name = x
  BY DEF Carrier, Carried
<1>. HIDE DEF t, new
<1>5. ASSUME NEW k \in 1 .. (n - 1)
      PROVE  at(k) \in 1 .. n /\ at(k) # i /\ t[k] = s[at(k)]
  BY <1>1, <1>2
<1>6. \A j, k \in 1 .. (n - 1) : at(j) = at(k) => j = k
  BY <1>1
<1>7. ASSUME NEW k \in 1 .. n, k # i PROVE \E j \in 1 .. (n - 1) : at(j) = k
  <2>1. CASE k < i
    <3>1. k \in 1 .. (n - 1) /\ at(k) = k
      BY <2>1, <1>1
    <3>. QED
      BY <3>1
  <2>2. CASE ~ (k < i)
    <3>1. k - 1 \in 1 .. (n - 1) /\ at(k - 1) = k
      BY <2>2, <1>1, <1>7
    <3>. QED
      BY <3>1
  <2>. QED
    BY <2>1, <2>2
<1>. HIDE DEF at, n
<1>8. ASSUME NEW k \in 1 .. n, Carrier(s[k]), k # i
      PROVE  /\ Carried(blocks, s[k]).name \in DOMAIN new
             /\ Carried(blocks, s[k]).val = new[Carried(blocks, s[k]).name]
  <2>1. /\ Carried(blocks, s[k]).name \in DOMAIN as
        /\ Carried(blocks, s[k]).val = as[Carried(blocks, s[k]).name]
    BY <1>8 DEF Carries, n
  <2>2. Carried(blocks, s[k]).name # x
    BY <1>4, <1>8 DEF Carries, n
  <2>. QED
    BY <2>1, <2>2, <1>3
<1>9. ASSUME NEW k \in 1 .. (n - 1), Carrier(t[k])
      PROVE  /\ Carried(blocks, t[k]).name \in DOMAIN new
             /\ Carried(blocks, t[k]).val = new[Carried(blocks, t[k]).name]
  BY <1>5, <1>8, <1>9
<1>10. ASSUME NEW y \in DOMAIN new
       PROVE  \E k \in 1 .. (n - 1) : Carrier(t[k]) /\ Carried(blocks, t[k]).name = y
  <2>1. PICK k \in 1 .. n : Carrier(s[k]) /\ Carried(blocks, s[k]).name = y
    BY <1>3 DEF Carries, n
  <2>2. k # i
    BY <2>1, <1>3, <1>4
  <2>3. PICK j \in 1 .. (n - 1) : at(j) = k
    BY <2>2, <1>7
  <2>. QED
    BY <2>1, <2>3, <1>5
<1>11. ASSUME NEW j \in 1 .. (n - 1), NEW k \in 1 .. (n - 1), Carrier(t[j]), Carrier(t[k]),
              Carried(blocks, t[j]).name = Carried(blocks, t[k]).name
       PROVE  j = k
  <2>1. at(j) \in 1 .. n /\ at(k) \in 1 .. n /\ t[j] = s[at(j)] /\ t[k] = s[at(k)]
    BY <1>5
  <2>2. at(j) = at(k)
    BY <2>1, <1>11 DEF Carries, n
  <2>. QED
    BY <2>2, <1>6
<1>12. Carries(t, blocks, new)
  BY <1>2, <1>9, <1>10, <1>11 DEF Carries
<1>. QED
  BY <1>12 DEF t, new

-----------------------------------------------------------------------------
(* The operations keep the invariant *)

LEMMA StoresWith ==
    ASSUME NEW as \in Stores, NEW x \in Names, NEW v \in Values
    PROVE  With(as, x, v) \in Stores
<1>1. PICK D \in SUBSET Names : IsFiniteSet(D) /\ as \in [D -> Values]
  BY DEF Stores
<1>2. With(as, x, v) \in [D \cup {x} -> Values] /\ D \cup {x} \in SUBSET Names
  BY <1>1 DEF With
<1>3. IsFiniteSet(D \cup {x})
  BY <1>1, FS_AddElement
<1>. QED
  BY <1>2, <1>3 DEF Stores

LEMMA StoresLess ==
    ASSUME NEW as \in Stores, NEW x
    PROVE  Less(as, x) \in Stores
<1>1. PICK D \in SUBSET Names : IsFiniteSet(D) /\ as \in [D -> Values]
  BY DEF Stores
<1>2. Less(as, x) \in [D \ {x} -> Values] /\ D \ {x} \in SUBSET Names
  BY <1>1 DEF Less
<1>3. IsFiniteSet(D \ {x})
  BY <1>1, FS_RemoveElement
<1>. QED
  BY <1>2, <1>3 DEF Stores

LEMMA ReadStore ==
    ASSUME TypeInv
    PROVE  /\ StoreOf(Read) \in 0 .. Len(stores)
           /\ StoreOf(Read) = 0 <=> NoInfo(main)
           /\ StoreOf(Read) # 0 => \E i \in 1 .. Len(main) :
                  main[i].type = "info" /\ main[i].store = StoreOf(Read)
  BY ReadProps, StoreProps

LEMMA ReadStoreThen ==
    (TypeInv => /\ StoreOf(Read) \in 0 .. Len(stores)
                /\ StoreOf(Read) = 0 <=> NoInfo(main)
                /\ StoreOf(Read) # 0 => \E i \in 1 .. Len(main) :
                       main[i].type = "info" /\ main[i].store = StoreOf(Read))'
<1>1. TypeInv => /\ StoreOf(Read) \in 0 .. Len(stores)
                 /\ StoreOf(Read) = 0 <=> NoInfo(main)
                 /\ StoreOf(Read) # 0 => \E i \in 1 .. Len(main) :
                        main[i].type = "info" /\ main[i].store = StoreOf(Read)
  BY ReadStore
<1>. QED
  BY <1>1, PTL

Handle(b, n) == [created : BOOLEAN, cached : BOOLEAN, header : Header(b, n),
                 info : 0 .. n]

\* The object has no dense store after the operation.
LEMMA CompactWritten ==
    ASSUME Inv, kind' = kind, stores' = stores, known' = known,
           ochk' \in Seq(AttrMessage), kind = "dataset" => ochk' = <<>>,
           main' \in Seq(Message(Len(ochk'), Len(stores))), NoInfo(main'),
           room' \in Nat, AllocSize <= room', atEnd' \in BOOLEAN, spoilt' \in BOOLEAN,
           torn' \in BOOLEAN, attrs' \in Stores, handle' \in Handle(Len(ochk'), Len(stores)),
           handle'.info = 0, Pure(handle'.header.own),
           handle'.header.continued = <<>>, handle'.cached => kind = "dataset",
           ~ spoilt' => Carries(main', ochk', attrs')
    PROVE  Inv'
<1>1. TypeInv'
  BY DEF Inv, TypeInv, Handle
<1>2. FormInv'
  BY DEF FormInv, Pure
<1>3. HandleInv'
  BY DEF Inv, HandleInv
<1>4. ReadInv'
  <2>1. StoreOf(Read)' = 0
    BY <1>1, ReadStoreThen
  <2>. QED
    BY <2>1 DEF ReadInv
<1>. QED
  BY <1>1, <1>2, <1>3, <1>4 DEF Inv

LEMMA WrittenRoom ==
    ASSUME TypeInv, NEW b, NEW n, NEW s \in Seq(Message(b, n)), WriteOHDR(s)
    PROVE  /\ main' = s /\ room' \in Nat /\ room <= room' /\ AllocSize <= room'
           /\ torn' \in BOOLEAN
<1>1. Size(s) \in Nat /\ room \in Nat /\ AllocSize <= room /\ AllocSize \in Nat
  BY SizeNat, ConstantTypes DEF TypeInv
<1>2. main' = s /\ (room' = room \/ (Size(s) > room /\ room' = Size(s)))
  BY DEF WriteOHDR
<1>3. torn' \in BOOLEAN
  BY DEF WriteOHDR, Tears
<1>. QED
  BY <1>1, <1>2, <1>3

LEMMA NewAttr ==
    ASSUME NEW b \in Nat, NEW k \in Nat, NEW n \in Names, NEW v \in Values
    PROVE  Attr(n, v) \in AttrMessage /\ Attr(n, v) \in Message(b, k)
<1>1. Attr(n, v) \in AttrMessage
  BY DEF Attr, AttrMessage
<1>. QED
  BY <1>1, MessageGrows

LEMMA NoInfoMessages ==
    ASSUME NEW b \in Nat, NEW n \in Nat, NEW oh \in Header(b, n), NoInfo(oh.own)
    PROVE  NoInfo(Messages(oh))
<1>. SUFFICES ASSUME NEW i \in 1 .. Len(Messages(oh)) PROVE Messages(oh)[i].type # "info"
  BY DEF NoInfo
<1>1. \/ i \in 1 .. Len(oh.own) /\ Messages(oh)[i] = oh.own[i]
      \/ /\ i - Len(oh.own) \in 1 .. Len(oh.continued)
         /\ Messages(oh)[i] = oh.continued[i - Len(oh.own)]
  BY MessagesSplit
<1>2. oh.continued \in Seq(AttrMessage)
  BY MessagesProps
<1>3. \A k \in 1 .. Len(oh.continued) : oh.continued[k] \in AttrMessage
  BY <1>2
<1>. QED
  BY <1>1, <1>3 DEF NoInfo, AttrMessage

\* What an operation on compact attributes knows of the header that it read.
LEMMA CompactRead ==
    ASSUME Inv, StoreOf(Read) = 0
    PROVE  /\ NoInfo(main) /\ NoInfo(Messages(Read))
           /\ Messages(Read) \in Seq(Message(Len(ochk), Len(stores)))
           /\ ~ spoilt => Carries(main, ochk, attrs)
           /\ ~ spoilt /\ Read.continued = <<>> => Messages(Read) = main
           /\ \A x : ~ spoilt /\ IndexOf(Messages(Read), x) = 0 => x \notin DOMAIN attrs
<1>. DEFINE oh == Read
            s == Messages(oh)
<1>0. TypeInv /\ ReadInv
  BY DEF Inv
<1>1. /\ Len(ochk) \in Nat /\ Len(stores) \in Nat
      /\ oh \in Header(Len(ochk), Len(stores)) /\ oh.own = main
  BY <1>0, ReadProps
<1>2. NoInfo(main)
  BY <1>0, ReadStore
<1>3. ~ spoilt => Carries(main, ochk, attrs)
  BY <1>0 DEF ReadInv
<1>4. ~ spoilt => Lists(s, attrs)
  BY <1>0, <1>3, CarriedIsListed
<1>. HIDE DEF oh
<1>5. s \in Seq(Message(Len(ochk), Len(stores))) /\ (oh.continued = <<>> => s = main)
  BY <1>1, MessagesProps
<1>6. NoInfo(s)
  BY <1>1, <1>2, NoInfoMessages
<1>. HIDE DEF s
<1>7. ASSUME NEW x, ~ spoilt, IndexOf(s, x) = 0 PROVE x \notin DOMAIN attrs
  <2>1. \A j \in 1 .. Len(s) : ~ (s[j].type = "attr" /\ s[j].name = x)
    BY <1>5, <1>7, IndexProps
  <2>. QED
    BY <2>1, <1>4, <1>7 DEF Lists
<1>. QED
  BY <1>2, <1>3, <1>5, <1>6, <1>7 DEF s, oh

LEMMA SameHandle ==
    ASSUME Inv
    PROVE  /\ handle \in Handle(Len(ochk), Len(stores)) /\ Pure(handle.header.own)
           /\ handle.header.continued = <<>> /\ (handle.cached => kind = "dataset")
           /\ (kind = "dataset" => ochk = <<>> /\ known = 0)
           /\ Len(ochk) \in Nat /\ Len(stores) \in Nat
  BY DEF Inv, TypeInv, FormInv, HandleInv, Handle

LEMMA ReplaceCompactKeeps ==
    ASSUME Inv, NEW n \in Names, NEW v \in Values, ReplaceCompact(n, v)
    PROVE  Inv'
<1>. DEFINE oh == Read
            s == Messages(oh)
            i == IndexOf(s, n)
            t == [s EXCEPT ![i] = Attr(n, v)]
            M == Message(Len(ochk), Len(stores))
<1>1. /\ handle.info = 0 /\ StoreOf(oh) = 0 /\ i # 0 /\ WriteOHDR(t)
      /\ attrs' = With(attrs, n, v) /\ spoilt' = (spoilt \/ oh.continued # <<>>)
      /\ UNCHANGED <<kind, ochk, stores, known, atEnd, handle>>
  BY DEF ReplaceCompact, IsCompact, Acknowledge, With
<1>2. /\ NoInfo(s) /\ s \in Seq(M)
      /\ ~ spoilt => Carries(main, ochk, attrs)
      /\ ~ spoilt /\ oh.continued = <<>> => s = main
  BY <1>1, CompactRead
<1>. HIDE DEF oh, s, M
<1>3. i \in 1 .. Len(s) /\ s[i].type = "attr" /\ s[i].name = n /\ Len(s) \in Nat
  <2>1. i \in 0 .. Len(s) /\ s[i].type = "attr" /\ s[i].name = n
    BY <1>1, <1>2, IndexProps
  <2>2. Len(s) \in Nat
    BY <1>2
  <2>. QED
    BY <2>1, <2>2, <1>1
<1>. HIDE DEF i
<1>4. Attr(n, v) \in M
  BY SameHandle, NewAttr DEF M
<1>5. /\ t \in Seq(M) /\ Len(t) = Len(s)
      /\ \A k \in 1 .. Len(s) : t[k] = IF k = i THEN Attr(n, v) ELSE s[k]
  BY <1>2, <1>3, <1>4
<1>6. NoInfo(t)
  BY <1>2, <1>5, AttrProps DEF NoInfo
<1>7. ~ spoilt' => Carries(t, ochk, With(attrs, n, v))
  <2>. SUFFICES ASSUME ~ spoilt' PROVE Carries(t, ochk, With(attrs, n, v))
    OBVIOUS
  <2>1. s = main /\ Carries(s, ochk, attrs)
    BY <1>1, <1>2
  <2>. QED
    BY <2>1, <1>2, <1>3, CarriesReplace
<1>. HIDE DEF t
<1>8. main' = t /\ room' \in Nat /\ AllocSize <= room' /\ torn' \in BOOLEAN
  BY <1>1, <1>5, WrittenRoom DEF M, Inv
<1>9. attrs' \in Stores /\ atEnd' \in BOOLEAN /\ spoilt' \in BOOLEAN
  BY <1>1, StoresWith DEF Inv, TypeInv
<1>10. ochk \in Seq(AttrMessage)
  BY DEF Inv, TypeInv
<1>. QED
  BY <1>1, <1>5, <1>6, <1>7, <1>8, <1>9, <1>10, SameHandle, CompactWritten DEF M

\* filterMainChunkMessages keeps what carries an attribute.
LEMMA FilterProps ==
    ASSUME Inv, NEW s, s = FilterMainChunkMessages(Read)
    PROVE  /\ s \in Seq(Message(Len(ochk), Len(stores)))
           /\ NoInfo(main) => NoInfo(s)
           /\ Carries(main, ochk, attrs) => Carries(s, ochk, attrs)
<1>. DEFINE M == Message(Len(ochk), Len(stores))
            T == Types \ {"nil"}
<1>1. main \in Seq(M) /\ Read.own = main
  BY ReadProps DEF Inv, TypeInv
<1>2. s = OfTypes(main, T)
  BY <1>1 DEF FilterMainChunkMessages
<1>3. {"attr", "cont"} \subseteq T
  BY DEF Types
<1>. HIDE DEF M, T
<1>4. s \in Seq(M) /\ \E e : Picks(main, T, Len(main), s, e)
  BY <1>1, <1>2, OfTypesPicks
<1>5. PICK e : Picks(main, T, Len(main), s, e)
  BY <1>4
<1>6. NoInfo(main) => NoInfo(s)
  BY <1>5 DEF Picks, NoInfo
<1>7. Carries(main, ochk, attrs) => Carries(s, ochk, attrs)
  BY <1>1, <1>2, <1>3, CarriesFilter
<1>. QED
  BY <1>4, <1>6, <1>7 DEF M

LEMMA NoInfoAppend ==
    ASSUME NEW M, NEW s \in Seq(M), NEW m \in M, NoInfo(s), m.type # "info"
    PROVE  Append(s, m) \in Seq(M) /\ NoInfo(Append(s, m))
<1>1. /\ Append(s, m) \in Seq(M) /\ Len(Append(s, m)) = Len(s) + 1 /\ Len(s) \in Nat
      /\ \A i \in 1 .. (Len(s) + 1) : Append(s, m)[i] = IF i <= Len(s) THEN s[i] ELSE m
  OBVIOUS
<1>2. ASSUME NEW i \in 1 .. (Len(s) + 1) PROVE Append(s, m)[i].type # "info"
  <2>1. i <= Len(s) => i \in 1 .. Len(s)
    BY <1>1
  <2>. QED
    BY <2>1, <1>1 DEF NoInfo
<1>. QED
  BY <1>1, <1>2 DEF NoInfo

LEMMA AddCompactKeeps ==
    ASSUME Inv, NEW n \in Names, NEW v \in Values, AddCompact(n, v)
    PROVE  Inv'
<1>. DEFINE s == FilterMainChunkMessages(Read)
            t == Append(s, Attr(n, v))
            M == Message(Len(ochk), Len(stores))
<1>1. /\ handle.info = 0 /\ StoreOf(Read) = 0 /\ IndexOf(Messages(Read), n) = 0
      /\ WriteOHDR(t) /\ attrs' = With(attrs, n, v) /\ spoilt' = (spoilt \/ torn')
      /\ UNCHANGED <<kind, ochk, stores, known, atEnd, handle>>
  BY DEF AddCompact, IsCompact, Acknowledge, With
<1>2. /\ NoInfo(main) /\ (~ spoilt => Carries(main, ochk, attrs))
      /\ ~ spoilt => n \notin DOMAIN attrs
  BY <1>1, CompactRead
<1>3. s \in Seq(M) /\ NoInfo(s) /\ (~ spoilt => Carries(s, ochk, attrs))
  BY <1>2, FilterProps
<1>4. Attr(n, v) \in M /\ Attr(n, v).type # "info"
  BY SameHandle, NewAttr, AttrProps
<1>. HIDE DEF s, M
<1>5. t \in Seq(M) /\ NoInfo(t)
  BY <1>3, <1>4, NoInfoAppend
<1>6. ~ spoilt => Carries(t, ochk, With(attrs, n, v))
  BY <1>2, <1>3, <1>4, CarriesAppend, AttrProps
<1>. HIDE DEF t
<1>7. main' = t /\ room' \in Nat /\ AllocSize <= room' /\ torn' \in BOOLEAN
  BY <1>1, <1>5, WrittenRoom DEF M, Inv
<1>8. attrs' \in Stores /\ atEnd' \in BOOLEAN /\ spoilt' \in BOOLEAN
  BY <1>1, StoresWith DEF Inv, TypeInv
<1>9. ochk \in Seq(AttrMessage)
  BY DEF Inv, TypeInv
<1>10. ~ spoilt' => Carries(t, ochk, With(attrs, n, v))
  BY <1>1, <1>6
<1>. QED
  BY <1>1, <1>5, <1>7, <1>8, <1>9, <1>10, SameHandle, CompactWritten DEF M

LEMMA AddViaContinuationKeeps ==
    ASSUME Inv, NEW n \in Names, NEW v \in Values, AddViaContinuation(n, v)
    PROVE  Inv'
<1>. DEFINE s == FilterMainChunkMessages(Read)
            b == Len(ochk) + 1
            t == Append(s, Cont(b))
            blocks == Append(ochk, Attr(n, v))
            M == Message(Len(ochk), Len(stores))
            N == Message(b, Len(stores))
<1>1. /\ handle.info = 0 /\ StoreOf(Read) = 0 /\ IndexOf(Messages(Read), n) = 0
      /\ known # 0 /\ ochk' = blocks /\ Allocate
      /\ WriteOHDR(t) /\ attrs' = With(attrs, n, v) /\ spoilt' = (spoilt \/ torn')
      /\ UNCHANGED <<kind, stores, known, handle>>
  BY DEF AddViaContinuation, IsCompact, Acknowledge, With, Continued, Fits
<1>2. /\ NoInfo(main) /\ (~ spoilt => Carries(main, ochk, attrs))
      /\ ~ spoilt => n \notin DOMAIN attrs
  BY <1>1, CompactRead
<1>3. s \in Seq(M) /\ NoInfo(s) /\ (~ spoilt => Carries(s, ochk, attrs))
  BY <1>2, FilterProps
<1>4. Len(ochk) \in Nat /\ Len(stores) \in Nat /\ b \in Nat /\ Len(ochk) <= b
  BY SameHandle
<1>5. ochk \in Seq(AttrMessage) /\ Attr(n, v) \in AttrMessage
  BY <1>4, NewAttr DEF Inv, TypeInv
<1>6. /\ blocks \in Seq(AttrMessage) /\ Len(blocks) = b /\ blocks[b] = Attr(n, v)
      /\ \A k \in 1 .. Len(ochk) : blocks[k] = ochk[k]
  BY <1>4, <1>5
<1>7. s \in Seq(N) /\ Seq(M) \subseteq Seq(N) /\ Header(Len(ochk), Len(stores)) \subseteq Header(b, Len(stores))
  BY <1>3, <1>4, MessageGrows
<1>8. Cont(b) \in N /\ Cont(b).type = "cont" /\ Cont(b).block = b
  BY <1>4 DEF Cont, Message
<1>. HIDE DEF s, blocks, M, N
<1>9. t \in Seq(N) /\ NoInfo(t)
  BY <1>3, <1>7, <1>8, NoInfoAppend
<1>10. ~ spoilt => Carries(t, blocks, With(attrs, n, v))
  <2>. SUFFICES ASSUME ~ spoilt PROVE Carries(t, blocks, With(attrs, n, v))
    OBVIOUS
  <2>1. Carries(s, blocks, attrs)
    BY <1>3, <1>4, <1>6, CarriesBlocks DEF M
  <2>2. Carrier(Cont(b)) /\ Carried(blocks, Cont(b)) = Attr(n, v)
    BY <1>6, <1>8 DEF Carrier, Carried
  <2>. QED
    BY <2>1, <2>2, <1>2, <1>7, <1>8, CarriesAppend
<1>. HIDE DEF t
<1>11. main' = t /\ room' \in Nat /\ AllocSize <= room' /\ torn' \in BOOLEAN
  BY <1>1, <1>9, WrittenRoom DEF N, Inv
<1>12. attrs' \in Stores /\ atEnd' \in BOOLEAN /\ spoilt' \in BOOLEAN
  BY <1>1, StoresWith DEF Inv, TypeInv, Allocate
<1>13. handle' \in Handle(Len(ochk'), Len(stores)) /\ kind # "dataset"
  BY <1>1, <1>6, <1>7, SameHandle DEF Handle
<1>14. ~ spoilt' => Carries(t, blocks, With(attrs, n, v))
  BY <1>1, <1>10
<1>. QED
  BY <1>1, <1>6, <1>9, <1>11, <1>12, <1>13, <1>14, SameHandle, CompactWritten DEF N

LEMMA NonePicked ==
    ASSUME NEW M, NEW s \in Seq(M), NEW T, \A i \in 1 .. Len(s) : s[i].type \notin T
    PROVE  OfTypes(s, T) = <<>>
<1>. DEFINE t == OfTypes(s, T)
<1>1. t \in Seq(M) /\ \E e : Picks(s, T, Len(s), t, e)
  BY OfTypesPicks
<1>. HIDE DEF t
<1>2. PICK e : Picks(s, T, Len(s), t, e)
  BY <1>1
<1>3. \A k \in 1 .. Len(t) : FALSE
  BY <1>2 DEF Picks
<1>4. t = <<>>
  <2>1. Len(t) \in Nat
    BY <1>1
  <2>2. Len(t) = 0
    BY <2>1, <1>3
  <2>. QED
    BY <2>2, <1>1
<1>. QED
  BY <1>4 DEF t

\* The compact attributes of a header.
LEMMA CompactProps ==
    ASSUME NEW b \in Nat, NEW k \in Nat, NEW oh \in Header(b, k),
           NEW c, c = CompactAttrs(oh)
    PROVE  /\ c \in Seq(AttrMessage)
           /\ \E e : Picks(Messages(oh), {"attr"}, Len(Messages(oh)), c, e)
<1>. DEFINE s == Messages(oh)
            M == Message(b, k)
<1>1. s \in Seq(M)
  BY MessagesProps
<1>. HIDE DEF s, M
<1>2. c = OfTypes(s, {"attr"})
  BY DEF CompactAttrs, s
<1>3. c \in Seq(M) /\ \E e : Picks(s, {"attr"}, Len(s), c, e)
  BY <1>1, <1>2, OfTypesPicks
<1>4. PICK e : Picks(s, {"attr"}, Len(s), c, e)
  BY <1>3
<1>5. Len(c) \in Nat /\ c = [i \in 1 .. Len(c) |-> c[i]]
  BY <1>3
<1>6. ASSUME NEW i \in 1 .. Len(c) PROVE c[i] \in AttrMessage
  <2>1. c[i] \in M /\ c[i].type = "attr"
    BY <1>3, <1>4 DEF Picks
  <2>. QED
    BY <2>1, MessageKinds DEF M
<1>7. c \in [1 .. Len(c) -> AttrMessage]
  BY <1>5, <1>6
<1>8. c \in Seq(AttrMessage)
  BY <1>5, <1>7
<1>. QED
  BY <1>3, <1>8 DEF s

\* The new store has the attributes of the messages, and the new one.
LEMMA MigratedProps ==
    ASSUME NEW c \in Seq(AttrMessage), NEW n \in Names, NEW v \in Values
    PROVE  /\ Migrated(c, n, v) \in Stores
           /\ \A as \in Stores : Lists(c, as) => Migrated(c, n, v) = With(as, n, v)
<1>. DEFINE D == {c[i].name : i \in DOMAIN c}
            val(x) == IF x = n THEN v ELSE c[IndexOf(c, x)].val
<1>1. /\ DOMAIN c = 1 .. Len(c) /\ Len(c) \in Nat
      /\ \A i \in 1 .. Len(c) : c[i] \in AttrMessage
  OBVIOUS
<1>2. \A i \in 1 .. Len(c) : c[i].type = "attr" /\ c[i].name \in Names /\ c[i].val \in Values
  BY <1>1 DEF AttrMessage
<1>3. Migrated(c, n, v) = [x \in D \cup {n} |-> val(x)]
  BY DEF Migrated
<1>4. ASSUME NEW x \in D
      PROVE  IndexOf(c, x) \in 1 .. Len(c) /\ c[IndexOf(c, x)].name = x
  <2>1. PICK j \in 1 .. Len(c) : c[j].name = x
    BY <1>1
  <2>2. IndexOf(c, x) # 0
    BY <2>1, <1>2, IndexProps
  <2>3. IndexOf(c, x) \in 0 .. Len(c) /\ c[IndexOf(c, x)].name = x
    BY <2>2, IndexProps
  <2>. QED
    BY <2>2, <2>3, <1>1
<1>5. \A x \in D \cup {n} : val(x) \in Values
  BY <1>2, <1>4
<1>6. D \cup {n} \in SUBSET Names /\ IsFiniteSet(D \cup {n})
  <2>1. [i \in 1 .. Len(c) |-> c[i].name] \in Surjection(1 .. Len(c), D)
    BY <1>1 DEF Surjection
  <2>2. IsFiniteSet(1 .. Len(c))
    BY <1>1, FS_Interval
  <2>3. IsFiniteSet(D)
    BY <2>1, <2>2, FS_Surjection
  <2>. QED
    BY <2>3, <1>1, <1>2, FS_AddElement
<1>7. Migrated(c, n, v) \in Stores
  <2>. HIDE DEF D, val
  <2>1. Migrated(c, n, v) \in [D \cup {n} -> Values]
    BY <1>3, <1>5
  <2>. QED
    BY <2>1, <1>6 DEF Stores
<1>8. ASSUME NEW as \in Stores, Lists(c, as)
      PROVE  Migrated(c, n, v) = With(as, n, v)
  <2>1. D = DOMAIN as
    <3>1. \A i \in 1 .. Len(c) : c[i].name \in DOMAIN as
      BY <1>2, <1>8 DEF Lists
    <3>2. \A x \in DOMAIN as : \E i \in 1 .. Len(c) : c[i].name = x
      BY <1>8 DEF Lists
    <3>. QED
      BY <3>1, <3>2, <1>1
  <2>2. ASSUME NEW x \in D PROVE c[IndexOf(c, x)].val = as[x]
    <3>1. PICK i \in 1 .. Len(c) : i = IndexOf(c, x) /\ c[i].name = x
      BY <1>4
    <3>2. c[i].type = "attr"
      BY <1>2
    <3>3. c[i].val = as[c[i].name]
      BY <3>2, <1>8 DEF Lists
    <3>. QED
      BY <3>1, <3>3
  <2>3. \A x \in D \cup {n} : val(x) = IF x = n THEN v ELSE as[x]
    BY <2>2
  <2>. HIDE DEF D, val
  <2>. QED
    BY <2>1, <2>3, <1>3 DEF With
<1>. QED
  BY <1>7, <1>8

\* What the messages list, the attribute messages among them list.
LEMMA ListsCompact ==
    ASSUME NEW M, NEW s \in Seq(M), NEW c, NEW e, Picks(s, {"attr"}, Len(s), c, e),
           NEW as, Lists(s, as)
    PROVE  Lists(c, as)
<1>1. /\ \A k \in 1 .. Len(c) : /\ e[k] \in 1 .. Len(s) /\ c[k] = s[e[k]]
                                /\ s[e[k]].type = "attr"
      /\ \A j, k \in 1 .. Len(c) : e[j] = e[k] => j = k
      /\ \A i \in 1 .. Len(s) : s[i].type = "attr" => \E k \in 1 .. Len(c) : e[k] = i
  BY DEF Picks
<1>2. ASSUME NEW k \in 1 .. Len(c)
      PROVE  c[k].name \in DOMAIN as /\ c[k].val = as[c[k].name]
  <2>1. e[k] \in 1 .. Len(s) /\ c[k] = s[e[k]] /\ s[e[k]].type = "attr"
    BY <1>1
  <2>. QED
    BY <2>1 DEF Lists
<1>3. ASSUME NEW x \in DOMAIN as
      PROVE  \E k \in 1 .. Len(c) : c[k].type = "attr" /\ c[k].name = x
  <2>1. PICK i \in 1 .. Len(s) : s[i].type = "attr" /\ s[i].name = x
    BY DEF Lists
  <2>2. PICK k \in 1 .. Len(c) : e[k] = i
    BY <2>1, <1>1
  <2>. QED
    BY <2>1, <2>2, <1>1
<1>4. ASSUME NEW j \in 1 .. Len(c), NEW k \in 1 .. Len(c), c[j].name = c[k].name
      PROVE  j = k
  <2>1. e[j] \in 1 .. Len(s) /\ c[j] = s[e[j]] /\ s[e[j]].type = "attr"
    BY <1>1
  <2>2. e[k] \in 1 .. Len(s) /\ c[k] = s[e[k]] /\ s[e[k]].type = "attr"
    BY <1>1
  <2>3. e[j] = e[k]
    BY <2>1, <2>2, <1>4 DEF Lists
  <2>. QED
    BY <2>3, <1>1
<1>. QED
  BY <1>2, <1>3, <1>4 DEF Lists

\* A transition leaves nothing in the header but the attribute info message.
LEMMA TransitionWrites ==
    ASSUME Inv, NEW n, NEW v, TransitionToDense(n, v)
    PROVE  main' = <<Info(Len(stores) + 1)>>
<1>1. StoreOf(Read) = 0 /\ main' = Append(Structural(Read), Info(Len(stores) + 1))
  BY DEF TransitionToDense, NewInfo
<1>2. /\ NoInfo(main) /\ Read.own = main
      /\ main \in Seq(Message(Len(ochk), Len(stores)))
  BY <1>1, CompactRead, ReadProps DEF Inv, TypeInv
<1>3. ASSUME NEW i \in 1 .. Len(main)
      PROVE  main[i].type \notin Types \ {"attr", "cont", "nil"}
  BY <1>2 DEF NoInfo, Types
<1>4. Structural(Read) = <<>>
  BY <1>2, <1>3, NonePicked DEF Structural
<1>. QED
  BY <1>1, <1>4

LEMMA TransitionToDenseKeeps ==
    ASSUME Inv, NEW n \in Names, NEW v \in Values, TransitionToDense(n, v)
    PROVE  Inv'
<1>. DEFINE oh == Read
            c == CompactAttrs(oh)
            k == Len(stores) + 1
            new == Migrated(c, n, v)
            b == Len(ochk)
<1>1. /\ handle.info = 0 /\ StoreOf(oh) = 0 /\ stores' = Append(stores, new)
      /\ main' = Append(Structural(oh), Info(k)) /\ Allocate
      /\ attrs' = With(attrs, n, v)
      /\ UNCHANGED <<kind, ochk, known, room, handle, torn, spoilt>>
  BY DEF TransitionToDense, NewInfo, Acknowledge, With
<1>2. /\ b \in Nat /\ Len(stores) \in Nat /\ k \in Nat /\ Len(stores) <= k
      /\ oh \in Header(b, Len(stores)) /\ oh.own = main
  BY ReadProps DEF Inv
<1>3. /\ NoInfo(main) /\ Messages(oh) \in Seq(Message(b, Len(stores)))
      /\ main \in Seq(Message(b, Len(stores)))
      /\ ~ spoilt => Carries(main, ochk, attrs)
  BY <1>1, CompactRead DEF Inv, TypeInv
<1>4. ~ spoilt => Lists(Messages(oh), attrs)
  BY <1>3, CarriedIsListed DEF Inv
<1>. HIDE DEF oh
<1>6. main' = <<Info(k)>> /\ Info(k).type = "info" /\ Info(k).store = k
  BY TransitionWrites DEF Info
<1>7. c \in Seq(AttrMessage) /\ \E e : Picks(Messages(oh), {"attr"}, Len(Messages(oh)), c, e)
  BY <1>2, CompactProps
<1>. HIDE DEF c
<1>8. /\ new \in Stores
      /\ \A as \in Stores : Lists(c, as) => new = With(as, n, v)
  BY <1>7, MigratedProps
<1>9. ~ spoilt => new = With(attrs, n, v)
  <2>1. ~ spoilt => Lists(c, attrs)
    BY <1>3, <1>4, <1>7, ListsCompact
  <2>2. attrs \in Stores
    BY DEF Inv, TypeInv
  <2>. QED
    BY <2>1, <2>2, <1>8
<1>. HIDE DEF new
<1>10. /\ stores' \in Seq(Stores) /\ Len(stores') = k /\ stores'[k] = new
  <2>1. stores \in Seq(Stores)
    BY DEF Inv, TypeInv
  <2>. QED
    BY <2>1, <1>1, <1>8
<1>11. /\ Info(k) \in Message(b, k)
       /\ main' \in Seq(Message(b, k)) /\ Len(main') = 1 /\ main'[1] = Info(k)
  <2>1. Info(k) \in Message(b, k)
    BY <1>2 DEF Info, Message
  <2>. QED
    BY <2>1, <1>6
<1>12. handle \in Handle(b, k)
  <2>1. Header(b, Len(stores)) \subseteq Header(b, k) /\ 0 .. Len(stores) \subseteq 0 .. k
    BY <1>2, MessageGrows
  <2>. QED
    BY <2>1, SameHandle DEF Handle
<1>. HIDE DEF k
<1>13. TypeInv'
  <2>1. attrs' \in Stores /\ atEnd' \in BOOLEAN
    BY <1>1, StoresWith DEF Inv, TypeInv, Allocate
  <2>. QED
    BY <1>1, <1>10, <1>11, <1>12, <2>1 DEF Inv, TypeInv, Handle
<1>14. FormInv'
  BY <1>1, <1>6, <1>11, SameHandle DEF FormInv, Pure
<1>15. HandleInv'
  BY <1>1 DEF Inv, HandleInv
<1>16. StoreOf(Read)' = k
  BY <1>6, <1>11, <1>13, ReadStoreThen DEF NoInfo
<1>17. ReadInv'
  <2>1. k # 0
    BY <1>2 DEF k
  <2>. QED
    BY <2>1, <1>1, <1>9, <1>10, <1>16 DEF ReadInv
<1>. QED
  BY <1>13, <1>14, <1>15, <1>17 DEF Inv

\* A store of the object is changed, and nothing else.
LEMMA StoreWritten ==
    ASSUME Inv, NEW s, s = StoreOf(Read), s # 0, NEW new \in Stores,
           stores' = [stores EXCEPT ![s] = new], ~ spoilt => attrs' = new,
           attrs' \in Stores,
           UNCHANGED <<kind, main, ochk, known, room, atEnd, handle, torn, spoilt>>
    PROVE  Inv'
<1>1. s \in 1 .. Len(stores) /\ Len(stores) \in Nat /\ stores \in Seq(Stores)
  <2>1. s \in 0 .. Len(stores) /\ Len(stores) \in Nat /\ stores \in Seq(Stores)
    BY ReadStore, SameHandle DEF Inv, TypeInv
  <2>. QED
    BY <2>1
<1>2. /\ stores' \in Seq(Stores) /\ Len(stores') = Len(stores) /\ stores'[s] = new
  BY <1>1
<1>3. Read' = Read /\ StoreOf(Read)' = s
  BY DEF Read, StoreOf
<1>4. TypeInv'
  BY <1>2 DEF Inv, TypeInv
<1>5. FormInv' /\ HandleInv'
  BY <1>3 DEF Inv, FormInv, HandleInv, Pure
<1>6. ReadInv'
  BY <1>2, <1>3 DEF ReadInv
<1>. QED
  BY <1>4, <1>5, <1>6 DEF Inv

LEMMA WriteDenseKeeps ==
    ASSUME Inv, NEW n \in Names, NEW v \in Values, WriteDense(n, v)
    PROVE  Inv'
<1>. DEFINE s == DenseStore
            new == With(stores[s], n, v)
<1>1. /\ s # 0 /\ stores' = [stores EXCEPT ![s] = new] /\ attrs' = With(attrs, n, v)
      /\ UNCHANGED <<kind, main, ochk, known, room, atEnd, handle, torn, spoilt>>
  BY DEF WriteDense, Acknowledge, With
<1>2. s = StoreOf(Read)
  BY DEF DenseStore, Inv, HandleInv
<1>. HIDE DEF s
<1>3. stores[s] \in Stores
  <2>1. s \in 0 .. Len(stores) /\ Len(stores) \in Nat /\ stores \in Seq(Stores)
    BY <1>2, ReadStore, SameHandle DEF Inv, TypeInv
  <2>. QED
    BY <2>1, <1>1
<1>4. new \in Stores /\ attrs' \in Stores
  BY <1>1, <1>3, StoresWith DEF Inv, TypeInv
<1>5. ~ spoilt => attrs' = new
  BY <1>1, <1>2 DEF Inv, ReadInv
<1>. HIDE DEF new
<1>. QED
  BY <1>1, <1>2, <1>4, <1>5, StoreWritten

LEMMA DeleteDenseKeeps ==
    ASSUME Inv, NEW n \in Names, DeleteDense(n)
    PROVE  Inv'
<1>. DEFINE s == IF handle.cached THEN handle.info ELSE StoreOf(Read)
            new == Less(stores[s], n)
<1>1. /\ s # 0 /\ stores' = [stores EXCEPT ![s] = new] /\ attrs' = Less(attrs, n)
      /\ UNCHANGED <<kind, main, ochk, known, room, atEnd, handle, torn, spoilt>>
  BY DEF DeleteDense, Forget, Less
<1>2. s = StoreOf(Read)
  BY <1>1 DEF Inv, HandleInv
<1>. HIDE DEF s
<1>3. stores[s] \in Stores
  <2>1. s \in 0 .. Len(stores) /\ Len(stores) \in Nat /\ stores \in Seq(Stores)
    BY <1>2, ReadStore, SameHandle DEF Inv, TypeInv
  <2>. QED
    BY <2>1, <1>1
<1>4. new \in Stores /\ attrs' \in Stores
  BY <1>1, <1>3, StoresLess DEF Inv, TypeInv
<1>5. ~ spoilt => attrs' = new
  BY <1>1, <1>2 DEF Inv, ReadInv
<1>. HIDE DEF new
<1>. QED
  BY <1>1, <1>2, <1>4, <1>5, StoreWritten

\* The header without one of its attribute messages.
LEMMA WithoutProps ==
    ASSUME NEW b \in Nat, NEW n \in Nat, NEW oh \in Header(b, n), NoInfo(oh.own),
           NEW i \in 1 .. Len(Messages(oh)), NEW left, left = Without(oh, i)
    PROVE  /\ left \in Header(b, n) /\ NoInfo(left.own)
           /\ oh.continued = <<>> => /\ left.continued = <<>>
                                     /\ Messages(left) = RemoveAt(Messages(oh), i)
<1>. DEFINE s == oh.own
            t == oh.continued
            M == Message(b, n)
<1>1. /\ s \in Seq(M) /\ t \in Seq(AttrMessage) /\ Len(s) \in Nat /\ Len(t) \in Nat
      /\ oh = [own |-> s, continued |-> t] /\ (t = <<>> => Messages(oh) = s)
  BY MessagesProps DEF Header
<1>2. i \in 1 .. Len(s) \/ (~ (i <= Len(s)) /\ i - Len(s) \in 1 .. Len(t))
  BY MessagesSplit
<1>3. CASE i \in 1 .. Len(s)
  <2>. DEFINE u == RemoveAt(s, i)
  <2>1. i <= Len(s)
    BY <1>1, <1>3
  <2>2. left = [own |-> u, continued |-> t]
    BY <1>1, <2>1 DEF Without
  <2>3. /\ u \in Seq(M) /\ Len(u) = Len(s) - 1
        /\ \A k \in 1 .. (Len(s) - 1) : u[k] = IF k < i THEN s[k] ELSE s[k + 1]
    BY <1>1, <1>3, RemoveAtProps
  <2>. HIDE DEF u, M
  <2>4. NoInfo(u)
    <3>. SUFFICES ASSUME NEW k \in 1 .. (Len(s) - 1) PROVE u[k].type # "info"
      BY <2>3 DEF NoInfo
    <3>1. k \in 1 .. Len(s) /\ k + 1 \in 1 .. Len(s)
      BY <1>1
    <3>. QED
      BY <3>1, <2>3 DEF NoInfo
  <2>5. left \in Header(b, n) /\ left.own = u /\ left.continued = t
    BY <2>2, <2>3, <1>1 DEF Header, M
  <2>6. t = <<>> => Messages(left) = u /\ Messages(oh) = s
    BY <2>5, <1>1, MessagesProps
  <2>. QED
    BY <2>4, <2>5, <2>6 DEF u
<1>4. CASE ~ (i <= Len(s)) /\ i - Len(s) \in 1 .. Len(t)
  <2>. DEFINE u == RemoveAt(t, i - Len(s))
  <2>1. left = [own |-> s, continued |-> u]
    BY <1>1, <1>4 DEF Without
  <2>2. u \in Seq(AttrMessage)
    BY <1>1, <1>4, RemoveAtProps
  <2>3. t # <<>>
    BY <1>1, <1>4
  <2>. HIDE DEF u
  <2>4. left \in Header(b, n) /\ left.own = s
    BY <2>1, <2>2, <1>1 DEF Header, M
  <2>. QED
    BY <2>3, <2>4
<1>. QED
  BY <1>2, <1>3, <1>4

LEMMA DeleteCompactKeeps ==
    ASSUME Inv, NEW n \in Names, DeleteCompact(n)
    PROVE  Inv'
<1>. DEFINE oh == IF handle.cached THEN handle.header ELSE Read
            s == Messages(oh)
            i == IndexOf(s, n)
            left == Without(oh, i)
            b == Len(ochk)
            k == Len(stores)
<1>1. /\ IF handle.cached THEN handle.info = 0 ELSE StoreOf(oh) = 0
      /\ i # 0 /\ main' = Messages(left)
      /\ handle' = IF handle.cached THEN [handle EXCEPT !.header = left] ELSE handle
      /\ attrs' = Less(attrs, n)
      /\ spoilt' = (spoilt \/ oh.continued # <<>> \/ oh # Read)
      /\ UNCHANGED <<kind, ochk, stores, known, room, atEnd>>
      /\ torn' \in BOOLEAN
  BY DEF DeleteCompact, Forget, Less, Tears
<1>2. /\ b \in Nat /\ k \in Nat /\ Read \in Header(b, k) /\ Read.own = main
      /\ handle.header \in Header(b, k) /\ oh \in Header(b, k)
  BY ReadProps, SameHandle DEF Inv, Handle
<1>3. handle.cached => oh = handle.header /\ oh.continued = <<>> /\ Pure(oh.own)
  BY SameHandle
<1>4. ~ handle.cached => oh = Read /\ NoInfo(oh.own)
  BY <1>1, <1>2, ReadStore DEF Inv
<1>5. oh = Read => oh.own = main
  BY <1>2
<1>. HIDE DEF oh
<1>6. s \in Seq(Message(b, k)) /\ (oh.continued = <<>> => s = oh.own)
  BY <1>2, MessagesProps
<1>. HIDE DEF s
<1>7. i \in 1 .. Len(s) /\ s[i].type = "attr" /\ s[i].name = n /\ Len(s) \in Nat
  <2>1. i \in 0 .. Len(s) /\ s[i].type = "attr" /\ s[i].name = n
    BY <1>1, <1>6, IndexProps
  <2>2. Len(s) \in Nat
    BY <1>6
  <2>. QED
    BY <2>1, <2>2, <1>1
<1>. HIDE DEF i
<1>8. NoInfo(oh.own)
  <2>1. CASE handle.cached
    <3>1. s = oh.own /\ Pure(s)
      BY <2>1, <1>3, <1>6
    <3>2. Len(s) = 1 => i = 1
      BY <1>7
    <3>. QED
      BY <3>1, <3>2, <1>7 DEF Pure, NoInfo
  <2>. QED
    BY <2>1, <1>4
<1>9. /\ left \in Header(b, k) /\ NoInfo(left.own)
      /\ oh.continued = <<>> => left.continued = <<>> /\ Messages(left) = RemoveAt(s, i)
  BY <1>2, <1>7, <1>8, WithoutProps DEF s
<1>. HIDE DEF left
<1>10. main' \in Seq(Message(b, k)) /\ NoInfo(main')
  BY <1>1, <1>2, <1>9, MessagesProps, NoInfoMessages
<1>11. /\ handle' \in Handle(b, k) /\ handle'.info = 0 /\ Pure(handle'.header.own)
       /\ handle'.header.continued = <<>> /\ (handle'.cached => kind = "dataset")
  <2>1. CASE handle.cached
    <3>1. /\ handle' \in Handle(b, k) /\ handle'.header = left /\ handle'.info = handle.info
          /\ handle'.cached = handle.cached
      BY <2>1, <1>1, <1>9, SameHandle DEF Handle
    <3>. QED
      BY <2>1, <3>1, <1>1, <1>3, <1>9, SameHandle DEF Pure
  <2>2. CASE ~ handle.cached
    BY <2>2, <1>1, SameHandle DEF Inv, HandleInv
  <2>. QED
    BY <2>1, <2>2
<1>12. ~ spoilt' => Carries(main', ochk, attrs')
  <2>. SUFFICES ASSUME ~ spoilt' PROVE Carries(main', ochk, attrs')
    OBVIOUS
  <2>1. ~ spoilt /\ oh.continued = <<>> /\ oh = Read
    BY <1>1
  <2>2. s = main /\ NoInfo(main) /\ main' = RemoveAt(s, i)
    BY <2>1, <1>1, <1>5, <1>6, <1>8, <1>9
  <2>3. StoreOf(Read) = 0
    BY <2>2, ReadStore DEF Inv
  <2>4. Carries(s, ochk, attrs)
    BY <2>1, <2>2, <2>3 DEF Inv, ReadInv
  <2>. QED
    BY <2>2, <2>4, <1>1, <1>6, <1>7, CarriesRemove
<1>13. attrs' \in Stores /\ atEnd' \in BOOLEAN /\ spoilt' \in BOOLEAN
  BY <1>1, StoresLess DEF Inv, TypeInv
<1>14. ochk \in Seq(AttrMessage) /\ room \in Nat /\ AllocSize <= room
  BY DEF Inv, TypeInv
<1>. QED
  BY <1>1, <1>10, <1>11, <1>12, <1>13, <1>14, SameHandle, CompactWritten

\* No dataset has continuation blocks.
LEMMA NoBlocks ==
    ASSUME Inv, kind = "dataset"
    PROVE  Read.continued = <<>> /\ Messages(Read) = main
<1>. DEFINE t == Read.continued
<1>1. /\ Len(ochk) \in Nat /\ Len(stores) \in Nat
      /\ Read \in Header(Len(ochk), Len(stores)) /\ Read.own = main
  BY ReadProps DEF Inv
<1>2. PICK e : Continues(main, ochk, t, e)
  BY ReadProps DEF Inv
<1>3. /\ t \in Seq(AttrMessage) /\ Len(t) \in Nat /\ (t = <<>> => Messages(Read) = main)
  BY <1>1, MessagesProps
<1>4. Len(ochk) = 0 /\ main \in Seq(Message(Len(ochk), Len(stores)))
  BY DEF Inv, HandleInv, TypeInv
<1>. HIDE DEF t
<1>5. ASSUME NEW k \in 1 .. Len(t) PROVE FALSE
  <2>1. e[k] \in 1 .. Len(main) /\ main[e[k]].type = "cont"
    BY <1>2 DEF Continues
  <2>2. main[e[k]] \in Message(Len(ochk), Len(stores))
    BY <2>1, <1>4
  <2>3. main[e[k]].block \in 1 .. Len(ochk)
    BY <2>1, <2>2, MessageKinds
  <2>. QED
    BY <2>3, <1>4
<1>6. t = <<>>
  <2>1. Len(t) = 0
    BY <1>3, <1>5
  <2>. QED
    BY <2>1, <1>3
<1>. QED
  BY <1>3, <1>6 DEF t

LEMMA ResizeKeeps ==
    ASSUME Inv, Resize
    PROVE  Inv'
<1>. DEFINE oh == IF handle.cached THEN handle.header ELSE Read
            b == Len(ochk)
            k == Len(stores)
<1>1. /\ kind = "dataset" /\ handle.created /\ main' = Messages(oh)
      /\ handle' = [handle EXCEPT !.cached = TRUE, !.header = oh]
      /\ spoilt' = (spoilt \/ oh # Read)
      /\ UNCHANGED <<kind, ochk, stores, known, room, atEnd, torn, attrs>>
  BY DEF Resize
<1>2. /\ b \in Nat /\ k \in Nat /\ Read \in Header(b, k) /\ Read.own = main
      /\ handle.header \in Header(b, k) /\ oh \in Header(b, k)
  BY ReadProps, SameHandle DEF Inv, Handle
<1>3. oh.continued = <<>> /\ Pure(oh.own)
  BY <1>1, <1>2, NoBlocks, SameHandle DEF Inv, FormInv
<1>4. oh = Read => oh.own = main
  BY <1>2
<1>. HIDE DEF oh
<1>5. main' = oh.own /\ main' \in Seq(Message(b, k))
  BY <1>1, <1>2, <1>3, MessagesProps
<1>6. /\ handle' \in Handle(b, k) /\ handle'.header = oh /\ handle'.info = handle.info
      /\ handle.info = 0
  BY <1>1, <1>2, SameHandle DEF Handle, Inv, HandleInv
<1>7. TypeInv'
  BY <1>1, <1>5, <1>6 DEF Inv, TypeInv, Handle
<1>8. FormInv'
  BY <1>3, <1>5, <1>6 DEF FormInv, Pure
<1>9. HandleInv'
  BY <1>1, <1>3, <1>6 DEF Inv, HandleInv
<1>10. ReadInv'
  <2>1. ~ spoilt' => ~ spoilt /\ main' = main
    BY <1>1, <1>4, <1>5
  <2>2. main' = main => StoreOf(Read)' = StoreOf(Read)
    BY <1>1 DEF Read, StoreOf
  <2>. QED
    BY <2>1, <2>2, <1>1 DEF Inv, ReadInv
<1>. QED
  BY <1>7, <1>8, <1>9, <1>10 DEF Inv

LEMMA ReopenRootKeeps ==
    ASSUME Inv, ReopenRoot
    PROVE  Inv'
<1>1. /\ kind = "root" /\ known' = Size(Messages(Read))
      /\ UNCHANGED <<kind, main, ochk, stores, room, atEnd, handle, torn, attrs, spoilt>>
  BY DEF ReopenRoot
<1>2. Messages(Read) \in Seq(Message(Len(ochk), Len(stores)))
  BY ReadProps, MessagesProps DEF Inv
<1>3. known' \in Nat
  BY <1>1, <1>2, SizeNat
<1>4. Read' = Read /\ StoreOf(Read)' = StoreOf(Read)
  BY <1>1 DEF Read, StoreOf
<1>. QED
  BY <1>1, <1>3, <1>4 DEF Inv, TypeInv, FormInv, Pure, HandleInv, ReadInv

LEMMA OpenDatasetKeeps ==
    ASSUME Inv, OpenDataset
    PROVE  Inv'
<1>. DEFINE oh == Read
            s == StoreOf(oh)
<1>1. /\ kind = "dataset"
      /\ handle' = [created |-> FALSE, cached |-> TRUE, header |-> oh, info |-> s]
      /\ UNCHANGED <<kind, main, ochk, stores, known, room, atEnd, torn, attrs, spoilt>>
  BY DEF OpenDataset
<1>2. oh \in Header(Len(ochk), Len(stores)) /\ oh.own = main /\ s \in 0 .. Len(stores)
  BY ReadProps, ReadStore DEF Inv
<1>3. oh.continued = <<>>
  BY <1>1, NoBlocks
<1>4. StoreOf(Read)' = s
  BY <1>1 DEF Read, StoreOf
<1>5. ReadInv'
  BY <1>1, <1>4 DEF Inv, ReadInv
<1>. HIDE DEF s, oh
<1>6. TypeInv'
  BY <1>1, <1>2 DEF Inv, TypeInv
<1>7. FormInv' /\ HandleInv'
  BY <1>1, <1>2, <1>3, <1>4 DEF Inv, FormInv, Pure, HandleInv
<1>. QED
  BY <1>5, <1>6, <1>7 DEF Inv

LEMMA AllocateBehindKeeps ==
    ASSUME Inv, AllocateBehind
    PROVE  Inv'
<1>1. /\ atEnd' = FALSE
      /\ UNCHANGED <<kind, main, ochk, stores, known, room, handle, torn, attrs, spoilt>>
  BY DEF AllocateBehind
<1>2. Read' = Read /\ StoreOf(Read)' = StoreOf(Read)
  BY <1>1 DEF Read, StoreOf
<1>. QED
  BY <1>1, <1>2 DEF Inv, TypeInv, FormInv, Pure, HandleInv, ReadInv

\* Only a header without an info message is long enough to lose its tail.
LEMMA WriteBehindKeeps ==
    ASSUME Inv, WriteBehind
    PROVE  Inv'
<1>. DEFINE M == Message(Len(ochk), Len(stores))
<1>0. PICK k \in DOMAIN main :
          /\ Size(SubSeq(main, 1, k)) > room
          /\ \E j \in k .. Len(main) :
                main' = SubSeq(main, 1, k - 1) \o SubSeq(main, j + 1, Len(main))
  BY DEF WriteBehind
<1>1. PICK j \in k .. Len(main) :
          main' = SubSeq(main, 1, k - 1) \o SubSeq(main, j + 1, Len(main))
  BY <1>0
<1>2. /\ torn' \in BOOLEAN /\ spoilt' = TRUE
      /\ UNCHANGED <<kind, ochk, stores, known, room, atEnd, handle, attrs>>
  BY DEF WriteBehind
<1>3. main \in Seq(M) /\ ochk \in Seq(AttrMessage) /\ room \in Nat /\ AllocSize <= room
  BY DEF Inv, TypeInv
<1>. HIDE DEF M
<1>4. Len(main) \in Nat /\ k \in 1 .. Len(main) /\ DOMAIN main = 1 .. Len(main)
  BY <1>3
<1>5. NoInfo(main)
  <2>. SUFFICES ASSUME ~ NoInfo(main) PROVE FALSE
    OBVIOUS
  <2>1. Len(main) = 1
    BY DEF Inv, FormInv, Pure
  <2>2. k = 1 /\ main[1].type = "info"
    BY <2>1, <1>4 DEF NoInfo
  <2>3. SubSeq(main, 1, 1) = main
    BY <2>1, <1>3
  <2>4. Size(main) = InfoSize
    BY <2>1, <2>2, <1>3, SizeNat DEF M, MessageSize
  <2>5. InfoSize \in Nat /\ InfoSize <= room
    BY <1>3, ConstantTypes
  <2>6. InfoSize > room
    BY <2>2, <2>3, <2>4, <1>0
  <2>. QED
    BY <2>5, <2>6, <1>3
<1>. DEFINE s == SubSeq(main, 1, k - 1)
            t == SubSeq(main, j + 1, Len(main))
<1>6. /\ s \in Seq(M) /\ Len(s) = k - 1
      /\ \A i \in 1 .. (k - 1) : s[i] = main[i]
  BY <1>3, <1>4
<1>7. /\ t \in Seq(M) /\ Len(t) = Len(main) - j /\ j \in 1 .. Len(main)
      /\ \A i \in 1 .. (Len(main) - j) : t[i] = main[j + i]
  <2>1. j \in 1 .. Len(main) /\ Len(main) \in Nat
    BY <1>4
  <2>2. /\ t \in Seq(M)
        /\ Len(t) = IF j + 1 <= Len(main) THEN Len(main) - (j + 1) + 1 ELSE 0
        /\ \A i \in 1 .. (Len(main) - (j + 1) + 1) : t[i] = main[j + 1 + i - 1]
    BY <2>1, <1>3
  <2>3. Len(t) = Len(main) - j
    BY <2>1, <2>2
  <2>4. ASSUME NEW i \in 1 .. (Len(main) - j) PROVE t[i] = main[j + i]
    <3>1. i \in 1 .. (Len(main) - (j + 1) + 1) /\ j + 1 + i - 1 = j + i
      BY <2>1
    <3>. QED
      BY <3>1, <2>2
  <2>. QED
    BY <2>1, <2>2, <2>3, <2>4
<1>. HIDE DEF s, t
<1>8. main' = s \o t
  BY <1>1 DEF s, t
<1>9. NoInfo(s)
  BY <1>4, <1>5, <1>6 DEF NoInfo
<1>10. NoInfo(t)
  <2>. SUFFICES ASSUME NEW i \in 1 .. (Len(main) - j) PROVE t[i].type # "info"
    BY <1>7 DEF NoInfo
  <2>1. j + i \in 1 .. Len(main)
    BY <1>4, <1>7
  <2>. QED
    BY <2>1, <1>5, <1>7 DEF NoInfo
<1>11. main' \in Seq(M)
  BY <1>6, <1>7, <1>8
<1>12. NoInfo(main')
  <2>1. /\ Len(s) \in Nat /\ Len(t) \in Nat /\ Len(main') = Len(s) + Len(t)
        /\ \A i \in 1 .. (Len(s) + Len(t)) :
              main'[i] = IF i <= Len(s) THEN s[i] ELSE t[i - Len(s)]
    BY <1>6, <1>7, <1>8
  <2>. SUFFICES ASSUME NEW i \in 1 .. (Len(s) + Len(t)) PROVE main'[i].type # "info"
    BY <2>1 DEF NoInfo
  <2>2. \/ i <= Len(s) /\ i \in 1 .. Len(s)
        \/ ~ (i <= Len(s)) /\ i - Len(s) \in 1 .. Len(t)
    BY <2>1
  <2>. QED
    BY <2>1, <2>2, <1>9, <1>10 DEF NoInfo
<1>13. handle.info = 0
  <2>1. StoreOf(Read) = 0
    BY <1>5, ReadStore DEF Inv
  <2>. QED
    BY <2>1 DEF Inv, HandleInv
<1>14. attrs \in Stores /\ atEnd \in BOOLEAN
  BY DEF Inv, TypeInv
<1>. QED
  BY <1>2, <1>3, <1>11, <1>12, <1>13, <1>14, SameHandle, CompactWritten DEF M

LEMMA InitHolds == Init => Inv
<1>. SUFFICES ASSUME Init PROVE Inv
  OBVIOUS
<1>1. /\ kind \in Kinds /\ main = <<Padding>> /\ ochk = <<>> /\ stores = <<>>
      /\ known = (IF kind = "dataset" THEN 0 ELSE AllocSize) /\ room = AllocSize
      /\ atEnd = TRUE /\ torn = FALSE /\ spoilt = FALSE /\ attrs = <<>>
      /\ handle = [created |-> TRUE, cached |-> FALSE, header |-> NoHeader, info |-> 0]
  BY DEF Init
<1>2. Padding \in Message(0, 0) /\ Padding.type = "nil"
  BY DEF Message, Padding
<1>3. NoHeader \in Header(0, 0) /\ NoHeader.own = <<>> /\ NoHeader.continued = <<>>
  <2>1. <<>> \in Seq(Message(0, 0)) /\ <<>> \in Seq(AttrMessage)
    OBVIOUS
  <2>. QED
    BY <2>1 DEF Header, NoHeader
<1>4. <<>> \in Stores
  <2>1. <<>> \in [{} -> Values] /\ IsFiniteSet({})
    BY FS_EmptySet
  <2>. QED
    BY <2>1 DEF Stores
<1>5. Len(ochk) = 0 /\ Len(stores) = 0
  BY <1>1
<1>6. main \in Seq(Message(0, 0)) /\ Len(main) = 1 /\ main[1] = Padding
  <2>. HIDE DEF Message, Padding
  <2>. QED
    BY <1>1, <1>2
<1>7. TypeInv
  <2>1. main \in Seq(Message(Len(ochk), Len(stores)))
    BY <1>5, <1>6
  <2>2. handle \in [created : BOOLEAN, cached : BOOLEAN,
                    header : Header(Len(ochk), Len(stores)), info : 0 .. Len(stores)]
    BY <1>1, <1>3, <1>5
  <2>3. ochk \in Seq(AttrMessage) /\ stores \in Seq(Stores) /\ attrs \in Stores
    BY <1>1, <1>4
  <2>4. known \in Nat /\ room \in Nat /\ AllocSize <= room
    BY <1>1, ConstantTypes
  <2>. QED
    BY <1>1, <2>1, <2>2, <2>3, <2>4 DEF TypeInv
<1>8. NoInfo(main) /\ FormInv
  BY <1>1, <1>2, <1>3, <1>6 DEF FormInv, Pure, NoInfo
<1>9. HandleInv
  BY <1>1, <1>3 DEF HandleInv
<1>10. ReadInv
  <2>1. StoreOf(Read) = 0
    BY <1>7, <1>8, ReadStore
  <2>2. DOMAIN attrs = {} /\ \A i \in 1 .. Len(main) : ~ Carrier(main[i])
    BY <1>1, <1>2, <1>6 DEF Carrier
  <2>. QED
    BY <2>1, <2>2 DEF ReadInv, Carries
<1>. QED
  BY <1>7, <1>8, <1>9, <1>10 DEF Inv

LEMMA Step == Inv /\ [Next]_vars => Inv'
<1>. SUFFICES ASSUME Inv, [Next]_vars PROVE Inv'
  OBVIOUS
<1>1. ASSUME NEW n \in Names, NEW v \in Values, WriteAttribute(n, v) PROVE Inv'
  BY <1>1, ReplaceCompactKeeps, AddCompactKeeps, AddViaContinuationKeeps,
     TransitionToDenseKeeps, WriteDenseKeeps DEF WriteAttribute
<1>2. ASSUME NEW n \in Names, DeleteAttribute(n) PROVE Inv'
  BY <1>2, DeleteDenseKeeps, DeleteCompactKeeps DEF DeleteAttribute
<1>3. CASE Resize \/ ReopenRoot \/ OpenDataset \/ AllocateBehind \/ WriteBehind
  BY <1>3, ResizeKeeps, ReopenRootKeeps, OpenDatasetKeeps, AllocateBehindKeeps,
     WriteBehindKeeps
<1>4. CASE UNCHANGED vars
  <2>1. Read' = Read /\ StoreOf(Read)' = StoreOf(Read)
    BY <1>4 DEF vars, Read, StoreOf
  <2>. QED
    BY <1>4, <2>1 DEF vars, Inv, TypeInv, FormInv, Pure, HandleInv, ReadInv
<1>. QED
  BY <1>1, <1>2, <1>3, <1>4 DEF Next

-----------------------------------------------------------------------------
(* What the invariant implies *)

\* Where the header refers to a dense store there is no compact attribute.
LEMMA DenseRead ==
    ASSUME Inv, StoreOf(Read) # 0
    PROVE  /\ CompactAttrs(Read) = <<>>
           /\ \A x : IndexOf(Messages(Read), x) = 0
<1>. DEFINE oh == Read
            s == Messages(oh)
            t == oh.continued
<1>1. /\ Len(ochk) \in Nat /\ Len(stores) \in Nat
      /\ oh \in Header(Len(ochk), Len(stores)) /\ oh.own = main
  BY ReadProps DEF Inv
<1>2. PICK e : Continues(main, ochk, t, e)
  BY ReadProps DEF Inv
<1>3. \A i \in 1 .. Len(main) : main[i].type = "info"
  <2>1. ~ NoInfo(main)
    BY ReadStore DEF Inv
  <2>2. Len(main) = 1
    BY <2>1 DEF Inv, FormInv, Pure
  <2>. QED
    BY <2>1, <2>2 DEF NoInfo
<1>. HIDE DEF oh
<1>4. /\ t \in Seq(AttrMessage) /\ Len(t) \in Nat /\ (t = <<>> => s = main)
      /\ s \in Seq(Message(Len(ochk), Len(stores)))
  BY <1>1, MessagesProps
<1>. HIDE DEF t
<1>5. t = <<>>
  <2>1. ASSUME NEW k \in 1 .. Len(t) PROVE FALSE
    BY <1>2, <1>3 DEF Continues
  <2>2. Len(t) = 0
    BY <2>1, <1>4
  <2>. QED
    BY <2>2, <1>4
<1>6. s = main
  BY <1>4, <1>5
<1>. HIDE DEF s
<1>7. \A i \in 1 .. Len(s) : s[i].type \notin {"attr"}
  BY <1>3, <1>6
<1>8. OfTypes(s, {"attr"}) = <<>>
  BY <1>4, <1>7, NonePicked
<1>9. ASSUME NEW x PROVE IndexOf(s, x) = 0
  <2>. DEFINE i == IndexOf(s, x)
  <2>1. i \in 0 .. Len(s) /\ (i # 0 => s[i].type = "attr") /\ Len(s) \in Nat
    BY <1>4, IndexProps
  <2>. QED
    BY <2>1, <1>7
<1>. QED
  BY <1>8, <1>9 DEF CompactAttrs, s, oh

LEMMA InvTyped == Inv => TypeOK
<1>. SUFFICES ASSUME Inv PROVE TypeOK
  OBVIOUS
<1>. DEFINE isMessage(m) == \/ m = Padding
                            \/ m.type = "attr" /\ m.name \in Names /\ m.val \in Values
                            \/ m.type = "cont" /\ m.block \in DOMAIN ochk
                            \/ m.type = "info" /\ m.store \in DOMAIN stores
<1>1. TypeInv
  BY DEF Inv
<1>2. /\ DOMAIN ochk = 1 .. Len(ochk) /\ DOMAIN stores = 1 .. Len(stores)
      /\ DOMAIN main = 1 .. Len(main)
      /\ \A i \in 1 .. Len(main) : main[i] \in Message(Len(ochk), Len(stores))
      /\ \A i \in 1 .. Len(ochk) : ochk[i] \in AttrMessage
      /\ \A i \in 1 .. Len(stores) : stores[i] \in Stores
  BY <1>1 DEF TypeInv
<1>3. \A i \in DOMAIN main : isMessage(main[i])
  BY <1>2, MessageKinds DEF Types
<1>4. \A i \in DOMAIN ochk : isMessage(ochk[i]) /\ ochk[i].type = "attr"
  BY <1>2 DEF AttrMessage
<1>5. \A s \in Stores : s \in [DOMAIN s -> Values] /\ DOMAIN s \subseteq Names
  BY DEF Stores
<1>6. /\ \A i \in DOMAIN stores : stores[i] \in [DOMAIN stores[i] -> Values]
      /\ DOMAIN attrs \subseteq Names
  BY <1>1, <1>2, <1>5 DEF TypeInv
<1>7. /\ kind \in Kinds /\ known \in Nat /\ room \in Nat
      /\ {atEnd, torn, spoilt, handle.created, handle.cached} \subseteq BOOLEAN
      /\ handle.info \in 0 .. Len(stores)
  BY <1>1 DEF TypeInv
<1>. QED
  BY <1>3, <1>4, <1>6, <1>7 DEF TypeOK

\* As many messages as attributes.
LEMMA ListedCount ==
    ASSUME NEW c \in Seq(AttrMessage), NEW as, Lists(c, as)
    PROVE  Len(c) = Cardinality(DOMAIN as)
<1>. DEFINE p == [i \in 1 .. Len(c) |-> c[i].name]
<1>0. Len(c) \in Nat /\ \A i \in 1 .. Len(c) : c[i] \in AttrMessage
  OBVIOUS
<1>1. Len(c) \in Nat /\ \A i \in 1 .. Len(c) : c[i].type = "attr"
  BY <1>0 DEF AttrMessage
<1>2. p \in [1 .. Len(c) -> DOMAIN as] /\ \A i \in 1 .. Len(c) : p[i] = c[i].name
  BY <1>1 DEF Lists
<1>. HIDE DEF p
<1>3. \A i, j \in 1 .. Len(c) : p[i] = p[j] => i = j
  BY <1>1, <1>2 DEF Lists
<1>4. ASSUME NEW x \in DOMAIN as PROVE \E i \in 1 .. Len(c) : p[i] = x
  <2>1. PICK i \in 1 .. Len(c) : c[i].name = x
    BY DEF Lists
  <2>. QED
    BY <2>1, <1>2
<1>5. IsFiniteSet(1 .. Len(c)) /\ Cardinality(1 .. Len(c)) = Len(c)
  <2>. DEFINE n == Len(c)
  <2>1. n \in Nat
    BY <1>1
  <2>. HIDE DEF n
  <2>2. IsFiniteSet(1 .. n) /\ Cardinality(1 .. n) = IF 1 > n THEN 0 ELSE n - 1 + 1
    BY <2>1, FS_Interval
  <2>3. Cardinality(1 .. n) = n
    BY <2>1, <2>2
  <2>. QED
    BY <2>2, <2>3 DEF n
<1>6. Cardinality(DOMAIN as) = Cardinality(1 .. Len(c))
  BY <1>2, <1>3, <1>4, <1>5, SameCount
<1>. QED
  BY <1>5, <1>6

LEMMA InvReads == Inv => ReadsBack
<1>. SUFFICES ASSUME Inv, ~ spoilt PROVE ReadsBack
  BY DEF ReadsBack
<1>. DEFINE s == Messages(Read)
            c == CompactAttrs(Read)
<1>1. CASE StoreOf(Read) = 0
  <2>1. Dense = <<>> /\ Cardinality(DOMAIN Dense) = 0
    <3>1. Dense = <<>>
      BY <1>1 DEF Dense
    <3>2. DOMAIN Dense = {}
      BY <3>1
    <3>. QED
      BY <3>1, <3>2, FS_EmptySet
  <2>2. s \in Seq(Message(Len(ochk), Len(stores))) /\ Lists(s, attrs)
    BY <1>1, CompactRead, CarriedIsListed DEF Inv
  <2>3. /\ c \in Seq(AttrMessage)
        /\ \E e : Picks(s, {"attr"}, Len(s), c, e)
    BY ReadProps, CompactProps DEF Inv
  <2>. HIDE DEF s, c
  <2>4. Lists(c, attrs)
    BY <2>2, <2>3, ListsCompact
  <2>5. Len(c) = Cardinality(DOMAIN attrs) /\ Len(c) \in Nat
    BY <2>3, <2>4, ListedCount
  <2>6. ASSUME NEW x \in DOMAIN attrs
        PROVE  IndexOf(s, x) # 0 /\ s[IndexOf(s, x)].val = attrs[x]
    <3>. DEFINE i == IndexOf(s, x)
    <3>1. /\ i \in 0 .. Len(s) /\ (i # 0 => s[i].type = "attr" /\ s[i].name = x)
          /\ i = 0 => \A j \in 1 .. Len(s) : ~ (s[j].type = "attr" /\ s[j].name = x)
          /\ Len(s) \in Nat
      BY <2>2, IndexProps
    <3>. HIDE DEF i
    <3>2. i # 0
      BY <3>1, <2>2 DEF Lists
    <3>3. i \in 1 .. Len(s)
      BY <3>1, <3>2
    <3>4. s[i].val = attrs[s[i].name]
      BY <3>1, <3>2, <3>3, <2>2 DEF Lists
    <3>. QED
      BY <3>1, <3>2, <3>4 DEF i
  <2>. QED
    BY <2>1, <2>5, <2>6 DEF ReadsBack, Value, s, c
<1>2. CASE StoreOf(Read) # 0
  <2>1. Dense = attrs
    BY <1>2 DEF Dense, Inv, ReadInv
  <2>2. Len(c) = 0 /\ \A x : IndexOf(s, x) = 0
    BY <1>2, DenseRead
  <2>3. Cardinality(DOMAIN attrs) \in Nat
    <3>1. attrs \in Stores
      BY DEF Inv, TypeInv
    <3>2. IsFiniteSet(DOMAIN attrs)
      BY <3>1 DEF Stores
    <3>. QED
      BY <3>2, FS_CardinalityType
  <2>. QED
    BY <2>1, <2>2, <2>3 DEF ReadsBack, Value
<1>. QED
  BY <1>1, <1>2

-----------------------------------------------------------------------------
(* Adding an attribute stays inside the allocation of the header *)

\* The step of AddStaysInside.
AddInside ==
    (/\ 0 < known /\ known <= room /\ Inside
     /\ \E n \in DOMAIN attrs' \ DOMAIN attrs : IndexOf(Messages(Read), n) = 0)
        => Inside'

LEMMA AddedMessages ==
    ASSUME Inv, NEW n \in Names, NEW v \in Values, StoreOf(Read) = 0
    PROVE  /\ Append(FilterMainChunkMessages(Read), Attr(n, v))
                  \in Seq(Message(Len(ochk), Len(stores)))
           /\ Continued(Read) \in Seq(Message(Len(ochk) + 1, Len(stores)))
<1>. DEFINE s == FilterMainChunkMessages(Read)
            b == Len(ochk)
            k == Len(stores)
<1>1. b \in Nat /\ k \in Nat /\ b + 1 \in Nat /\ b <= b + 1 /\ k <= k
  BY SameHandle
<1>2. s \in Seq(Message(b, k)) /\ s \in Seq(Message(b + 1, k))
  <2>1. s \in Seq(Message(b, k))
    BY FilterProps
  <2>. QED
    BY <2>1, <1>1, MessageGrows
<1>3. Attr(n, v) \in Message(b, k)
  BY <1>1, NewAttr
<1>4. Cont(b + 1) \in Message(b + 1, k)
  BY <1>1 DEF Cont, Message
<1>. HIDE DEF s, k
<1>5. Append(s, Attr(n, v)) \in Seq(Message(b, k))
  BY <1>2, <1>3
<1>6. Append(s, Cont(b + 1)) \in Seq(Message(b + 1, k))
  BY <1>2, <1>4
<1>. QED
  BY <1>5, <1>6 DEF Continued, s, k

\* A header that is known to fit is written into its allocation.
LEMMA FittingWrite ==
    ASSUME Inv, NEW b, NEW k, NEW s \in Seq(Message(b, k)), WriteOHDR(s), Fits(s),
           0 < known, known <= room
    PROVE  Inside'
<1>1. main' = s /\ room' \in Nat /\ room <= room'
  BY WrittenRoom DEF Inv
<1>2. Size(s) \in Nat /\ known \in Nat /\ room \in Nat
  BY SizeNat DEF Inv, TypeInv
<1>3. Size(s) <= known
  BY <1>2 DEF Fits
<1>4. Size(s) <= room'
  BY <1>1, <1>2, <1>3
<1>. QED
  BY <1>1, <1>4 DEF Inside

LEMMA AddInsideStep == Inv /\ [Next]_vars => AddInside
<1>. SUFFICES ASSUME Inv, [Next]_vars, 0 < known, known <= room, Inside,
                     NEW x \in DOMAIN attrs' \ DOMAIN attrs,
                     IndexOf(Messages(Read), x) = 0
              PROVE  Inside'
  BY DEF AddInside
<1>1. ASSUME NEW n \in Names, NEW v \in Values, ReplaceCompact(n, v) PROVE Inside'
  <2>1. IndexOf(Messages(Read), n) # 0 /\ DOMAIN attrs' = DOMAIN attrs \cup {n}
    BY <1>1 DEF ReplaceCompact, Acknowledge
  <2>. QED
    BY <2>1
<1>2. ASSUME NEW n \in Names, NEW v \in Values, AddCompact(n, v) PROVE Inside'
  <2>. DEFINE s == Append(FilterMainChunkMessages(Read), Attr(n, v))
  <2>1. StoreOf(Read) = 0 /\ Fits(s) /\ WriteOHDR(s)
    BY <1>2 DEF AddCompact, IsCompact
  <2>. QED
    BY <2>1, AddedMessages, FittingWrite
<1>3. ASSUME NEW n \in Names, NEW v \in Values, AddViaContinuation(n, v) PROVE Inside'
  <2>1. StoreOf(Read) = 0 /\ Fits(Continued(Read)) /\ WriteOHDR(Continued(Read))
    BY <1>3 DEF AddViaContinuation, IsCompact
  <2>. QED
    BY <2>1, AddedMessages, FittingWrite
<1>4. ASSUME NEW n \in Names, NEW v \in Values, TransitionToDense(n, v) PROVE Inside'
  <2>. DEFINE k == Len(stores) + 1
  <2>1. main' = <<Info(k)>> /\ room' = room /\ room \in Nat /\ AllocSize <= room
    BY <1>4, TransitionWrites DEF TransitionToDense, Inv, TypeInv
  <2>2. k \in Nat /\ k \in 1 .. k
    BY SameHandle
  <2>. HIDE DEF k
  <2>3. Info(k) \in Message(0, k) /\ MessageSize(Info(k)) = InfoSize
    BY <2>2 DEF Info, Message, MessageSize
  <2>4. /\ <<Info(k)>> \in Seq(Message(0, k)) /\ Len(<<Info(k)>>) = 1
        /\ <<Info(k)>>[1] = Info(k)
    BY <2>3
  <2>5. Size(<<Info(k)>>) = InfoSize
    BY <2>3, <2>4, SizeNat
  <2>6. Size(<<Info(k)>>) <= room'
    BY <2>1, <2>5, ConstantTypes
  <2>. QED
    BY <2>1, <2>6 DEF Inside
<1>5. ASSUME NEW n \in Names, NEW v \in Values, WriteDense(n, v) PROVE Inside'
  BY <1>5 DEF WriteDense, Inside
<1>6. ASSUME NEW n \in Names, DeleteAttribute(n) PROVE Inside'
  <2>1. DOMAIN attrs' = DOMAIN attrs \ {n}
    BY <1>6 DEF DeleteAttribute, DeleteDense, DeleteCompact, Forget
  <2>. QED
    BY <2>1
<1>7. CASE Resize \/ ReopenRoot \/ OpenDataset \/ AllocateBehind \/ WriteBehind
           \/ UNCHANGED vars
  <2>1. attrs' = attrs
    BY <1>7 DEF Resize, ReopenRoot, OpenDataset, AllocateBehind, WriteBehind, vars
  <2>. QED
    BY <2>1
<1>. QED
  BY <1>1, <1>2, <1>3, <1>4, <1>5, <1>6, <1>7 DEF Next, WriteAttribute

-----------------------------------------------------------------------------
(* Theorems *)

\* The invariant, over every sequence of writes, deletions, resizes and
\* reopenings of the object.
THEOREM Invariance == Spec => []Inv
BY InitHolds, Step, PTL DEF Spec

\* TypeOK: a continuation message and an attribute info message of the header
\* on disk refer to a block and a store that were written before.
THEOREM TypeCorrect == Spec => []TypeOK
BY Invariance, InvTyped, PTL

\* ReadsBack: a reader finds the attributes that were written and not deleted,
\* each once and with its last value, unless a header other than the main chunk
\* on disk was written back, or the header, grown past its allocation, and the
\* block behind it were written over each other.
THEOREM AttributesReadBack == Spec => []ReadsBack
BY Invariance, InvReads, PTL

\* OneForm: an object that refers to a dense store has no compact attribute.
THEOREM CompactOrDense == Spec => []OneForm
<1>1. Inv => OneForm
  BY DenseRead DEF OneForm
<1>. QED
  BY <1>1, Invariance, PTL

\* AddStaysInside: adding an attribute to a header whose allocation is known,
\* and not taken for more than it is, does not write past that allocation.
THEOREM AddingStaysInside == Spec => AddStaysInside
<1>1. Inv /\ [Next]_vars => [AddInside]_vars
  BY AddInsideStep
<1>. QED
  BY <1>1, Invariance, PTL DEF Spec, AddStaysInside, AddInside
=============================================================================
