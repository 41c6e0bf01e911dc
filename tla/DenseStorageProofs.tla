------------------------- MODULE DenseStorageProofs -------------------------
(***************************************************************************)
(* Proofs about DenseStorage, for every set of names, hashes and values and *)
(* all sizes of blocks and leaves: types, the order of the records, objects *)
(* that share no byte, the statistics of the heap, and what is read back:   *)
(* the bytes that each record leads to are those of the attribute that owns *)
(* it, whichever operations and failures came before.                       *)
(***************************************************************************)
EXTENDS DenseStorage, SequenceFacts, FiniteSetTheorems

Byte == {Zero, Sum} \cup {<<n, v, i>> : n \in Names, v \in Values, i \in Nat}

HeapID == [offset : 0 .. OffsetLimit - 1, length : 1 .. MaxObject]
Slot == [hash : Int, id : HeapID]

Block == [objects : Seq(Byte), free : Nat]
Blocks == UNION {[D -> Block] : D \in {E \in SUBSET Nat : 0 \in E}}

Heap == [rows : Nat, iter : Nat, managed : Nat, space : Int, count : Int,
         blocks : Blocks]

Header == [rows : Nat, iter : Nat, managed : Nat, space : Int, count : Int]
Image == [header : Header, area : [1 .. DataSize -> Byte]]

Index == [count : Nat, slots : Seq(Slot), sum : Nat]

\* The constants' assumptions, in the form that the proofs use.
LEMMA Sizes ==
    /\ BlockSize \in Nat /\ BlockHeader \in Nat /\ Checksum \in Nat
    /\ MaxObject \in Nat /\ TableWidth \in Nat /\ OffsetLimit \in Nat
    /\ OffsetLimit > 0 /\ MaxRecords \in Nat
    /\ DataSize \in Nat /\ Capacity \in Nat
    /\ Capacity <= DataSize /\ DataSize <= BlockSize
    /\ \A n \in Names : Hash[n] \in Nat
<1>1. /\ BlockSize \in Nat /\ BlockHeader \in Nat /\ Checksum \in Nat
      /\ MaxObject \in Nat /\ TableWidth \in Nat /\ OffsetLimit \in Nat
      /\ OffsetLimit > 0 /\ MaxRecords \in Nat
      /\ BlockHeader + Checksum < BlockSize
  BY HeapAssumption, BTreeAssumption
<1>2. \A n \in Names : Hash[n] \in Nat
  BY BTreeAssumption
<1>. QED
  BY <1>1, <1>2 DEF DataSize, Capacity

-----------------------------------------------------------------------------
(* Operators of the heap *)

\* A message has the size that its value says, and is not empty.
LEMMA MessageProps ==
    ASSUME NEW n \in Names, NEW v \in Values
    PROVE  /\ Message(n, v) \in Seq(Byte) /\ Len(Message(n, v)) = v[1]
           /\ v[1] \in Nat /\ v[1] >= 1
           /\ \A i \in 1 .. v[1] : Message(n, v)[i] = <<n, v, i>>
<1>1. v[1] \in Nat /\ v[1] >= 1
  BY DenseAssumption
<1>2. \A i \in 1 .. v[1] : <<n, v, i>> \in Byte
  BY <1>1 DEF Byte
<1>. QED
  BY <1>1, <1>2 DEF Message

\* What CopyTo returns, byte by byte.
LEMMA CopyToProps ==
    ASSUME NEW objects \in Seq(Byte), NEW offset \in Nat, NEW data \in Seq(Byte)
    PROVE  /\ CopyTo(objects, offset, data) \in Seq(Byte)
           /\ Len(CopyTo(objects, offset, data))
                 = IF offset + Len(data) > Len(objects) THEN offset + Len(data)
                                                        ELSE Len(objects)
           /\ \A i \in 1 .. Len(data) : CopyTo(objects, offset, data)[offset + i] = data[i]
           /\ \A i \in 1 .. Len(objects) :
                 i \notin offset + 1 .. offset + Len(data)
                    => CopyTo(objects, offset, data)[i] = objects[i]
<1>. DEFINE size == IF offset + Len(data) > Len(objects) THEN offset + Len(data)
                                                        ELSE Len(objects)
            byte(i) == IF i \in offset + 1 .. offset + Len(data) THEN data[i - offset]
                       ELSE IF i <= Len(objects) THEN objects[i] ELSE Zero
<1>1. size \in Nat /\ size >= offset + Len(data) /\ size >= Len(objects)
  OBVIOUS
<1>2. \A i \in 1 .. size : byte(i) \in Byte
  <2>1. Zero \in Byte
    BY DEF Byte
  <2>. QED
    BY <2>1
<1>3. CopyTo(objects, offset, data) = [i \in 1 .. size |-> byte(i)]
  BY DEF CopyTo
<1>4. \A i \in 1 .. Len(data) : offset + i \in 1 .. size /\ byte(offset + i) = data[i]
  <2>. SUFFICES ASSUME NEW i \in 1 .. Len(data)
                PROVE  offset + i \in 1 .. size /\ byte(offset + i) = data[i]
    OBVIOUS
  <2>1. offset + i \in offset + 1 .. offset + Len(data) /\ (offset + i) - offset = i
    OBVIOUS
  <2>. QED
    BY <2>1, <1>1
<1>5. \A i \in 1 .. Len(objects) :
         i \in 1 .. size /\ (i \notin offset + 1 .. offset + Len(data) => byte(i) = objects[i])
  BY <1>1
<1>. HIDE DEF size, byte
<1>6. /\ CopyTo(objects, offset, data) \in Seq(Byte)
      /\ Len(CopyTo(objects, offset, data)) = size
      /\ \A i \in 1 .. size : CopyTo(objects, offset, data)[i] = byte(i)
  BY <1>1, <1>2, <1>3
<1>. QED
  BY <1>4, <1>5, <1>6 DEF size

\* The blocks of a heap.
LEMMA BlocksProps ==
    ASSUME NEW h \in Heap
    PROVE  /\ DOMAIN h.blocks \subseteq Nat /\ 0 \in DOMAIN h.blocks
           /\ h.blocks \in [DOMAIN h.blocks -> Block]
           /\ \A at \in DOMAIN h.blocks :
                 /\ h.blocks[at] \in Block
                 /\ h.blocks[at].objects \in Seq(Byte) /\ h.blocks[at].free \in Nat
<1>1. h.blocks \in Blocks
  BY DEF Heap
<1>2. PICK D : D \subseteq Nat /\ 0 \in D /\ h.blocks \in [D -> Block]
  BY <1>1 DEF Blocks
<1>3. \A at \in D : h.blocks[at] \in Block
  BY <1>2
<1>4. \A b \in Block : b.objects \in Seq(Byte) /\ b.free \in Nat
  BY DEF Block
<1>. QED
  BY <1>2, <1>3, <1>4

\* Functions from a set of offsets that holds 0 to blocks are Blocks.
LEMMA BlocksIntro ==
    ASSUME NEW D, D \subseteq Nat, 0 \in D, NEW f \in [D -> Block]
    PROVE  f \in Blocks
<1>1. D \in {E \in SUBSET Nat : 0 \in E}
  OBVIOUS
<1>2. [D -> Block] \in {[F -> Block] : F \in {E \in SUBSET Nat : 0 \in E}}
  BY <1>1
<1>. QED
  BY <1>2 DEF Blocks

\* What PutObject does to a heap.
LEMMA PutProps ==
    ASSUME NEW h \in Heap, NEW at \in DOMAIN h.blocks, NEW data \in Seq(Byte),
           Len(data) \in 1 .. MaxObject,
           NEW put, put = PutObject(h, at, data)
    PROVE  /\ put.heap \in Heap
           /\ put.id \in HeapID /\ put.id.length = Len(data)
           /\ put.id.offset = (at + h.blocks[at].free) % OffsetLimit
           /\ put.heap.rows = h.rows /\ put.heap.managed = h.managed
           /\ put.heap.iter = h.iter + Len(data)
           /\ put.heap.count = h.count + 1
           /\ put.heap.space = h.space - Len(data)
           /\ DOMAIN put.heap.blocks = DOMAIN h.blocks
           /\ put.heap.blocks[at].free = h.blocks[at].free + Len(data)
           /\ put.heap.blocks[at].objects
                 = CopyTo(h.blocks[at].objects, h.blocks[at].free, data)
<1>. DEFINE b == h.blocks[at]
            nb == [objects |-> CopyTo(b.objects, b.free, data), free |-> b.free + Len(data)]
            bs == [h.blocks EXCEPT ![at] = nb]
            ni == h.iter + Len(data)
            nc == h.count + 1
            ns == h.space - Len(data)
            nh == [h EXCEPT !.iter = ni, !.count = nc, !.space = ns, !.blocks = bs]
            off == at + b.free
<1>1. /\ DOMAIN h.blocks \subseteq Nat /\ 0 \in DOMAIN h.blocks
      /\ h.blocks \in [DOMAIN h.blocks -> Block]
      /\ b.objects \in Seq(Byte) /\ b.free \in Nat /\ at \in Nat
  BY BlocksProps
<1>2. Len(data) \in Nat /\ Len(data) >= 1 /\ Len(data) <= MaxObject
  BY Sizes
<1>3. nb \in Block
  <2>1. CopyTo(b.objects, b.free, data) \in Seq(Byte)
    BY <1>1, CopyToProps
  <2>. QED
    BY <2>1, <1>1, <1>2 DEF Block
<1>4. put = [heap |-> nh, id |-> [offset |-> off % OffsetLimit, length |-> Len(data)]]
  BY DEF PutObject, EncodeHeapID, Heap
<1>5. bs \in [DOMAIN h.blocks -> Block] /\ bs[at] = nb /\ DOMAIN bs = DOMAIN h.blocks
  <2>. HIDE DEF nb
  <2>. QED
    BY <1>1, <1>3
<1>6. bs \in Blocks
  <2>. HIDE DEF bs
  <2>. QED
    BY <1>5, <1>1, BlocksIntro
<1>7. /\ nh \in Heap /\ nh.rows = h.rows /\ nh.managed = h.managed
      /\ nh.iter = h.iter + Len(data) /\ nh.count = h.count + 1
      /\ nh.space = h.space - Len(data) /\ nh.blocks = bs
  <2>. HIDE DEF b, nb, bs, off
  <2>1. /\ h.rows \in Nat /\ h.iter \in Nat /\ h.managed \in Nat
        /\ h.space \in Int /\ h.count \in Int
    BY DEF Heap
  <2>2. ni \in Nat /\ ns \in Int /\ nc \in Int
    BY <2>1, <1>2
  <2>. HIDE DEF ni, nc, ns
  <2>3. /\ nh \in Heap /\ nh.rows = h.rows /\ nh.iter = ni /\ nh.managed = h.managed
        /\ nh.space = ns /\ nh.count = nc /\ nh.blocks = bs
    <3>1. ASSUME NEW g,
                 g = [h EXCEPT !.iter = ni, !.count = nc, !.space = ns, !.blocks = bs]
          PROVE  /\ g \in Heap /\ g.rows = h.rows /\ g.iter = ni /\ g.managed = h.managed
                 /\ g.space = ns /\ g.count = nc /\ g.blocks = bs
      <4>. HIDE DEF nh
      <4>1. g \in Heap
        BY <3>1, <2>2, <1>6 DEF Heap
      <4>2. /\ g.rows = h.rows /\ g.iter = ni /\ g.managed = h.managed
            /\ g.space = ns /\ g.count = nc /\ g.blocks = bs
        BY <3>1, <2>2, <1>6 DEF Heap
      <4>. QED
        BY <4>1, <4>2
    <3>. QED
      BY <3>1, Zenon
  <2>. HIDE DEF nh
  <2>. QED
    BY <2>3 DEF ni, nc, ns
<1>8. off % OffsetLimit \in 0 .. OffsetLimit - 1
  BY <1>1, Sizes
<1>9. /\ put.id \in HeapID /\ put.id.length = Len(data)
      /\ put.id.offset = off % OffsetLimit /\ put.heap = nh
  <2>. HIDE DEF nh, off
  <2>. QED
    BY <1>4, <1>8, <1>2, Sizes DEF HeapID
<1>. HIDE DEF nh
<1>10. DOMAIN put.heap.blocks = DOMAIN h.blocks /\ put.heap.blocks[at] = nb
  BY <1>9, <1>7, <1>5
<1>11. nb.free = b.free + Len(data) /\ nb.objects = CopyTo(b.objects, b.free, data)
  OBVIOUS
<1>. HIDE DEF nb, bs
<1>. QED
  BY <1>9, <1>7, <1>10, <1>11

\* What a new child block changes.
LEMMA ChildProps ==
    ASSUME NEW h \in Heap, NEW c, c = WithChild(h)
    PROVE  /\ c \in Heap
           /\ c.rows = h.rows /\ c.iter = h.iter /\ c.count = h.count
           /\ c.managed - c.space = h.managed - h.space
           /\ h.managed \in DOMAIN c.blocks
<1>. DEFINE bs == [at \in DOMAIN h.blocks \cup {h.managed} |->
                      IF at = h.managed THEN EmptyBlock ELSE h.blocks[at]]
            nm == h.managed + BlockSize
            ns == h.space + BlockSize
<1>1. /\ DOMAIN h.blocks \subseteq Nat /\ 0 \in DOMAIN h.blocks
      /\ \A at \in DOMAIN h.blocks : h.blocks[at] \in Block
  BY BlocksProps
<1>2. h.managed \in Nat /\ h.space \in Int /\ h.iter \in Nat
  BY DEF Heap
<1>3. EmptyBlock \in Block
  BY DEF EmptyBlock, Block
<1>4. bs \in [DOMAIN h.blocks \cup {h.managed} -> Block]
  BY <1>1, <1>3
<1>5. bs \in Blocks /\ h.managed \in DOMAIN bs
  <2>. HIDE DEF bs
  <2>1. DOMAIN h.blocks \cup {h.managed} \subseteq Nat /\ 0 \in DOMAIN h.blocks \cup {h.managed}
    BY <1>1, <1>2
  <2>. QED
    BY <2>1, <1>4, BlocksIntro
<1>6. nm \in Nat /\ ns \in Int /\ nm - ns = h.managed - h.space
  BY <1>2, Sizes
<1>7. c = [h EXCEPT !.managed = nm, !.space = ns, !.blocks = bs]
  BY DEF WithChild
<1>. HIDE DEF bs, nm, ns
<1>8. c \in Heap
  BY <1>5, <1>6, <1>7 DEF Heap
<1>9. /\ c.rows = h.rows /\ c.iter = h.iter /\ c.count = h.count
      /\ c.managed = nm /\ c.space = ns /\ c.blocks = bs
  BY <1>5, <1>6, <1>7 DEF Heap
<1>. QED
  BY <1>5, <1>6, <1>8, <1>9

\* What the change to an indirect root changes.
LEMMA IndirectProps ==
    ASSUME NEW h \in Heap, NEW c, c = ToIndirectRoot(h)
    PROVE  /\ c \in Heap
           /\ c.iter = h.iter /\ c.count = h.count /\ c.managed = h.managed
           /\ c.space = h.space /\ c.blocks = h.blocks
<1>1. c = [h EXCEPT !.rows = 1]
  BY DEF ToIndirectRoot
<1>2. c \in Heap
  BY <1>1 DEF Heap
<1>. QED
  BY <1>1, <1>2 DEF Heap

\* An object that is inserted, wherever it goes.
Inserted(h, put, data) ==
    /\ put.heap \in Heap
    /\ put.id \in HeapID /\ put.id.length = Len(data)
    /\ put.heap.iter = h.iter + Len(data)
    /\ put.heap.count = h.count + 1
    /\ put.heap.managed - put.heap.space = h.managed - h.space + Len(data)

LEMMA ViaIndirectProps ==
    ASSUME NEW h \in Heap, NEW data \in Seq(Byte), Len(data) \in 1 .. MaxObject,
           NEW put \in InsertViaIndirect(h, data)
    PROVE  Inserted(h, put, data)
<1>0. /\ h.iter \in Nat /\ h.managed \in Nat /\ h.space \in Int /\ h.count \in Int
      /\ Len(data) \in Nat
  BY DEF Heap
<1>1. CASE \E at \in DOMAIN h.blocks : put = PutObject(h, at, data)
  <2>1. PICK at \in DOMAIN h.blocks : put = PutObject(h, at, data)
    BY <1>1
  <2>. QED
    BY <2>1, <1>0, PutProps DEF Inserted
<1>2. CASE put = PutObject(WithChild(h), h.managed, data)
  <2>. DEFINE c == WithChild(h)
  <2>1. /\ c \in Heap /\ c.rows = h.rows /\ c.iter = h.iter /\ c.count = h.count
        /\ c.managed - c.space = h.managed - h.space
        /\ h.managed \in DOMAIN c.blocks
    BY ChildProps
  <2>2. put = PutObject(c, h.managed, data)
    BY <1>2
  <2>. HIDE DEF c
  <2>3. c.managed \in Nat /\ c.space \in Int
    BY <2>1 DEF Heap
  <2>4. /\ put.heap \in Heap
        /\ put.id \in HeapID /\ put.id.length = Len(data)
        /\ put.heap.managed = c.managed
        /\ put.heap.iter = c.iter + Len(data)
        /\ put.heap.count = c.count + 1
        /\ put.heap.space = c.space - Len(data)
    BY <2>1, <2>2, PutProps
  <2>. QED
    BY <2>1, <2>3, <2>4, <1>0 DEF Inserted
<1>. QED
  BY <1>1, <1>2 DEF InsertViaIndirect

\* The position of the next insertion is the end of the direct block, until
\* the heap outgrows that block.
Tidy(h) == h.iter <= BlockSize => h.rows = 0 /\ h.blocks[0].free = h.iter

\* An insertion keeps the accounts, and goes to the end of the direct block
\* unless the heap outgrows it.
LEMMA InsertProps ==
    ASSUME NEW h \in Heap, NEW data \in Seq(Byte), NEW put \in InsertObject(h, data)
    PROVE  /\ Inserted(h, put, data)
           /\ Len(data) \in 1 .. MaxObject
           /\ Tidy(h) => /\ Tidy(put.heap)
                         /\ put.heap.iter <= BlockSize =>
                               h.rows = 0 /\ h.blocks[0].free = h.iter
                                  /\ put = PutObject(h, 0, data)
<1>0. /\ h.iter \in Nat /\ h.managed \in Nat /\ h.space \in Int /\ h.count \in Int
      /\ Len(data) \in Nat
  BY DEF Heap
<1>b. /\ DOMAIN h.blocks \subseteq Nat /\ 0 \in DOMAIN h.blocks
      /\ h.blocks[0].free \in Nat
  BY BlocksProps
<1>1. Len(data) \in 1 .. MaxObject
  <2>1. data # <<>> /\ ~ (Len(data) > MaxObject)
    BY DEF InsertObject
  <2>2. Len(data) # 0
    BY <2>1, EmptySeq
  <2>. QED
    BY <2>1, <2>2, <1>0, Sizes
<1>2. CASE NeedsTransition(h, data)
  <2>. DEFINE c == ToIndirectRoot(h)
  <2>1. /\ c \in Heap /\ c.iter = h.iter /\ c.count = h.count /\ c.managed = h.managed
        /\ c.space = h.space
    BY IndirectProps
  <2>2. put \in InsertViaIndirect(c, data)
    BY <1>2, <1>1, <1>0, Sizes DEF InsertObject
  <2>. HIDE DEF c
  <2>3. Inserted(c, put, data)
    BY <2>1, <2>2, <1>1, ViaIndirectProps
  <2>4. Inserted(h, put, data)
    BY <2>1, <2>3 DEF Inserted
  <2>5. Tidy(h) => put.heap.iter > BlockSize
    <3>. SUFFICES ASSUME Tidy(h) PROVE put.heap.iter > BlockSize
      OBVIOUS
    <3>1. h.blocks[0].free + Len(data) > BlockSize
      BY <1>2, <1>0, <1>b, Sizes DEF NeedsTransition, HasRoom
    <3>2. h.iter > BlockSize \/ h.blocks[0].free = h.iter
      BY <1>0, Sizes DEF Tidy
    <3>. QED
      BY <3>1, <3>2, <2>4, <1>0, Sizes DEF Inserted
  <2>6. put.heap.iter \in Nat
    BY <2>4 DEF Inserted, Heap
  <2>. QED
    BY <2>4, <2>5, <2>6, <1>1, Sizes DEF Tidy
<1>3. CASE ~ NeedsTransition(h, data) /\ h.rows # 0
  <2>1. put \in InsertViaIndirect(h, data)
    BY <1>3, <1>1, <1>0, Sizes DEF InsertObject
  <2>2. Inserted(h, put, data)
    BY <2>1, <1>1, ViaIndirectProps
  <2>3. Tidy(h) => put.heap.iter > BlockSize
    BY <1>3, <2>2, <1>0, Sizes DEF Tidy, Inserted
  <2>4. put.heap.iter \in Nat
    BY <2>2 DEF Inserted, Heap
  <2>. QED
    BY <2>2, <2>3, <2>4, <1>1, Sizes DEF Tidy
<1>4. CASE ~ NeedsTransition(h, data) /\ h.rows = 0
  <2>1. put = PutObject(h, 0, data)
    BY <1>4, <1>1, <1>0, Sizes DEF InsertObject
  <2>2. /\ put.heap \in Heap /\ put.id \in HeapID /\ put.id.length = Len(data)
        /\ put.heap.rows = h.rows /\ put.heap.managed = h.managed
        /\ put.heap.iter = h.iter + Len(data)
        /\ put.heap.count = h.count + 1
        /\ put.heap.space = h.space - Len(data)
        /\ put.heap.blocks[0].free = h.blocks[0].free + Len(data)
    BY <2>1, <1>1, <1>b, PutProps
  <2>3. Inserted(h, put, data)
    BY <2>2, <1>0 DEF Inserted
  <2>4. ASSUME Tidy(h), put.heap.iter <= BlockSize
        PROVE  h.blocks[0].free = h.iter
    BY <2>4, <2>2, <1>0, Sizes DEF Tidy
  <2>. QED
    BY <2>1, <2>2, <2>3, <2>4, <1>1, <1>4, <1>0, <1>b DEF Tidy
<1>. QED
  BY <1>2, <1>3, <1>4

-----------------------------------------------------------------------------
(* Operators of the B-tree *)

Sorted(records) ==
    \A i, j \in 1 .. Len(records) : i < j => records[i].hash <= records[j].hash

LEMMA SlotProps ==
    ASSUME NEW records \in Seq(Slot), NEW i \in 1 .. Len(records)
    PROVE  /\ records[i] \in Slot
           /\ records[i].hash \in Int /\ records[i].id \in HeapID
<1>1. records[i] \in Slot
  OBVIOUS
<1>. QED
  BY <1>1 DEF Slot

LEMMA RecordProps ==
    ASSUME NEW n \in Names, NEW id \in HeapID
    PROVE  /\ Record(n, id) \in Slot
           /\ Record(n, id).hash = Hash[n] /\ Record(n, id).id = id
           /\ Hash[n] \in Int
BY Sizes DEF Record, Slot

\* Records with one more, at some position.
InsertedAt(old, k, r, records) ==
    /\ records \in Seq(Slot) /\ Len(records) = Len(old) + 1
    /\ \A j \in 1 .. Len(old) + 1 :
          records[j] = IF j < k THEN old[j] ELSE IF j = k THEN r ELSE old[j - 1]

\* InsertRecord puts the record before the first one that is not smaller, and
\* so keeps the order.
LEMMA InsertRecordProps ==
    ASSUME NEW old \in Seq(Slot), NEW n \in Names, NEW id \in HeapID,
           NEW records, records = InsertRecord(old, n, id)
    PROVE  /\ \E k \in 1 .. Len(old) + 1 : InsertedAt(old, k, Record(n, id), records)
           /\ Sorted(old) => Sorted(records)
<1>. DEFINE r == Record(n, id)
            later == {i \in DOMAIN old : old[i].hash >= r.hash}
<1>0. Len(old) \in Nat /\ DOMAIN old = 1 .. Len(old)
  OBVIOUS
<1>1. r \in Slot /\ r.hash \in Int
  BY RecordProps DEF Slot
<1>2. records = IF later = {} THEN Append(old, r)
                ELSE InsertAt(old, CHOOSE i \in later : \A j \in later : i <= j, r)
  BY DEF InsertRecord, InsertRecordSorted
<1>3. \A i \in 1 .. Len(old) : old[i].hash \in Int
  BY SlotProps
<1>. HIDE DEF r
<1>4. PICK k \in 1 .. Len(old) + 1 :
         /\ InsertedAt(old, k, r, records)
         /\ \A i \in 1 .. Len(old) : i < k => old[i].hash < r.hash
         /\ k <= Len(old) => old[k].hash >= r.hash
  <2>1. CASE later = {}
    <3>1. records = Append(old, r)
      BY <2>1, <1>2
    <3>2. InsertedAt(old, Len(old) + 1, r, records)
      BY <3>1, <1>0, <1>1 DEF InsertedAt
    <3>3. \A i \in 1 .. Len(old) : ~ (old[i].hash >= r.hash)
      BY <2>1, <1>0
    <3>4. \A i \in 1 .. Len(old) : old[i].hash < r.hash
      BY <3>3, <1>3, <1>1
    <3>. QED
      BY <3>2, <3>4, <1>0
  <2>2. CASE later # {}
    <3>. DEFINE k == CHOOSE i \in later : \A j \in later : i <= j
    <3>1. later \subseteq Nat
      BY <1>0
    <3>2. \E i \in later : \A j \in later : i <= j
      <4>. HIDE DEF later
      <4>. QED
        BY <3>1, <2>2, LeastNat
    <3>3. k \in later /\ \A j \in later : k <= j
      <4>. HIDE DEF later
      <4>. QED
        BY <3>2
    <3>4. records = InsertAt(old, k, r)
      BY <2>2, <1>2
    <3>. HIDE DEF k
    <3>5. k \in 1 .. Len(old) /\ old[k].hash >= r.hash
      BY <3>3, <1>0
    <3>6. \A i \in 1 .. Len(old) : i < k => old[i].hash < r.hash
      <4>. SUFFICES ASSUME NEW i \in 1 .. Len(old), i < k PROVE old[i].hash < r.hash
        OBVIOUS
      <4>1. i \notin later
        BY <3>3, <3>5
      <4>. QED
        BY <4>1, <1>0, <1>3, <1>1
    <3>7. k \in 1 .. Len(old) + 1
      BY <3>5
    <3>8. InsertedAt(old, k, r, records)
      BY <3>4, <3>7, <1>1, InsertAtProps DEF InsertedAt
    <3>. QED
      BY <3>5, <3>6, <3>7, <3>8
  <2>. QED
    BY <2>1, <2>2
<1>5. ASSUME Sorted(old) PROVE Sorted(records)
  <2>. SUFFICES ASSUME NEW i \in 1 .. Len(old) + 1, NEW j \in 1 .. Len(old) + 1, i < j
                PROVE  records[i].hash <= records[j].hash
    BY <1>4 DEF Sorted, InsertedAt
  <2>1. /\ records[i] = IF i < k THEN old[i] ELSE IF i = k THEN r ELSE old[i - 1]
        /\ records[j] = IF j < k THEN old[j] ELSE IF j = k THEN r ELSE old[j - 1]
    BY <1>4 DEF InsertedAt
  <2>2. \A x, y \in 1 .. Len(old) : x < y => old[x].hash <= old[y].hash
    BY <1>5 DEF Sorted
  <2>3. CASE j < k
    BY <2>1, <2>2, <2>3
  <2>4. CASE j = k
    BY <2>1, <2>4, <1>4, <1>3, <1>1
  <2>5. CASE j > k
    <3>1. j - 1 \in 1 .. Len(old) /\ k \in 1 .. Len(old) /\ records[j] = old[j - 1]
      BY <2>5, <2>1
    <3>2. r.hash <= old[j - 1].hash
      <4>1. old[k].hash >= r.hash
        BY <3>1, <1>4
      <4>2. CASE k = j - 1
        BY <4>1, <4>2, <1>1, <1>3, <3>1
      <4>3. CASE k < j - 1
        BY <4>1, <4>3, <2>2, <1>1, <1>3, <3>1
      <4>. QED
        BY <4>2, <4>3, <2>5
    <3>3. CASE i < k
      <4>1. i \in 1 .. Len(old) /\ i < j - 1 /\ records[i] = old[i]
        BY <3>1, <3>3, <2>5, <2>1
      <4>. QED
        BY <4>1, <3>1, <2>2
    <3>4. CASE i = k
      BY <3>1, <3>2, <3>4, <2>1
    <3>5. CASE i > k
      <4>1. i - 1 \in 1 .. Len(old) /\ i - 1 < j - 1 /\ records[i] = old[i - 1]
        BY <3>5, <2>1
      <4>. QED
        BY <4>1, <3>1, <2>2
    <3>. QED
      BY <3>3, <3>4, <3>5
  <2>. QED
    BY <2>3, <2>4, <2>5
<1>. QED
  BY <1>4, <1>5 DEF r

\* The first record of a hash.
LEMMA SearchProps ==
    ASSUME NEW records \in Seq(Slot), NEW n \in Names, HasKey(records, n),
           NEW k, k = SearchRecord(records, n)
    PROVE  /\ k \in 1 .. Len(records) /\ records[k].hash = Hash[n]
           /\ records[k].id \in HeapID
<1>. DEFINE found == {i \in DOMAIN records : records[i].hash = Hash[n]}
<1>1. found \subseteq Nat /\ DOMAIN records = 1 .. Len(records)
  OBVIOUS
<1>2. k # 0 /\ k = IF found = {} THEN 0 ELSE CHOOSE i \in found : \A j \in found : i <= j
  BY DEF HasKey, SearchRecord
<1>3. k \in found
  <2>. HIDE DEF found
  <2>1. found # {} /\ k = CHOOSE i \in found : \A j \in found : i <= j
    BY <1>2
  <2>2. \E i \in found : \A j \in found : i <= j
    BY <1>1, <2>1, LeastNat
  <2>. QED
    BY <2>1, <2>2
<1>. QED
  BY <1>1, <1>3, SlotProps

LEMMA NoKeyProps ==
    ASSUME NEW records \in Seq(Slot), NEW n \in Names, ~ HasKey(records, n)
    PROVE  \A i \in 1 .. Len(records) : records[i].hash # Hash[n]
<1>. DEFINE found == {i \in DOMAIN records : records[i].hash = Hash[n]}
<1>1. found \subseteq Nat /\ DOMAIN records = 1 .. Len(records)
  OBVIOUS
<1>2. 0 \notin found
  BY <1>1
<1>3. found # {} => SearchRecord(records, n) \in found
  <2>1. found # {} => SearchRecord(records, n) = CHOOSE i \in found : \A j \in found : i <= j
    BY DEF SearchRecord
  <2>. HIDE DEF found
  <2>2. found # {} => \E i \in found : \A j \in found : i <= j
    BY <1>1, LeastNat
  <2>. QED
    BY <2>1, <2>2
<1>4. found = {}
  BY <1>2, <1>3 DEF HasKey
<1>. QED
  BY <1>1, <1>4

\* UpdateRecord changes one ID and no hash.
LEMMA UpdateRecordProps ==
    ASSUME NEW old \in Seq(Slot), NEW n \in Names, HasKey(old, n), NEW id \in HeapID,
           NEW k, k = SearchRecord(old, n),
           NEW records, records = UpdateRecord(old, n, id)
    PROVE  /\ records \in Seq(Slot) /\ Len(records) = Len(old)
           /\ records[k].id = id
           /\ \A j \in 1 .. Len(old) : j # k => records[j] = old[j]
           /\ \A j \in 1 .. Len(old) : records[j].hash = old[j].hash
           /\ Sorted(old) => Sorted(records)
<1>1. k \in 1 .. Len(old) /\ DOMAIN old = 1 .. Len(old) /\ Len(old) \in Nat
  BY SearchProps
<1>. DEFINE r == [old[k] EXCEPT !.id = id]
<1>2. r \in Slot /\ r.id = id /\ r.hash = old[k].hash
  <2>1. old[k] \in Slot
    BY <1>1
  <2>. QED
    BY <2>1 DEF Slot
<1>3. records = [old EXCEPT ![k] = r]
  BY DEF UpdateRecord
<1>. HIDE DEF r
<1>4. /\ records \in Seq(Slot) /\ Len(records) = Len(old)
      /\ records[k] = r
      /\ \A j \in 1 .. Len(old) : j # k => records[j] = old[j]
  BY <1>1, <1>2, <1>3
<1>5. \A j \in 1 .. Len(old) : records[j].hash = old[j].hash
  BY <1>1, <1>2, <1>4
<1>. QED
  BY <1>2, <1>4, <1>5 DEF Sorted

\* DeleteRecord takes one record out.
LEMMA DeleteRecordProps ==
    ASSUME NEW old \in Seq(Slot), NEW n \in Names, HasKey(old, n),
           NEW k, k = SearchRecord(old, n),
           NEW records, records = DeleteRecord(old, n)
    PROVE  /\ records \in Seq(Slot) /\ Len(records) = Len(old) - 1
           /\ \A j \in 1 .. Len(old) - 1 :
                 records[j] = IF j < k THEN old[j] ELSE old[j + 1]
           /\ Sorted(old) => Sorted(records)
<1>1. k \in 1 .. Len(old) /\ Len(old) \in Nat
  BY SearchProps
<1>2. /\ records \in Seq(Slot) /\ Len(records) = Len(old) - 1
      /\ \A j \in 1 .. Len(old) - 1 :
            records[j] = IF j < k THEN old[j] ELSE old[j + 1]
  BY <1>1, RemoveAtProps DEF DeleteRecord
<1>3. ASSUME Sorted(old) PROVE Sorted(records)
  <2>. SUFFICES ASSUME NEW i \in 1 .. Len(old) - 1, NEW j \in 1 .. Len(old) - 1, i < j
                PROVE  records[i].hash <= records[j].hash
    BY <1>2 DEF Sorted
  <2>. DEFINE x == IF i < k THEN i ELSE i + 1
              y == IF j < k THEN j ELSE j + 1
  <2>1. x \in 1 .. Len(old) /\ y \in 1 .. Len(old) /\ x < y
    BY <1>1
  <2>2. records[i] = old[x] /\ records[j] = old[y]
    BY <1>2
  <2>. HIDE DEF x, y
  <2>. QED
    BY <2>1, <2>2, <1>3 DEF Sorted
<1>. QED
  BY <1>2, <1>3

\* A leaf that is written begins with the records.
LEMMA WriteLeafProps ==
    ASSUME NEW ix \in Index, NEW records \in Seq(Slot),
           NEW w, w = WriteLeaf(ix, records)
    PROVE  /\ w \in Index /\ w.count = ix.count /\ w.sum = Len(records)
           /\ Len(w.slots) = IF Len(records) > Len(ix.slots) THEN Len(records)
                             ELSE Len(ix.slots)
           /\ \A i \in 1 .. Len(records) : w.slots[i] = records[i]
<1>. DEFINE left == SubSeq(ix.slots, Len(records) + 1, Len(ix.slots))
            rest == IF left = <<>> THEN <<>> ELSE [left EXCEPT ![1].hash = -1]
<1>1. /\ ix.slots \in Seq(Slot) /\ Len(ix.slots) \in Nat /\ Len(records) \in Nat
      /\ ix.count \in Nat
  BY DEF Index
<1>2. /\ left \in Seq(Slot)
      /\ Len(left) = IF Len(records) > Len(ix.slots) THEN 0
                     ELSE Len(ix.slots) - Len(records)
  <2>1. \A i \in Len(records) + 1 .. Len(ix.slots) : ix.slots[i] \in Slot
    BY <1>1
  <2>. QED
    BY <1>1, <2>1, SubSeqProperties
<1>. HIDE DEF left
<1>3. rest \in Seq(Slot) /\ Len(rest) = Len(left)
  <2>1. CASE left = <<>>
    BY <2>1
  <2>2. CASE left # <<>>
    <3>. DEFINE r == [left[1] EXCEPT !.hash = -1]
    <3>1. 1 \in 1 .. Len(left)
      BY <2>2, <1>2, EmptySeq
    <3>2. left[1] \in Slot
      BY <3>1, <1>2
    <3>3. r \in Slot
      BY <3>2 DEF Slot
    <3>4. rest = [left EXCEPT ![1] = r]
      BY <2>2
    <3>. HIDE DEF r, rest
    <3>. QED
      BY <3>1, <3>3, <3>4, <1>2
  <2>. QED
    BY <2>1, <2>2
<1>4. w = [ix EXCEPT !.slots = records \o rest, !.sum = Len(records)]
  BY DEF WriteLeaf, left
<1>. HIDE DEF rest
<1>. DEFINE slots == records \o rest
<1>5. /\ slots \in Seq(Slot) /\ Len(slots) = Len(records) + Len(rest)
      /\ \A i \in 1 .. Len(records) : slots[i] = records[i]
  BY <1>3
<1>6. w = [ix EXCEPT !.slots = slots, !.sum = Len(records)]
  BY <1>4
<1>. HIDE DEF slots
<1>7. w \in Index
  BY <1>5, <1>6, <1>1 DEF Index
<1>8. w.count = ix.count /\ w.sum = Len(records) /\ w.slots = slots
  BY <1>6 DEF Index
<1>. QED
  BY <1>1, <1>2, <1>3, <1>5, <1>7, <1>8

LEMMA WriteIndexProps ==
    ASSUME NEW ix \in Index, NEW records \in Seq(Slot),
           NEW w, w = WriteIndex(ix, records)
    PROVE  /\ w \in Index /\ w.count = Len(records) /\ w.sum = Len(records)
           /\ Len(w.slots) = IF Len(records) > Len(ix.slots) THEN Len(records)
                             ELSE Len(ix.slots)
           /\ \A i \in 1 .. Len(records) : w.slots[i] = records[i]
<1>. DEFINE l == WriteLeaf(ix, records)
<1>1. /\ l \in Index /\ l.count = ix.count /\ l.sum = Len(records)
      /\ Len(l.slots) = IF Len(records) > Len(ix.slots) THEN Len(records)
                        ELSE Len(ix.slots)
      /\ \A i \in 1 .. Len(records) : l.slots[i] = records[i]
  BY WriteLeafProps
<1>2. w = [l EXCEPT !.count = Len(records)]
  BY DEF WriteIndex, WriteHeader
<1>. HIDE DEF l
<1>3. Len(records) \in Nat
  OBVIOUS
<1>4. w \in Index
  BY <1>1, <1>2, <1>3 DEF Index
<1>5. w.count = Len(records) /\ w.sum = l.sum /\ w.slots = l.slots
  BY <1>1, <1>2, <1>3 DEF Index
<1>. QED
  BY <1>1, <1>4, <1>5

-----------------------------------------------------------------------------
(* The heap in the file, and the heap that is loaded from it *)

LEMMA ImageProps ==
    ASSUME NEW h \in Heap, NEW image, image = HeapImage(h)
    PROVE  /\ image \in Image
           /\ image.header.rows = h.rows /\ image.header.iter = h.iter
           /\ image.header.managed = h.managed /\ image.header.space = h.space
           /\ image.header.count = h.count
           /\ \A i \in 1 .. Capacity :
                 image.area[i] = IF i <= Len(h.blocks[0].objects)
                                 THEN h.blocks[0].objects[i] ELSE Zero
<1>. DEFINE objects == h.blocks[0].objects
            area == [i \in 1 .. DataSize |->
                        IF i > Capacity THEN Sum
                        ELSE IF i <= Len(objects) THEN objects[i] ELSE Zero]
            header == [rows |-> h.rows, iter |-> h.iter, managed |-> h.managed,
                       space |-> h.space, count |-> h.count]
<1>1. objects \in Seq(Byte)
  BY BlocksProps
<1>2. image = [header |-> header, area |-> area]
  BY DEF HeapImage, HeaderImage, BlockImage
<1>3. area \in [1 .. DataSize -> Byte]
  <2>. SUFFICES ASSUME NEW i \in 1 .. DataSize
                PROVE  (IF i > Capacity THEN Sum
                        ELSE IF i <= Len(objects) THEN objects[i] ELSE Zero) \in Byte
    OBVIOUS
  <2>1. Sum \in Byte /\ Zero \in Byte
    BY DEF Byte
  <2>2. i <= Len(objects) => i \in 1 .. Len(objects)
    BY Sizes
  <2>3. i <= Len(objects) => objects[i] \in Byte
    <3>. HIDE DEF objects
    <3>. QED
      BY <2>2, <1>1
  <2>. HIDE DEF objects
  <2>. QED
    BY <2>1, <2>3
<1>4. \A i \in 1 .. Capacity :
         area[i] = IF i <= Len(objects) THEN objects[i] ELSE Zero
  <2>. HIDE DEF objects
  <2>1. \A i \in 1 .. Capacity : i \in 1 .. DataSize /\ ~ (i > Capacity)
    BY Sizes
  <2>. QED
    BY <2>1
<1>5. header \in Header
  BY DEF Header, Heap
<1>6. /\ header.rows = h.rows /\ header.iter = h.iter
      /\ header.managed = h.managed /\ header.space = h.space /\ header.count = h.count
  OBVIOUS
<1>. HIDE DEF header, area, objects
<1>7. image \in Image /\ image.header = header /\ image.area = area
  BY <1>2, <1>3, <1>5 DEF Image
<1>. QED
  BY <1>4, <1>6, <1>7 DEF objects

\* The header of one image over the block of another.
LEMMA HeaderWritten ==
    ASSUME NEW image \in Image, NEW other \in Image, NEW w,
           w = [image EXCEPT !.header = other.header]
    PROVE  w \in Image /\ w.header = other.header /\ w.area = image.area
BY DEF Image

LEMMA LoadProps ==
    ASSUME NEW image \in Image, NEW h, h = LoadHeap(image)
    PROVE  /\ h \in Heap
           /\ h.rows = image.header.rows /\ h.iter = image.header.iter
           /\ h.managed = image.header.managed /\ h.space = image.header.space
           /\ h.count = image.header.count
           /\ DOMAIN h.blocks = {0} /\ h.blocks[0].free = h.iter
           /\ Len(h.blocks[0].objects) = Capacity
           /\ \A i \in 1 .. Capacity : h.blocks[0].objects[i] = image.area[i]
           /\ CanLoad(image) => Tidy(h)
<1>. DEFINE header == image.header
            data == SubSeq(image.area, 1, Capacity)
            block == [objects |-> data, free |-> header.iter]
            bs == [at \in {0} |-> block]
<1>1. image.area \in [1 .. DataSize -> Byte] /\ header \in Header
  BY DEF Image
<1>2. image.area \in Seq(Byte) /\ Len(image.area) = DataSize
  <2>. DEFINE area == image.area
  <2>1. area \in [1 .. DataSize -> Byte] /\ DataSize \in Nat
    BY <1>1, Sizes
  <2>. HIDE DEF area
  <2>2. area \in Seq(Byte) /\ Len(area) = DataSize
    BY <2>1
  <2>. QED
    BY <2>2 DEF area
<1>3. /\ data \in Seq(Byte) /\ Len(data) = Capacity
      /\ \A i \in 1 .. Capacity : data[i] = image.area[i]
  <2>. DEFINE area == image.area
  <2>1. area \in Seq(Byte) /\ Len(area) = DataSize
    BY <1>2
  <2>2. \A i \in 1 .. Capacity : area[i] \in Byte
    BY <1>1, Sizes
  <2>. HIDE DEF area
  <2>3. /\ SubSeq(area, 1, Capacity) \in Seq(Byte)
        /\ Len(SubSeq(area, 1, Capacity)) = Capacity
        /\ \A i \in 1 .. Capacity : SubSeq(area, 1, Capacity)[i] = area[i]
    BY <2>1, <2>2, Sizes, SubSeqProperties
  <2>. QED
    BY <2>3 DEF area
<1>4. /\ header.rows \in Nat /\ header.iter \in Nat /\ header.managed \in Nat
      /\ header.space \in Int /\ header.count \in Int
  BY <1>1 DEF Header
<1>5. h = [rows |-> header.rows, iter |-> header.iter, managed |-> header.managed,
           space |-> header.space, count |-> header.count, blocks |-> bs]
  BY DEF LoadHeap, OpenFractalHeap, BlockData
<1>6. block \in Block /\ block.objects = data /\ block.free = header.iter
  <2>. HIDE DEF data, header
  <2>. QED
    BY <1>3, <1>4 DEF Block
<1>. HIDE DEF block
<1>7. bs \in [{0} -> Block] /\ DOMAIN bs = {0} /\ bs[0] = block
  BY <1>6
<1>. HIDE DEF bs
<1>8. bs \in Blocks
  BY <1>7, BlocksIntro
<1>. HIDE DEF header, data
<1>9. h \in Heap
  BY <1>4, <1>5, <1>8 DEF Heap
<1>10. /\ h.rows = header.rows /\ h.iter = header.iter /\ h.managed = header.managed
       /\ h.space = header.space /\ h.count = header.count /\ h.blocks = bs
  BY <1>5
<1>11. CanLoad(image) => h.rows = 0
  BY <1>10 DEF CanLoad, OpenFractalHeap, header
<1>12. CanLoad(image) => Tidy(h)
  BY <1>11, <1>10, <1>7, <1>6 DEF Tidy
<1>. QED
  BY <1>9, <1>10, <1>7, <1>6, <1>3, <1>12 DEF header

\* The bytes of the direct block, changed in place.
Replaced(h, objects, c, s) ==
    [h EXCEPT !.blocks[0].objects = objects, !.count = c, !.space = s]

LEMMA ReplaceProps ==
    ASSUME NEW h \in Heap, NEW objects \in Seq(Byte), NEW c \in Int, NEW s \in Int,
           NEW g, g = Replaced(h, objects, c, s)
    PROVE  /\ g \in Heap
           /\ g.rows = h.rows /\ g.iter = h.iter /\ g.managed = h.managed
           /\ g.count = c /\ g.space = s
           /\ DOMAIN g.blocks = DOMAIN h.blocks
           /\ g.blocks[0].free = h.blocks[0].free /\ g.blocks[0].objects = objects
<1>. DEFINE block == [h.blocks[0] EXCEPT !.objects = objects]
            bs == [h.blocks EXCEPT ![0] = block]
<1>1. /\ DOMAIN h.blocks \subseteq Nat /\ 0 \in DOMAIN h.blocks
      /\ h.blocks \in [DOMAIN h.blocks -> Block] /\ h.blocks[0] \in Block
  BY BlocksProps
<1>2. block \in Block /\ block.objects = objects /\ block.free = h.blocks[0].free
  BY <1>1 DEF Block
<1>3. g = [h EXCEPT !.blocks = bs, !.count = c, !.space = s]
  BY DEF Heap, Replaced
<1>. HIDE DEF block
<1>4. bs \in [DOMAIN h.blocks -> Block] /\ DOMAIN bs = DOMAIN h.blocks /\ bs[0] = block
  BY <1>1, <1>2
<1>. HIDE DEF bs
<1>5. bs \in Blocks
  BY <1>1, <1>4, BlocksIntro
<1>6. g \in Heap
  BY <1>3, <1>5 DEF Heap
<1>7. /\ g.rows = h.rows /\ g.iter = h.iter /\ g.managed = h.managed
      /\ g.count = c /\ g.space = s /\ g.blocks = bs
  BY <1>3, <1>5 DEF Heap
<1>. QED
  BY <1>2, <1>4, <1>6, <1>7

\* OverwriteObject leaves the accounts and the bytes around the object alone.
LEMMA OverwriteProps ==
    ASSUME NEW h \in Heap, NEW id \in HeapID, NEW data \in Seq(Byte),
           NEW g, g = OverwriteObject(h, id, data)
    PROVE  /\ g \in Heap
           /\ g.rows = h.rows /\ g.iter = h.iter /\ g.managed = h.managed
           /\ g.count = h.count /\ g.space = h.space
           /\ DOMAIN g.blocks = DOMAIN h.blocks
           /\ g.blocks[0].free = h.blocks[0].free
           /\ g.blocks[0].objects = CopyTo(h.blocks[0].objects, id.offset, data)
<1>. DEFINE objects == CopyTo(h.blocks[0].objects, id.offset, data)
<1>1. objects \in Seq(Byte)
  <2>1. h.blocks[0].objects \in Seq(Byte) /\ id.offset \in Nat
    BY BlocksProps, Sizes DEF HeapID
  <2>. QED
    BY <2>1, CopyToProps
<1>2. h.count \in Int /\ h.space \in Int
  BY DEF Heap
<1>3. g = [h EXCEPT !.blocks[0].objects = objects]
  BY DEF OverwriteObject
<1>. HIDE DEF objects
<1>4. g = Replaced(h, objects, h.count, h.space)
  BY <1>3 DEF Heap, Replaced
<1>5. /\ g \in Heap
      /\ g.rows = h.rows /\ g.iter = h.iter /\ g.managed = h.managed
      /\ g.count = h.count /\ g.space = h.space
      /\ DOMAIN g.blocks = DOMAIN h.blocks
      /\ g.blocks[0].free = h.blocks[0].free /\ g.blocks[0].objects = objects
  BY <1>1, <1>2, <1>4, ReplaceProps
<1>. QED
  BY <1>5 DEF objects

\* DeleteObject zeroes the bytes of the object and returns them to the
\* accounts, not to the free end of the block.
LEMMA DeleteObjectProps ==
    ASSUME NEW h \in Heap, NEW id \in HeapID, NEW g, g = DeleteObject(h, id)
    PROVE  /\ g \in Heap
           /\ g.rows = h.rows /\ g.iter = h.iter /\ g.managed = h.managed
           /\ g.count = h.count - 1 /\ g.space = h.space + id.length
           /\ DOMAIN g.blocks = DOMAIN h.blocks
           /\ g.blocks[0].free = h.blocks[0].free
           /\ g.blocks[0].objects
                 = CopyTo(h.blocks[0].objects, id.offset, [i \in 1 .. id.length |-> Zero])
<1>. DEFINE zeros == [i \in 1 .. id.length |-> Zero]
            objects == CopyTo(h.blocks[0].objects, id.offset, zeros)
            c == h.count - 1
            s == h.space + id.length
<1>0. id.length \in Nat /\ id.offset \in Nat
  BY Sizes DEF HeapID
<1>1. objects \in Seq(Byte)
  <2>1. h.blocks[0].objects \in Seq(Byte)
    BY BlocksProps
  <2>2. zeros \in Seq(Byte)
    BY <1>0 DEF Byte
  <2>. HIDE DEF zeros
  <2>. QED
    BY <2>1, <2>2, <1>0, CopyToProps
<1>2. c \in Int /\ s \in Int
  BY <1>0 DEF Heap
<1>3. g = Replaced(h, objects, c, s)
  BY DEF DeleteObject, Replaced
<1>. HIDE DEF objects, c, s
<1>4. /\ g \in Heap
      /\ g.rows = h.rows /\ g.iter = h.iter /\ g.managed = h.managed
      /\ g.count = c /\ g.space = s
      /\ DOMAIN g.blocks = DOMAIN h.blocks
      /\ g.blocks[0].free = h.blocks[0].free /\ g.blocks[0].objects = objects
  BY <1>1, <1>2, <1>3, ReplaceProps
<1>. QED
  BY <1>4 DEF objects, c, s

-----------------------------------------------------------------------------
(* Read, modify, write: the heap h and the records that are written back by *)
(* one of the three operations, given the heap l and the records r loaded.  *)

InsertsInto(l, r, n, v, h, records) ==
    /\ ~ HasKey(r, n) /\ ~ IsFull(r)
    /\ \E put \in InsertObject(l, Message(n, v)) :
          h = put.heap /\ records = InsertRecord(r, n, put.id)

Overwrites(l, r, n, v, h, records) ==
    /\ HasKey(r, n)
    /\ GetObject(l, r[SearchRecord(r, n)].id) # <<>>
    /\ Len(GetObject(l, r[SearchRecord(r, n)].id)) = v[1]
    /\ h = OverwriteObject(l, r[SearchRecord(r, n)].id, Message(n, v)) /\ records = r

Replaces(l, r, n, v, h, records) ==
    /\ HasKey(r, n)
    /\ GetObject(l, r[SearchRecord(r, n)].id) # <<>>
    /\ \E put \in InsertObject(DeleteObject(l, r[SearchRecord(r, n)].id), Message(n, v)) :
          h = put.heap /\ records = UpdateRecord(r, n, put.id)

Deletes(l, r, n, h, records) ==
    /\ HasKey(r, n)
    /\ InDirectBlock(l, r[SearchRecord(r, n)].id)
    /\ h = DeleteObject(l, r[SearchRecord(r, n)].id) /\ records = DeleteRecord(r, n)

\* The attributes with one more value, or with one less.
Given(f, n, v) == [x \in DOMAIN f \cup {n} |-> IF x = n THEN v ELSE f[x]]
Dropped(f, n) == [x \in DOMAIN f \ {n} |-> f[x]]

\* A change that should make the attributes g of f.
Changes(l, r, n, h, records, f, g) ==
    \/ \E v \in Values : /\ \/ InsertsInto(l, r, n, v, h, records)
                            \/ Overwrites(l, r, n, v, h, records)
                            \/ Replaces(l, r, n, v, h, records)
                         /\ g = Given(f, n, v)
    \/ Deletes(l, r, n, h, records) /\ g = Dropped(f, n)

\* Each of the three operations writes one of these changes back.
LEMMA RewriteSteps ==
    ASSUME NEW n \in Names,
           (\E v \in Values : InsertDense(n, v) \/ ModifyDense(n, v)) \/ DeleteDense(n)
    PROVE  /\ Loadable /\ UNCHANGED new
           /\ \E h, records : /\ Changes(LoadHeap(heap), Records, n, h, records, attrs, attrs')
                              /\ WriteBack(h, records, n)
<1>1. ASSUME NEW v \in Values, InsertDense(n, v)
      PROVE  /\ Loadable /\ UNCHANGED new
             /\ \E h, records : /\ Changes(LoadHeap(heap), Records, n, h, records, attrs, attrs')
                                /\ WriteBack(h, records, n)
  <2>1. PICK put \in InsertObject(LoadHeap(heap), Message(n, v)) :
           WriteBack(put.heap, InsertRecord(Records, n, put.id), n)
    BY <1>1 DEF InsertDense
  <2>2. InsertsInto(LoadHeap(heap), Records, n, v, put.heap, InsertRecord(Records, n, put.id))
    BY <1>1 DEF InsertDense, InsertsInto
  <2>3. Loadable /\ UNCHANGED new /\ attrs' = Given(attrs, n, v)
    BY <1>1 DEF InsertDense, Acknowledge, Given
  <2>. QED
    BY <2>1, <2>2, <2>3 DEF Changes
<1>2. ASSUME NEW v \in Values, ModifyDense(n, v)
      PROVE  /\ Loadable /\ UNCHANGED new
             /\ \E h, records : /\ Changes(LoadHeap(heap), Records, n, h, records, attrs, attrs')
                                /\ WriteBack(h, records, n)
  <2>. DEFINE l == LoadHeap(heap)
              id == Records[SearchRecord(Records, n)].id
              old == GetObject(l, id)
  <2>0. /\ Loadable /\ UNCHANGED new /\ HasKey(Records, n) /\ old # <<>>
        /\ IF Len(old) = v[1]
           THEN WriteBack(OverwriteObject(l, id, Message(n, v)), Records, n)
           ELSE \E put \in InsertObject(DeleteObject(l, id), Message(n, v)) :
                   WriteBack(put.heap, UpdateRecord(Records, n, put.id), n)
    BY <1>2 DEF ModifyDense
  <2>a. attrs' = Given(attrs, n, v)
    BY <1>2 DEF ModifyDense, Acknowledge, Given
  <2>1. CASE Len(old) = v[1]
    <3>1. WriteBack(OverwriteObject(l, id, Message(n, v)), Records, n)
      BY <2>0, <2>1
    <3>2. Overwrites(l, Records, n, v, OverwriteObject(l, id, Message(n, v)), Records)
      BY <2>0, <2>1 DEF Overwrites
    <3>. QED
      BY <2>0, <2>a, <3>1, <3>2 DEF Changes
  <2>2. CASE Len(old) # v[1]
    <3>1. PICK put \in InsertObject(DeleteObject(l, id), Message(n, v)) :
             WriteBack(put.heap, UpdateRecord(Records, n, put.id), n)
      BY <2>0, <2>2
    <3>2. Replaces(l, Records, n, v, put.heap, UpdateRecord(Records, n, put.id))
      BY <2>0 DEF Replaces
    <3>. QED
      BY <2>0, <2>a, <3>1, <3>2 DEF Changes
  <2>. QED
    BY <2>1, <2>2
<1>3. ASSUME DeleteDense(n)
      PROVE  /\ Loadable /\ UNCHANGED new
             /\ \E h, records : /\ Changes(LoadHeap(heap), Records, n, h, records, attrs, attrs')
                                /\ WriteBack(h, records, n)
  <2>. DEFINE l == LoadHeap(heap)
              id == Records[SearchRecord(Records, n)].id
  <2>1. /\ Loadable /\ UNCHANGED new /\ HasKey(Records, n) /\ InDirectBlock(l, id)
        /\ WriteBack(DeleteObject(l, id), DeleteRecord(Records, n), n)
    BY <1>3 DEF DeleteDense
  <2>2. Deletes(l, Records, n, DeleteObject(l, id), DeleteRecord(Records, n))
    BY <2>1 DEF Deletes
  <2>3. attrs' = Dropped(attrs, n)
    BY <1>3 DEF DeleteDense, Forget, Dropped
  <2>. QED
    BY <2>1, <2>2, <2>3 DEF Changes
<1>. QED
  BY <1>1, <1>2, <1>3

\* What every change keeps: types, the capacity of the leaf, the order of the
\* records, and a position that never moves back.
LEMMA ChangesTyped ==
    ASSUME NEW l \in Heap, NEW r \in Seq(Slot), Len(r) <= MaxRecords,
           NEW n \in Names, NEW h, NEW records,
           NEW f, NEW g, Changes(l, r, n, h, records, f, g)
    PROVE  /\ h \in Heap /\ records \in Seq(Slot) /\ Len(records) <= MaxRecords
           /\ Sorted(r) => Sorted(records)
           /\ h.iter >= l.iter
<1>. DEFINE k == SearchRecord(r, n)
            id == r[k].id
<1>0. Len(r) \in Nat /\ l.iter \in Nat /\ MaxRecords \in Nat
  BY Sizes DEF Heap
<1>1. ASSUME NEW v \in Values, InsertsInto(l, r, n, v, h, records)
      PROVE  /\ h \in Heap /\ records \in Seq(Slot) /\ Len(records) <= MaxRecords
             /\ Sorted(r) => Sorted(records)
             /\ h.iter >= l.iter
  <2>1. PICK put \in InsertObject(l, Message(n, v)) :
           h = put.heap /\ records = InsertRecord(r, n, put.id)
    BY <1>1 DEF InsertsInto
  <2>2. Message(n, v) \in Seq(Byte) /\ Len(Message(n, v)) \in Nat
    BY MessageProps
  <2>3. /\ put.heap \in Heap /\ put.id \in HeapID
        /\ put.heap.iter = l.iter + Len(Message(n, v))
    BY <2>2, InsertProps DEF Inserted
  <2>4. /\ records \in Seq(Slot) /\ Len(records) = Len(r) + 1
        /\ Sorted(r) => Sorted(records)
    BY <2>1, <2>3, InsertRecordProps DEF InsertedAt
  <2>5. Len(r) + 1 <= MaxRecords
    BY <1>1, <1>0 DEF InsertsInto, IsFull
  <2>. QED
    BY <2>1, <2>2, <2>3, <2>4, <2>5, <1>0
<1>2. ASSUME NEW v \in Values, Overwrites(l, r, n, v, h, records)
      PROVE  /\ h \in Heap /\ records \in Seq(Slot) /\ Len(records) <= MaxRecords
             /\ Sorted(r) => Sorted(records)
             /\ h.iter >= l.iter
  <2>1. HasKey(r, n) /\ h = OverwriteObject(l, id, Message(n, v)) /\ records = r
    BY <1>2 DEF Overwrites
  <2>2. id \in HeapID /\ Message(n, v) \in Seq(Byte)
    BY <2>1, SearchProps, MessageProps
  <2>. HIDE DEF id
  <2>3. h \in Heap /\ h.iter = l.iter
    BY <2>1, <2>2, OverwriteProps
  <2>. QED
    BY <2>1, <2>3, <1>0
<1>3. ASSUME NEW v \in Values, Replaces(l, r, n, v, h, records)
      PROVE  /\ h \in Heap /\ records \in Seq(Slot) /\ Len(records) <= MaxRecords
             /\ Sorted(r) => Sorted(records)
             /\ h.iter >= l.iter
  <2>. DEFINE d == DeleteObject(l, id)
  <2>1. HasKey(r, n) /\ \E put \in InsertObject(d, Message(n, v)) :
                           h = put.heap /\ records = UpdateRecord(r, n, put.id)
    BY <1>3 DEF Replaces
  <2>2. /\ id \in HeapID
        /\ Message(n, v) \in Seq(Byte) /\ Len(Message(n, v)) \in Nat
    BY <2>1, SearchProps, MessageProps
  <2>. HIDE DEF id
  <2>3. d \in Heap /\ d.iter = l.iter
    BY <2>2, DeleteObjectProps
  <2>. HIDE DEF d
  <2>4. PICK put \in InsertObject(d, Message(n, v)) :
           h = put.heap /\ records = UpdateRecord(r, n, put.id)
    BY <2>1
  <2>5. /\ put.heap \in Heap /\ put.id \in HeapID
        /\ put.heap.iter = d.iter + Len(Message(n, v))
    BY <2>2, <2>3, InsertProps DEF Inserted
  <2>6. /\ records \in Seq(Slot) /\ Len(records) = Len(r)
        /\ Sorted(r) => Sorted(records)
    BY <2>1, <2>4, <2>5, UpdateRecordProps
  <2>. QED
    BY <2>2, <2>3, <2>4, <2>5, <2>6, <1>0
<1>4. ASSUME Deletes(l, r, n, h, records)
      PROVE  /\ h \in Heap /\ records \in Seq(Slot) /\ Len(records) <= MaxRecords
             /\ Sorted(r) => Sorted(records)
             /\ h.iter >= l.iter
  <2>1. HasKey(r, n) /\ h = DeleteObject(l, id) /\ records = DeleteRecord(r, n)
    BY <1>4 DEF Deletes
  <2>2. id \in HeapID
    BY <2>1, SearchProps
  <2>. HIDE DEF id
  <2>3. h \in Heap /\ h.iter = l.iter
    BY <2>1, <2>2, DeleteObjectProps
  <2>4. /\ records \in Seq(Slot) /\ Len(records) = Len(r) - 1
        /\ Sorted(r) => Sorted(records)
    BY <2>1, DeleteRecordProps
  <2>. QED
    BY <2>3, <2>4, <1>0
<1>. QED
  BY <1>1, <1>2, <1>3, <1>4 DEF Changes

-----------------------------------------------------------------------------
(* Types, and the order of the records *)

Attrs == UNION {[D -> Values] : D \in SUBSET Names}

\* An index in the file: it fits its leaf, and the records before the
\* checksum are in order.
IndexShape(ix) ==
    /\ ix \in Index
    /\ ix.count <= Len(ix.slots) /\ ix.sum <= Len(ix.slots)
    /\ Len(ix.slots) <= MaxRecords
    /\ \A i, j \in 1 .. ix.sum : i < j => ix.slots[i].hash <= ix.slots[j].hash

\* A store in memory: its records are in order and fit a leaf.
StoreShape(store) ==
    /\ store \in [heap : Heap, records : Seq(Slot)]
    /\ Len(store.records) <= MaxRecords
    /\ Sorted(store.records)
    /\ Tidy(store.heap)

Typed ==
    /\ new = NoStore \/ StoreShape(new)
    /\ heap = NoStore \/ heap \in Image
    /\ new # NoStore => heap = NoStore
    /\ IndexShape(index)
    /\ attrs \in Attrs
    /\ collided \in BOOLEAN /\ failed \subseteq Names

LEMMA StoreProps ==
    ASSUME NEW store, StoreShape(store)
    PROVE  store.heap \in Heap /\ store.records \in Seq(Slot)
BY DEF StoreShape

LEMMA StoreIntro ==
    ASSUME NEW h \in Heap, NEW records \in Seq(Slot), Len(records) <= MaxRecords,
           Sorted(records), Tidy(h)
    PROVE  StoreShape([heap |-> h, records |-> records])
BY DEF StoreShape

\* A sequence of slots with these records in front is again in shape.
LEMMA ShapeIntro ==
    ASSUME NEW ix, IndexShape(ix), NEW records \in Seq(Slot),
           Len(records) <= MaxRecords, Sorted(records),
           NEW w \in Index, w.sum = Len(records), w.count \in {ix.count, Len(records)},
           Len(w.slots) = IF Len(records) > Len(ix.slots) THEN Len(records)
                          ELSE Len(ix.slots),
           \A i \in 1 .. Len(records) : w.slots[i] = records[i]
    PROVE  IndexShape(w)
<1>1. /\ Len(records) \in Nat /\ Len(ix.slots) \in Nat /\ ix.count \in Nat
      /\ ix.count <= Len(ix.slots) /\ Len(ix.slots) <= MaxRecords /\ MaxRecords \in Nat
  BY Sizes DEF IndexShape, Index
<1>2. /\ w.count <= Len(w.slots) /\ w.sum <= Len(w.slots) /\ Len(w.slots) <= MaxRecords
  BY <1>1
<1>3. \A i, j \in 1 .. w.sum : i < j => w.slots[i].hash <= w.slots[j].hash
  BY DEF Sorted
<1>. QED
  BY <1>2, <1>3 DEF IndexShape

LEMMA WrittenShape ==
    ASSUME NEW ix, IndexShape(ix), NEW records \in Seq(Slot),
           Len(records) <= MaxRecords, Sorted(records)
    PROVE  IndexShape(WriteLeaf(ix, records)) /\ IndexShape(WriteIndex(ix, records))
<1>1. ix \in Index
  BY DEF IndexShape
<1>2. ASSUME NEW w, w = WriteLeaf(ix, records) PROVE IndexShape(w)
  <2>1. /\ w \in Index /\ w.count = ix.count /\ w.sum = Len(records)
        /\ Len(w.slots) = IF Len(records) > Len(ix.slots) THEN Len(records)
                          ELSE Len(ix.slots)
        /\ \A i \in 1 .. Len(records) : w.slots[i] = records[i]
    BY <1>1, <1>2, WriteLeafProps
  <2>. QED
    BY <2>1, ShapeIntro
<1>3. ASSUME NEW w, w = WriteIndex(ix, records) PROVE IndexShape(w)
  <2>1. /\ w \in Index /\ w.count = Len(records) /\ w.sum = Len(records)
        /\ Len(w.slots) = IF Len(records) > Len(ix.slots) THEN Len(records)
                          ELSE Len(ix.slots)
        /\ \A i \in 1 .. Len(records) : w.slots[i] = records[i]
    BY <1>1, <1>3, WriteIndexProps
  <2>. QED
    BY <2>1, ShapeIntro
<1>. QED
  BY <1>2, <1>3

\* The records that are loaded from an index.
LEMMA ReadLeafProps ==
    ASSUME NEW ix, IndexShape(ix), CanLoadIndex(ix), NEW r, r = ReadLeaf(ix)
    PROVE  /\ r \in Seq(Slot) /\ Len(r) = ix.count /\ Len(r) <= MaxRecords
           /\ Sorted(r)
           /\ \A i \in 1 .. ix.count : r[i] = ix.slots[i]
           /\ ix.count # 0 => ix.sum = ix.count
<1>1. /\ ix.slots \in Seq(Slot) /\ ix.count \in Nat /\ ix.sum \in Nat
      /\ ix.count <= Len(ix.slots) /\ Len(ix.slots) \in Nat
      /\ Len(ix.slots) <= MaxRecords /\ MaxRecords \in Nat
  BY Sizes DEF IndexShape, Index
<1>2. ix.count # 0 => ix.sum = ix.count
  BY DEF CanLoadIndex, LeafValid
<1>3. /\ r \in Seq(Slot) /\ Len(r) = ix.count
      /\ \A i \in 1 .. ix.count : r[i] = ix.slots[i]
  <2>. DEFINE slots == ix.slots
              m == ix.count
  <2>1. slots \in Seq(Slot) /\ m \in Nat /\ m <= Len(slots)
    BY <1>1
  <2>2. r = SubSeq(slots, 1, m)
    BY DEF ReadLeaf
  <2>. HIDE DEF slots, m
  <2>3. \A i \in 1 .. m : slots[i] \in Slot
    BY <2>1
  <2>4. r \in Seq(Slot) /\ Len(r) = m /\ \A i \in 1 .. m : r[i] = slots[i]
    BY <2>1, <2>2, <2>3, SubSeqProperties
  <2>. QED
    BY <2>4 DEF slots, m
<1>4. Sorted(r)
  <2>. SUFFICES ASSUME NEW i \in 1 .. Len(r), NEW j \in 1 .. Len(r), i < j
                PROVE  r[i].hash <= r[j].hash
    BY DEF Sorted
  <2>1. ix.sum = ix.count /\ i \in 1 .. ix.sum /\ j \in 1 .. ix.sum
    BY <1>1, <1>2, <1>3
  <2>2. ix.slots[i].hash <= ix.slots[j].hash
    BY <2>1 DEF IndexShape
  <2>. QED
    BY <2>1, <2>2, <1>3
<1>. QED
  BY <1>1, <1>2, <1>3, <1>4

\* What WriteBack leaves in the file, whichever write fails.
LEMMA WriteBackProps ==
    ASSUME heap \in Image, NEW h \in Heap, NEW records, NEW n,
           WriteBack(h, records, n)
    PROVE  /\ heap' \in Image /\ heap'.header = HeapImage(h).header
           /\ \/ /\ heap' = HeapImage(h) /\ index' = WriteIndex(index, records)
                 /\ failed' = failed
              \/ /\ heap' = HeapImage(h) /\ index' = WriteLeaf(index, records)
                 /\ failed' = failed \cup {n}
              \/ /\ heap'.area = HeapImage(h).area \/ heap'.area = heap.area
                 /\ index' = index /\ failed' = failed \cup {n}
<1>. DEFINE image == HeapImage(h)
<1>1. image \in Image
  BY ImageProps
<1>2. \/ heap' = image /\ index' = WriteIndex(index, records) /\ failed' = failed
      \/ heap' = image /\ index' = WriteLeaf(index, records) /\ failed' = failed \cup {n}
      \/ heap' = image /\ index' = index /\ failed' = failed \cup {n}
      \/ heap' = [heap EXCEPT !.header = image.header] /\ index' = index
            /\ failed' = failed \cup {n}
  BY DEF WriteBack, Fails
<1>3. heap' = [heap EXCEPT !.header = image.header] =>
         heap' \in Image /\ heap'.header = image.header /\ heap'.area = heap.area
  <2>. HIDE DEF image
  <2>. SUFFICES ASSUME heap' = [heap EXCEPT !.header = image.header]
                PROVE  heap' \in Image /\ heap'.header = image.header /\ heap'.area = heap.area
    OBVIOUS
  <2>. QED
    BY <1>1 DEF Image
<1>. HIDE DEF image
<1>4. heap' \in Image /\ heap'.header = image.header
  BY <1>1, <1>2, <1>3
<1>. QED
  BY <1>2, <1>3, <1>4 DEF image

LEMMA AttrsProps ==
    ASSUME NEW f \in Attrs
    PROVE  /\ DOMAIN f \subseteq Names /\ f \in [DOMAIN f -> Values]
           /\ \A x \in DOMAIN f : f[x] \in Values
<1>1. PICK D : D \in SUBSET Names /\ f \in [D -> Values]
  BY DEF Attrs
<1>. QED
  BY <1>1

LEMMA AttrsIntro ==
    ASSUME NEW D, D \subseteq Names, NEW f \in [D -> Values]
    PROVE  f \in Attrs
<1>1. [D -> Values] \in {[E -> Values] : E \in SUBSET Names}
  OBVIOUS
<1>. QED
  BY <1>1 DEF Attrs

LEMMA NoAttrs == <<>> \in Attrs
<1>1. <<>> \in [{} -> Values]
  <2>1. DOMAIN <<>> = {}
    OBVIOUS
  <2>. QED
    BY <2>1
<1>. QED
  BY <1>1, AttrsIntro

\* The history of attributes stays one.
LEMMA AttrsKept ==
    ASSUME attrs \in Attrs, NEW n \in Names,
           (\E v \in Values : Acknowledge(n, v)) \/ Forget(n)
    PROVE  attrs' \in Attrs
<1>1. DOMAIN attrs \subseteq Names /\ \A x \in DOMAIN attrs : attrs[x] \in Values
  BY AttrsProps
<1>2. ASSUME NEW v \in Values, Acknowledge(n, v) PROVE attrs' \in Attrs
  <2>. DEFINE D == DOMAIN attrs \cup {n}
              f == [x \in D |-> IF x = n THEN v ELSE attrs[x]]
  <2>1. attrs' = f
    BY <1>2 DEF Acknowledge
  <2>2. f \in [D -> Values] /\ D \subseteq Names
    BY <1>1
  <2>. HIDE DEF f, D
  <2>. QED
    BY <2>1, <2>2, AttrsIntro
<1>3. ASSUME Forget(n) PROVE attrs' \in Attrs
  <2>. DEFINE D == DOMAIN attrs \ {n}
              f == [x \in D |-> attrs[x]]
  <2>1. attrs' = f
    BY <1>3 DEF Forget
  <2>2. f \in [D -> Values] /\ D \subseteq Names
    BY <1>1
  <2>. HIDE DEF f, D
  <2>. QED
    BY <2>1, <2>2, AttrsIntro
<1>. QED
  BY <1>2, <1>3

LEMMA NewHeapProps ==
    /\ NewHeap \in Heap /\ NewHeap.iter = 0 /\ NewHeap.count = 0
    /\ NewHeap.managed = NewHeap.space /\ Tidy(NewHeap)
<1>. DEFINE bs == [at \in {0} |-> EmptyBlock]
<1>1. EmptyBlock \in Block /\ EmptyBlock.free = 0
  BY DEF EmptyBlock, Block
<1>2. bs \in [{0} -> Block] /\ bs[0] = EmptyBlock
  BY <1>1
<1>3. NewHeap = [rows |-> 0, iter |-> 0, managed |-> BlockSize, space |-> BlockSize,
                 count |-> 0, blocks |-> bs]
  BY DEF NewHeap
<1>. HIDE DEF bs
<1>4. bs \in Blocks
  BY <1>2, BlocksIntro
<1>5. NewHeap \in Heap
  BY <1>3, <1>4, Sizes DEF Heap
<1>. QED
  BY <1>1, <1>2, <1>3, <1>5 DEF Tidy

\* The records of a store to which a message was added.
LEMMA AddTyped ==
    ASSUME NEW store, StoreShape(store), NEW n \in Names, NEW v \in Values,
           ~ IsFull(store.records),
           NEW put \in InsertObject(store.heap, Message(n, v)),
           NEW w, w = [heap |-> put.heap, records |-> InsertRecord(store.records, n, put.id)]
    PROVE  StoreShape(w)
<1>. DEFINE records == InsertRecord(store.records, n, put.id)
            old == store.records
<1>1. /\ store.heap \in Heap /\ old \in Seq(Slot) /\ Tidy(store.heap) /\ Sorted(old)
      /\ Len(old) <= MaxRecords
  BY StoreProps DEF StoreShape
<1>2. Message(n, v) \in Seq(Byte)
  BY MessageProps
<1>3. put.heap \in Heap /\ put.id \in HeapID /\ Tidy(put.heap)
  BY <1>1, <1>2, InsertProps DEF Inserted
<1>4. records = InsertRecord(old, n, put.id)
  OBVIOUS
<1>5. Len(old) + 1 <= MaxRecords
  BY <1>1, Sizes DEF IsFull
<1>. HIDE DEF records, old
<1>6. /\ records \in Seq(Slot) /\ Len(records) = Len(old) + 1
      /\ Sorted(records)
  BY <1>1, <1>3, <1>4, InsertRecordProps DEF InsertedAt
<1>7. Len(records) <= MaxRecords
  BY <1>5, <1>6
<1>8. w = [heap |-> put.heap, records |-> records]
  BY DEF records
<1>. QED
  BY <1>3, <1>6, <1>7, <1>8, StoreIntro

LEMMA TypedInit == Init => Typed
<1>. SUFFICES ASSUME Init PROVE Typed
  OBVIOUS
<1>1. index = [count |-> 0, slots |-> <<>>, sum |-> 0]
  BY DEF Init, EmptyIndex
<1>2. IndexShape(index)
  <2>1. index \in Index /\ index.count = 0 /\ index.sum = 0 /\ Len(index.slots) = 0
    BY <1>1 DEF Index
  <2>. QED
    BY <2>1, Sizes DEF IndexShape
<1>. QED
  BY <1>2, NoAttrs DEF Init, Typed

LEMMA TypedStep == Typed /\ [Next]_vars => Typed'
<1>. SUFFICES ASSUME Typed, [Next]_vars PROVE Typed'
  OBVIOUS
<1>. USE DEF Typed
<1>1. CASE NewStore
  <2>1. new' = [heap |-> NewHeap, records |-> <<>>] /\ heap = NoStore
        /\ UNCHANGED <<heap, index, attrs, collided, failed>>
    BY <1>1 DEF NewStore
  <2>2. <<>> \in Seq(Slot) /\ Len(<<>>) <= MaxRecords /\ Sorted(<<>>)
    BY Sizes DEF Sorted
  <2>3. NewHeap \in Heap /\ Tidy(NewHeap)
    BY NewHeapProps
  <2>4. StoreShape([heap |-> NewHeap, records |-> <<>>])
    BY <2>2, <2>3, StoreIntro
  <2>. QED
    BY <2>1, <2>4
<1>2. CASE WriteNew
  <2>1. /\ new # NoStore /\ heap' = HeapImage(new.heap)
        /\ index' = WriteIndex(index, new.records)
        /\ new' = NoStore /\ UNCHANGED <<attrs, collided, failed>>
    BY <1>2 DEF WriteNew
  <2>2. /\ new.heap \in Heap /\ new.records \in Seq(Slot)
        /\ Len(new.records) <= MaxRecords /\ Sorted(new.records)
    BY <2>1, StoreProps DEF StoreShape
  <2>3. heap' \in Image
    BY <2>1, <2>2, ImageProps
  <2>4. IndexShape(index')
    BY <2>1, <2>2, WrittenShape
  <2>. QED
    BY <2>1, <2>3, <2>4
<1>3. ASSUME NEW n \in Names, NEW v \in Values, Add(n, v) PROVE Typed'
  <2>1. /\ new # NoStore /\ ~ IsFull(new.records)
        /\ Acknowledge(n, v) /\ UNCHANGED <<heap, index, collided, failed>>
    BY <1>3 DEF Add
  <2>2. PICK put \in InsertObject(new.heap, Message(n, v)) :
           new' = [heap |-> put.heap, records |-> InsertRecord(new.records, n, put.id)]
    BY <1>3 DEF Add
  <2>3. StoreShape(new')
    BY <2>1, <2>2, AddTyped
  <2>4. attrs' \in Attrs
    BY <2>1, AttrsKept
  <2>. QED
    BY <2>1, <2>3, <2>4
<1>4. ASSUME NEW n \in Names, NEW v \in Values, AddFails(n, v) PROVE Typed'
  <2>1. /\ new' = NoStore /\ attrs' = <<>> /\ UNCHANGED <<heap, index, collided, failed>>
    BY <1>4 DEF AddFails
  <2>. QED
    BY <2>1, NoAttrs
<1>5. ASSUME NEW n \in Names,
             (\E v \in Values : InsertDense(n, v) \/ ModifyDense(n, v)) \/ DeleteDense(n)
      PROVE  Typed'
  <2>1. PICK h, records : /\ Changes(LoadHeap(heap), Records, n, h, records, attrs, attrs')
                          /\ WriteBack(h, records, n)
    BY <1>5, RewriteSteps
  <2>2. Loadable /\ new' = new
    BY <1>5, RewriteSteps
  <2>3. /\ new = NoStore /\ heap \in Image /\ CanLoad(heap) /\ CanLoadIndex(index)
    BY <2>2 DEF Loadable
  <2>4. LoadHeap(heap) \in Heap
    BY <2>3, LoadProps
  <2>5. Records \in Seq(Slot) /\ Len(Records) <= MaxRecords /\ Sorted(Records)
    BY <2>3, ReadLeafProps DEF Records
  <2>6. /\ h \in Heap /\ records \in Seq(Slot) /\ Len(records) <= MaxRecords
        /\ Sorted(records)
    BY <2>1, <2>4, <2>5, ChangesTyped
  <2>7. /\ heap' \in Image
        /\ \/ index' = WriteIndex(index, records)
           \/ index' = WriteLeaf(index, records)
           \/ index' = index
        /\ failed' = failed \/ failed' = failed \cup {n}
    BY <2>1, <2>3, <2>6, WriteBackProps
  <2>8. IndexShape(index')
    BY <2>6, <2>7, WrittenShape
  <2>9. attrs' \in Attrs /\ collided' \in BOOLEAN
    <3>1. (\E v \in Values : Acknowledge(n, v)) \/ Forget(n)
      BY <1>5 DEF InsertDense, ModifyDense, DeleteDense
    <3>2. collided' \in BOOLEAN
      <4>1. collided' = collided \/ collided' = (collided \/ Collides(n))
        BY <1>5 DEF InsertDense, ModifyDense, DeleteDense
      <4>. QED
        BY <4>1
    <3>. QED
      BY <3>1, <3>2, AttrsKept
  <2>. QED
    BY <2>2, <2>3, <2>7, <2>8, <2>9
<1>6. CASE UNCHANGED vars
  BY <1>6 DEF vars, StoreShape, IndexShape
<1>. QED
  BY <1>1, <1>2, <1>3, <1>4, <1>5, <1>6 DEF Next

LEMMA TypedInv == Spec => []Typed
BY TypedInit, TypedStep, PTL DEF Spec

LEMMA TypedImplies == Typed => TypeOK
<1>. SUFFICES ASSUME Typed PROVE TypeOK
  OBVIOUS
<1>1. heap = NoStore \/ /\ {heap.header.rows, heap.header.iter, heap.header.managed} \subseteq Nat
                        /\ {heap.header.space, heap.header.count} \subseteq Int
                        /\ Len(heap.area) = DataSize
  <2>. SUFFICES ASSUME heap \in Image
                PROVE  /\ {heap.header.rows, heap.header.iter, heap.header.managed} \subseteq Nat
                       /\ {heap.header.space, heap.header.count} \subseteq Int
                       /\ Len(heap.area) = DataSize
    BY DEF Typed
  <2>1. heap.header \in Header /\ heap.area \in [1 .. DataSize -> Byte]
    BY DEF Image
  <2>2. Len(heap.area) = DataSize
    BY <2>1, Sizes
  <2>. QED
    BY <2>1, <2>2 DEF Header
<1>2. ASSUME NEW id \in HeapID PROVE IsHeapID(id)
  BY DEF IsHeapID, HeapID
<1>3. /\ index.slots \in Seq(Slot) /\ index.count \in Nat /\ index.sum \in Nat
      /\ index.count <= Len(index.slots) /\ index.sum <= Len(index.slots)
      /\ Len(index.slots) <= MaxRecords
  BY DEF Typed, IndexShape, Index
<1>4. \A i \in DOMAIN index.slots : IsHeapID(index.slots[i].id)
  BY <1>2, <1>3, SlotProps
<1>5. new = NoStore \/ \A i \in DOMAIN new.records : IsHeapID(new.records[i].id)
  <2>. SUFFICES ASSUME new # NoStore PROVE \A i \in DOMAIN new.records : IsHeapID(new.records[i].id)
    OBVIOUS
  <2>1. new.records \in Seq(Slot)
    BY StoreProps DEF Typed
  <2>. QED
    BY <2>1, <1>2, SlotProps
<1>6. DOMAIN attrs \subseteq Names /\ Range(attrs) \subseteq Values
  BY AttrsProps DEF Typed, Range
<1>. QED
  BY <1>1, <1>3, <1>4, <1>5, <1>6 DEF Typed, TypeOK

\* TypeOK of dense storage, for every size of block, heap and leaf: heap IDs
\* stay in their two bytes, an index never outgrows its leaf and counts no
\* record that it does not hold, and the block that is written has its size.
THEOREM TypeCorrect == Spec => []TypeOK
BY TypedInv, TypedImplies, PTL

\* The records that a leaf's checksum covers are in the order of their hashes
\* (IndexSorted), through insertRecordSorted, UpdateRecord, DeleteRecord and a
\* write that fails after the leaf or before it.
THEOREM RecordsAreSorted == Spec => []IndexSorted
<1>1. Typed => IndexSorted
  BY DEF Typed, IndexShape, IndexSorted
<1>. QED
  BY <1>1, TypedInv, PTL

-----------------------------------------------------------------------------
(* Objects share no byte *)

\* The offsets of all the objects that a direct block holds fit into a heap
\* ID.  So it is with the 64 KB blocks and two-byte offsets of attributes.
OffsetsFit == Capacity <= OffsetLimit

Separate(x, y) == x.offset + x.length <= y.offset \/ y.offset + y.length <= x.offset

\* The objects of the first m slots lie before a position, apart from each other.
Apart(slots, m, position) ==
    \A i \in 1 .. m :
        /\ slots[i].id.offset + slots[i].id.length <= position
        /\ \A j \in 1 .. m : j # i => Separate(slots[i].id, slots[j].id)

ApartInv ==
    /\ (new # NoStore /\ new.heap.iter <= Capacity) =>
          Apart(new.records, Len(new.records), new.heap.iter)
    /\ (heap # NoStore /\ heap.header.iter <= Capacity) =>
          Apart(index.slots, index.sum, heap.header.iter)

LEMMA IDProps ==
    ASSUME NEW id \in HeapID
    PROVE  /\ id.offset \in Nat /\ id.length \in Nat /\ id.length >= 1
           /\ id.offset < OffsetLimit
BY Sizes DEF HeapID

LEMMA SeparateSym ==
    ASSUME NEW x, NEW y, Separate(x, y)
    PROVE  Separate(y, x)
BY DEF Separate

\* Moving the position up keeps objects apart.
LEMMA ApartLater ==
    ASSUME NEW slots \in Seq(Slot), NEW m \in Nat, m <= Len(slots),
           NEW p \in Nat, NEW q \in Nat, p <= q, Apart(slots, m, p)
    PROVE  Apart(slots, m, q)
<1>. SUFFICES ASSUME NEW i \in 1 .. m
              PROVE  slots[i].id.offset + slots[i].id.length <= q
  BY DEF Apart
<1>1. slots[i].id \in HeapID
  BY SlotProps
<1>2. slots[i].id.offset \in Nat /\ slots[i].id.length \in Nat
  BY <1>1, IDProps
<1>. QED
  BY <1>2 DEF Apart

\* An object that is inserted in the block goes to the position.
LEMMA InsertPlace ==
    ASSUME OffsetsFit, NEW h \in Heap, Tidy(h), NEW data \in Seq(Byte),
           NEW put \in InsertObject(h, data), put.heap.iter <= Capacity
    PROVE  /\ put = PutObject(h, 0, data) /\ h.rows = 0 /\ h.blocks[0].free = h.iter
           /\ put.id \in HeapID
           /\ put.id.offset = h.iter /\ put.id.length = Len(data)
           /\ put.heap.iter = h.iter + Len(data) /\ h.iter <= Capacity
           /\ h.iter \in Nat /\ Len(data) \in 1 .. MaxObject
<1>1. /\ Inserted(h, put, data) /\ Len(data) \in 1 .. MaxObject
      /\ put.heap.iter <= BlockSize =>
             h.rows = 0 /\ h.blocks[0].free = h.iter /\ put = PutObject(h, 0, data)
  BY InsertProps
<1>2. h.iter \in Nat /\ put.heap.iter \in Nat
  BY <1>1 DEF Heap, Inserted
<1>3. put.heap.iter <= BlockSize
  BY <1>2, Sizes
<1>4. h.rows = 0 /\ h.blocks[0].free = h.iter /\ put = PutObject(h, 0, data)
  BY <1>1, <1>3
<1>5. put.id.offset = (0 + h.blocks[0].free) % OffsetLimit
  <2>1. 0 \in DOMAIN h.blocks
    BY BlocksProps
  <2>. QED
    BY <2>1, <1>1, <1>4, PutProps
<1>6. put.heap.iter = h.iter + Len(data) /\ put.id.length = Len(data) /\ put.id \in HeapID
  BY <1>1 DEF Inserted
<1>7. h.iter < OffsetLimit /\ h.iter <= Capacity
  BY <1>1, <1>2, <1>6, Sizes DEF OffsetsFit
<1>8. (0 + h.iter) % OffsetLimit = h.iter
  BY <1>2, <1>7, Sizes
<1>. QED
  BY <1>1, <1>2, <1>4, <1>5, <1>6, <1>7, <1>8

LEMMA InsertApart ==
    ASSUME OffsetsFit, NEW h \in Heap, Tidy(h), NEW r \in Seq(Slot),
           NEW n \in Names, NEW data \in Seq(Byte),
           NEW put \in InsertObject(h, data), put.heap.iter <= Capacity,
           NEW records, records = InsertRecord(r, n, put.id),
           Apart(r, Len(r), h.iter)
    PROVE  Apart(records, Len(records), put.heap.iter)
<1>1. /\ put.id \in HeapID /\ put.id.offset = h.iter /\ put.id.length = Len(data)
      /\ put.heap.iter = h.iter + Len(data)
      /\ h.iter \in Nat /\ Len(data) \in Nat
  BY InsertPlace
<1>2. PICK k \in 1 .. Len(r) + 1 : InsertedAt(r, k, Record(n, put.id), records)
  BY <1>1, InsertRecordProps
<1>3. Record(n, put.id).id = put.id
  BY <1>1, RecordProps
<1>. DEFINE from(i) == IF i < k THEN i ELSE i - 1
<1>4. \A i \in 1 .. Len(r) + 1 : i # k => from(i) \in 1 .. Len(r)
  OBVIOUS
<1>5. \A i, j \in 1 .. Len(r) + 1 : (i # k /\ j # k /\ i # j) => from(i) # from(j)
  OBVIOUS
<1>6. /\ Len(records) = Len(r) + 1
      /\ \A i \in 1 .. Len(r) + 1 : i # k => records[i] = r[from(i)]
      /\ records[k].id = put.id
  BY <1>2, <1>3 DEF InsertedAt
<1>. HIDE DEF from
<1>7. \A i \in 1 .. Len(r) : r[i].id.offset \in Nat /\ r[i].id.length \in Nat
  BY SlotProps, IDProps
<1>8. \A i \in 1 .. Len(r) : r[i].id.offset + r[i].id.length <= h.iter
  BY DEF Apart
<1>9. ASSUME NEW i \in 1 .. Len(r) + 1
      PROVE  records[i].id.offset + records[i].id.length <= put.heap.iter
  <2>1. CASE i = k
    BY <2>1, <1>6, <1>1
  <2>2. CASE i # k
    <3>. DEFINE x == from(i)
    <3>1. x \in 1 .. Len(r) /\ records[i] = r[x]
      BY <2>2, <1>4, <1>6
    <3>. HIDE DEF x
    <3>2. /\ r[x].id.offset \in Nat /\ r[x].id.length \in Nat
          /\ r[x].id.offset + r[x].id.length <= h.iter
      BY <3>1, <1>7, <1>8
    <3>. QED
      BY <3>1, <3>2, <1>1
  <2>. QED
    BY <2>1, <2>2
<1>10. ASSUME NEW i \in 1 .. Len(r) + 1, NEW j \in 1 .. Len(r) + 1, j # i
       PROVE  Separate(records[i].id, records[j].id)
  <2>1. CASE i = k
    <3>1. from(j) \in 1 .. Len(r) /\ records[j] = r[from(j)]
      BY <2>1, <1>10, <1>4, <1>6
    <3>2. r[from(j)].id.offset + r[from(j)].id.length <= put.id.offset
      BY <3>1, <1>8, <1>1
    <3>. QED
      BY <2>1, <3>1, <3>2, <1>6 DEF Separate
  <2>2. CASE j = k
    <3>1. from(i) \in 1 .. Len(r) /\ records[i] = r[from(i)]
      BY <2>2, <1>10, <1>4, <1>6
    <3>2. r[from(i)].id.offset + r[from(i)].id.length <= put.id.offset
      BY <3>1, <1>8, <1>1
    <3>. QED
      BY <2>2, <3>1, <3>2, <1>6 DEF Separate
  <2>3. CASE i # k /\ j # k
    <3>1. /\ from(i) \in 1 .. Len(r) /\ from(j) \in 1 .. Len(r) /\ from(j) # from(i)
          /\ records[i] = r[from(i)] /\ records[j] = r[from(j)]
      BY <2>3, <1>10, <1>4, <1>5, <1>6
    <3>. QED
      BY <3>1 DEF Apart
  <2>. QED
    BY <2>1, <2>2, <2>3
<1>. QED
  BY <1>6, <1>9, <1>10 DEF Apart

LEMMA ChangesApart ==
    ASSUME OffsetsFit, NEW l \in Heap, Tidy(l),
           NEW r \in Seq(Slot), Len(r) <= MaxRecords,
           NEW n \in Names, NEW h, NEW records,
           NEW f, NEW g, Changes(l, r, n, h, records, f, g),
           h.iter <= Capacity, Apart(r, Len(r), l.iter)
    PROVE  Apart(records, Len(records), h.iter)
<1>. DEFINE k == SearchRecord(r, n)
            id == r[k].id
<1>0. Len(r) \in Nat /\ l.iter \in Nat
  BY DEF Heap
<1>1. ASSUME NEW v \in Values, InsertsInto(l, r, n, v, h, records)
      PROVE  Apart(records, Len(records), h.iter)
  <2>1. PICK put \in InsertObject(l, Message(n, v)) :
           h = put.heap /\ records = InsertRecord(r, n, put.id)
    BY <1>1 DEF InsertsInto
  <2>2. Message(n, v) \in Seq(Byte)
    BY MessageProps
  <2>. QED
    BY <2>1, <2>2, InsertApart
<1>2. ASSUME NEW v \in Values, Overwrites(l, r, n, v, h, records)
      PROVE  Apart(records, Len(records), h.iter)
  <2>1. HasKey(r, n) /\ h = OverwriteObject(l, id, Message(n, v)) /\ records = r
    BY <1>2 DEF Overwrites
  <2>2. id \in HeapID /\ Message(n, v) \in Seq(Byte)
    BY <2>1, SearchProps, MessageProps
  <2>. HIDE DEF id
  <2>3. h.iter = l.iter
    BY <2>1, <2>2, OverwriteProps
  <2>. QED
    BY <2>1, <2>3
<1>3. ASSUME NEW v \in Values, Replaces(l, r, n, v, h, records)
      PROVE  Apart(records, Len(records), h.iter)
  <2>. DEFINE d == DeleteObject(l, id)
  <2>1. HasKey(r, n) /\ \E put \in InsertObject(d, Message(n, v)) :
                           h = put.heap /\ records = UpdateRecord(r, n, put.id)
    BY <1>3 DEF Replaces
  <2>2. id \in HeapID /\ k \in 1 .. Len(r) /\ Message(n, v) \in Seq(Byte)
    BY <2>1, SearchProps, MessageProps
  <2>. HIDE DEF id
  <2>3. d \in Heap /\ d.iter = l.iter /\ d.rows = l.rows
        /\ d.blocks[0].free = l.blocks[0].free
    BY <2>2, DeleteObjectProps
  <2>. HIDE DEF d
  <2>4. Tidy(d)
    BY <2>3 DEF Tidy
  <2>5. PICK put \in InsertObject(d, Message(n, v)) :
           h = put.heap /\ records = UpdateRecord(r, n, put.id)
    BY <2>1
  <2>6. /\ put.id \in HeapID /\ put.id.offset = l.iter
        /\ put.id.length \in Nat /\ h.iter = l.iter + put.id.length
    BY <2>2, <2>3, <2>4, <2>5, InsertPlace, MessageProps
  <2>7. /\ Len(records) = Len(r) /\ records[k].id = put.id
        /\ \A j \in 1 .. Len(r) : j # k => records[j] = r[j]
    BY <2>1, <2>5, <2>6, UpdateRecordProps
  <2>. HIDE DEF k
  <2>8. \A j \in 1 .. Len(r) : r[j].id.offset \in Nat /\ r[j].id.length \in Nat
    BY SlotProps, IDProps
  <2>9. \A j \in 1 .. Len(r) : r[j].id.offset + r[j].id.length <= l.iter
    BY DEF Apart
  <2>10. ASSUME NEW i \in 1 .. Len(r)
         PROVE  records[i].id.offset + records[i].id.length <= h.iter
    <3>1. CASE i = k
      BY <3>1, <2>6, <2>7, <1>0
    <3>2. CASE i # k
      BY <3>2, <2>6, <2>7, <2>8, <2>9, <1>0
    <3>. QED
      BY <3>1, <3>2
  <2>11. ASSUME NEW i \in 1 .. Len(r), NEW j \in 1 .. Len(r), j # i
         PROVE  Separate(records[i].id, records[j].id)
    <3>1. CASE i = k
      <4>1. r[j].id.offset + r[j].id.length <= put.id.offset /\ records[j] = r[j]
        BY <3>1, <2>11, <2>6, <2>7, <2>9
      <4>. QED
        BY <4>1, <3>1, <2>7 DEF Separate
    <3>2. CASE j = k
      <4>1. r[i].id.offset + r[i].id.length <= put.id.offset /\ records[i] = r[i]
        BY <3>2, <2>11, <2>6, <2>7, <2>9
      <4>. QED
        BY <4>1, <3>2, <2>7 DEF Separate
    <3>3. CASE i # k /\ j # k
      BY <3>3, <2>7, <2>11 DEF Apart
    <3>. QED
      BY <3>1, <3>2, <3>3
  <2>. QED
    BY <2>7, <2>10, <2>11 DEF Apart
<1>4. ASSUME Deletes(l, r, n, h, records)
      PROVE  Apart(records, Len(records), h.iter)
  <2>1. HasKey(r, n) /\ h = DeleteObject(l, id) /\ records = DeleteRecord(r, n)
    BY <1>4 DEF Deletes
  <2>2. id \in HeapID /\ k \in 1 .. Len(r)
    BY <2>1, SearchProps
  <2>. HIDE DEF id
  <2>3. h.iter = l.iter
    BY <2>1, <2>2, DeleteObjectProps
  <2>4. /\ Len(records) = Len(r) - 1
        /\ \A j \in 1 .. Len(r) - 1 : records[j] = IF j < k THEN r[j] ELSE r[j + 1]
    BY <2>1, DeleteRecordProps
  <2>. HIDE DEF k
  <2>. DEFINE from(i) == IF i < k THEN i ELSE i + 1
  <2>5. \A i \in 1 .. Len(r) - 1 : from(i) \in 1 .. Len(r) /\ records[i] = r[from(i)]
    BY <2>2, <2>4
  <2>6. \A i, j \in 1 .. Len(r) - 1 : i # j => from(i) # from(j)
    BY <2>2
  <2>. HIDE DEF from
  <2>7. \A i \in 1 .. Len(r) - 1 :
           records[i].id.offset + records[i].id.length <= h.iter
    BY <2>3, <2>5 DEF Apart
  <2>8. ASSUME NEW i \in 1 .. Len(r) - 1, NEW j \in 1 .. Len(r) - 1, j # i
        PROVE  Separate(records[i].id, records[j].id)
    BY <2>5, <2>6, <2>8 DEF Apart
  <2>. QED
    BY <2>4, <2>7, <2>8 DEF Apart
<1>. QED
  BY <1>1, <1>2, <1>3, <1>4 DEF Changes

\* Records in front of the slots of a leaf are as far apart as they were.
LEMMA WrittenApart ==
    ASSUME NEW ix \in Index, NEW records \in Seq(Slot), NEW p,
           Apart(records, Len(records), p),
           NEW w, w = WriteLeaf(ix, records) \/ w = WriteIndex(ix, records)
    PROVE  Apart(w.slots, w.sum, p)
<1>1. w.sum = Len(records) /\ \A i \in 1 .. Len(records) : w.slots[i] = records[i]
  BY WriteLeafProps, WriteIndexProps
<1>. QED
  BY <1>1 DEF Apart

LEMMA ApartStep ==
    ASSUME OffsetsFit, Typed, ApartInv, [Next]_vars
    PROVE  ApartInv'
<1>. USE DEF ApartInv
<1>0. index \in Index
  BY DEF Typed, IndexShape
<1>1. CASE NewStore
  <2>1. /\ new' = [heap |-> NewHeap, records |-> <<>>] /\ heap = NoStore
        /\ UNCHANGED <<heap, index>>
    BY <1>1 DEF NewStore
  <2>2. Apart(<<>>, Len(<<>>), NewHeap.iter)
    BY DEF Apart
  <2>. QED
    BY <2>1, <2>2
<1>2. CASE WriteNew
  <2>1. /\ new # NoStore /\ heap' = HeapImage(new.heap)
        /\ index' = WriteIndex(index, new.records) /\ new' = NoStore
    BY <1>2 DEF WriteNew
  <2>2. new.heap \in Heap /\ new.records \in Seq(Slot)
    BY <2>1, StoreProps DEF Typed
  <2>3. heap'.header.iter = new.heap.iter
    BY <2>1, <2>2, ImageProps
  <2>4. new.heap.iter <= Capacity => Apart(index'.slots, index'.sum, new.heap.iter)
    BY <2>1, <2>2, <1>0, WrittenApart
  <2>. QED
    BY <2>1, <2>3, <2>4
<1>3. ASSUME NEW n \in Names, NEW v \in Values, Add(n, v) PROVE ApartInv'
  <2>1. new # NoStore /\ UNCHANGED <<heap, index>>
    BY <1>3 DEF Add
  <2>2. PICK put \in InsertObject(new.heap, Message(n, v)) :
           new' = [heap |-> put.heap, records |-> InsertRecord(new.records, n, put.id)]
    BY <1>3 DEF Add
  <2>3. /\ new.heap \in Heap /\ new.records \in Seq(Slot) /\ Tidy(new.heap)
    BY <2>1, StoreProps DEF Typed, StoreShape
  <2>4. Message(n, v) \in Seq(Byte)
    BY MessageProps
  <2>5. ASSUME put.heap.iter <= Capacity
        PROVE  Apart(new'.records, Len(new'.records), put.heap.iter)
    <3>1. new.heap.iter <= Capacity
      BY <2>3, <2>4, <2>5, InsertPlace
    <3>2. new'.records = InsertRecord(new.records, n, put.id)
      BY <2>2
    <3>. QED
      BY <2>1, <2>3, <2>4, <2>5, <3>1, <3>2, InsertApart
  <2>6. new'.heap = put.heap
    BY <2>2
  <2>7. heap' = NoStore
    BY <2>1 DEF Typed
  <2>. QED
    BY <2>5, <2>6, <2>7
<1>4. ASSUME NEW n \in Names, NEW v \in Values, AddFails(n, v) PROVE ApartInv'
  BY <1>4 DEF AddFails
<1>5. ASSUME NEW n \in Names,
             (\E v \in Values : InsertDense(n, v) \/ ModifyDense(n, v)) \/ DeleteDense(n)
      PROVE  ApartInv'
  <2>. DEFINE l == LoadHeap(heap)
  <2>1. PICK h, records : /\ Changes(l, Records, n, h, records, attrs, attrs')
                          /\ WriteBack(h, records, n)
    BY <1>5, RewriteSteps
  <2>2. Loadable /\ new' = new
    BY <1>5, RewriteSteps
  <2>3. /\ new = NoStore /\ heap # NoStore /\ heap \in Image
        /\ CanLoad(heap) /\ CanLoadIndex(index) /\ IndexShape(index)
    BY <2>2 DEF Loadable, Typed
  <2>4. l \in Heap /\ Tidy(l) /\ l.iter = heap.header.iter
    BY <2>3, LoadProps
  <2>. HIDE DEF l
  <2>5. /\ Records \in Seq(Slot) /\ Len(Records) <= MaxRecords
        /\ Len(Records) = index.count /\ index.count \in Nat
        /\ \A i \in 1 .. index.count : Records[i] = index.slots[i]
        /\ index.count # 0 => index.sum = index.count
    BY <2>3, <1>0, ReadLeafProps DEF Records, Index
  <2>6. h \in Heap /\ records \in Seq(Slot) /\ h.iter >= l.iter
    BY <2>1, <2>4, <2>5, ChangesTyped
  <2>7. heap'.header.iter = h.iter
    <3>1. heap'.header = HeapImage(h).header
      BY <2>1, <2>3, <2>6, WriteBackProps
    <3>2. HeapImage(h).header.iter = h.iter
      BY <2>6, ImageProps
    <3>. QED
      BY <3>1, <3>2
  <2>8. ASSUME h.iter <= Capacity PROVE Apart(index'.slots, index'.sum, h.iter)
    <3>0. l.iter \in Nat /\ h.iter \in Nat /\ l.iter <= Capacity
      BY <2>4, <2>6, <2>8, Sizes DEF Heap
    <3>1. Apart(index.slots, index.sum, l.iter)
      BY <2>3, <2>4, <3>0
    <3>2. Apart(Records, Len(Records), l.iter)
      BY <3>1, <2>5 DEF Apart
    <3>3. Apart(records, Len(records), h.iter)
      BY <2>1, <2>4, <2>5, <2>8, <3>2, ChangesApart
    <3>4. CASE index' = WriteIndex(index, records) \/ index' = WriteLeaf(index, records)
      BY <3>3, <3>4, <2>6, <1>0, WrittenApart
    <3>5. CASE index' = index
      <4>1. index.slots \in Seq(Slot) /\ index.sum \in Nat /\ index.sum <= Len(index.slots)
        BY <2>3 DEF IndexShape, Index
      <4>2. Apart(index.slots, index.sum, h.iter)
        BY <4>1, <3>0, <3>1, <2>6, ApartLater
      <4>. QED
        BY <4>2, <3>5
    <3>. QED
      BY <3>4, <3>5, <2>1, <2>3, <2>6, WriteBackProps
  <2>. QED
    BY <2>2, <2>3, <2>7, <2>8
<1>6. CASE UNCHANGED vars
  BY <1>6 DEF vars, Apart, Separate
<1>. QED
  BY <1>1, <1>2, <1>3, <1>4, <1>5, <1>6 DEF Next

\* Objects apart from each other have an ID each.
LEMMA ApartIDs ==
    ASSUME NEW slots \in Seq(Slot), NEW m \in Nat, m <= Len(slots),
           NEW p, Apart(slots, m, p)
    PROVE  Cardinality({slots[i].id : i \in 1 .. m}) = m
<1>. DEFINE ids == {slots[i].id : i \in 1 .. m}
            f == [i \in 1 .. m |-> slots[i].id]
<1>1. \A i \in 1 .. m : /\ slots[i].id.offset \in Nat /\ slots[i].id.length \in Nat
                        /\ slots[i].id.length >= 1
  BY SlotProps, IDProps
<1>2. \A i, j \in 1 .. m : i # j => slots[i].id # slots[j].id
  <2>. SUFFICES ASSUME NEW i \in 1 .. m, NEW j \in 1 .. m, i # j, slots[i].id = slots[j].id
                PROVE  FALSE
    OBVIOUS
  <2>1. Separate(slots[i].id, slots[j].id)
    BY DEF Apart
  <2>2. Separate(slots[i].id, slots[i].id)
    BY <2>1
  <2>. QED
    BY <2>2, <1>1 DEF Separate
<1>3. f \in Bijection(1 .. m, ids)
  BY <1>2 DEF Bijection, Injection, Surjection, IsInjective
<1>4. IsFiniteSet(1 .. m) /\ Cardinality(1 .. m) = m
  BY FS_Interval
<1>. HIDE DEF f, ids
<1>5. ExistsBijection(1 .. m, ids)
  BY <1>3 DEF ExistsBijection
<1>6. Cardinality(ids) = m
  BY <1>4, <1>5, FS_Bijection
<1>. QED
  BY <1>6 DEF ids

LEMMA ApartImplies == Typed /\ ApartInv => ObjectsDisjoint
<1>. SUFFICES ASSUME Typed, ApartInv, Settled, Fits
              PROVE  LET ids == {index.slots[i].id : i \in 1 .. index.sum}
                     IN  /\ Cardinality(ids) = index.sum
                         /\ \A x \in ids :
                               /\ x.offset + x.length <= heap.header.iter
                               /\ \A y \in ids \ {x} : \/ x.offset + x.length <= y.offset
                                                       \/ y.offset + y.length <= x.offset
  BY DEF ObjectsDisjoint
<1>. DEFINE ids == {index.slots[i].id : i \in 1 .. index.sum}
<1>1. /\ index.slots \in Seq(Slot) /\ index.sum \in Nat /\ index.sum <= Len(index.slots)
  BY DEF Typed, IndexShape, Index
<1>2. Apart(index.slots, index.sum, heap.header.iter)
  BY DEF ApartInv, Settled, Fits
<1>3. Cardinality(ids) = index.sum
  <2>. DEFINE slots == index.slots
              m == index.sum
  <2>1. slots \in Seq(Slot) /\ m \in Nat /\ m <= Len(slots) /\ Apart(slots, m, heap.header.iter)
    BY <1>1, <1>2
  <2>2. ids = {slots[i].id : i \in 1 .. m}
    OBVIOUS
  <2>. HIDE DEF slots, m, ids
  <2>3. Cardinality(ids) = m
    BY <2>1, <2>2, ApartIDs
  <2>. QED
    BY <2>3 DEF m
<1>4. ASSUME NEW x \in ids
      PROVE  /\ x.offset + x.length <= heap.header.iter
             /\ \A y \in ids \ {x} : \/ x.offset + x.length <= y.offset
                                     \/ y.offset + y.length <= x.offset
  <2>1. PICK i \in 1 .. index.sum : x = index.slots[i].id
    BY <1>4
  <2>2. x.offset + x.length <= heap.header.iter
    BY <2>1, <1>2 DEF Apart
  <2>3. ASSUME NEW y \in ids \ {x}
        PROVE  x.offset + x.length <= y.offset \/ y.offset + y.length <= x.offset
    <3>1. PICK j \in 1 .. index.sum : y = index.slots[j].id
      BY <2>3
    <3>2. j # i
      BY <2>1, <2>3, <3>1
    <3>3. Separate(x, y)
      BY <2>1, <3>1, <3>2, <1>2 DEF Apart
    <3>. QED
      BY <3>3 DEF Separate
  <2>. QED
    BY <2>2, <2>3
<1>. QED
  BY <1>3, <1>4

\* ObjectsDisjoint, when the offsets of a block fit into heap IDs: no two of
\* the objects that the index in the file refers to share a byte, whatever was
\* inserted, overwritten, replaced and deleted and whichever write failed.
THEOREM ObjectsAreApart ==
    ASSUME OffsetsFit
    PROVE  Spec => []ObjectsDisjoint
<1>1. Init => ApartInv
  BY DEF Init, ApartInv
<1>2. Typed /\ ApartInv /\ [Next]_vars => ApartInv'
  BY ApartStep
<1>. QED
  BY <1>1, <1>2, TypedInv, ApartImplies, PTL DEF Spec

-----------------------------------------------------------------------------
(* The accounts in the heap's header *)

\* The sums of the lengths of the first IDs.
IsSum(f, ids, m) == /\ f \in [0 .. m -> Int] /\ f[0] = 0
                    /\ \A i \in 1 .. m : f[i] = f[i - 1] + ids[i].length

LEMMA SumExists ==
    ASSUME NEW ids, NEW m \in Nat, \A i \in 1 .. m : ids[i].length \in Int
    PROVE  \E f : IsSum(f, ids, m)
<1>. DEFINE T == {i \in 0 .. m : ~ \E f : IsSum(f, ids, i)}
<1>. SUFFICES ASSUME T # {} PROVE FALSE
  OBVIOUS
<1>1. T \subseteq Nat
  OBVIOUS
<1>2. PICK x \in T : \A y \in T : x <= y
  <2>. HIDE DEF T
  <2>. QED
    BY <1>1, LeastNat
<1>3. x # 0
  <2>. DEFINE f == [i \in 0 .. 0 |-> 0]
  <2>1. IsSum(f, ids, 0)
    BY DEF IsSum
  <2>. QED
    BY <2>1
<1>4. x - 1 \in 0 .. m /\ x \in 1 .. m /\ x - 1 \notin T
  BY <1>2, <1>3
<1>5. PICK f : IsSum(f, ids, x - 1)
  BY <1>4
<1>. DEFINE g == [i \in 0 .. x |-> IF i = x THEN f[x - 1] + ids[x].length ELSE f[i]]
<1>6. \A i \in 0 .. (x - 1) : f[i] \in Int
  BY <1>5 DEF IsSum
<1>7. g \in [0 .. x -> Int]
  <2>1. x - 1 \in 0 .. (x - 1) /\ \A i \in 0 .. x : i # x => i \in 0 .. (x - 1)
    BY <1>4
  <2>2. f[x - 1] + ids[x].length \in Int
    BY <2>1, <1>4, <1>6
  <2>. QED
    BY <2>1, <2>2, <1>6
<1>8. g[0] = 0
  BY <1>4, <1>5 DEF IsSum
<1>9. ASSUME NEW i \in 1 .. x PROVE g[i] = g[i - 1] + ids[i].length
  <2>1. i - 1 \in 0 .. x /\ i - 1 # x /\ i \in 0 .. x
    BY <1>4
  <2>2. g[i - 1] = f[i - 1]
    BY <2>1
  <2>3. CASE i = x
    BY <2>1, <2>2, <2>3
  <2>4. CASE i # x
    <3>1. g[i] = f[i] /\ i \in 1 .. (x - 1)
      BY <2>1, <2>4
    <3>. HIDE DEF g
    <3>. QED
      BY <3>1, <2>2, <1>5 DEF IsSum
  <2>. QED
    BY <2>3, <2>4
<1>. HIDE DEF g
<1>10. IsSum(g, ids, x)
  BY <1>7, <1>8, <1>9 DEF IsSum
<1>. QED
  BY <1>10, <1>2

\* TotalLength is the last of the sums.
LEMMA TotalIsSum ==
    ASSUME NEW ids \in Seq(HeapID), NEW f, IsSum(f, ids, Len(ids))
    PROVE  TotalLength(ids) = f[Len(ids)]
<1>. DEFINE m == Len(ids)
            IsUpTo(g) == g = [i \in 0 .. m |-> IF i = 0 THEN 0 ELSE g[i - 1] + ids[i].length]
            c == CHOOSE g : IsUpTo(g)
<1>0. m \in Nat
  OBVIOUS
<1>1. TotalLength(ids) = c[m]
  BY DEF TotalLength
<1>2. IsUpTo(f)
  <2>1. f = [i \in 0 .. m |-> f[i]]
    BY DEF IsSum
  <2>2. \A i \in 0 .. m : f[i] = IF i = 0 THEN 0 ELSE f[i - 1] + ids[i].length
    BY <1>0 DEF IsSum
  <2>. QED
    BY <2>1, <2>2
<1>3. IsUpTo(c)
  <2>. HIDE DEF IsUpTo
  <2>. QED
    BY <1>2
<1>4. /\ \A i \in 0 .. m : c[i] = IF i = 0 THEN 0 ELSE c[i - 1] + ids[i].length
  <2>. HIDE DEF c
  <2>. QED
    BY <1>3
<1>. HIDE DEF c
<1>. DEFINE T == {i \in 0 .. m : c[i] # f[i]}
<1>5. T = {}
  <2>. SUFFICES ASSUME T # {} PROVE FALSE
    OBVIOUS
  <2>1. T \subseteq Nat
    OBVIOUS
  <2>2. PICK x \in T : \A y \in T : x <= y
    <3>. HIDE DEF T
    <3>. QED
      BY <2>1, LeastNat
  <2>3. x # 0
    BY <2>2, <1>4 DEF IsSum
  <2>4. x \in 1 .. m /\ x - 1 \in 0 .. m /\ x - 1 \notin T
    BY <2>2, <2>3
  <2>5. c[x - 1] = f[x - 1]
    BY <2>4
  <2>6. c[x] = c[x - 1] + ids[x].length
    BY <1>4, <2>3, <2>4
  <2>7. f[x] = f[x - 1] + ids[x].length
    BY <2>4 DEF IsSum
  <2>. QED
    BY <2>2, <2>5, <2>6, <2>7
<1>. QED
  BY <1>0, <1>1, <1>5

IDs(records) == [i \in 1 .. Len(records) |-> records[i].id]

LEMMA IDsProps ==
    ASSUME NEW records \in Seq(Slot)
    PROVE  /\ IDs(records) \in Seq(HeapID) /\ Len(IDs(records)) = Len(records)
           /\ \A i \in 1 .. Len(records) :
                 IDs(records)[i] = records[i].id /\ records[i].id.length \in Int
<1>1. \A i \in 1 .. Len(records) : records[i].id \in HeapID
  BY SlotProps
<1>2. \A i \in 1 .. Len(records) : records[i].id.length \in Int
  BY <1>1, IDProps
<1>3. Len(records) \in Nat
  OBVIOUS
<1>. QED
  BY <1>1, <1>2, <1>3 DEF IDs

\* The sums of the records' lengths.
LEMMA RecordSums ==
    ASSUME NEW records \in Seq(Slot)
    PROVE  /\ \E f : IsSum(f, IDs(records), Len(records))
           /\ \A f : IsSum(f, IDs(records), Len(records)) =>
                        TotalLength(IDs(records)) = f[Len(records)]
<1>1. /\ IDs(records) \in Seq(HeapID) /\ Len(IDs(records)) = Len(records)
      /\ \A i \in 1 .. Len(records) : IDs(records)[i].length \in Int
  BY IDsProps
<1>2. Len(records) \in Nat
  OBVIOUS
<1>3. \E f : IsSum(f, IDs(records), Len(records))
  BY <1>1, <1>2, SumExists
<1>4. ASSUME NEW f, IsSum(f, IDs(records), Len(records))
      PROVE  TotalLength(IDs(records)) = f[Len(records)]
  BY <1>1, <1>4, TotalIsSum
<1>. QED
  BY <1>3, <1>4

Total(records) == TotalLength(IDs(records))

LEMMA TotalType ==
    ASSUME NEW records \in Seq(Slot)
    PROVE  Total(records) \in Int
<1>1. PICK f : IsSum(f, IDs(records), Len(records))
  BY RecordSums
<1>2. Total(records) = f[Len(records)]
  BY <1>1, RecordSums DEF Total
<1>. QED
  BY <1>1, <1>2 DEF IsSum

\* One record more adds its length to the total.
LEMMA InsertTotal ==
    ASSUME NEW r \in Seq(Slot), NEW k \in 1 .. Len(r) + 1, NEW e \in Slot,
           NEW records, InsertedAt(r, k, e, records)
    PROVE  Total(records) = Total(r) + e.id.length
<1>. DEFINE m == Len(r)
            len == e.id.length
<1>0. m \in Nat /\ k \in 1 .. m + 1
  OBVIOUS
<1>1. /\ records \in Seq(Slot) /\ Len(records) = m + 1
      /\ \A j \in 1 .. m + 1 :
            records[j] = IF j < k THEN r[j] ELSE IF j = k THEN e ELSE r[j - 1]
  BY DEF InsertedAt
<1>2. PICK f : IsSum(f, IDs(r), m)
  BY RecordSums
<1>3. /\ f \in [0 .. m -> Int] /\ f[0] = 0
      /\ \A i \in 1 .. m : f[i] = f[i - 1] + r[i].id.length
  BY <1>2, IDsProps DEF IsSum
<1>4. len \in Int
  <2>1. e.id \in HeapID
    BY DEF Slot
  <2>. QED
    BY <2>1, IDProps
<1>. HIDE DEF m
<1>5. \A i \in 0 .. m : f[i] \in Int
  BY <1>3
<1>. DEFINE g == [i \in 0 .. m + 1 |-> IF i < k THEN f[i] ELSE f[i - 1] + len]
<1>6. g \in [0 .. m + 1 -> Int]
  <2>1. \A i \in 0 .. m + 1 : (i < k => i \in 0 .. m) /\ (~ (i < k) => i - 1 \in 0 .. m)
    BY <1>0
  <2>. HIDE DEF len
  <2>. QED
    BY <2>1, <1>4, <1>5
<1>7. g[0] = 0
  BY <1>0, <1>3
<1>8. ASSUME NEW i \in 1 .. m + 1
      PROVE  g[i] = g[i - 1] + records[i].id.length
  <2>0. i \in 0 .. m + 1 /\ i - 1 \in 0 .. m + 1
    BY <1>0
  <2>1. CASE i < k
    <3>1. i \in 1 .. m /\ i - 1 < k
      BY <2>1, <1>0
    <3>2. g[i] = f[i] /\ g[i - 1] = f[i - 1] /\ records[i] = r[i]
      BY <2>0, <2>1, <3>1, <1>1
    <3>. HIDE DEF g
    <3>. QED
      BY <3>1, <3>2, <1>3
  <2>2. CASE i = k
    <3>1. g[i] = f[i - 1] + len /\ g[i - 1] = f[i - 1] /\ records[i] = e
      BY <2>0, <2>2, <1>0, <1>1
    <3>. QED
      BY <3>1
  <2>3. CASE i > k
    <3>1. i - 1 \in 1 .. m /\ ~ (i - 1 < k) /\ ~ (i < k) /\ i # k
      BY <2>3, <1>0
    <3>2. g[i] = f[i - 1] + len /\ g[i - 1] = f[(i - 1) - 1] + len /\ records[i] = r[i - 1]
      BY <2>0, <3>1, <1>1
    <3>3. f[i - 1] = f[(i - 1) - 1] + r[i - 1].id.length
      BY <3>1, <1>3
    <3>4. /\ f[i - 1] \in Int /\ f[(i - 1) - 1] \in Int /\ r[i - 1].id.length \in Int
      <4>1. i - 1 \in 0 .. m /\ (i - 1) - 1 \in 0 .. m
        BY <3>1, <1>0
      <4>2. r[i - 1].id.length \in Int
        BY <3>1, IDsProps DEF m
      <4>. QED
        BY <4>1, <4>2, <1>5
    <3>. HIDE DEF g, len
    <3>. QED
      BY <3>2, <3>3, <3>4, <1>4
  <2>. QED
    BY <2>1, <2>2, <2>3, <1>0
<1>9. g[m + 1] = f[m] + len
  BY <1>0
<1>. HIDE DEF g, len
<1>10. IsSum(g, IDs(records), Len(records))
  <2>1. \A i \in 1 .. m + 1 : IDs(records)[i] = records[i].id
    BY <1>1, IDsProps
  <2>. QED
    BY <2>1, <1>1, <1>6, <1>7, <1>8 DEF IsSum
<1>11. Total(records) = g[m + 1] /\ Total(r) = f[m]
  BY <1>1, <1>2, <1>10, RecordSums DEF Total, m
<1>. QED
  BY <1>9, <1>11 DEF len

\* Records of the same number, with one ID replaced.
LEMMA UpdateTotal ==
    ASSUME NEW r \in Seq(Slot), NEW k \in 1 .. Len(r),
           NEW records \in Seq(Slot), Len(records) = Len(r),
           \A j \in 1 .. Len(r) : j # k => records[j] = r[j]
    PROVE  Total(records) = Total(r) - r[k].id.length + records[k].id.length
<1>. DEFINE m == Len(r)
            diff == records[k].id.length - r[k].id.length
<1>0. m \in Nat /\ k \in 1 .. m
  OBVIOUS
<1>1. PICK f : IsSum(f, IDs(r), m)
  BY RecordSums
<1>2. /\ f \in [0 .. m -> Int] /\ f[0] = 0
      /\ \A i \in 1 .. m : f[i] = f[i - 1] + r[i].id.length
  BY <1>1, IDsProps DEF IsSum
<1>3. \A i \in 1 .. m : r[i].id.length \in Int /\ records[i].id.length \in Int
  BY IDsProps
<1>4. diff \in Int
  BY <1>0, <1>3
<1>. HIDE DEF m
<1>5. \A i \in 0 .. m : f[i] \in Int
  BY <1>2
<1>. DEFINE g == [i \in 0 .. m |-> IF i < k THEN f[i] ELSE f[i] + diff]
<1>6. g \in [0 .. m -> Int]
  <2>. HIDE DEF diff
  <2>. QED
    BY <1>4, <1>5
<1>7. g[0] = 0
  BY <1>0, <1>2
<1>8. ASSUME NEW i \in 1 .. m
      PROVE  g[i] = g[i - 1] + records[i].id.length
  <2>0. /\ i \in 0 .. m /\ i - 1 \in 0 .. m
        /\ f[i] = f[i - 1] + r[i].id.length
        /\ f[i] \in Int /\ f[i - 1] \in Int
        /\ r[i].id.length \in Int /\ records[i].id.length \in Int
    <3>1. i \in 0 .. m /\ i - 1 \in 0 .. m
      BY <1>0
    <3>2. f[i] = f[i - 1] + r[i].id.length
      BY <1>2
    <3>3. f[i] \in Int /\ f[i - 1] \in Int
      BY <3>1, <1>5
    <3>. QED
      BY <3>1, <3>2, <3>3, <1>3
  <2>1. CASE i < k
    <3>1. g[i] = f[i] /\ g[i - 1] = f[i - 1] /\ records[i] = r[i]
      BY <2>0, <2>1, <1>0 DEF m
    <3>. HIDE DEF g
    <3>. QED
      BY <3>1, <2>0
  <2>2. CASE i = k
    <3>1. g[i] = f[i] + diff /\ g[i - 1] = f[i - 1]
      BY <2>0, <2>2, <1>0
    <3>2. diff = records[i].id.length - r[i].id.length
      BY <2>2
    <3>. HIDE DEF g, diff
    <3>. QED
      BY <3>1, <3>2, <2>0
  <2>3. CASE i > k
    <3>1. g[i] = f[i] + diff /\ g[i - 1] = f[i - 1] + diff /\ records[i] = r[i]
      BY <2>0, <2>3, <1>0 DEF m
    <3>. HIDE DEF g, diff
    <3>. QED
      BY <3>1, <2>0, <1>4
  <2>. QED
    BY <2>1, <2>2, <2>3, <1>0
<1>9. g[m] = f[m] + diff /\ f[m] \in Int
  BY <1>0, <1>5
<1>. HIDE DEF g
<1>10. IsSum(g, IDs(records), Len(records))
  <2>1. \A i \in 1 .. m : IDs(records)[i] = records[i].id
    BY IDsProps DEF m
  <2>. QED
    BY <2>1, <1>6, <1>7, <1>8 DEF IsSum, m
<1>11. Total(records) = g[m] /\ Total(r) = f[m]
  BY <1>1, <1>10, RecordSums DEF Total, m
<1>. QED
  BY <1>0, <1>3, <1>9, <1>11

\* One record less takes its length from the total: the records are those
\* that one more would turn back.
LEMMA RemoveTotal ==
    ASSUME NEW r \in Seq(Slot), NEW k \in 1 .. Len(r),
           NEW records \in Seq(Slot), Len(records) = Len(r) - 1,
           \A j \in 1 .. Len(r) - 1 : records[j] = IF j < k THEN r[j] ELSE r[j + 1]
    PROVE  Total(records) = Total(r) - r[k].id.length
<1>0. Len(r) \in Nat /\ r[k] \in Slot /\ k \in 1 .. Len(records) + 1
  OBVIOUS
<1>1. ASSUME NEW j \in 1 .. Len(records) + 1
      PROVE  r[j] = IF j < k THEN records[j] ELSE IF j = k THEN r[k] ELSE records[j - 1]
  <2>1. CASE j < k
    <3>1. j \in 1 .. Len(r) - 1
      BY <2>1, <1>0
    <3>. QED
      BY <2>1, <3>1
  <2>2. CASE j = k
    BY <2>2, <1>0
  <2>3. CASE j > k
    <3>1. j - 1 \in 1 .. Len(r) - 1 /\ ~ (j - 1 < k) /\ (j - 1) + 1 = j
      BY <2>3, <1>0
    <3>. QED
      BY <2>3, <3>1
  <2>. QED
    BY <2>1, <2>2, <2>3
<1>2. Len(r) = Len(records) + 1
  BY <1>0
<1>3. InsertedAt(records, k, r[k], r)
  BY <1>1, <1>2 DEF InsertedAt
<1>4. Total(r) = Total(records) + r[k].id.length
  BY <1>0, <1>3, InsertTotal
<1>5. Total(records) \in Int /\ r[k].id.length \in Int
  BY TotalType, IDsProps
<1>. QED
  BY <1>4, <1>5

\* A heap whose statistics are those of the records.
Accounted(h, records) == /\ h.count = Len(records)
                         /\ h.managed - h.space = Total(records)

LEMMA AccountTypes ==
    ASSUME NEW h \in Heap
    PROVE  h.count \in Int /\ h.managed \in Int /\ h.space \in Int /\ h.iter \in Nat
BY DEF Heap

LEMMA InsertAccounted ==
    ASSUME NEW h \in Heap, NEW r \in Seq(Slot), NEW n \in Names, NEW data \in Seq(Byte),
           NEW put \in InsertObject(h, data),
           NEW records, records = InsertRecord(r, n, put.id), Accounted(h, r)
    PROVE  Accounted(put.heap, records)
<1>1. /\ put.heap \in Heap /\ put.id \in HeapID /\ put.id.length = Len(data)
      /\ put.heap.count = h.count + 1
      /\ put.heap.managed - put.heap.space = h.managed - h.space + Len(data)
  BY InsertProps DEF Inserted
<1>2. PICK k \in 1 .. Len(r) + 1 : InsertedAt(r, k, Record(n, put.id), records)
  BY <1>1, InsertRecordProps
<1>3. Record(n, put.id) \in Slot /\ Record(n, put.id).id = put.id
  BY <1>1, RecordProps
<1>4. Total(records) = Total(r) + Len(data)
  BY <1>1, <1>2, <1>3, InsertTotal
<1>5. Len(records) = Len(r) + 1
  BY <1>2 DEF InsertedAt
<1>. QED
  BY <1>1, <1>4, <1>5 DEF Accounted

LEMMA ChangesAccounted ==
    ASSUME NEW l \in Heap, NEW r \in Seq(Slot), Len(r) <= MaxRecords,
           NEW n \in Names, NEW h, NEW records,
           NEW f, NEW g, Changes(l, r, n, h, records, f, g),
           Accounted(l, r)
    PROVE  Accounted(h, records)
<1>. DEFINE k == SearchRecord(r, n)
            id == r[k].id
<1>0. /\ Len(r) \in Nat /\ Total(r) \in Int
      /\ l.count \in Int /\ l.managed \in Int /\ l.space \in Int
  BY TotalType, AccountTypes
<1>1. ASSUME NEW v \in Values, InsertsInto(l, r, n, v, h, records)
      PROVE  Accounted(h, records)
  <2>1. PICK put \in InsertObject(l, Message(n, v)) :
           h = put.heap /\ records = InsertRecord(r, n, put.id)
    BY <1>1 DEF InsertsInto
  <2>2. Message(n, v) \in Seq(Byte)
    BY MessageProps
  <2>. QED
    BY <2>1, <2>2, InsertAccounted
<1>2. ASSUME NEW v \in Values, Overwrites(l, r, n, v, h, records)
      PROVE  Accounted(h, records)
  <2>1. HasKey(r, n) /\ h = OverwriteObject(l, id, Message(n, v)) /\ records = r
    BY <1>2 DEF Overwrites
  <2>2. id \in HeapID /\ Message(n, v) \in Seq(Byte)
    BY <2>1, SearchProps, MessageProps
  <2>. HIDE DEF id
  <2>3. h.count = l.count /\ h.managed = l.managed /\ h.space = l.space
    BY <2>1, <2>2, OverwriteProps
  <2>. QED
    BY <2>1, <2>3 DEF Accounted
<1>3. ASSUME NEW v \in Values, Replaces(l, r, n, v, h, records)
      PROVE  Accounted(h, records)
  <2>. DEFINE d == DeleteObject(l, id)
  <2>1. HasKey(r, n) /\ \E put \in InsertObject(d, Message(n, v)) :
                           h = put.heap /\ records = UpdateRecord(r, n, put.id)
    BY <1>3 DEF Replaces
  <2>2. /\ id \in HeapID /\ k \in 1 .. Len(r)
        /\ Message(n, v) \in Seq(Byte) /\ Len(Message(n, v)) \in Nat
    BY <2>1, SearchProps, MessageProps
  <2>i. id = r[k].id /\ id.length \in Int
    BY <2>2, IDProps
  <2>. HIDE DEF id
  <2>3. /\ d \in Heap /\ d.managed = l.managed /\ d.count = l.count - 1
        /\ d.space = l.space + id.length
    BY <2>2, DeleteObjectProps
  <2>. HIDE DEF d
  <2>4. PICK put \in InsertObject(d, Message(n, v)) :
           h = put.heap /\ records = UpdateRecord(r, n, put.id)
    BY <2>1
  <2>. DEFINE len == Len(Message(n, v))
  <2>5. /\ put.id \in HeapID /\ put.id.length = len
        /\ h.count = d.count + 1 /\ h \in Heap
        /\ h.managed - h.space = d.managed - d.space + len
    BY <2>2, <2>3, <2>4, InsertProps DEF Inserted
  <2>6. /\ records \in Seq(Slot) /\ Len(records) = Len(r) /\ records[k].id = put.id
        /\ \A j \in 1 .. Len(r) : j # k => records[j] = r[j]
    BY <2>1, <2>4, <2>5, UpdateRecordProps
  <2>. HIDE DEF k
  <2>7. Total(records) = Total(r) - id.length + len
    BY <2>2, <2>i, <2>5, <2>6, UpdateTotal
  <2>8. len \in Nat
    BY <2>2
  <2>. HIDE DEF len
  <2>9. h.count = Len(records)
    BY <2>3, <2>5, <2>6, <1>0 DEF Accounted
  <2>10. h.managed - h.space = Total(records)
    BY <2>i, <2>3, <2>5, <2>7, <2>8, <1>0 DEF Accounted
  <2>. QED
    BY <2>9, <2>10 DEF Accounted
<1>4. ASSUME Deletes(l, r, n, h, records)
      PROVE  Accounted(h, records)
  <2>1. HasKey(r, n) /\ h = DeleteObject(l, id) /\ records = DeleteRecord(r, n)
    BY <1>4 DEF Deletes
  <2>2. id \in HeapID /\ k \in 1 .. Len(r)
    BY <2>1, SearchProps
  <2>i. id = r[k].id /\ id.length \in Int
    BY <2>2, IDProps
  <2>. HIDE DEF id
  <2>3. h.count = l.count - 1 /\ h.managed = l.managed /\ h.space = l.space + id.length
    BY <2>1, <2>2, DeleteObjectProps
  <2>4. /\ records \in Seq(Slot) /\ Len(records) = Len(r) - 1
        /\ \A j \in 1 .. Len(r) - 1 : records[j] = IF j < k THEN r[j] ELSE r[j + 1]
    BY <2>1, DeleteRecordProps
  <2>. HIDE DEF k
  <2>5. Total(records) = Total(r) - id.length
    BY <2>2, <2>i, <2>4, RemoveTotal
  <2>. QED
    BY <2>i, <2>3, <2>4, <2>5, <1>0 DEF Accounted
<1>. QED
  BY <1>1, <1>2, <1>3, <1>4 DEF Changes

AccountsInv ==
    /\ new # NoStore => Accounted(new.heap, new.records)
    /\ (heap # NoStore /\ failed = {}) =>
          /\ index.sum = index.count
          /\ heap.header.count = index.count
          /\ heap.header.managed - heap.header.space = TotalLength(ReadLeafRecords(index))

\* The IDs that are read are those of the records that are loaded.
LEMMA ReadIDs ==
    ASSUME NEW ix, IndexShape(ix), CanLoadIndex(ix)
    PROVE  ReadLeafRecords(ix) = IDs(ReadLeaf(ix))
<1>1. Len(ReadLeaf(ix)) = ix.count /\ \A i \in 1 .. ix.count : ReadLeaf(ix)[i] = ix.slots[i]
  BY ReadLeafProps
<1>. QED
  BY <1>1 DEF ReadLeafRecords, IDs

LEMMA WrittenIDs ==
    ASSUME NEW ix \in Index, NEW records \in Seq(Slot), NEW w, w = WriteIndex(ix, records)
    PROVE  /\ w.sum = Len(records) /\ w.count = Len(records)
           /\ ReadLeafRecords(w) = IDs(records)
<1>1. /\ w.count = Len(records) /\ w.sum = Len(records)
      /\ \A i \in 1 .. Len(records) : w.slots[i] = records[i]
  BY WriteIndexProps
<1>. QED
  BY <1>1 DEF ReadLeafRecords, IDs

\* An image of an accounted heap, written with its records.
LEMMA WrittenAccounts ==
    ASSUME NEW ix \in Index, NEW h \in Heap, NEW records \in Seq(Slot),
           Accounted(h, records),
           NEW image, image = HeapImage(h), NEW w, w = WriteIndex(ix, records)
    PROVE  /\ w.sum = w.count /\ image.header.count = w.count
           /\ image.header.managed - image.header.space = TotalLength(ReadLeafRecords(w))
<1>1. w.sum = Len(records) /\ w.count = Len(records) /\ ReadLeafRecords(w) = IDs(records)
  BY WrittenIDs
<1>2. /\ image.header.managed = h.managed /\ image.header.space = h.space
      /\ image.header.count = h.count
  BY ImageProps
<1>. QED
  BY <1>1, <1>2 DEF Accounted, Total

LEMMA AccountsStep ==
    ASSUME Typed, AccountsInv, [Next]_vars
    PROVE  AccountsInv'
<1>. USE DEF AccountsInv
<1>0. index \in Index
  BY DEF Typed, IndexShape
<1>1. CASE NewStore
  <2>1. /\ new' = [heap |-> NewHeap, records |-> <<>>] /\ heap = NoStore
        /\ UNCHANGED <<heap, index>>
    BY <1>1 DEF NewStore
  <2>2. Total(<<>>) = 0
    <3>. DEFINE none == <<>>
                f == [i \in 0 .. 0 |-> 0]
    <3>1. none \in Seq(Slot) /\ Len(none) = 0
      OBVIOUS
    <3>2. IsSum(f, IDs(none), 0) /\ f[0] = 0
      BY DEF IsSum
    <3>. HIDE DEF none, f
    <3>3. Total(none) = f[0]
      BY <3>1, <3>2, RecordSums DEF Total
    <3>. QED
      BY <3>2, <3>3 DEF none
  <2>3. NewHeap.count = 0 /\ NewHeap.managed - NewHeap.space = 0
    BY NewHeapProps DEF Heap
  <2>4. Accounted(NewHeap, <<>>)
    BY <2>2, <2>3 DEF Accounted
  <2>. QED
    BY <2>1, <2>4
<1>2. CASE WriteNew
  <2>1. /\ new # NoStore /\ heap' = HeapImage(new.heap)
        /\ index' = WriteIndex(index, new.records) /\ new' = NoStore
    BY <1>2 DEF WriteNew
  <2>2. new.heap \in Heap /\ new.records \in Seq(Slot)
    BY <2>1, StoreProps DEF Typed
  <2>. QED
    BY <2>1, <2>2, <1>0, WrittenAccounts
<1>3. ASSUME NEW n \in Names, NEW v \in Values, Add(n, v) PROVE AccountsInv'
  <2>1. new # NoStore /\ UNCHANGED <<heap, index>>
    BY <1>3 DEF Add
  <2>2. PICK put \in InsertObject(new.heap, Message(n, v)) :
           new' = [heap |-> put.heap, records |-> InsertRecord(new.records, n, put.id)]
    BY <1>3 DEF Add
  <2>3. /\ new.heap \in Heap /\ new.records \in Seq(Slot) /\ Message(n, v) \in Seq(Byte)
    BY <2>1, StoreProps, MessageProps DEF Typed
  <2>4. Accounted(put.heap, InsertRecord(new.records, n, put.id))
    BY <2>1, <2>3, InsertAccounted
  <2>5. new'.heap = put.heap /\ new'.records = InsertRecord(new.records, n, put.id)
    BY <2>2
  <2>6. heap' = NoStore
    BY <2>1 DEF Typed
  <2>. QED
    BY <2>4, <2>5, <2>6
<1>4. ASSUME NEW n \in Names, NEW v \in Values, AddFails(n, v) PROVE AccountsInv'
  BY <1>4 DEF AddFails
<1>5. ASSUME NEW n \in Names,
             (\E v \in Values : InsertDense(n, v) \/ ModifyDense(n, v)) \/ DeleteDense(n)
      PROVE  AccountsInv'
  <2>. DEFINE l == LoadHeap(heap)
  <2>1. PICK h, records : /\ Changes(l, Records, n, h, records, attrs, attrs')
                          /\ WriteBack(h, records, n)
    BY <1>5, RewriteSteps
  <2>2. Loadable /\ new' = new
    BY <1>5, RewriteSteps
  <2>3. /\ new = NoStore /\ heap # NoStore /\ heap \in Image
        /\ CanLoad(heap) /\ CanLoadIndex(index) /\ IndexShape(index)
    BY <2>2 DEF Loadable, Typed
  <2>4. /\ l \in Heap /\ l.count = heap.header.count
        /\ l.managed = heap.header.managed /\ l.space = heap.header.space
    BY <2>3, LoadProps
  <2>. HIDE DEF l
  <2>5. /\ Records \in Seq(Slot) /\ Len(Records) <= MaxRecords /\ Len(Records) = index.count
    BY <2>3, ReadLeafProps DEF Records
  <2>6. h \in Heap /\ records \in Seq(Slot)
    BY <2>1, <2>4, <2>5, ChangesTyped
  <2>7. ASSUME failed' = {}
        PROVE  /\ index'.sum = index'.count
               /\ heap'.header.count = index'.count
               /\ heap'.header.managed - heap'.header.space
                      = TotalLength(ReadLeafRecords(index'))
    <3>1. /\ heap' = HeapImage(h) /\ index' = WriteIndex(index, records)
          /\ failed' = failed
      BY <2>1, <2>3, <2>6, <2>7, WriteBackProps
    <3>2. ReadLeafRecords(index) = IDs(Records)
      BY <2>3, ReadIDs DEF Records
    <3>3. Accounted(l, Records)
      BY <3>1, <3>2, <2>3, <2>4, <2>5, <2>7 DEF Accounted, Total
    <3>4. Accounted(h, records)
      BY <3>3, <2>1, <2>4, <2>5, ChangesAccounted
    <3>. QED
      BY <3>1, <3>4, <2>6, <1>0, WrittenAccounts
  <2>. QED
    BY <2>2, <2>3, <2>7
<1>6. CASE UNCHANGED vars
  BY <1>6 DEF vars, Accounted, Total
<1>. QED
  BY <1>1, <1>2, <1>3, <1>4, <1>5, <1>6 DEF Next

\* HeapAccounts: the numbers of objects and of free bytes in the heap's
\* header, which every operation adjusts by hand, are those of the records, as
\* long as no write failed.
THEOREM AccountsBalance == Spec => []HeapAccounts
<1>1. Init => AccountsInv
  BY DEF Init, AccountsInv
<1>2. Typed /\ AccountsInv /\ [Next]_vars => AccountsInv'
  BY AccountsStep
<1>3. AccountsInv => HeapAccounts
  BY DEF AccountsInv, HeapAccounts, Settled
<1>. QED
  BY <1>1, <1>2, <1>3, TypedInv, PTL DEF Spec

-----------------------------------------------------------------------------
(* What the bytes of the heap hold *)

\* An object with these bytes is at the place of an ID.
Holds(bytes, id, data) == /\ id.length = Len(data)
                          /\ \A i \in 1 .. id.length : bytes[id.offset + i] = data[i]

\* The place of an ID has the same bytes.
Same(bytes, other, id) ==
    \A i \in 1 .. id.length : other[id.offset + i] = bytes[id.offset + i]

\* The block is as long as the objects that it holds.
Filled(h) == Len(h.blocks[0].objects) >= h.iter

LEMMA HoldsKept ==
    ASSUME NEW bytes, NEW other, NEW id, NEW data,
           Holds(bytes, id, data), Same(bytes, other, id)
    PROVE  Holds(other, id, data)
BY DEF Holds, Same

\* CopyTo leaves a place apart from its target alone.
LEMMA CopySame ==
    ASSUME NEW objects \in Seq(Byte), NEW offset \in Nat, NEW data \in Seq(Byte),
           NEW id \in HeapID, id.offset + id.length <= Len(objects),
           id.offset + id.length <= offset \/ offset + Len(data) <= id.offset
    PROVE  Same(objects, CopyTo(objects, offset, data), id)
<1>. SUFFICES ASSUME NEW i \in 1 .. id.length
              PROVE  CopyTo(objects, offset, data)[id.offset + i] = objects[id.offset + i]
  BY DEF Same
<1>1. /\ id.offset \in Nat /\ id.length \in Nat /\ Len(objects) \in Nat /\ Len(data) \in Nat
  BY IDProps
<1>2. id.offset + i \in 1 .. Len(objects)
  BY <1>1
<1>3. id.offset + i \notin offset + 1 .. offset + Len(data)
  BY <1>1
<1>. QED
  BY <1>2, <1>3, CopyToProps

\* CopyTo puts an object of the right size at the place of an ID.
LEMMA CopyHolds ==
    ASSUME NEW objects \in Seq(Byte), NEW id \in HeapID, NEW data \in Seq(Byte),
           id.length = Len(data)
    PROVE  Holds(CopyTo(objects, id.offset, data), id, data)
<1>1. id.offset \in Nat
  BY IDProps
<1>. QED
  BY <1>1, CopyToProps DEF Holds

LEMMA InsertBytes ==
    ASSUME OffsetsFit, NEW h \in Heap, Tidy(h), Filled(h), NEW data \in Seq(Byte),
           NEW put \in InsertObject(h, data), put.heap.iter <= Capacity
    PROVE  /\ Filled(put.heap)
           /\ Holds(put.heap.blocks[0].objects, put.id, data)
           /\ \A id \in HeapID :
                 id.offset + id.length <= h.iter =>
                    Same(h.blocks[0].objects, put.heap.blocks[0].objects, id)
<1>. DEFINE objects == h.blocks[0].objects
            after == CopyTo(objects, h.iter, data)
<1>1. /\ put = PutObject(h, 0, data) /\ h.blocks[0].free = h.iter
      /\ put.id \in HeapID /\ put.id.offset = h.iter /\ put.id.length = Len(data)
      /\ put.heap.iter = h.iter + Len(data)
      /\ h.iter \in Nat /\ Len(data) \in 1 .. MaxObject
  BY InsertPlace
<1>2. objects \in Seq(Byte) /\ 0 \in DOMAIN h.blocks
  BY BlocksProps
<1>3. put.heap.blocks[0].objects = after
  BY <1>1, <1>2, PutProps
<1>4. Len(objects) >= h.iter
  BY DEF Filled
<1>. HIDE DEF objects
<1>5. Len(after) >= h.iter + Len(data)
  BY <1>1, <1>2, CopyToProps
<1>6. Holds(after, put.id, data)
  <2>1. Holds(CopyTo(objects, put.id.offset, data), put.id, data)
    BY <1>1, <1>2, CopyHolds
  <2>. QED
    BY <2>1, <1>1
<1>7. ASSUME NEW id \in HeapID, id.offset + id.length <= h.iter
      PROVE  Same(objects, after, id)
  <2>1. id.offset + id.length <= Len(objects)
    BY <1>1, <1>2, <1>4, <1>7, IDProps
  <2>. QED
    BY <2>1, <1>1, <1>2, <1>7, CopySame
<1>. HIDE DEF after
<1>. QED
  BY <1>1, <1>3, <1>5, <1>6, <1>7 DEF Filled, objects

LEMMA OverwriteBytes ==
    ASSUME NEW h \in Heap, Filled(h), NEW id \in HeapID, id.offset + id.length <= h.iter,
           NEW data \in Seq(Byte), id.length = Len(data),
           NEW g, g = OverwriteObject(h, id, data)
    PROVE  /\ Filled(g)
           /\ Holds(g.blocks[0].objects, id, data)
           /\ \A x \in HeapID :
                 (x.offset + x.length <= h.iter /\ Separate(x, id)) =>
                    Same(h.blocks[0].objects, g.blocks[0].objects, x)
<1>. DEFINE objects == h.blocks[0].objects
            after == CopyTo(objects, id.offset, data)
<1>1. g.iter = h.iter /\ g.blocks[0].objects = after
  BY OverwriteProps
<1>2. objects \in Seq(Byte) /\ h.iter \in Nat /\ id.offset \in Nat /\ id.length \in Nat
  BY BlocksProps, AccountTypes, IDProps
<1>3. Len(objects) >= h.iter
  BY DEF Filled
<1>. HIDE DEF objects
<1>4. Len(after) >= Len(objects) /\ Len(after) \in Nat /\ Len(objects) \in Nat
  BY <1>2, CopyToProps
<1>5. Holds(after, id, data)
  BY <1>2, CopyHolds
<1>6. ASSUME NEW x \in HeapID, x.offset + x.length <= h.iter, Separate(x, id)
      PROVE  Same(objects, after, x)
  <2>1. /\ x.offset + x.length <= Len(objects)
        /\ x.offset + x.length <= id.offset \/ id.offset + Len(data) <= x.offset
    BY <1>2, <1>3, <1>6, IDProps DEF Separate
  <2>. QED
    BY <2>1, <1>2, CopySame
<1>7. Len(after) >= g.iter
  BY <1>1, <1>2, <1>3, <1>4
<1>. HIDE DEF after
<1>. QED
  BY <1>1, <1>5, <1>6, <1>7 DEF Filled, objects

LEMMA DeleteBytes ==
    ASSUME NEW h \in Heap, Filled(h), NEW id \in HeapID,
           NEW g, g = DeleteObject(h, id)
    PROVE  /\ Filled(g)
           /\ \A x \in HeapID :
                 (x.offset + x.length <= h.iter /\ Separate(x, id)) =>
                    Same(h.blocks[0].objects, g.blocks[0].objects, x)
<1>. DEFINE objects == h.blocks[0].objects
            zeros == [i \in 1 .. id.length |-> Zero]
            after == CopyTo(objects, id.offset, zeros)
<1>1. g.iter = h.iter /\ g.blocks[0].objects = after
  BY DeleteObjectProps
<1>2. objects \in Seq(Byte) /\ h.iter \in Nat /\ id.offset \in Nat /\ id.length \in Nat
  BY BlocksProps, AccountTypes, IDProps
<1>3. zeros \in Seq(Byte) /\ Len(zeros) = id.length
  BY <1>2 DEF Byte
<1>4. Len(objects) >= h.iter
  BY DEF Filled
<1>. HIDE DEF objects, zeros
<1>5. Len(after) >= Len(objects) /\ Len(after) \in Nat /\ Len(objects) \in Nat
  BY <1>2, <1>3, CopyToProps
<1>6. ASSUME NEW x \in HeapID, x.offset + x.length <= h.iter, Separate(x, id)
      PROVE  Same(objects, after, x)
  <2>1. /\ x.offset + x.length <= Len(objects)
        /\ x.offset + x.length <= id.offset \/ id.offset + Len(zeros) <= x.offset
    BY <1>2, <1>3, <1>4, <1>6, IDProps DEF Separate
  <2>. QED
    BY <2>1, <1>2, <1>3, CopySame
<1>7. Len(after) >= g.iter
  BY <1>1, <1>2, <1>4, <1>5
<1>. HIDE DEF after
<1>. QED
  BY <1>1, <1>6, <1>7 DEF Filled, objects

\* GetObject of a heap that is one direct block.
LEMMA GetProps ==
    ASSUME NEW h \in Heap, DOMAIN h.blocks = {0}, NEW id \in HeapID,
           NEW objects, objects = h.blocks[0].objects
    PROVE  /\ id.offset + id.length <= Len(objects) =>
                 GetObject(h, id) = SubSeq(objects, id.offset + 1, id.offset + id.length)
           /\ GetObject(h, id) # <<>> =>
                 /\ id.offset + id.length <= Len(objects)
                 /\ Len(GetObject(h, id)) = id.length
<1>. DEFINE within(at) == /\ id.offset - at \in 0 .. Len(h.blocks[at].objects) - 1
                          /\ id.offset - at + id.length <= Len(h.blocks[at].objects)
            holding == {at \in DOMAIN h.blocks : within(at)}
            at0 == CHOOSE at \in holding : TRUE
            part == SubSeq(objects, id.offset + 1, id.offset + id.length)
<1>1. /\ objects \in Seq(Byte) /\ Len(objects) \in Nat
      /\ id.offset \in Nat /\ id.length \in Nat /\ id.length >= 1
  BY BlocksProps, IDProps
<1>2. within(0) <=> id.offset + id.length <= Len(objects)
  BY <1>1
<1>3. GetObject(h, id) = IF holding = {} THEN <<>>
                         ELSE SubSeq(h.blocks[at0].objects, id.offset - at0 + 1,
                                     id.offset - at0 + id.length)
  BY DEF GetObject
<1>4. holding = IF within(0) THEN {0} ELSE {}
  <2>. HIDE DEF within
  <2>. QED
    OBVIOUS
<1>5. ASSUME id.offset + id.length <= Len(objects)
      PROVE  GetObject(h, id) = part
  <2>1. holding = {0}
    BY <1>2, <1>4, <1>5
  <2>2. at0 = 0
    <3>. HIDE DEF holding
    <3>. QED
      BY <2>1
  <2>3. GetObject(h, id) = SubSeq(h.blocks[0].objects, id.offset - 0 + 1,
                                  id.offset - 0 + id.length)
    <3>. HIDE DEF holding, at0
    <3>. QED
      BY <1>3, <2>1, <2>2
  <2>4. id.offset - 0 = id.offset
    BY <1>1
  <2>. QED
    BY <2>3, <2>4
<1>6. ASSUME ~ (id.offset + id.length <= Len(objects))
      PROVE  GetObject(h, id) = <<>>
  <2>1. holding = {}
    BY <1>2, <1>4, <1>6
  <2>. HIDE DEF holding
  <2>. QED
    BY <1>3, <2>1
<1>7. id.offset + id.length <= Len(objects) => Len(part) = id.length
  <2>. SUFFICES ASSUME id.offset + id.length <= Len(objects) PROVE Len(part) = id.length
    OBVIOUS
  <2>. DEFINE x == id.offset + 1
              y == id.offset + id.length
  <2>0. x \in Int /\ y \in Int /\ x <= y /\ y - x + 1 = id.length
    BY <1>1
  <2>1. \A i \in x .. y : i \in 1 .. Len(objects)
    BY <1>1
  <2>. HIDE DEF x, y
  <2>2. Len(SubSeq(objects, x, y)) = id.length
    <3>1. \A i \in x .. y : objects[i] \in Byte
      BY <2>1, <1>1
    <3>. QED
      BY <2>0, <3>1, SubSeqProperties
  <2>. QED
    BY <2>2 DEF x, y
<1>. QED
  BY <1>5, <1>6, <1>7

-----------------------------------------------------------------------------
(* Which attribute a record is of *)

\* The first m slots are the records of the names own: each holds the value of
\* its name, unless a write of that name failed, and every attribute has one.
\* Names that share a hash were never written again, and so never failed.
Owned(own, bytes, slots, m, f, bad) ==
    /\ own \in [1 .. m -> Names]
    /\ \A i, j \in 1 .. m : own[i] = own[j] => i = j
    /\ \A i \in 1 .. m : slots[i].hash = Hash[own[i]]
    /\ \A i \in 1 .. m :
          own[i] \notin bad =>
             own[i] \in DOMAIN f /\ Holds(bytes, slots[i].id, Message(own[i], f[own[i]]))
    /\ \A x \in DOMAIN f \ bad : \E i \in 1 .. m : own[i] = x
    /\ \A i, j \in 1 .. m : (i # j /\ slots[i].hash = slots[j].hash) => own[i] \notin bad

\* At most one of the slots has the hash of a name.
Clear(slots, m, n) ==
    \A i, j \in 1 .. m : (slots[i].hash = Hash[n] /\ slots[j].hash = Hash[n]) => i = j

\* No other attribute has the hash of a name.
Lone(f, n) == \A x \in DOMAIN f : Hash[x] = Hash[n] => x = n

\* The attributes differ at one name at most.
Agree(f, g, n) == \A x : x # n => /\ x \in DOMAIN g <=> x \in DOMAIN f
                                  /\ x \in DOMAIN f => g[x] = f[x]

LEMMA AgreeProps ==
    ASSUME NEW f, NEW n, NEW v
    PROVE  /\ Agree(f, Given(f, n, v), n) /\ Agree(f, Dropped(f, n), n)
           /\ DOMAIN Given(f, n, v) = DOMAIN f \cup {n} /\ Given(f, n, v)[n] = v
           /\ DOMAIN Dropped(f, n) = DOMAIN f \ {n}
BY DEF Agree, Given, Dropped

\* The record that is found for a lone name is its own, or one that failed.
LEMMA KeyOwner ==
    ASSUME NEW own, NEW bytes, NEW slots, NEW m, NEW f, NEW bad, NEW n \in Names,
           Owned(own, bytes, slots, m, f, bad), Lone(f, n),
           NEW i \in 1 .. m, slots[i].hash = Hash[n]
    PROVE  own[i] \in bad \cup {n}
<1>. SUFFICES ASSUME own[i] \notin bad PROVE own[i] = n
  OBVIOUS
<1>1. own[i] \in DOMAIN f /\ slots[i].hash = Hash[own[i]]
  BY DEF Owned
<1>. QED
  BY <1>1 DEF Lone

\* Only one record has the hash of a lone name.
LEMMA KeyClear ==
    ASSUME NEW own, NEW bytes, NEW slots, NEW m, NEW f, NEW bad, NEW n \in Names,
           Owned(own, bytes, slots, m, f, bad), Lone(f, n)
    PROVE  Clear(slots, m, n)
<1>1. ASSUME NEW i \in 1 .. m, NEW j \in 1 .. m, slots[i].hash = Hash[n],
             slots[j].hash = Hash[n], i # j
      PROVE  FALSE
  <2>1. own[i] \notin bad /\ own[j] \notin bad
    BY <1>1 DEF Owned
  <2>2. own[i] \in bad \cup {n} /\ own[j] \in bad \cup {n}
    BY <1>1, KeyOwner
  <2>. QED
    BY <2>1, <2>2, <1>1 DEF Owned
<1>. QED
  BY <1>1 DEF Clear

\* Slots and bytes that are as they were.
LEMMA OwnedSame ==
    ASSUME NEW own, NEW bytes, NEW slots, NEW m, NEW f, NEW bad,
           Owned(own, bytes, slots, m, f, bad), NEW other, NEW others,
           \A i \in 1 .. m : others[i] = slots[i] /\ Same(bytes, other, slots[i].id)
    PROVE  Owned(own, other, others, m, f, bad)
<1>1. ASSUME NEW i \in 1 .. m, own[i] \notin bad
      PROVE  own[i] \in DOMAIN f /\ Holds(other, others[i].id, Message(own[i], f[own[i]]))
  <2>1. own[i] \in DOMAIN f /\ Holds(bytes, slots[i].id, Message(own[i], f[own[i]]))
    BY <1>1 DEF Owned
  <2>. QED
    BY <2>1, HoldsKept
<1>. QED
  BY <1>1 DEF Owned

\* A write of a name that fails: the slots stay, and so do the bytes of the
\* records that are of other names.
LEMMA OwnedFailed ==
    ASSUME NEW own, NEW bytes, NEW slots, NEW m, NEW f, NEW bad,
           Owned(own, bytes, slots, m, f, bad), NEW other, NEW g, NEW n \in Names,
           Agree(f, g, n), Clear(slots, m, n),
           \A i \in 1 .. m : own[i] \in bad \cup {n} \/ Same(bytes, other, slots[i].id)
    PROVE  Owned(own, other, slots, m, g, bad \cup {n})
<1>1. ASSUME NEW i \in 1 .. m, own[i] \notin bad \cup {n}
      PROVE  own[i] \in DOMAIN g /\ Holds(other, slots[i].id, Message(own[i], g[own[i]]))
  <2>1. own[i] \in DOMAIN f /\ Holds(bytes, slots[i].id, Message(own[i], f[own[i]]))
    BY <1>1 DEF Owned
  <2>2. Holds(other, slots[i].id, Message(own[i], f[own[i]]))
    BY <1>1, <2>1, HoldsKept
  <2>3. own[i] \in DOMAIN g /\ g[own[i]] = f[own[i]]
    BY <1>1, <2>1 DEF Agree
  <2>. QED
    BY <2>2, <2>3
<1>2. ASSUME NEW x \in DOMAIN g \ (bad \cup {n}) PROVE \E i \in 1 .. m : own[i] = x
  <2>1. x \in DOMAIN f \ bad
    BY <1>2 DEF Agree
  <2>. QED
    BY <2>1 DEF Owned
<1>3. ASSUME NEW i \in 1 .. m, NEW j \in 1 .. m, i # j, slots[i].hash = slots[j].hash
      PROVE  own[i] \notin bad \cup {n}
  <2>1. own[i] \notin bad /\ slots[i].hash = Hash[own[i]]
    BY <1>3 DEF Owned
  <2>2. own[i] # n
    BY <2>1, <1>3 DEF Clear
  <2>. QED
    BY <2>1, <2>2
<1>. QED
  BY <1>1, <1>2, <1>3 DEF Owned

\* One record more.
LEMMA OwnedInsert ==
    ASSUME NEW r \in Seq(Slot), NEW own, NEW bytes, NEW f, NEW bad,
           Owned(own, bytes, r, Len(r), f, bad),
           NEW n \in Names, NEW v \in Values, NEW id \in HeapID,
           NEW k \in 1 .. Len(r) + 1, NEW records,
           InsertedAt(r, k, Record(n, id), records),
           \A i \in 1 .. Len(r) : own[i] # n,
           bad = {} \/ \A i \in 1 .. Len(r) : r[i].hash # Hash[n],
           NEW other, Holds(other, id, Message(n, v)),
           \A i \in 1 .. Len(r) : Same(bytes, other, r[i].id)
    PROVE  \E own2 : Owned(own2, other, records, Len(records), Given(f, n, v), bad)
<1>. DEFINE m == Len(r)
            from(i) == IF i < k THEN i ELSE i - 1
            own2 == [i \in 1 .. m + 1 |-> IF i = k THEN n ELSE own[from(i)]]
            g == Given(f, n, v)
<1>0. m \in Nat
  OBVIOUS
<1>1. \A i \in 1 .. m + 1 : i # k => from(i) \in 1 .. m
  BY <1>0
<1>2. \A i, j \in 1 .. m + 1 : (i # k /\ j # k /\ i # j) => from(i) # from(j)
  BY <1>0
<1>3. \A x \in 1 .. m : \E i \in 1 .. m + 1 : i # k /\ from(i) = x
  <2>. SUFFICES ASSUME NEW x \in 1 .. m PROVE \E i \in 1 .. m + 1 : i # k /\ from(i) = x
    OBVIOUS
  <2>1. CASE x < k
    BY <2>1, <1>0
  <2>2. CASE ~ (x < k)
    <3>1. x + 1 \in 1 .. m + 1 /\ x + 1 # k /\ from(x + 1) = x
      BY <2>2, <1>0
    <3>. QED
      BY <3>1
  <2>. QED
    BY <2>1, <2>2
<1>4. Record(n, id).hash = Hash[n] /\ Record(n, id).id = id
  BY RecordProps
<1>5. /\ Len(records) = m + 1
      /\ \A i \in 1 .. m + 1 : i # k => records[i] = r[from(i)]
      /\ records[k].hash = Hash[n] /\ records[k].id = id
  BY <1>4 DEF InsertedAt
<1>. HIDE DEF from
<1>6. /\ own2[k] = n
      /\ \A i \in 1 .. m + 1 : i # k => own2[i] = own[from(i)]
      /\ own2 \in [1 .. m + 1 -> Names]
  <2>1. \A i \in 1 .. m : own[i] \in Names
    BY DEF Owned
  <2>. HIDE DEF m
  <2>. QED
    BY <2>1, <1>1 DEF m
<1>7. /\ DOMAIN g = DOMAIN f \cup {n} /\ g[n] = v
      /\ \A x \in DOMAIN f : x # n => x \in DOMAIN g /\ g[x] = f[x]
  BY DEF Given
<1>. HIDE DEF own2, g, m
<1>8. /\ \A i \in 1 .. m : own[i] # n
      /\ \A i \in 1 .. m : own[i] \in Names
      /\ \A i, j \in 1 .. m : own[i] = own[j] => i = j
      /\ \A i \in 1 .. m : r[i].hash = Hash[own[i]]
      /\ \A x \in DOMAIN f \ bad : \E i \in 1 .. m : own[i] = x
      /\ \A i, j \in 1 .. m : (i # j /\ r[i].hash = r[j].hash) => own[i] \notin bad
      /\ bad = {} \/ \A i \in 1 .. m : r[i].hash # Hash[n]
  BY DEF Owned, m
<1>9. ASSUME NEW i \in 1 .. m + 1, NEW j \in 1 .. m + 1, own2[i] = own2[j]
      PROVE  i = j
  <2>1. CASE i = k \/ j = k
    BY <2>1, <1>9, <1>1, <1>6, <1>8
  <2>2. CASE i # k /\ j # k
    BY <2>2, <1>9, <1>1, <1>2, <1>6, <1>8
  <2>. QED
    BY <2>1, <2>2
<1>10. ASSUME NEW i \in 1 .. m + 1 PROVE records[i].hash = Hash[own2[i]]
  <2>1. CASE i = k
    BY <2>1, <1>5, <1>6
  <2>2. CASE i # k
    BY <2>2, <1>1, <1>5, <1>6, <1>8
  <2>. QED
    BY <2>1, <2>2
<1>11. ASSUME NEW i \in 1 .. m + 1, own2[i] \notin bad
       PROVE  own2[i] \in DOMAIN g
                /\ Holds(other, records[i].id, Message(own2[i], g[own2[i]]))
  <2>1. CASE i = k
    BY <2>1, <1>5, <1>6, <1>7
  <2>2. CASE i # k
    <3>. DEFINE x == from(i)
    <3>1. x \in 1 .. m /\ own2[i] = own[x] /\ records[i] = r[x] /\ own[x] \notin bad
      BY <2>2, <1>1, <1>5, <1>6, <1>11
    <3>. HIDE DEF x
    <3>2. own[x] \in DOMAIN f /\ Holds(bytes, r[x].id, Message(own[x], f[own[x]]))
      BY <3>1 DEF Owned, m
    <3>3. Holds(other, r[x].id, Message(own[x], f[own[x]]))
      BY <3>1, <3>2, HoldsKept DEF m
    <3>4. own[x] \in DOMAIN g /\ g[own[x]] = f[own[x]]
      BY <3>1, <3>2, <1>7, <1>8
    <3>. QED
      BY <3>1, <3>3, <3>4
  <2>. QED
    BY <2>1, <2>2
<1>12. ASSUME NEW x \in DOMAIN g \ bad PROVE \E i \in 1 .. m + 1 : own2[i] = x
  <2>1. CASE x = n
    <3>1. k \in 1 .. m + 1
      BY DEF m
    <3>. QED
      BY <2>1, <3>1, <1>6
  <2>2. CASE x # n
    <3>1. PICK j \in 1 .. m : own[j] = x
      BY <2>2, <1>7, <1>8, <1>12
    <3>2. PICK i \in 1 .. m + 1 : i # k /\ from(i) = j
      BY <1>3
    <3>. QED
      BY <3>1, <3>2, <1>6
  <2>. QED
    BY <2>1, <2>2
<1>13. ASSUME NEW i \in 1 .. m + 1, NEW j \in 1 .. m + 1, i # j,
              records[i].hash = records[j].hash
       PROVE  own2[i] \notin bad
  <2>1. CASE bad = {}
    BY <2>1
  <2>2. CASE \A x \in 1 .. m : r[x].hash # Hash[n]
    <3>1. i # k /\ j # k
      BY <2>2, <1>13, <1>1, <1>5
    <3>2. /\ from(i) \in 1 .. m /\ from(j) \in 1 .. m /\ from(i) # from(j)
          /\ r[from(i)].hash = r[from(j)].hash
      BY <3>1, <1>13, <1>1, <1>2, <1>5
    <3>3. own[from(i)] \notin bad
      BY <3>2, <1>8
    <3>. QED
      BY <3>1, <3>3, <1>6
  <2>. QED
    BY <2>1, <2>2, <1>8
<1>14. Owned(own2, other, records, m + 1, g, bad)
  BY <1>6, <1>9, <1>10, <1>11, <1>12, <1>13 DEF Owned
<1>. QED
  BY <1>5, <1>14 DEF g

\* A record of a lone name that is given an object of that name.
LEMMA OwnedUpdate ==
    ASSUME NEW m, NEW r, NEW own, NEW bytes, NEW f, NEW bad,
           Owned(own, bytes, r, m, f, bad),
           NEW n \in Names, NEW v \in Values, Lone(f, n),
           NEW k \in 1 .. m, r[k].hash = Hash[n], NEW records,
           \A i \in 1 .. m : records[i].hash = r[i].hash,
           \A i \in 1 .. m : i # k => records[i] = r[i],
           NEW other, Holds(other, records[k].id, Message(n, v)),
           \A i \in 1 .. m : i # k => Same(bytes, other, r[i].id)
    PROVE  \E own2 : Owned(own2, other, records, m, Given(f, n, v), bad)
<1>. DEFINE own2 == [i \in 1 .. m |-> IF i = k THEN n ELSE own[i]]
            g == Given(f, n, v)
<1>1. /\ own2[k] = n /\ \A i \in 1 .. m : i # k => own2[i] = own[i]
      /\ own2 \in [1 .. m -> Names]
  BY DEF Owned
<1>2. /\ DOMAIN g = DOMAIN f \cup {n} /\ g[n] = v
      /\ \A x \in DOMAIN f : x # n => x \in DOMAIN g /\ g[x] = f[x]
  BY DEF Given
<1>3. own[k] \in bad \cup {n} /\ Clear(r, m, n)
  <2>1. own[k] \in bad \cup {n}
    BY KeyOwner
  <2>2. Clear(r, m, n)
    BY KeyClear, Zenon
  <2>. QED
    BY <2>1, <2>2
<1>. HIDE DEF own2, g
<1>4. \A i \in 1 .. m : i # k => r[i].hash # Hash[n] /\ own[i] # n
  <2>. SUFFICES ASSUME NEW i \in 1 .. m, i # k PROVE r[i].hash # Hash[n] /\ own[i] # n
    OBVIOUS
  <2>1. r[i].hash # Hash[n]
    BY <1>3 DEF Clear
  <2>2. r[i].hash = Hash[own[i]]
    BY DEF Owned
  <2>. QED
    BY <2>1, <2>2
<1>5. ASSUME NEW i \in 1 .. m, NEW j \in 1 .. m, own2[i] = own2[j]
      PROVE  i = j
  <2>1. CASE i = k \/ j = k
    BY <2>1, <1>1, <1>4, <1>5
  <2>2. CASE i # k /\ j # k
    BY <2>2, <1>1, <1>5 DEF Owned
  <2>. QED
    BY <2>1, <2>2
<1>6. ASSUME NEW i \in 1 .. m PROVE records[i].hash = Hash[own2[i]]
  <2>1. CASE i = k
    BY <2>1, <1>1
  <2>2. CASE i # k
    BY <2>2, <1>1 DEF Owned
  <2>. QED
    BY <2>1, <2>2
<1>7. ASSUME NEW i \in 1 .. m, own2[i] \notin bad
      PROVE  own2[i] \in DOMAIN g
               /\ Holds(other, records[i].id, Message(own2[i], g[own2[i]]))
  <2>1. CASE i = k
    BY <2>1, <1>1, <1>2
  <2>2. CASE i # k
    <3>1. own2[i] = own[i] /\ records[i] = r[i] /\ own[i] \notin bad /\ own[i] # n
      BY <2>2, <1>1, <1>4, <1>7
    <3>2. own[i] \in DOMAIN f /\ Holds(bytes, r[i].id, Message(own[i], f[own[i]]))
      BY <3>1 DEF Owned
    <3>3. Holds(other, r[i].id, Message(own[i], f[own[i]]))
      BY <2>2, <3>2, HoldsKept
    <3>. QED
      BY <3>1, <3>2, <3>3, <1>2
  <2>. QED
    BY <2>1, <2>2
<1>8. ASSUME NEW x \in DOMAIN g \ bad PROVE \E i \in 1 .. m : own2[i] = x
  <2>1. CASE x = n
    BY <2>1, <1>1
  <2>2. CASE x # n
    <3>1. PICK i \in 1 .. m : own[i] = x
      BY <2>2, <1>2, <1>8 DEF Owned
    <3>2. i # k
      BY <2>2, <3>1, <1>3, <1>8
    <3>. QED
      BY <3>1, <3>2, <1>1
  <2>. QED
    BY <2>1, <2>2
<1>9. ASSUME NEW i \in 1 .. m, NEW j \in 1 .. m, i # j, records[i].hash = records[j].hash
      PROVE  own2[i] \notin bad
  <2>1. r[i].hash = r[j].hash
    BY <1>9
  <2>2. i # k
    BY <2>1, <1>9, <1>4
  <2>3. own[i] \notin bad
    BY <2>1, <1>9 DEF Owned
  <2>. QED
    BY <2>2, <2>3, <1>1
<1>10. Owned(own2, other, records, m, g, bad)
  BY <1>1, <1>5, <1>6, <1>7, <1>8, <1>9 DEF Owned
<1>. QED
  BY <1>10 DEF g

\* A record of a lone name that is taken out.
LEMMA OwnedRemove ==
    ASSUME NEW r \in Seq(Slot), NEW own, NEW bytes, NEW f, NEW bad,
           Owned(own, bytes, r, Len(r), f, bad),
           NEW n \in Names, Lone(f, n),
           NEW k \in 1 .. Len(r), r[k].hash = Hash[n], NEW records \in Seq(Slot),
           Len(records) = Len(r) - 1,
           \A j \in 1 .. Len(r) - 1 : records[j] = IF j < k THEN r[j] ELSE r[j + 1],
           NEW other,
           \A i \in 1 .. Len(r) : i # k => Same(bytes, other, r[i].id)
    PROVE  \E own2 : Owned(own2, other, records, Len(records), Dropped(f, n), bad)
<1>. DEFINE m == Len(r) - 1
            from(i) == IF i < k THEN i ELSE i + 1
            own2 == [i \in 1 .. m |-> own[from(i)]]
            g == Dropped(f, n)
<1>0. m \in Nat /\ Len(r) = m + 1 /\ Len(records) = m
  OBVIOUS
<1>1. \A i \in 1 .. m : from(i) \in 1 .. Len(r) /\ from(i) # k
  BY <1>0
<1>2. \A i, j \in 1 .. m : from(i) = from(j) => i = j
  BY <1>0
<1>3. \A x \in 1 .. Len(r) : x # k => \E i \in 1 .. m : from(i) = x
  <2>. SUFFICES ASSUME NEW x \in 1 .. Len(r), x # k PROVE \E i \in 1 .. m : from(i) = x
    OBVIOUS
  <2>1. CASE x < k
    <3>1. x \in 1 .. m /\ from(x) = x
      BY <2>1, <1>0
    <3>. QED
      BY <3>1
  <2>2. CASE x > k
    <3>1. x - 1 \in 1 .. m /\ from(x - 1) = x
      BY <2>2, <1>0
    <3>. QED
      BY <3>1
  <2>. QED
    BY <2>1, <2>2
<1>4. \A i \in 1 .. m : records[i] = r[from(i)]
  BY <1>0
<1>. HIDE DEF from
<1>5. /\ own2 \in [1 .. m -> Names] /\ \A i \in 1 .. m : own2[i] = own[from(i)]
  <2>1. \A i \in 1 .. Len(r) : own[i] \in Names
    BY DEF Owned
  <2>. QED
    BY <2>1, <1>1
<1>6. /\ DOMAIN g = DOMAIN f \ {n}
      /\ \A x \in DOMAIN f : x # n => x \in DOMAIN g /\ g[x] = f[x]
  BY DEF Dropped
<1>7. own[k] \in bad \cup {n} /\ Clear(r, Len(r), n)
  <2>1. own[k] \in bad \cup {n}
    BY KeyOwner
  <2>2. Clear(r, Len(r), n)
    BY KeyClear, Zenon
  <2>. QED
    BY <2>1, <2>2
<1>. HIDE DEF own2, g, m
<1>8. \A i \in 1 .. Len(r) : i # k => own[i] # n
  <2>. SUFFICES ASSUME NEW i \in 1 .. Len(r), i # k PROVE own[i] # n
    OBVIOUS
  <2>1. r[i].hash # Hash[n]
    BY <1>7 DEF Clear
  <2>2. r[i].hash = Hash[own[i]]
    BY DEF Owned
  <2>. QED
    BY <2>1, <2>2
<1>9. ASSUME NEW i \in 1 .. m, NEW j \in 1 .. m, own2[i] = own2[j]
      PROVE  i = j
  <2>1. own[from(i)] = own[from(j)] /\ from(i) \in 1 .. Len(r) /\ from(j) \in 1 .. Len(r)
    BY <1>1, <1>5, <1>9
  <2>2. from(i) = from(j)
    BY <2>1 DEF Owned
  <2>. QED
    BY <2>2, <1>2
<1>10. ASSUME NEW i \in 1 .. m PROVE records[i].hash = Hash[own2[i]]
  BY <1>1, <1>4, <1>5 DEF Owned
<1>11. ASSUME NEW i \in 1 .. m, own2[i] \notin bad
       PROVE  own2[i] \in DOMAIN g
                /\ Holds(other, records[i].id, Message(own2[i], g[own2[i]]))
  <2>. DEFINE x == from(i)
  <2>1. /\ x \in 1 .. Len(r) /\ x # k /\ own2[i] = own[x] /\ records[i] = r[x]
        /\ own[x] \notin bad
    BY <1>1, <1>4, <1>5, <1>11
  <2>. HIDE DEF x
  <2>2. own[x] \in DOMAIN f /\ Holds(bytes, r[x].id, Message(own[x], f[own[x]]))
    BY <2>1 DEF Owned
  <2>3. Holds(other, r[x].id, Message(own[x], f[own[x]]))
    BY <2>1, <2>2, HoldsKept
  <2>4. own[x] \in DOMAIN g /\ g[own[x]] = f[own[x]]
    BY <2>1, <2>2, <1>6, <1>8
  <2>. QED
    BY <2>1, <2>3, <2>4
<1>12. ASSUME NEW x \in DOMAIN g \ bad PROVE \E i \in 1 .. m : own2[i] = x
  <2>1. x \in DOMAIN f \ bad /\ x # n
    BY <1>6, <1>12
  <2>2. PICK j \in 1 .. Len(r) : own[j] = x
    BY <2>1 DEF Owned
  <2>3. j # k
    BY <2>1, <2>2, <1>7
  <2>4. PICK i \in 1 .. m : from(i) = j
    BY <2>3, <1>3
  <2>. QED
    BY <2>2, <2>4, <1>5
<1>13. ASSUME NEW i \in 1 .. m, NEW j \in 1 .. m, i # j, records[i].hash = records[j].hash
       PROVE  own2[i] \notin bad
  <2>1. /\ from(i) \in 1 .. Len(r) /\ from(j) \in 1 .. Len(r) /\ from(i) # from(j)
        /\ r[from(i)].hash = r[from(j)].hash
    BY <1>1, <1>2, <1>4, <1>13
  <2>2. own[from(i)] \notin bad
    BY <2>1 DEF Owned
  <2>. QED
    BY <2>2, <1>5
<1>14. Owned(own2, other, records, m, g, bad)
  BY <1>5, <1>9, <1>10, <1>11, <1>12, <1>13 DEF Owned
<1>. QED
  BY <1>0, <1>14 DEF g

-----------------------------------------------------------------------------
(* Read, modify, write: whose records the new ones are *)

\* What a change of a loaded store does to records that have owners.
Rewritten(l, r, n, h, records, f, g, own, bad) ==
    /\ Filled(h) /\ h.rows = 0 /\ Len(records) <= Len(r) + 1
    /\ Agree(f, g, n)
    /\ Clear(r, Len(r), n) /\ Clear(records, Len(records), n)
    /\ \A i \in 1 .. Len(r) :
          \/ own[i] \in bad \cup {n}
          \/ Same(l.blocks[0].objects, h.blocks[0].objects, r[i].id)
    /\ \E own2 : Owned(own2, h.blocks[0].objects, records, Len(records), g, bad)

LEMMA InsertsOwned ==
    ASSUME OffsetsFit, NEW l \in Heap, Tidy(l), Filled(l), NEW r \in Seq(Slot),
           NEW n \in Names, NEW v \in Values, NEW h, NEW records,
           InsertsInto(l, r, n, v, h, records), h.iter <= Capacity,
           Apart(r, Len(r), l.iter), NEW f, NEW bad,
           NEW own, Owned(own, l.blocks[0].objects, r, Len(r), f, bad)
    PROVE  Rewritten(l, r, n, h, records, f, Given(f, n, v), own, bad)
<1>. DEFINE before == l.blocks[0].objects
            after == h.blocks[0].objects
<1>1. PICK put \in InsertObject(l, Message(n, v)) :
         h = put.heap /\ records = InsertRecord(r, n, put.id)
  BY DEF InsertsInto
<1>2. Message(n, v) \in Seq(Byte) /\ ~ HasKey(r, n)
  BY MessageProps DEF InsertsInto
<1>3. /\ put.id \in HeapID /\ l.rows = 0 /\ put = PutObject(l, 0, Message(n, v))
  BY <1>1, <1>2, InsertPlace
<1>4. /\ Filled(h) /\ Holds(after, put.id, Message(n, v))
      /\ \A id \in HeapID : id.offset + id.length <= l.iter => Same(before, after, id)
  BY <1>1, <1>2, InsertBytes
<1>5. h.rows = 0
  <2>1. Tidy(h) /\ h \in Heap
    BY <1>1, <1>2, InsertProps DEF Inserted
  <2>2. h.iter <= BlockSize
    BY <2>1, Sizes DEF Heap
  <2>. QED
    BY <2>1, <2>2 DEF Tidy
<1>6. \A i \in 1 .. Len(r) : r[i].hash # Hash[n]
  BY <1>2, NoKeyProps
<1>7. PICK k \in 1 .. Len(r) + 1 : InsertedAt(r, k, Record(n, put.id), records)
  BY <1>1, <1>3, InsertRecordProps
<1>8. \A i \in 1 .. Len(r) : own[i] # n
  BY <1>6 DEF Owned
<1>9. \A i \in 1 .. Len(r) : Same(before, after, r[i].id)
  <2>. SUFFICES ASSUME NEW i \in 1 .. Len(r) PROVE Same(before, after, r[i].id)
    OBVIOUS
  <2>1. r[i].id \in HeapID /\ r[i].id.offset + r[i].id.length <= l.iter
    BY SlotProps DEF Apart
  <2>. QED
    BY <2>1, <1>4
<1>. HIDE DEF before, after
<1>10. \E own2 : Owned(own2, after, records, Len(records), Given(f, n, v), bad)
  <2>1. Owned(own, before, r, Len(r), f, bad)
    BY DEF before
  <2>. QED
    BY <2>1, <1>3, <1>4, <1>6, <1>7, <1>8, <1>9, OwnedInsert
<1>11. Clear(r, Len(r), n)
  BY <1>6 DEF Clear
<1>12. Clear(records, Len(records), n)
  <2>. SUFFICES ASSUME NEW i \in 1 .. Len(r) + 1, i # k PROVE records[i].hash # Hash[n]
    BY <1>7 DEF Clear, InsertedAt
  <2>. DEFINE x == IF i < k THEN i ELSE i - 1
  <2>1. x \in 1 .. Len(r) /\ records[i] = r[x]
    BY <1>7 DEF InsertedAt
  <2>. HIDE DEF x
  <2>. QED
    BY <2>1, <1>6
<1>13. Len(records) <= Len(r) + 1
  BY <1>7 DEF InsertedAt
<1>14. Agree(f, Given(f, n, v), n)
  BY AgreeProps
<1>. QED
  BY <1>4, <1>5, <1>9, <1>10, <1>11, <1>12, <1>13, <1>14 DEF Rewritten, before, after

LEMMA OverwritesOwned ==
    ASSUME NEW l \in Heap, DOMAIN l.blocks = {0}, Tidy(l), Filled(l), NEW r \in Seq(Slot),
           NEW n \in Names, NEW v \in Values, NEW h, NEW records,
           Overwrites(l, r, n, v, h, records), h.iter <= Capacity,
           Apart(r, Len(r), l.iter), NEW f, NEW bad, Lone(f, n),
           NEW own, Owned(own, l.blocks[0].objects, r, Len(r), f, bad)
    PROVE  Rewritten(l, r, n, h, records, f, Given(f, n, v), own, bad)
<1>. DEFINE before == l.blocks[0].objects
            after == h.blocks[0].objects
            k == SearchRecord(r, n)
            id == r[k].id
<1>1. /\ HasKey(r, n) /\ GetObject(l, id) # <<>> /\ Len(GetObject(l, id)) = v[1]
      /\ h = OverwriteObject(l, id, Message(n, v)) /\ records = r
  BY DEF Overwrites
<1>2. k \in 1 .. Len(r) /\ r[k].hash = Hash[n] /\ id \in HeapID
  BY <1>1, SearchProps
<1>3. Message(n, v) \in Seq(Byte) /\ Len(Message(n, v)) = v[1]
  BY MessageProps
<1>. HIDE DEF k
<1>4. id.length = Len(Message(n, v)) /\ id.offset + id.length <= l.iter
  <2>1. id.length = v[1]
    <3>. HIDE DEF id
    <3>. QED
      BY <1>1, <1>2, GetProps
  <2>2. id.offset + id.length <= l.iter
    BY <1>2 DEF Apart
  <2>. QED
    BY <2>1, <2>2, <1>3
<1>. HIDE DEF id
<1>5. /\ Filled(h) /\ Holds(after, id, Message(n, v))
      /\ \A x \in HeapID : (x.offset + x.length <= l.iter /\ Separate(x, id)) =>
                               Same(before, after, x)
  BY <1>1, <1>2, <1>3, <1>4, OverwriteBytes
<1>6. h.rows = 0
  <2>1. h.rows = l.rows /\ h.iter = l.iter /\ h \in Heap
    BY <1>1, <1>2, <1>3, OverwriteProps
  <2>2. l.iter <= BlockSize
    BY <2>1, Sizes DEF Heap
  <2>. QED
    BY <2>1, <2>2 DEF Tidy
<1>7. \A i \in 1 .. Len(r) : i # k => Same(before, after, r[i].id)
  <2>. SUFFICES ASSUME NEW i \in 1 .. Len(r), i # k PROVE Same(before, after, r[i].id)
    OBVIOUS
  <2>1. /\ r[i].id \in HeapID /\ r[i].id.offset + r[i].id.length <= l.iter
        /\ Separate(r[i].id, id)
    BY <1>2, SlotProps DEF Apart, id
  <2>. QED
    BY <2>1, <1>5
<1>. HIDE DEF before, after
<1>8. Owned(own, before, r, Len(r), f, bad)
  BY DEF before
<1>9. \E own2 : Owned(own2, after, records, Len(records), Given(f, n, v), bad)
  <2>1. Holds(after, r[k].id, Message(n, v))
    BY <1>5 DEF id
  <2>. QED
    BY <2>1, <1>1, <1>2, <1>7, <1>8, OwnedUpdate
<1>10. own[k] \in bad \cup {n}
  BY <1>2, <1>8, KeyOwner
<1>11. Clear(r, Len(r), n)
  BY <1>8, KeyClear, Zenon
<1>12. Agree(f, Given(f, n, v), n)
  BY AgreeProps
<1>13. \A i \in 1 .. Len(r) : own[i] \in bad \cup {n} \/ Same(before, after, r[i].id)
  BY <1>7, <1>10
<1>14. Len(records) <= Len(r) + 1
  BY <1>1
<1>. QED
  BY <1>1, <1>5, <1>6, <1>9, <1>11, <1>12, <1>13, <1>14 DEF Rewritten, before, after

LEMMA ReplacesOwned ==
    ASSUME OffsetsFit, NEW l \in Heap, Tidy(l), Filled(l), NEW r \in Seq(Slot),
           NEW n \in Names, NEW v \in Values, NEW h, NEW records,
           Replaces(l, r, n, v, h, records), h.iter <= Capacity,
           Apart(r, Len(r), l.iter), NEW f, NEW bad, Lone(f, n),
           NEW own, Owned(own, l.blocks[0].objects, r, Len(r), f, bad)
    PROVE  Rewritten(l, r, n, h, records, f, Given(f, n, v), own, bad)
<1>. DEFINE before == l.blocks[0].objects
            after == h.blocks[0].objects
            k == SearchRecord(r, n)
            id == r[k].id
            d == DeleteObject(l, id)
            between == d.blocks[0].objects
<1>1. HasKey(r, n) /\ \E put \in InsertObject(d, Message(n, v)) :
                         h = put.heap /\ records = UpdateRecord(r, n, put.id)
  BY DEF Replaces
<1>2. k \in 1 .. Len(r) /\ r[k].hash = Hash[n] /\ id \in HeapID
  BY <1>1, SearchProps
<1>3. Message(n, v) \in Seq(Byte)
  BY MessageProps
<1>4. \A i \in 1 .. Len(r) : i # k => /\ r[i].id \in HeapID
                                      /\ r[i].id.offset + r[i].id.length <= l.iter
                                      /\ Separate(r[i].id, id)
  <2>. HIDE DEF k
  <2>. QED
    BY <1>2, SlotProps DEF Apart
<1>. HIDE DEF id
<1>5. /\ d \in Heap /\ d.iter = l.iter /\ d.rows = l.rows
      /\ d.blocks[0].free = l.blocks[0].free
  BY <1>2, DeleteObjectProps
<1>6. /\ Filled(d)
      /\ \A x \in HeapID : (x.offset + x.length <= l.iter /\ Separate(x, id)) =>
                               Same(before, between, x)
  BY <1>2, DeleteBytes
<1>. HIDE DEF d
<1>7. Tidy(d)
  BY <1>5 DEF Tidy
<1>8. PICK put \in InsertObject(d, Message(n, v)) :
         h = put.heap /\ records = UpdateRecord(r, n, put.id)
  BY <1>1
<1>9. put.id \in HeapID
  BY <1>3, <1>5, <1>7, <1>8, InsertPlace
<1>10. /\ Filled(h) /\ Holds(after, put.id, Message(n, v))
       /\ \A x \in HeapID : x.offset + x.length <= d.iter => Same(between, after, x)
  BY <1>3, <1>5, <1>6, <1>7, <1>8, InsertBytes
<1>11. h.rows = 0
  <2>1. Tidy(h) /\ h \in Heap
    BY <1>3, <1>5, <1>7, <1>8, InsertProps DEF Inserted
  <2>2. h.iter <= BlockSize
    BY <2>1, Sizes DEF Heap
  <2>. QED
    BY <2>1, <2>2 DEF Tidy
<1>12. \A i \in 1 .. Len(r) : i # k => Same(before, after, r[i].id)
  <2>. SUFFICES ASSUME NEW i \in 1 .. Len(r), i # k PROVE Same(before, after, r[i].id)
    OBVIOUS
  <2>1. Same(before, between, r[i].id)
    BY <1>4, <1>6
  <2>2. Same(between, after, r[i].id)
    BY <1>4, <1>5, <1>10
  <2>. HIDE DEF before, between, after
  <2>. QED
    BY <2>1, <2>2 DEF Same
<1>13. /\ records \in Seq(Slot) /\ Len(records) = Len(r) /\ records[k].id = put.id
       /\ \A j \in 1 .. Len(r) : j # k => records[j] = r[j]
       /\ \A j \in 1 .. Len(r) : records[j].hash = r[j].hash
  BY <1>1, <1>8, <1>9, UpdateRecordProps
<1>. HIDE DEF before, after, k, between
<1>14. Owned(own, before, r, Len(r), f, bad)
  BY DEF before
<1>15. \E own2 : Owned(own2, after, records, Len(records), Given(f, n, v), bad)
  <2>1. Holds(after, records[k].id, Message(n, v))
    BY <1>10, <1>13
  <2>. QED
    BY <2>1, <1>2, <1>12, <1>13, <1>14, OwnedUpdate
<1>16. own[k] \in bad \cup {n}
  BY <1>2, <1>14, KeyOwner
<1>17. Clear(r, Len(r), n)
  BY <1>14, KeyClear, Zenon
<1>18. Clear(records, Len(records), n)
  BY <1>13, <1>17 DEF Clear
<1>19. Agree(f, Given(f, n, v), n)
  BY AgreeProps
<1>20. \A i \in 1 .. Len(r) : own[i] \in bad \cup {n} \/ Same(before, after, r[i].id)
  BY <1>12, <1>16
<1>21. Len(records) <= Len(r) + 1
  BY <1>13
<1>. QED
  BY <1>10, <1>11, <1>15, <1>17, <1>18, <1>19, <1>20, <1>21 DEF Rewritten, before, after

LEMMA DeletesOwned ==
    ASSUME NEW l \in Heap, Tidy(l), Filled(l), NEW r \in Seq(Slot),
           NEW n \in Names, NEW h, NEW records,
           Deletes(l, r, n, h, records), h.iter <= Capacity,
           Apart(r, Len(r), l.iter), NEW f, NEW bad, Lone(f, n),
           NEW own, Owned(own, l.blocks[0].objects, r, Len(r), f, bad)
    PROVE  Rewritten(l, r, n, h, records, f, Dropped(f, n), own, bad)
<1>. DEFINE before == l.blocks[0].objects
            after == h.blocks[0].objects
            k == SearchRecord(r, n)
            id == r[k].id
<1>1. HasKey(r, n) /\ h = DeleteObject(l, id) /\ records = DeleteRecord(r, n)
  BY DEF Deletes
<1>2. k \in 1 .. Len(r) /\ r[k].hash = Hash[n] /\ id \in HeapID
  BY <1>1, SearchProps
<1>3. \A i \in 1 .. Len(r) : i # k => /\ r[i].id \in HeapID
                                      /\ r[i].id.offset + r[i].id.length <= l.iter
                                      /\ Separate(r[i].id, id)
  <2>. HIDE DEF k
  <2>. QED
    BY <1>2, SlotProps DEF Apart
<1>. HIDE DEF id
<1>4. /\ h \in Heap /\ h.iter = l.iter /\ h.rows = l.rows
  BY <1>1, <1>2, DeleteObjectProps
<1>5. /\ Filled(h)
      /\ \A x \in HeapID : (x.offset + x.length <= l.iter /\ Separate(x, id)) =>
                               Same(before, after, x)
  BY <1>1, <1>2, DeleteBytes
<1>6. h.rows = 0
  <2>1. l.iter <= BlockSize
    BY <1>4, Sizes DEF Heap
  <2>. QED
    BY <2>1, <1>4 DEF Tidy
<1>7. \A i \in 1 .. Len(r) : i # k => Same(before, after, r[i].id)
  BY <1>3, <1>5
<1>8. /\ records \in Seq(Slot) /\ Len(records) = Len(r) - 1
      /\ \A j \in 1 .. Len(r) - 1 : records[j] = IF j < k THEN r[j] ELSE r[j + 1]
  BY <1>1, DeleteRecordProps
<1>. HIDE DEF before, after, k
<1>9. Owned(own, before, r, Len(r), f, bad)
  BY DEF before
<1>10. \E own2 : Owned(own2, after, records, Len(records), Dropped(f, n), bad)
  BY <1>2, <1>7, <1>8, <1>9, OwnedRemove
<1>11. own[k] \in bad \cup {n}
  BY <1>2, <1>9, KeyOwner
<1>12. Clear(r, Len(r), n)
  BY <1>9, KeyClear, Zenon
<1>13. Clear(records, Len(records), n)
  <2>. DEFINE from(i) == IF i < k THEN i ELSE i + 1
  <2>1. \A i \in 1 .. Len(r) - 1 : from(i) \in 1 .. Len(r) /\ records[i] = r[from(i)]
    BY <1>2, <1>8
  <2>2. \A i, j \in 1 .. Len(r) - 1 : from(i) = from(j) => i = j
    BY <1>2
  <2>. HIDE DEF from
  <2>. SUFFICES ASSUME NEW i \in 1 .. Len(r) - 1, NEW j \in 1 .. Len(r) - 1,
                       records[i].hash = Hash[n], records[j].hash = Hash[n]
                PROVE  i = j
    BY <1>8 DEF Clear
  <2>3. from(i) = from(j)
    BY <2>1, <1>12 DEF Clear
  <2>. QED
    BY <2>2, <2>3
<1>14. Agree(f, Dropped(f, n), n)
  BY AgreeProps
<1>15. \A i \in 1 .. Len(r) : own[i] \in bad \cup {n} \/ Same(before, after, r[i].id)
  BY <1>7, <1>11
<1>16. Len(records) <= Len(r) + 1
  BY <1>8
<1>. QED
  BY <1>5, <1>6, <1>10, <1>12, <1>13, <1>14, <1>15, <1>16 DEF Rewritten, before, after

LEMMA ChangesOwned ==
    ASSUME OffsetsFit, NEW l \in Heap, DOMAIN l.blocks = {0}, Tidy(l), Filled(l),
           NEW r \in Seq(Slot), NEW n \in Names, NEW h, NEW records,
           NEW f, NEW g, Changes(l, r, n, h, records, f, g), h.iter <= Capacity,
           Apart(r, Len(r), l.iter), NEW bad, HasKey(r, n) => Lone(f, n),
           NEW own, Owned(own, l.blocks[0].objects, r, Len(r), f, bad)
    PROVE  Rewritten(l, r, n, h, records, f, g, own, bad)
<1>1. ASSUME NEW v \in Values, InsertsInto(l, r, n, v, h, records), g = Given(f, n, v)
      PROVE  Rewritten(l, r, n, h, records, f, g, own, bad)
  BY <1>1, InsertsOwned
<1>2. ASSUME NEW v \in Values, Overwrites(l, r, n, v, h, records), g = Given(f, n, v)
      PROVE  Rewritten(l, r, n, h, records, f, g, own, bad)
  <2>1. Lone(f, n)
    BY <1>2 DEF Overwrites
  <2>. QED
    BY <2>1, <1>2, OverwritesOwned
<1>3. ASSUME NEW v \in Values, Replaces(l, r, n, v, h, records), g = Given(f, n, v)
      PROVE  Rewritten(l, r, n, h, records, f, g, own, bad)
  <2>1. Lone(f, n)
    BY <1>3 DEF Replaces
  <2>. QED
    BY <2>1, <1>3, ReplacesOwned
<1>4. ASSUME Deletes(l, r, n, h, records), g = Dropped(f, n)
      PROVE  Rewritten(l, r, n, h, records, f, g, own, bad)
  <2>1. Lone(f, n)
    BY <1>4 DEF Deletes
  <2>. QED
    BY <2>1, <1>4, DeletesOwned
<1>. QED
  BY <1>1, <1>2, <1>3, <1>4 DEF Changes

-----------------------------------------------------------------------------
(* The records and bytes in the file *)

\* Records of the file with their owners.  A leaf has at most one record more
\* than its header counts; one that no record is read from has only records
\* of failed writes.
FileOwned(own, area, ix, f, bad) ==
    /\ Owned(own, area, ix.slots, ix.sum, f, bad)
    /\ ix.sum <= ix.count + 1
    /\ ix.count = 0 => \A i \in 1 .. ix.sum : own[i] \in bad

\* Written objects have the bytes that they have in memory.
LEMMA ImageSame ==
    ASSUME NEW h \in Heap, Filled(h), h.iter <= Capacity,
           NEW id \in HeapID, id.offset + id.length <= h.iter
    PROVE  Same(h.blocks[0].objects, HeapImage(h).area, id)
<1>. SUFFICES ASSUME NEW i \in 1 .. id.length
              PROVE  HeapImage(h).area[id.offset + i] = h.blocks[0].objects[id.offset + i]
  BY DEF Same
<1>. DEFINE objects == h.blocks[0].objects
            image == HeapImage(h)
<1>1. /\ objects \in Seq(Byte) /\ h.iter \in Nat /\ id.offset \in Nat /\ id.length \in Nat
      /\ Len(objects) >= h.iter /\ Capacity \in Nat
  BY BlocksProps, AccountTypes, IDProps, Sizes DEF Filled
<1>2. \A j \in 1 .. Capacity : image.area[j] = IF j <= Len(objects) THEN objects[j] ELSE Zero
  BY ImageProps
<1>. HIDE DEF objects, image
<1>3. id.offset + i \in 1 .. Capacity /\ id.offset + i <= Len(objects)
  BY <1>1
<1>4. image.area[id.offset + i] = objects[id.offset + i]
  BY <1>2, <1>3
<1>. QED
  BY <1>4 DEF objects, image

\* Loaded objects have the bytes that they have in the file.
LEMMA LoadSame ==
    ASSUME NEW image \in Image, NEW id \in HeapID, id.offset + id.length <= Capacity,
           NEW l, l = LoadHeap(image)
    PROVE  /\ Same(image.area, l.blocks[0].objects, id)
           /\ Same(l.blocks[0].objects, image.area, id)
<1>1. \A i \in 1 .. Capacity : l.blocks[0].objects[i] = image.area[i]
  BY LoadProps
<1>2. id.offset \in Nat /\ id.length \in Nat /\ Capacity \in Nat
  BY IDProps, Sizes
<1>3. \A i \in 1 .. id.length : id.offset + i \in 1 .. Capacity
  BY <1>2
<1>. QED
  BY <1>1, <1>3 DEF Same

\* Owners of the records that are loaded.
LoadedBy(own, bytes, ix, r, f, bad) ==
    \E o : Owned(o, bytes, r, Len(r), f, bad) /\ (ix.count # 0 => o = own)

\* The records that are loaded have owners, and those are the owners of the
\* slots unless nothing is loaded.
LEMMA LoadedOwned ==
    ASSUME NEW image \in Image, image.header.iter <= Capacity,
           NEW ix, IndexShape(ix), CanLoadIndex(ix),
           Apart(ix.slots, ix.sum, image.header.iter),
           NEW f, NEW bad, NEW own, FileOwned(own, image.area, ix, f, bad),
           NEW l, l = LoadHeap(image), NEW r, r = ReadLeaf(ix)
    PROVE  LoadedBy(own, l.blocks[0].objects, ix, r, f, bad)
<1>. DEFINE bytes == l.blocks[0].objects
<1>1. /\ Len(r) = ix.count /\ ix.count \in Nat
      /\ \A i \in 1 .. ix.count : r[i] = ix.slots[i]
      /\ ix.count # 0 => ix.sum = ix.count
  BY ReadLeafProps DEF IndexShape, Index
<1>2. CASE ix.count = 0
  <2>. DEFINE o == [i \in 1 .. 0 |-> 0]
  <2>1. \A x \in DOMAIN f : x \in bad
    <3>. SUFFICES ASSUME NEW x \in DOMAIN f, x \notin bad PROVE FALSE
      OBVIOUS
    <3>1. PICK i \in 1 .. ix.sum : own[i] = x
      BY DEF FileOwned, Owned
    <3>. QED
      BY <3>1, <1>2 DEF FileOwned
  <2>2. o \in [1 .. 0 -> Names]
    OBVIOUS
  <2>. HIDE DEF o, bytes
  <2>3. Owned(o, bytes, r, 0, f, bad)
    BY <2>1, <2>2 DEF Owned
  <2>. QED
    BY <2>3, <1>1, <1>2 DEF bytes, LoadedBy
<1>3. CASE ix.count # 0
  <2>1. ix.sum = ix.count /\ ix.sum <= Len(ix.slots) /\ ix.slots \in Seq(Slot)
    BY <1>1, <1>3 DEF IndexShape, Index
  <2>2. ASSUME NEW i \in 1 .. ix.count
        PROVE  r[i] = ix.slots[i] /\ Same(image.area, bytes, ix.slots[i].id)
    <3>. DEFINE id == ix.slots[i].id
    <3>1. id \in HeapID
      <4>1. i \in 1 .. Len(ix.slots)
        BY <1>1, <2>1
      <4>. QED
        BY <4>1, <2>1, SlotProps
    <3>2. id.offset + id.length <= image.header.iter
      BY <2>1 DEF Apart
    <3>. HIDE DEF id
    <3>3. id.offset + id.length <= Capacity
      <4>1. image.header.iter \in Nat /\ id.offset \in Nat /\ id.length \in Nat /\ Capacity \in Nat
        BY <3>1, IDProps, Sizes DEF Image, Header
      <4>. QED
        BY <4>1, <3>2
    <3>. HIDE DEF id, bytes
    <3>4. Same(image.area, bytes, id)
      BY <3>1, <3>3, LoadSame DEF bytes
    <3>. QED
      BY <3>4, <1>1 DEF id
  <2>3. Owned(own, image.area, ix.slots, ix.count, f, bad)
    BY <2>1 DEF FileOwned
  <2>. HIDE DEF bytes
  <2>4. Owned(own, bytes, r, ix.count, f, bad)
    BY <2>2, <2>3, OwnedSame
  <2>. QED
    BY <2>4, <1>1 DEF bytes, LoadedBy
<1>. QED
  BY <1>2, <1>3

\* The heap and the leaf in the file with the change of a loaded store, or
\* with the first part of it: owners are found for all the records.
LEMMA FileRewritten ==
    ASSUME OffsetsFit, NEW image \in Image, CanLoad(image),
           NEW ix, IndexShape(ix), CanLoadIndex(ix),
           Apart(ix.slots, ix.sum, image.header.iter),
           NEW f, NEW bad, NEW own, FileOwned(own, image.area, ix, f, bad),
           NEW n \in Names, NEW h, NEW records, NEW g,
           Changes(LoadHeap(image), ReadLeaf(ix), n, h, records, f, g),
           h.iter <= Capacity, HasKey(ReadLeaf(ix), n) => Lone(f, n),
           NEW area, area = HeapImage(h).area
    PROVE  /\ h.rows = 0
           /\ \E own2 : FileOwned(own2, area, WriteIndex(ix, records), g, bad)
           /\ \E own2 : FileOwned(own2, area, WriteLeaf(ix, records), g, bad \cup {n})
           /\ FileOwned(own, area, ix, g, bad \cup {n})
           /\ FileOwned(own, image.area, ix, g, bad \cup {n})
<1>. DEFINE l == LoadHeap(image)
            r == ReadLeaf(ix)
            before == l.blocks[0].objects
            after == h.blocks[0].objects
<1>1. /\ l \in Heap /\ DOMAIN l.blocks = {0} /\ Tidy(l) /\ l.iter = image.header.iter
      /\ Len(l.blocks[0].objects) = Capacity
  BY LoadProps
<1>2. /\ r \in Seq(Slot) /\ Len(r) <= MaxRecords /\ Len(r) = ix.count
      /\ ix.count \in Nat /\ ix.sum \in Nat
      /\ \A i \in 1 .. ix.count : r[i] = ix.slots[i]
      /\ ix.count # 0 => ix.sum = ix.count
  BY ReadLeafProps DEF IndexShape, Index
<1>. HIDE DEF l, r
<1>3. Changes(l, r, n, h, records, f, g) /\ (HasKey(r, n) => Lone(f, n))
  BY DEF l, r
<1>4. h \in Heap /\ records \in Seq(Slot) /\ h.iter >= l.iter
  BY <1>1, <1>2, <1>3, ChangesTyped
<1>5. /\ l.iter \in Nat /\ h.iter \in Nat /\ Capacity \in Nat
      /\ l.iter <= Capacity /\ Filled(l)
  <2>1. l.iter \in Nat /\ h.iter \in Nat /\ Capacity \in Nat
    BY <1>1, <1>4, AccountTypes, Sizes
  <2>. QED
    BY <2>1, <1>1, <1>4 DEF Filled
<1>6. Apart(r, Len(r), l.iter)
  BY <1>1, <1>2 DEF Apart
<1>7. PICK o : Owned(o, before, r, Len(r), f, bad) /\ (ix.count # 0 => o = own)
  <2>1. image.header.iter <= Capacity /\ l = LoadHeap(image) /\ r = ReadLeaf(ix)
    BY <1>1, <1>5 DEF l, r
  <2>2. LoadedBy(own, before, ix, r, f, bad)
    BY <2>1, LoadedOwned
  <2>. HIDE DEF before
  <2>. QED
    BY <2>2 DEF LoadedBy
<1>8. Rewritten(l, r, n, h, records, f, g, o, bad)
  BY <1>1, <1>2, <1>3, <1>5, <1>6, <1>7, ChangesOwned
<1>9. Apart(records, Len(records), h.iter)
  BY <1>1, <1>2, <1>3, <1>6, ChangesApart
<1>10. Filled(h) /\ h.rows = 0 /\ Agree(f, g, n) /\ Len(records) <= Len(r) + 1
  BY <1>8 DEF Rewritten
<1>11. Clear(r, Len(r), n) /\ Clear(records, Len(records), n)
  BY <1>8 DEF Rewritten
<1>12. \A i \in 1 .. Len(r) : o[i] \in bad \cup {n} \/ Same(before, after, r[i].id)
  BY <1>8 DEF Rewritten
<1>13. PICK own2 : Owned(own2, after, records, Len(records), g, bad)
  BY <1>8 DEF Rewritten
<1>14. Owned(own2, area, records, Len(records), g, bad)
  <2>1. ASSUME NEW i \in 1 .. Len(records) PROVE Same(after, area, records[i].id)
    <3>1. records[i].id \in HeapID /\ records[i].id.offset + records[i].id.length <= h.iter
      BY <1>4, <1>9, SlotProps DEF Apart
    <3>. QED
      BY <3>1, <1>4, <1>10, ImageSame
  <2>. HIDE DEF after
  <2>. QED
    BY <2>1, <1>13, OwnedSame
<1>15. ASSUME NEW w, w = WriteIndex(ix, records) PROVE FileOwned(own2, area, w, g, bad)
  <2>1. /\ w.sum = Len(records) /\ w.count = Len(records) /\ Len(records) \in Nat
        /\ \A i \in 1 .. Len(records) : w.slots[i] = records[i]
    BY <1>4, <1>15, WriteIndexProps DEF IndexShape
  <2>2. Owned(own2, area, w.slots, Len(records), g, bad)
    BY <2>1, <1>14 DEF Owned
  <2>. QED
    BY <2>1, <2>2 DEF FileOwned
<1>16. ASSUME NEW w, w = WriteLeaf(ix, records)
       PROVE  FileOwned(own2, area, w, g, bad \cup {n})
  <2>1. /\ w.sum = Len(records) /\ w.count = ix.count /\ Len(records) \in Nat
        /\ \A i \in 1 .. Len(records) : w.slots[i] = records[i]
    BY <1>4, <1>16, WriteLeafProps DEF IndexShape
  <2>2. Agree(g, g, n) /\ \A i \in 1 .. Len(records) : Same(area, area, records[i].id)
    BY DEF Agree, Same
  <2>3. Owned(own2, area, records, Len(records), g, bad \cup {n})
    BY <2>2, <1>11, <1>14, OwnedFailed
  <2>4. Owned(own2, area, w.slots, Len(records), g, bad \cup {n})
    BY <2>1, <2>3 DEF Owned
  <2>5. ASSUME ix.count = 0, NEW i \in 1 .. Len(records) PROVE own2[i] \in bad \cup {n}
    <3>. SUFFICES ASSUME own2[i] \notin bad, own2[i] # n PROVE FALSE
      OBVIOUS
    <3>1. own2[i] \in DOMAIN g
      BY <1>14 DEF Owned
    <3>2. own2[i] \in DOMAIN f
      BY <3>1, <1>10 DEF Agree
    <3>3. PICK j \in 1 .. Len(r) : o[j] = own2[i]
      BY <3>2, <1>7 DEF Owned
    <3>. QED
      BY <3>3, <2>5, <1>2
  <2>. QED
    BY <2>1, <2>4, <2>5, <1>2, <1>10 DEF FileOwned
<1>17. Clear(ix.slots, ix.sum, n)
  <2>1. CASE ix.count = 0
    <3>. SUFFICES ASSUME NEW i \in 1 .. ix.sum, NEW j \in 1 .. ix.sum,
                         ix.slots[i].hash = Hash[n], ix.slots[j].hash = Hash[n], i # j
                  PROVE  FALSE
      BY DEF Clear
    <3>1. own[i] \in bad
      BY <2>1 DEF FileOwned
    <3>2. own[i] \notin bad
      BY DEF FileOwned, Owned
    <3>. QED
      BY <3>1, <3>2
  <2>2. CASE ix.count # 0
    BY <2>2, <1>2, <1>11 DEF Clear
  <2>. QED
    BY <2>1, <2>2
<1>18. ASSUME NEW w, w = area \/ w = image.area
       PROVE  FileOwned(own, w, ix, g, bad \cup {n})
  <2>1. ASSUME NEW i \in 1 .. ix.sum
        PROVE  own[i] \in bad \cup {n} \/ Same(image.area, w, ix.slots[i].id)
    <3>1. CASE ix.count = 0
      BY <3>1 DEF FileOwned
    <3>2. CASE w = image.area
      BY <3>2 DEF Same
    <3>3. CASE ix.count # 0 /\ w = area
      <4>. DEFINE id == r[i].id
      <4>1. ix.sum = ix.count /\ i \in 1 .. Len(r) /\ ix.slots[i] = r[i] /\ o = own
        BY <3>3, <1>2, <1>7
      <4>2. /\ id \in HeapID /\ id.offset + id.length <= l.iter
        BY <4>1, <1>2, <1>6, SlotProps DEF Apart
      <4>3. own[i] \in bad \cup {n} \/ Same(before, after, id)
        BY <4>1, <1>12
      <4>. HIDE DEF id
      <4>4. id.offset + id.length <= Capacity /\ id.offset + id.length <= h.iter
        <5>1. id.offset \in Nat /\ id.length \in Nat
          BY <4>2, IDProps
        <5>. QED
          BY <5>1, <4>2, <1>4, <1>5
      <4>5. Same(image.area, before, id)
        BY <4>2, <4>4, LoadSame DEF l
      <4>6. Same(after, area, id)
        BY <4>2, <4>4, <1>4, <1>10, ImageSame
      <4>. HIDE DEF before, after
      <4>7. Same(before, after, id) => Same(image.area, area, id)
        BY <4>5, <4>6 DEF Same
      <4>. QED
        BY <4>1, <4>3, <4>7, <3>3 DEF id
    <3>. QED
      BY <3>1, <3>2, <3>3, <1>18
  <2>2. Owned(own, image.area, ix.slots, ix.sum, f, bad)
    BY DEF FileOwned
  <2>3. Owned(own, w, ix.slots, ix.sum, g, bad \cup {n})
    BY <2>1, <2>2, <1>10, <1>17, OwnedFailed
  <2>. QED
    BY <2>3 DEF FileOwned
<1>. QED
  BY <1>10, <1>15, <1>16, <1>18

-----------------------------------------------------------------------------
(* The inductive invariant *)

ContentInv ==
    /\ heap = NoStore => failed = {} /\ (new = NoStore => attrs = <<>>)
    /\ (new # NoStore /\ new.heap.iter <= Capacity) =>
          /\ Filled(new.heap)
          /\ \E own : Owned(own, new.heap.blocks[0].objects, new.records,
                            Len(new.records), attrs, {})
    /\ (heap # NoStore /\ ~ collided /\ heap.header.iter <= Capacity) =>
          /\ heap.header.rows = 0
          /\ \E own : FileOwned(own, heap.area, index, attrs, failed)

\* A new store that is written has the owners that it had in memory.
LEMMA NewOwned ==
    ASSUME NEW h \in Heap, Filled(h), h.iter <= Capacity, NEW records \in Seq(Slot),
           Apart(records, Len(records), h.iter),
           NEW f, NEW own, Owned(own, h.blocks[0].objects, records, Len(records), f, {}),
           NEW ix, IndexShape(ix), NEW w, w = WriteIndex(ix, records),
           NEW area, area = HeapImage(h).area
    PROVE  FileOwned(own, area, w, f, {})
<1>. DEFINE bytes == h.blocks[0].objects
<1>1. /\ w.sum = Len(records) /\ w.count = Len(records) /\ Len(records) \in Nat
      /\ \A i \in 1 .. Len(records) : w.slots[i] = records[i]
  BY WriteIndexProps DEF IndexShape
<1>2. ASSUME NEW i \in 1 .. Len(records) PROVE Same(bytes, area, records[i].id)
  <2>1. records[i].id \in HeapID /\ records[i].id.offset + records[i].id.length <= h.iter
    BY SlotProps DEF Apart
  <2>. QED
    BY <2>1, ImageSame
<1>. HIDE DEF bytes
<1>3. Owned(own, bytes, records, Len(records), f, {})
  BY DEF bytes
<1>4. Owned(own, area, w.slots, Len(records), f, {})
  BY <1>1, <1>2, <1>3, OwnedSame
<1>. QED
  BY <1>1, <1>4 DEF FileOwned

\* A message that is added to a new store.
LEMMA AddOwned ==
    ASSUME OffsetsFit, NEW store, StoreShape(store),
           NEW n \in Names, NEW v \in Values,
           NEW put \in InsertObject(store.heap, Message(n, v)),
           put.heap.iter <= Capacity, Filled(store.heap),
           Apart(store.records, Len(store.records), store.heap.iter),
           NEW f, n \notin DOMAIN f,
           NEW own, Owned(own, store.heap.blocks[0].objects, store.records,
                          Len(store.records), f, {}),
           NEW records, records = InsertRecord(store.records, n, put.id)
    PROVE  /\ Filled(put.heap)
           /\ \E own2 : Owned(own2, put.heap.blocks[0].objects, records, Len(records),
                              Given(f, n, v), {})
<1>. DEFINE h == store.heap
            r == store.records
            before == h.blocks[0].objects
            after == put.heap.blocks[0].objects
<1>1. h \in Heap /\ r \in Seq(Slot) /\ Tidy(h) /\ Message(n, v) \in Seq(Byte)
  BY StoreProps, MessageProps DEF StoreShape
<1>. HIDE DEF h, r
<1>2. /\ put \in InsertObject(h, Message(n, v)) /\ Filled(h) /\ Apart(r, Len(r), h.iter)
      /\ Owned(own, before, r, Len(r), f, {}) /\ records = InsertRecord(r, n, put.id)
  BY DEF h, r
<1>3. put.id \in HeapID
  BY <1>1, <1>2, InsertPlace
<1>4. /\ Filled(put.heap) /\ Holds(after, put.id, Message(n, v))
      /\ \A id \in HeapID : id.offset + id.length <= h.iter => Same(before, after, id)
  BY <1>1, <1>2, InsertBytes
<1>5. PICK k \in 1 .. Len(r) + 1 : InsertedAt(r, k, Record(n, put.id), records)
  BY <1>1, <1>2, <1>3, InsertRecordProps
<1>6. \A i \in 1 .. Len(r) : own[i] # n
  BY <1>2 DEF Owned
<1>7. \A i \in 1 .. Len(r) : Same(before, after, r[i].id)
  <2>. SUFFICES ASSUME NEW i \in 1 .. Len(r) PROVE Same(before, after, r[i].id)
    OBVIOUS
  <2>1. r[i].id \in HeapID /\ r[i].id.offset + r[i].id.length <= h.iter
    BY <1>1, <1>2, SlotProps DEF Apart
  <2>. QED
    BY <2>1, <1>4
<1>. HIDE DEF before, after
<1>8. \E own2 : Owned(own2, after, records, Len(records), Given(f, n, v), {})
  BY <1>1, <1>2, <1>3, <1>4, <1>5, <1>6, <1>7, OwnedInsert
<1>. QED
  BY <1>4, <1>8 DEF after

\* A heap in the file is not mistaken for none.
LEMMA ImageIsStore ==
    ASSUME NEW image \in Image
    PROVE  image # NoStore
BY DEF Image, NoStore

LEMMA ContentStep ==
    ASSUME OffsetsFit, Typed, ApartInv, ContentInv, [Next]_vars
    PROVE  ContentInv'
<1>. USE DEF ContentInv
<1>0. IndexShape(index)
  BY DEF Typed
<1>1. CASE NewStore
  <2>1. /\ new' = [heap |-> NewHeap, records |-> <<>>] /\ new = NoStore /\ heap = NoStore
        /\ UNCHANGED <<heap, index, attrs, collided, failed>>
    BY <1>1 DEF NewStore
  <2>2. attrs = <<>>
    BY <2>1
  <2>. DEFINE o == [i \in 1 .. 0 |-> 0]
              none == <<>>
              bytes == NewHeap.blocks[0].objects
  <2>3. bytes = <<>> /\ Filled(NewHeap)
    BY DEF NewHeap, EmptyBlock, Filled
  <2>4. o \in [1 .. 0 -> Names] /\ Len(none) = 0 /\ DOMAIN none = {}
    OBVIOUS
  <2>. HIDE DEF o, bytes, none
  <2>5. Owned(o, bytes, none, Len(none), none, {})
    BY <2>4 DEF Owned
  <2>6. /\ new'.heap = NewHeap /\ new'.records = none /\ attrs' = none
        /\ heap' = NoStore /\ failed' = {}
    BY <2>1, <2>2 DEF none
  <2>. QED
    BY <2>1, <2>3, <2>5, <2>6 DEF bytes
<1>2. CASE WriteNew
  <2>1. /\ new # NoStore /\ heap' = HeapImage(new.heap)
        /\ index' = WriteIndex(index, new.records) /\ new' = NoStore
        /\ UNCHANGED <<attrs, collided, failed>>
    BY <1>2 DEF WriteNew
  <2>2. /\ new.heap \in Heap /\ new.records \in Seq(Slot) /\ Tidy(new.heap)
        /\ heap = NoStore
    BY <2>1, StoreProps DEF Typed, StoreShape
  <2>3. heap'.header.iter = new.heap.iter /\ heap'.header.rows = new.heap.rows
    BY <2>1, <2>2, ImageProps
  <2>4. failed = {}
    BY <2>2
  <2>5. ASSUME new.heap.iter <= Capacity
        PROVE  /\ heap'.header.rows = 0
               /\ \E own : FileOwned(own, heap'.area, index', attrs, {})
    <3>1. /\ Filled(new.heap) /\ Apart(new.records, Len(new.records), new.heap.iter)
      BY <2>1, <2>5 DEF ApartInv
    <3>2. PICK own : Owned(own, new.heap.blocks[0].objects, new.records,
                           Len(new.records), attrs, {})
      BY <2>1, <2>5
    <3>3. FileOwned(own, heap'.area, index', attrs, {})
      BY <3>1, <3>2, <2>1, <2>2, <2>5, <1>0, NewOwned
    <3>4. new.heap.iter <= BlockSize
      BY <2>2, <2>5, AccountTypes, Sizes
    <3>. QED
      BY <3>3, <3>4, <2>2, <2>3 DEF Tidy
  <2>6. heap' # NoStore
    BY <2>1, <2>2, ImageProps, ImageIsStore
  <2>. QED
    BY <2>1, <2>3, <2>4, <2>5, <2>6
<1>3. ASSUME NEW n \in Names, NEW v \in Values, Add(n, v) PROVE ContentInv'
  <2>1. /\ new # NoStore /\ n \notin DOMAIN attrs
        /\ UNCHANGED <<heap, index, collided, failed>>
    BY <1>3 DEF Add
  <2>2. PICK put \in InsertObject(new.heap, Message(n, v)) :
           new' = [heap |-> put.heap, records |-> InsertRecord(new.records, n, put.id)]
    BY <1>3 DEF Add
  <2>3. attrs' = Given(attrs, n, v)
    BY <1>3 DEF Add, Acknowledge, Given
  <2>4. StoreShape(new) /\ heap = NoStore
    BY <2>1 DEF Typed
  <2>5. /\ new'.heap = put.heap
        /\ new'.records = InsertRecord(new.records, n, put.id)
    BY <2>2
  <2>6. ASSUME put.heap.iter <= Capacity
        PROVE  /\ Filled(put.heap)
               /\ \E own : Owned(own, put.heap.blocks[0].objects, new'.records,
                                 Len(new'.records), attrs', {})
    <3>1. new.heap.iter <= Capacity
      BY <2>2, <2>4, <2>6, StoreProps, MessageProps, InsertPlace DEF StoreShape
    <3>2. Filled(new.heap) /\ Apart(new.records, Len(new.records), new.heap.iter)
      BY <2>1, <3>1 DEF ApartInv
    <3>3. PICK own : Owned(own, new.heap.blocks[0].objects, new.records,
                           Len(new.records), attrs, {})
      BY <2>1, <3>1
    <3>. QED
      BY <3>2, <3>3, <2>1, <2>2, <2>3, <2>4, <2>5, <2>6, AddOwned
  <2>7. new' # NoStore
    BY <2>2 DEF NoStore
  <2>. QED
    BY <2>1, <2>4, <2>5, <2>6, <2>7
<1>4. ASSUME NEW n \in Names, NEW v \in Values, AddFails(n, v) PROVE ContentInv'
  <2>1. /\ new # NoStore /\ new' = NoStore /\ attrs' = <<>>
        /\ UNCHANGED <<heap, index, collided, failed>>
    BY <1>4 DEF AddFails
  <2>2. heap = NoStore
    BY <2>1 DEF Typed
  <2>. QED
    BY <2>1, <2>2
<1>5. ASSUME NEW n \in Names,
             (\E v \in Values : InsertDense(n, v) \/ ModifyDense(n, v)) \/ DeleteDense(n)
      PROVE  ContentInv'
  <2>1. PICK h, records : /\ Changes(LoadHeap(heap), Records, n, h, records, attrs, attrs')
                          /\ WriteBack(h, records, n)
    BY <1>5, RewriteSteps
  <2>2. Loadable /\ new' = new
    BY <1>5, RewriteSteps
  <2>3. /\ new = NoStore /\ heap # NoStore /\ heap \in Image
        /\ CanLoad(heap) /\ CanLoadIndex(index)
    BY <2>2 DEF Loadable, Typed
  <2>4. LoadHeap(heap) \in Heap /\ LoadHeap(heap).iter = heap.header.iter
    BY <2>3, LoadProps
  <2>5. Records \in Seq(Slot) /\ Len(Records) <= MaxRecords
    BY <2>3, <1>0, ReadLeafProps DEF Records
  <2>6. h \in Heap /\ h.iter >= heap.header.iter /\ records \in Seq(Slot)
    BY <2>1, <2>4, <2>5, ChangesTyped
  <2>7. /\ heap' \in Image /\ heap'.header.iter = h.iter /\ heap'.header.rows = h.rows
    <3>1. heap' \in Image /\ heap'.header = HeapImage(h).header
      BY <2>1, <2>3, <2>6, WriteBackProps
    <3>2. HeapImage(h).header.iter = h.iter /\ HeapImage(h).header.rows = h.rows
      BY <2>6, ImageProps
    <3>. QED
      BY <3>1, <3>2
  <2>8. ~ collided' => ~ collided /\ (HasKey(Records, n) => Lone(attrs, n))
    <3>1. CASE \E v \in Values : InsertDense(n, v)
      BY <3>1 DEF InsertDense
    <3>2. CASE (\E v \in Values : ModifyDense(n, v)) \/ DeleteDense(n)
      <4>1. collided' = (collided \/ Collides(n))
        BY <3>2 DEF ModifyDense, DeleteDense
      <4>2. ~ Collides(n) => Lone(attrs, n)
        BY DEF Collides, Lone
      <4>. QED
        BY <4>1, <4>2
    <3>. QED
      BY <3>1, <3>2, <1>5
  <2>9. ASSUME ~ collided', h.iter <= Capacity
        PROVE  h.rows = 0 /\ \E own : FileOwned(own, heap'.area, index', attrs', failed')
    <3>1. heap.header.iter <= Capacity
      <4>1. heap.header.iter \in Nat /\ h.iter \in Nat /\ Capacity \in Nat
        BY <2>4, <2>6, AccountTypes, Sizes
      <4>. QED
        BY <4>1, <2>6, <2>9
    <3>2. Apart(index.slots, index.sum, heap.header.iter)
      BY <3>1, <2>3 DEF ApartInv
    <3>3. PICK own : FileOwned(own, heap.area, index, attrs, failed)
      BY <3>1, <2>3, <2>8, <2>9
    <3>4. HasKey(ReadLeaf(index), n) => Lone(attrs, n)
      BY <2>8, <2>9 DEF Records
    <3>5. Changes(LoadHeap(heap), ReadLeaf(index), n, h, records, attrs, attrs')
      BY <2>1 DEF Records
    <3>. DEFINE area == HeapImage(h).area
    <3>6. /\ h.rows = 0
          /\ \E own2 : FileOwned(own2, area, WriteIndex(index, records), attrs', failed)
          /\ \E own2 : FileOwned(own2, area, WriteLeaf(index, records), attrs',
                                 failed \cup {n})
          /\ FileOwned(own, area, index, attrs', failed \cup {n})
          /\ FileOwned(own, heap.area, index, attrs', failed \cup {n})
      BY <3>1, <3>2, <3>3, <3>4, <3>5, <2>3, <2>9, <1>0, FileRewritten
    <3>7. \/ /\ heap' = HeapImage(h) /\ index' = WriteIndex(index, records)
             /\ failed' = failed
          \/ /\ heap' = HeapImage(h) /\ index' = WriteLeaf(index, records)
             /\ failed' = failed \cup {n}
          \/ /\ heap'.area = HeapImage(h).area \/ heap'.area = heap.area
             /\ index' = index /\ failed' = failed \cup {n}
      BY <2>1, <2>3, <2>6, WriteBackProps
    <3>8. CASE heap' = HeapImage(h) /\ index' = WriteIndex(index, records)
               /\ failed' = failed
      BY <3>6, <3>8
    <3>9. CASE heap' = HeapImage(h) /\ index' = WriteLeaf(index, records)
               /\ failed' = failed \cup {n}
      BY <3>6, <3>9
    <3>10. CASE /\ heap'.area = HeapImage(h).area \/ heap'.area = heap.area
                /\ index' = index /\ failed' = failed \cup {n}
      BY <3>6, <3>10
    <3>. QED
      BY <3>7, <3>8, <3>9, <3>10
  <2>10. heap' # NoStore
    BY <2>7, ImageIsStore
  <2>. QED
    BY <2>2, <2>3, <2>7, <2>9, <2>10
<1>6. CASE UNCHANGED vars
  BY <1>6 DEF vars
<1>. QED
  BY <1>1, <1>2, <1>3, <1>4, <1>5, <1>6 DEF Next

-----------------------------------------------------------------------------
(* What is read *)

\* The part of a sequence that has the bytes of an object is the object.
LEMMA PartIsObject ==
    ASSUME NEW s, NEW x \in Nat, NEW data \in Seq(Byte), Len(data) >= 1,
           \A i \in 1 .. Len(data) : s[x + i] = data[i]
    PROVE  SubSeq(s, x + 1, x + Len(data)) = data
<1>. DEFINE y == x + 1
            z == x + Len(data)
<1>1. y \in Int /\ z \in Int /\ z - y + 1 = Len(data) /\ y <= z /\ Len(data) \in Nat
  OBVIOUS
<1>2. \A i \in y .. z : s[i] \in Byte
  <2>. SUFFICES ASSUME NEW i \in y .. z PROVE s[i] \in Byte
    OBVIOUS
  <2>1. i - x \in 1 .. Len(data) /\ x + (i - x) = i
    BY <1>1
  <2>2. s[x + (i - x)] = data[i - x]
    BY <2>1
  <2>. QED
    BY <2>1, <2>2
<1>3. \A i \in 1 .. Len(data) : s[y + i - 1] = data[i]
  <2>1. \A i \in 1 .. Len(data) : y + i - 1 = x + i
    OBVIOUS
  <2>. HIDE DEF y
  <2>. QED
    BY <2>1
<1>. HIDE DEF y, z
<1>4. /\ SubSeq(s, y, z) \in Seq(Byte)
      /\ Len(SubSeq(s, y, z)) = Len(data)
      /\ \A i \in 1 .. Len(data) : SubSeq(s, y, z)[i] = s[y + i - 1]
  BY <1>1, <1>2, SubSeqProperties
<1>5. SubSeq(s, y, z) = data
  <2>. DEFINE part == SubSeq(s, y, z)
  <2>1. /\ part \in Seq(Byte) /\ Len(part) = Len(data)
        /\ \A i \in 1 .. Len(part) : part[i] = data[i]
    BY <1>3, <1>4
  <2>. HIDE DEF part
  <2>2. part = data
    BY <2>1, SeqEqual
  <2>. QED
    BY <2>2 DEF part
<1>. QED
  BY <1>5 DEF y, z

\* Each of the three readers finds the object that the block holds.
LEMMA ObjectRead ==
    ASSUME NEW image \in Image, image.header.rows = 0,
           NEW id \in HeapID, id.offset + id.length <= Capacity,
           NEW n \in Names, NEW v \in Values, Holds(image.area, id, Message(n, v))
    PROVE  /\ ReadHeapObject(image, id) = Message(n, v)
           /\ ReadObject(image, id) = Message(n, v)
           /\ GetObject(LoadHeap(image), id) = Message(n, v)
<1>. DEFINE data == Message(n, v)
            x == id.offset
            l == LoadHeap(image)
            bytes == l.blocks[0].objects
<1>1. /\ data \in Seq(Byte) /\ Len(data) = v[1] /\ v[1] \in Nat /\ v[1] >= 1
      /\ id.length = Len(data) /\ x \in Nat
      /\ \A i \in 1 .. id.length : image.area[x + i] = data[i]
  BY MessageProps, IDProps DEF Holds
<1>2. Capacity \in Nat /\ DataSize \in Nat /\ Capacity <= DataSize
  BY Sizes
<1>3. \A i \in 1 .. v[1] : data[i] = <<n, v, i>>
  BY MessageProps
<1>4. ReadHeapObject(image, id) = data
  <2>1. \A i \in 1 .. v[1] : x + i <= DataSize
    BY <1>1, <1>2
  <2>2. ReadHeapObject(image, id)
           = [i \in 1 .. v[1] |-> IF x + i <= DataSize THEN image.area[x + i] ELSE Behind]
    BY <1>1 DEF ReadHeapObject
  <2>3. \A i \in 1 .. v[1] : image.area[x + i] = <<n, v, i>>
    BY <1>1, <1>3
  <2>4. data = [i \in 1 .. v[1] |-> <<n, v, i>>]
    BY DEF Message
  <2>. HIDE DEF data, x
  <2>. QED
    BY <2>1, <2>2, <2>3, <2>4
<1>5. SubSeq(image.area, x + 1, x + Len(data)) = data
  <2>. HIDE DEF data, x
  <2>. QED
    BY <1>1, PartIsObject
<1>6. ReadObject(image, id) = data
  <2>1. x + id.length <= DataSize
    BY <1>1, <1>2
  <2>2. ReadObject(image, id) = SubSeq(image.area, x + 1, x + id.length)
    BY <2>1 DEF ReadObject, OpenFractalHeap
  <2>. QED
    BY <2>2, <1>1, <1>5
<1>7. GetObject(l, id) = data
  <2>1. /\ l \in Heap /\ DOMAIN l.blocks = {0} /\ Len(bytes) = Capacity
    BY LoadProps
  <2>2. GetObject(l, id) = SubSeq(bytes, x + 1, x + id.length)
    <3>. HIDE DEF l
    <3>. QED
      BY <2>1, GetProps
  <2>3. Same(image.area, bytes, id)
    BY LoadSame
  <2>. HIDE DEF bytes, data, l, x
  <2>4. \A i \in 1 .. Len(data) : bytes[x + i] = data[i]
    BY <2>3, <1>1 DEF Same, x
  <2>5. SubSeq(bytes, x + 1, x + Len(data)) = data
    BY <2>4, <1>1, PartIsObject
  <2>. QED
    BY <2>2, <2>5, <1>1
<1>. QED
  BY <1>4, <1>6, <1>7

\* The records of the file that are its attributes' own lead to their values.
LEMMA RecordRead ==
    ASSUME Typed, ApartInv, Settled, Fits, heap.header.rows = 0,
           NEW own, Owned(own, heap.area, index.slots, index.sum, attrs, failed),
           NEW i \in 1 .. index.sum, own[i] \notin failed,
           NEW id, id = index.slots[i].id
    PROVE  /\ own[i] \in DOMAIN attrs
           /\ ReadHeapObject(heap, id) = Written(own[i])
           /\ ReadObject(heap, id) = Written(own[i])
           /\ GetObject(LoadHeap(heap), id) = Written(own[i])
<1>1. /\ heap \in Image /\ heap # NoStore /\ heap.header.iter <= Capacity
      /\ index.slots \in Seq(Slot) /\ index.sum \in Nat /\ index.sum <= Len(index.slots)
      /\ heap.header.iter \in Nat /\ Capacity \in Nat
  BY Sizes DEF Typed, Settled, Fits, IndexShape, Index, Image, Header
<1>2. id \in HeapID
  <2>1. i \in 1 .. Len(index.slots)
    BY <1>1
  <2>. QED
    BY <2>1, <1>1, SlotProps
<1>3. id.offset + id.length <= heap.header.iter
  BY <1>1 DEF ApartInv, Apart
<1>4. id.offset + id.length <= Capacity
  BY <1>1, <1>2, <1>3, IDProps
<1>5. own[i] \in DOMAIN attrs /\ Holds(heap.area, id, Message(own[i], attrs[own[i]]))
  BY DEF Owned
<1>6. own[i] \in Names /\ attrs[own[i]] \in Values
  BY <1>5, AttrsProps DEF Typed
<1>7. /\ ReadHeapObject(heap, id) = Message(own[i], attrs[own[i]])
      /\ ReadObject(heap, id) = Message(own[i], attrs[own[i]])
      /\ GetObject(LoadHeap(heap), id) = Message(own[i], attrs[own[i]])
  BY <1>1, <1>2, <1>4, <1>5, <1>6, ObjectRead
<1>. QED
  BY <1>5, <1>7 DEF Written

\* The IDs that a reader follows.
LEMMA IDsRead ==
    ASSUME NEW ix, NEW id
    PROVE  id \in Range(ReadLeafRecords(ix)) <=> \E i \in 1 .. ix.count : id = ix.slots[i].id
BY DEF Range, ReadLeafRecords

LEMMA WrittenParses ==
    ASSUME Typed, NEW n \in DOMAIN attrs
    PROVE  Parses(Written(n))
BY DEF Typed, Parses, Written, Attrs

LEMMA ContentReadsBack ==
    ASSUME Typed, ApartInv, AccountsInv, ContentInv
    PROVE  DenseReadsBack
<1>. SUFFICES ASSUME Settled, Fits, failed = {}
              PROVE  /\ MessagesRead = {Written(n) : n \in DOMAIN attrs}
                     /\ index.count = Cardinality(DOMAIN attrs)
                     /\ \A id \in Range(ReadLeafRecords(index)) :
                           /\ ReadObject(heap, id) = ReadHeapObject(heap, id)
                           /\ GetObject(LoadHeap(heap), id) = ReadHeapObject(heap, id)
  BY DEF DenseReadsBack
<1>1. heap # NoStore /\ index.sum = index.count /\ index.count \in Nat
  BY DEF Typed, IndexShape, Index, Settled, AccountsInv
<1>2. heap.header.rows = 0 /\ \E own : FileOwned(own, heap.area, index, attrs, failed)
  BY DEF ContentInv, Settled, Fits
<1>3. PICK own : Owned(own, heap.area, index.slots, index.sum, attrs, failed)
  BY <1>2 DEF FileOwned
<1>. DEFINE m == index.count
            at(i) == index.slots[i].id
<1>4. \A i \in 1 .. m : /\ own[i] \in DOMAIN attrs
                        /\ ReadHeapObject(heap, at(i)) = Written(own[i])
                        /\ ReadObject(heap, at(i)) = Written(own[i])
                        /\ GetObject(LoadHeap(heap), at(i)) = Written(own[i])
  <2>. SUFFICES ASSUME NEW i \in 1 .. index.sum
                PROVE  /\ own[i] \in DOMAIN attrs
                       /\ ReadHeapObject(heap, at(i)) = Written(own[i])
                       /\ ReadObject(heap, at(i)) = Written(own[i])
                       /\ GetObject(LoadHeap(heap), at(i)) = Written(own[i])
    BY <1>1
  <2>. QED
    BY <1>2, <1>3, RecordRead
<1>5. \A x \in DOMAIN attrs : \E i \in 1 .. m : own[i] = x
  BY <1>1, <1>3 DEF Owned
<1>6. \A id : id \in Range(ReadLeafRecords(index)) <=> \E i \in 1 .. m : id = at(i)
  BY IDsRead
<1>7. m = Cardinality(DOMAIN attrs)
  <2>1. own \in Bijection(1 .. m, DOMAIN attrs)
    <3>1. /\ DOMAIN own = 1 .. m /\ own \in [1 .. m -> DOMAIN attrs]
          /\ \A i, j \in 1 .. m : own[i] = own[j] => i = j
      BY <1>1, <1>3, <1>4 DEF Owned
    <3>. QED
      BY <3>1, <1>5 DEF Bijection, Injection, Surjection, IsInjective
  <2>2. IsFiniteSet(1 .. m) /\ Cardinality(1 .. m) = m
    BY <1>1, FS_Interval
  <2>3. ExistsBijection(1 .. m, DOMAIN attrs)
    BY <2>1 DEF ExistsBijection
  <2>. QED
    BY <2>2, <2>3, FS_Bijection
<1>. HIDE DEF m, at
<1>8. MessagesRead = {Written(n) : n \in DOMAIN attrs}
  <2>1. ObjectsRead = {ReadHeapObject(heap, id) : id \in Range(ReadLeafRecords(index))}
    BY DEF ObjectsRead
  <2>2. ASSUME NEW x \in ObjectsRead PROVE x \in {Written(n) : n \in DOMAIN attrs}
    <3>1. PICK id \in Range(ReadLeafRecords(index)) : x = ReadHeapObject(heap, id)
      BY <2>1, <2>2
    <3>2. PICK i \in 1 .. m : id = at(i)
      BY <3>1, <1>6
    <3>. QED
      BY <3>1, <3>2, <1>4
  <2>3. ASSUME NEW n \in DOMAIN attrs PROVE Written(n) \in ObjectsRead
    <3>1. PICK i \in 1 .. m : own[i] = n
      BY <1>5
    <3>2. at(i) \in Range(ReadLeafRecords(index)) /\ ReadHeapObject(heap, at(i)) = Written(n)
      BY <3>1, <1>4, <1>6
    <3>. QED
      BY <2>1, <3>2
  <2>4. ObjectsRead = {Written(n) : n \in DOMAIN attrs}
    BY <2>2, <2>3
  <2>5. \A data \in ObjectsRead : Parses(data)
    BY <2>4, WrittenParses
  <2>. QED
    BY <2>4, <2>5 DEF MessagesRead
<1>9. ASSUME NEW id \in Range(ReadLeafRecords(index))
      PROVE  /\ ReadObject(heap, id) = ReadHeapObject(heap, id)
             /\ GetObject(LoadHeap(heap), id) = ReadHeapObject(heap, id)
  <2>1. PICK i \in 1 .. m : id = at(i)
    BY <1>6
  <2>. QED
    BY <2>1, <1>4
<1>. QED
  BY <1>7, <1>8, <1>9 DEF m

LEMMA ContentIsLocal ==
    ASSUME Typed, ApartInv, ContentInv
    PROVE  DamageIsLocal
<1>. DEFINE lost == {n \in DOMAIN attrs \ failed : Written(n) \notin ObjectsRead}
            parsed(i) == \/ Parses(ReadHeapObject(heap, index.slots[i].id))
                         \/ \E n \in failed : index.slots[i].hash = Hash[n]
<1>. SUFFICES ASSUME Settled, Fits
              PROVE  /\ Cardinality(lost) <= IF index.sum > index.count THEN 1 ELSE 0
                     /\ \A i \in 1 .. index.sum : parsed(i)
  BY DEF DamageIsLocal
<1>1. heap # NoStore /\ index.count \in Nat /\ index.sum \in Nat
  BY DEF Typed, IndexShape, Index, Settled
<1>2. heap.header.rows = 0 /\ \E own : FileOwned(own, heap.area, index, attrs, failed)
  BY DEF ContentInv, Settled, Fits
<1>3. PICK own : FileOwned(own, heap.area, index, attrs, failed)
  BY <1>2
<1>4. Owned(own, heap.area, index.slots, index.sum, attrs, failed)
  BY <1>3 DEF FileOwned
<1>. DEFINE last == own[index.count + 1]
<1>5. ASSUME NEW n \in lost PROVE n = last /\ index.sum > index.count
  <2>1. PICK i \in 1 .. index.sum : own[i] = n
    BY <1>4, <1>5 DEF Owned
  <2>2. ReadHeapObject(heap, index.slots[i].id) = Written(n)
    BY <2>1, <1>2, <1>4, <1>5, RecordRead
  <2>3. i \notin 1 .. index.count
    <3>. SUFFICES ASSUME i \in 1 .. index.count PROVE FALSE
      OBVIOUS
    <3>1. index.slots[i].id \in Range(ReadLeafRecords(index))
      BY IDsRead
    <3>2. Written(n) \in ObjectsRead
      BY <3>1, <2>2 DEF ObjectsRead
    <3>. QED
      BY <3>2, <1>5
  <2>4. index.sum <= index.count + 1
    BY <1>3 DEF FileOwned
  <2>5. i = index.count + 1 /\ index.sum > index.count
    BY <2>3, <2>4, <1>1
  <2>. QED
    BY <2>1, <2>5
<1>. HIDE DEF lost, last
<1>6. index.sum > index.count => Cardinality(lost) <= 1
  <2>. HAVE index.sum > index.count
  <2>1. lost \subseteq {last}
    BY <1>5
  <2>2. IsFiniteSet({last}) /\ Cardinality({last}) = 1
    BY FS_Singleton
  <2>. QED
    BY <2>1, <2>2, FS_Subset
<1>7. ~ (index.sum > index.count) => Cardinality(lost) <= 0
  <2>. HAVE ~ (index.sum > index.count)
  <2>1. lost = {}
    BY <1>5
  <2>. QED
    BY <2>1, FS_EmptySet
<1>8. ASSUME NEW i \in 1 .. index.sum PROVE parsed(i)
  <2>1. CASE own[i] \in failed
    BY <2>1, <1>4 DEF Owned
  <2>2. CASE own[i] \notin failed
    <3>1. /\ own[i] \in DOMAIN attrs
          /\ ReadHeapObject(heap, index.slots[i].id) = Written(own[i])
      BY <2>2, <1>2, <1>4, RecordRead
    <3>. QED
      BY <3>1, WrittenParses
  <2>. QED
    BY <2>1, <2>2
<1>. QED
  BY <1>6, <1>7, <1>8

\* DenseReadsBack, when the offsets of a block fit into heap IDs: a reader
\* finds exactly the attributes that were written and not deleted, with their
\* last values, over every sequence of insertions, overwritings, replacements
\* and deletions, and the three ways to read an object agree.
THEOREM StoreReadsBack ==
    ASSUME OffsetsFit
    PROVE  Spec => []DenseReadsBack
<1>1. Init => ApartInv /\ AccountsInv /\ ContentInv
  BY DEF Init, ApartInv, AccountsInv, ContentInv
<1>2. Typed /\ ApartInv /\ [Next]_vars => ApartInv'
  BY ApartStep
<1>3. Typed /\ AccountsInv /\ [Next]_vars => AccountsInv'
  BY AccountsStep
<1>4. Typed /\ ApartInv /\ ContentInv /\ [Next]_vars => ContentInv'
  BY ContentStep
<1>5. Typed /\ ApartInv /\ AccountsInv /\ ContentInv => DenseReadsBack
  BY ContentReadsBack
<1>. QED
  BY <1>1, <1>2, <1>3, <1>4, <1>5, TypedInv, PTL DEF Spec

\* DamageIsLocal, when the offsets of a block fit into heap IDs: after writes that
\* failed halfway the records lead to the object of every attribute but those
\* that were being written, and one whose record the header does not count; only
\* records of the former lead to an object that does not parse.
THEOREM DamageStaysLocal ==
    ASSUME OffsetsFit
    PROVE  Spec => []DamageIsLocal
<1>1. Init => ApartInv /\ ContentInv
  BY DEF Init, ApartInv, ContentInv
<1>2. Typed /\ ApartInv /\ [Next]_vars => ApartInv'
  BY ApartStep
<1>3. Typed /\ ApartInv /\ ContentInv /\ [Next]_vars => ContentInv'
  BY ContentStep
<1>4. Typed /\ ApartInv /\ ContentInv => DamageIsLocal
  BY ContentIsLocal
<1>. QED
  BY <1>1, <1>2, <1>3, <1>4, TypedInv, PTL DEF Spec
=============================================================================
