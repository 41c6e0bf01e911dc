---------------------------- MODULE DenseStorage ----------------------------
(***************************************************************************)
(* Dense storage, the attributes of an object or the links of a group: a   *)
(* fractal heap of messages and a B-tree that finds them.  A new store is   *)
(* filled in memory and then written (DenseAttributeWriter,                 *)
(* DenseGroupWriter); attributes are written and deleted later by loading   *)
(* both structures, changing them, and writing first the heap and then the  *)
(* B-tree back in place (attribute_write.go, core/attribute_modify.go).     *)
(***************************************************************************)
EXTENDS FractalHeap, BTreeV2, FiniteSets

CONSTANTS Values,       \* the size of a message and what tells it from others
          MaxFailures   \* bound: names that a write fails for

ASSUME DenseAssumption == /\ \A v \in Values : v[1] \in Nat \ {0}
                          /\ MaxFailures \in Nat

\* Nothing is written, or nothing is in memory.
NoStore == [none |-> TRUE]

VARIABLES new,      \* the store that is filled in memory
          heap,     \* the heap in the file
          index,    \* the B-tree in the file
          attrs,    \* history: name and value of every message that should be there
          collided, \* history: a name was given while another of its hash was there
          failed    \* history: the names that a write of the B-tree failed for

vars == <<new, heap, index, attrs, collided, failed>>

\* createLinkMessage, EncodeAttributeFromStruct
Message(n, v) == [i \in 1 .. v[1] |-> <<n, v, i>>]

Init == /\ new = NoStore
        /\ heap = NoStore
        /\ index = EmptyIndex
        /\ attrs = <<>>
        /\ collided = FALSE
        /\ failed = {}

Collides(n) == \E m \in DOMAIN attrs : m # n /\ Hash[m] = Hash[n]

Acknowledge(n, v) ==
    attrs' = [x \in DOMAIN attrs \cup {n} |-> IF x = n THEN v ELSE attrs[x]]
Forget(n) == attrs' = [x \in DOMAIN attrs \ {n} |-> attrs[x]]

-----------------------------------------------------------------------------
(* A new store *)

\* NewDenseAttributeWriter, NewDenseGroupWriter
NewStore == /\ new = NoStore /\ heap = NoStore
            /\ new' = [heap |-> NewHeap, records |-> <<>>]
            /\ UNCHANGED <<heap, index, attrs, collided, failed>>

\* AddAttribute, or AddLink with its share of WriteToFile: the message goes
\* into the heap, its ID into the B-tree.  A name is taken once.
Add(n, v) ==
    /\ new # NoStore /\ n \notin DOMAIN attrs
    /\ ~ IsFull(new.records)
    /\ \E put \in InsertObject(new.heap, Message(n, v)) :
          new' = [heap |-> put.heap, records |-> InsertRecord(new.records, n, put.id)]
    /\ Acknowledge(n, v)
    /\ UNCHANGED <<heap, index, collided, failed>>

\* An error of the heap or of the B-tree: nothing of the store is written.
AddFails(n, v) ==
    /\ new # NoStore /\ n \notin DOMAIN attrs
    /\ IsFull(new.records) \/ InsertObject(new.heap, Message(n, v)) = {}
    /\ new' = NoStore
    /\ attrs' = <<>>
    /\ UNCHANGED <<heap, index, collided, failed>>

\* WriteToFile
WriteNew == /\ new # NoStore /\ attrs # <<>>
            /\ heap' = HeapImage(new.heap)
            /\ index' = WriteIndex(index, new.records)
            /\ new' = NoStore
            /\ UNCHANGED <<attrs, collided, failed>>

-----------------------------------------------------------------------------
(* Read, modify, write *)

Loadable == /\ new = NoStore /\ heap # NoStore
            /\ CanLoad(heap) /\ CanLoadIndex(index)
Records == ReadLeaf(index)

Fails(n) == /\ Cardinality(failed) < MaxFailures
            /\ failed' = failed \cup {n}

\* Mutant: the heap is written after the B-tree.
TreeFirst(h, records, n) ==
    /\ index' = WriteIndex(index, records)
    /\ \/ heap' = HeapImage(h) /\ UNCHANGED failed
       \/ UNCHANGED heap /\ Fails(n)

\* heap.WriteAt, which writes the header and then the block, and btree.WriteAt,
\* which writes the leaf and then the header: all of them, or the first ones
\* when a write fails.
WriteBack(h, records, n) ==
    LET image == HeapImage(h)
    IN  \/ heap' = image /\ index' = WriteIndex(index, records) /\ UNCHANGED failed
        \/ heap' = image /\ index' = WriteLeaf(index, records) /\ Fails(n)
        \/ heap' = image /\ UNCHANGED index /\ Fails(n)
        \/ heap' = [heap EXCEPT !.header = image.header] /\ UNCHANGED index /\ Fails(n)

\* writeDenseAttribute of a name that the B-tree does not find.
InsertDense(n, v) ==
    /\ Loadable /\ ~ HasKey(Records, n) /\ ~ IsFull(Records)
    /\ \E put \in InsertObject(LoadHeap(heap), Message(n, v)) :
          WriteBack(put.heap, InsertRecord(Records, n, put.id), n)
    /\ Acknowledge(n, v)
    /\ UNCHANGED <<new, collided>>

\* ModifyDenseAttribute overwrites a message of the same size; otherwise the
\* old one is deleted, the new one inserted and the record updated.
ModifyDense(n, v) ==
    /\ Loadable /\ HasKey(Records, n)
    /\ LET h == LoadHeap(heap)
           id == Records[SearchRecord(Records, n)].id
           old == GetObject(h, id)
       IN  /\ old # <<>>
           /\ IF Len(old) = v[1]
              THEN WriteBack(OverwriteObject(h, id, Message(n, v)), Records, n)
              ELSE \E put \in InsertObject(DeleteObject(h, id), Message(n, v)) :
                      WriteBack(put.heap, UpdateRecord(Records, n, put.id), n)
    /\ Acknowledge(n, v)
    /\ collided' = (collided \/ Collides(n))
    /\ UNCHANGED new

\* DeleteDenseAttribute
DeleteDense(n) ==
    /\ Loadable /\ HasKey(Records, n)
    /\ LET h == LoadHeap(heap)
           id == Records[SearchRecord(Records, n)].id
       IN  /\ InDirectBlock(h, id)
           /\ WriteBack(DeleteObject(h, id), DeleteRecord(Records, n), n)
    /\ Forget(n)
    /\ collided' = (collided \/ Collides(n))
    /\ UNCHANGED new

Next == \/ NewStore \/ WriteNew
        \/ \E n \in Names, v \in Values :
              Add(n, v) \/ AddFails(n, v) \/ InsertDense(n, v) \/ ModifyDense(n, v)
        \/ \E n \in Names : DeleteDense(n)

Spec == Init /\ [][Next]_vars

-----------------------------------------------------------------------------
(* Properties *)

IsHeapID(id) == id.offset \in 0 .. OffsetLimit - 1 /\ id.length \in 1 .. MaxObject

\* Types; the area of a heap in the file has the size of its block.
TypeOK ==
    /\ heap = NoStore \/ /\ {heap.header.rows, heap.header.iter, heap.header.managed} \subseteq Nat
                         /\ {heap.header.space, heap.header.count} \subseteq Int
                         /\ Len(heap.area) = DataSize
    /\ index.count \in 0 .. Len(index.slots) /\ index.sum \in 0 .. Len(index.slots)
    /\ Len(index.slots) <= MaxRecords
    /\ \A i \in DOMAIN index.slots : IsHeapID(index.slots[i].id)
    /\ DOMAIN attrs \subseteq Names /\ Range(attrs) \subseteq Values
    /\ collided \in BOOLEAN /\ failed \subseteq Names
    /\ new = NoStore \/ \A i \in DOMAIN new.records : IsHeapID(new.records[i].id)

\* ReadDenseHeapObjects: the objects that the records lead to.
ObjectsRead == {ReadHeapObject(heap, id) : id \in Range(ReadLeafRecords(index))}

\* ParseAttributeMessage: an object that was deleted, all zeros, has a datatype
\* of no bytes and is refused.
Parses(data) == \E n \in Names, v \in Values : data = Message(n, v)

\* readDenseAttributes: all objects, or an error, and none, when one of them
\* does not parse.
MessagesRead == IF \A data \in ObjectsRead : Parses(data) THEN ObjectsRead ELSE {}

Written(n) == Message(n, attrs[n])

\* The store is in the file and no name was given that collides with another.
Settled == new = NoStore /\ heap # NoStore /\ ~ collided

\* A heap that its block really holds: the block's header and checksum come
\* out of its size, which InsertObject does not know.
Fits == heap.header.iter <= Capacity

\* A reader finds exactly the attributes that were written and not deleted,
\* with their last values, and so do the two other ways to read an object
\* (FractalHeap.ReadObject, and GetObject of a loaded heap): over insertion,
\* overwriting in place, replacement by a message of another size and
\* deletion, each of which loads, changes and writes back both structures.
DenseReadsBack ==
    (Settled /\ Fits /\ failed = {}) =>
        /\ MessagesRead = {Written(n) : n \in DOMAIN attrs}
        /\ index.count = Cardinality(DOMAIN attrs)
        /\ \A id \in Range(ReadLeafRecords(index)) :
              LET data == ReadHeapObject(heap, id)
              IN  /\ ReadObject(heap, id) = data
                  /\ GetObject(LoadHeap(heap), id) = data

\* A write that fails halfway damages only the attribute that was being
\* written: the records still lead to the object of every other one, and those
\* that lead to an object that does not parse have the hash of a name that a
\* write failed for.  The exception is a leaf that was written with a record
\* more than its header counts: its last record, of whatever attribute, is not
\* read, but none besides it.  This is about what the file still holds; what
\* readDenseAttributes returns is nothing as soon as one object does not parse.
DamageIsLocal ==
    (Settled /\ Fits) =>
        LET lost == {n \in DOMAIN attrs \ failed : Written(n) \notin ObjectsRead}
        IN  /\ Cardinality(lost) <= (IF index.sum > index.count THEN 1 ELSE 0)
            /\ \A i \in 1 .. index.sum :
                  \/ Parses(ReadHeapObject(heap, index.slots[i].id))
                  \/ \E n \in failed : index.slots[i].hash = Hash[n]

\* The objects that the index refers to do not share a byte, and all of them
\* lie before the position of the next insertion.
ObjectsDisjoint ==
    (Settled /\ Fits) =>
        LET ids == {index.slots[i].id : i \in 1 .. index.sum}
        IN  /\ Cardinality(ids) = index.sum
            /\ \A x \in ids :
                  /\ x.offset + x.length <= heap.header.iter
                  /\ \A y \in ids \ {x} : \/ x.offset + x.length <= y.offset
                                          \/ y.offset + y.length <= x.offset

TotalLength(ids) ==
    LET upTo[i \in 0 .. Len(ids)] == IF i = 0 THEN 0 ELSE upTo[i - 1] + ids[i].length
    IN  upTo[Len(ids)]

\* The statistics in the heap's header: one object for each record, and the
\* free space is what the live objects leave of the managed space.  Each
\* operation adjusts them by hand.
HeapAccounts ==
    (Settled /\ failed = {}) =>
        /\ heap.header.count = index.count
        /\ heap.header.managed - heap.header.space
               = TotalLength(ReadLeafRecords(index))

\* Records are in the order of their hashes, which other readers of the file
\* search by, whenever the leaf can be loaded.
IndexSorted ==
    \A i, j \in 1 .. index.sum : i < j => index.slots[i].hash <= index.slots[j].hash
=============================================================================
