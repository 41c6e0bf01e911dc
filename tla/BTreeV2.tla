------------------------------- MODULE BTreeV2 -------------------------------
(***************************************************************************)
(* The version 2 B-tree of internal/structures/btreev2_write.go and         *)
(* btreev2_rebalance.go: one leaf of records, a name's hash with the heap   *)
(* ID of its object, in the order of the hashes.  Names themselves are not  *)
(* in the index.                                                            *)
(***************************************************************************)
EXTENDS Integers, SequencesExt, Functions

CONSTANTS Names,        \* names of links or attributes
          Hash,         \* jenkinsHash
          MaxRecords    \* calculateMaxRecords

ASSUME BTreeAssumption == /\ Hash \in [Names -> Nat]
                          /\ MaxRecords \in Nat

Record(n, id) == [hash |-> Hash[n], id |-> id]

\* The index of the first record with the hash of a name, 0 for none.
SearchRecord(records, n) ==
    LET found == {i \in DOMAIN records : records[i].hash = Hash[n]}
    IN  IF found = {} THEN 0 ELSE CHOOSE i \in found : \A j \in found : i <= j

HasKey(records, n) == SearchRecord(records, n) # 0

\* Mutant: a record is added at the end.
InsertRecordLast(records, r) == Append(records, r)

\* insertRecordSorted: before the first record whose hash is not smaller.
InsertRecordSorted(records, r) ==
    LET later == {i \in DOMAIN records : records[i].hash >= r.hash}
    IN  IF later = {} THEN Append(records, r)
        ELSE InsertAt(records, CHOOSE i \in later : \A j \in later : i <= j, r)

\* InsertRecord fails when the leaf is full.
IsFull(records) == Len(records) >= MaxRecords
InsertRecord(records, n, id) == InsertRecordSorted(records, Record(n, id))

\* UpdateRecord
UpdateRecord(records, n, id) ==
    [records EXCEPT ![SearchRecord(records, n)].id = id]

\* DeleteRecord, DeleteRecordWithRebalancing
DeleteRecord(records, n) == RemoveAt(records, SearchRecord(records, n))

-----------------------------------------------------------------------------
(* The B-tree in the file: the number of records in its header; the leaf's *)
(* slots; and the number of records that the leaf's checksum follows.      *)

EmptyIndex == [count |-> 0, slots |-> <<>>, sum |-> 0]

\* encodeLeafNode: the records and the checksum, not the rest of the node.
\* The checksum overwrites the hash of the record that was there before.
WriteLeaf(index, records) ==
    LET left == SubSeq(index.slots, Len(records) + 1, Len(index.slots))
    IN  [index EXCEPT !.slots = records \o (IF left = <<>> THEN <<>>
                                            ELSE [left EXCEPT ![1].hash = -1]),
                      !.sum = Len(records)]

\* encodeHeader
WriteHeader(index, records) == [index EXCEPT !.count = Len(records)]

\* WriteToFile
WriteIndex(index, records) == WriteHeader(WriteLeaf(index, records), records)

\* readBTreeV2LeafNode, for the number of records in the header.
ReadLeaf(index) == SubSeq(index.slots, 1, index.count)
LeafValid(index) == index.sum = index.count

\* LoadFromFile does not look at the leaf of an empty tree.
CanLoadIndex(index) == index.count = 0 \/ LeafValid(index)

\* core.readBTreeV2LeafRecords: heap IDs, with no check of the checksum.
ReadLeafRecords(index) == [i \in 1 .. index.count |-> index.slots[i].id]
=============================================================================
