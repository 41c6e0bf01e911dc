----------------------------- MODULE ChunkIndex -----------------------------
(***************************************************************************)
(* How a chunked dataset is cut into chunks (ChunkCoordinator), the version *)
(* 1 B-tree that finds them in the file (ChunkBTreeWriter and, on the       *)
(* reading side, BTreeV1Node), and the whole-dataset reader.  The file is a *)
(* sequence of blocks, chunks and nodes, and a block's address is its       *)
(* position: allocating is appending.  Coordinates and offsets start at 0   *)
(* and are given first dimension first; arrays are in row-major order.      *)
(***************************************************************************)
EXTENDS Integers, Sequences, SequencesExt

CONSTANTS MaxPerNode,  \* 2 * chunkBTreeK
          Zero,        \* what a buffer holds before it is filled
          Failed       \* a reader's error

ASSUME ChunkAssumption == MaxPerNode \in Nat \ {0, 1}

\* calculateTotalElements, GetTotalChunks
RECURSIVE Product(_)
Product(d) == IF d = <<>> THEN 1 ELSE Head(d) * Product(Tail(d))

\* calculateLinearOffset: the place of coordinate c in an array of dimensions d.
RECURSIVE Offset(_, _)
Offset(c, d) == IF d = <<>> THEN 0
                ELSE Head(c) * Product(Tail(d)) + Offset(Tail(c), Tail(d))

\* GetChunkCoordinate: the coordinate at a place, the inverse of Offset.
Coordinate(place, d) ==
    [i \in DOMAIN d |-> (place \div Product(SubSeq(d, i + 1, Len(d)))) % d[i]]
Coordinates(d) == [k \in 1 .. Product(d) |-> Coordinate(k - 1, d)]

\* compareChunkCoords, compareCoords
Before(a, b) ==
    \E i \in DOMAIN a : a[i] < b[i] /\ \A j \in 1 .. i - 1 : a[j] = b[j]

-----------------------------------------------------------------------------
(* ChunkCoordinator *)


NumChunks(dims, chunk) ==
    [i \in DOMAIN dims |-> (dims[i] + chunk[i] - 1) \div chunk[i]]

ChunkStart(coord, chunk) == [i \in DOMAIN coord |-> coord[i] * chunk[i]]

\* Clipped at the edge of the dataset.
GetChunkSize(dims, chunk, coord) ==
    [i \in DOMAIN coord |->
        IF (coord[i] + 1) * chunk[i] > dims[i] THEN dims[i] - coord[i] * chunk[i]
                                               ELSE chunk[i]]

\* The elements of a chunk, stored with the strides of its clipped size.
ExtractChunkData(data, dims, chunk, coord) ==
    LET size == GetChunkSize(dims, chunk, coord)
        start == ChunkStart(coord, chunk)
    IN  [k \in 1 .. Product(size) |->
           LET rel == Coordinate(k - 1, size)
           IN  data[Offset([i \in DOMAIN dims |-> start[i] + rel[i]], dims) + 1]]

-----------------------------------------------------------------------------
(* ChunkBTreeWriter *)

AddChunkWithSize(coord, address, nbytes) ==
    [coord |-> coord, addr |-> address, nbytes |-> nbytes]

\* A key as serializeChunkBTreeNode writes it: the coordinate in elements, and
\* a last dimension, that of the bytes of an element, which is always 0.
Key(coord, nbytes, chunk) ==
    [offset |-> Append(ChunkStart(coord, chunk), 0), nbytes |-> nbytes]

Groups(s) == [g \in 1 .. (Len(s) + MaxPerNode - 1) \div MaxPerNode |->
                SubSeq(s, (g - 1) * MaxPerNode + 1,
                       IF g * MaxPerNode < Len(s) THEN g * MaxPerNode ELSE Len(s))]

\* buildLeafNode: the chunks, and one key behind the last of them.
LeafNode(entries, chunk) ==
    [level |-> 0,
     keys |-> Append([i \in DOMAIN entries |->
                        Key(entries[i].coord, entries[i].nbytes, chunk)],
                     Key([i \in DOMAIN chunk |-> Last(entries).coord[i] + 1], 0, chunk)),
     children |-> [i \in DOMAIN entries |-> entries[i].addr]]

\* writeInternalLevel: the first key of every child, the last key of the last one.
InternalNode(children, level) ==
    [level |-> level,
     keys |-> Append([i \in DOMAIN children |-> children[i].first], Last(children).last),
     children |-> [i \in DOMAIN children |-> children[i].addr]]

\* internalChild of the nodes of the file that come after a place.
Children(file, place) ==
    [g \in 1 .. Len(file) - place |->
       [addr |-> place + g, first |-> Head(file[place + g].keys),
        last |-> Last(file[place + g].keys)]]

\* buildMultiLevelTree, above the leaves: levels until one node is left.  The
\* level below is what comes after a place in the file.
RECURSIVE BuildLevels(_, _, _)
BuildLevels(file, place, level) ==
    LET groups == Groups(Children(file, place))
    IN  IF Len(file) = place + 1
        THEN [file |-> file, root |-> Len(file)]
        ELSE BuildLevels(file \o [g \in DOMAIN groups |-> InternalNode(groups[g], level)],
                         Len(file), level + 1)

\* WriteToFile: sorted entries in one leaf, or in several under internal nodes.
WriteTree(file, entries, chunk) ==
    LET groups == Groups(SortSeq(entries, LAMBDA a, b : Before(a.coord, b.coord)))
    IN  BuildLevels(file \o [g \in DOMAIN groups |-> LeafNode(groups[g], chunk)],
                    Len(file), 1)

-----------------------------------------------------------------------------
(* BTreeV1Node and the whole-dataset reader *)

\* The signature is found at the address of a node only.
IsNode(file, address) == address \in DOMAIN file /\ "level" \in DOMAIN file[address]

\* ParseBTreeV1Node of a key: offsets back to chunk coordinates.
Scaled(key, chunk) == [i \in DOMAIN chunk |-> key.offset[i] \div chunk[i]]

RECURSIVE CollectAllChunks(_, _, _)
CollectAllChunks(file, address, chunk) ==
    LET node == file[address]
    IN  IF node.level = 0
        THEN [i \in DOMAIN node.children |->
                [coord |-> Scaled(node.keys[i], chunk), addr |-> node.children[i],
                 nbytes |-> node.keys[i].nbytes]]
        ELSE FlattenSeq([i \in DOMAIN node.children |->
                           CollectAllChunks(file, node.children[i], chunk)])

\* readChunkedData reads as many bytes of a chunk as its key says.
ChunkBytes(file, entry) == SubSeq(file[entry.addr].data, 1, entry.nbytes)

\* copyNDChunk: how much of a chunk is inside the dataset.  A chunk that
\* starts behind the edge gets a wrapped, huge number instead, Beyond.
Beyond(dims, chunk, coord) == \E i \in DOMAIN dims : coord[i] * chunk[i] > dims[i]
NoRows(dims, chunk, coord) ==
    \E i \in 1 .. Len(dims) - 1 : /\ coord[i] * chunk[i] = dims[i]
                                 /\ \A j \in 1 .. i - 1 : coord[j] * chunk[j] <= dims[j]

\* copyNDChunkRecursive: a row of a chunk lies at its offset in a chunk of full
\* size, and an error ends the read when the stored chunk ends before the row.
RowsFit(bytes, dims, chunk, coord) ==
    LET size == GetChunkSize(dims, chunk, coord)
    IN  \A k \in 1 .. Product(size) :
           Coordinate(k - 1, size)[Len(dims)] = size[Len(dims)] - 1
              => Offset(Coordinate(k - 1, size), chunk) < Len(bytes)

\* copyChunkToArray of a chunk ends the read with an error.
Refused(file, dims, chunk, entry) ==
    /\ ~ NoRows(dims, chunk, entry.coord)
    /\ \/ Beyond(dims, chunk, entry.coord)
       \/ ~ RowsFit(ChunkBytes(file, entry), dims, chunk, entry.coord)

\* The element of a chunk at a coordinate of the dataset.
CopiedFrom(file, chunk, entry, c) ==
    ChunkBytes(file, entry)[
        Offset([i \in DOMAIN c |-> c[i] - entry.coord[i] * chunk[i]], chunk) + 1]

\* ReadDatasetFloat64, which looks for no chunk when there is no element, and
\* readChunkedData; without a tree there is no signature at the address.
ReadChunkedData(file, address, dims, chunk) ==
    LET entries == ToSet(CollectAllChunks(file, address, chunk))
        holding(c) == {e \in entries : \A i \in DOMAIN c : e.coord[i] = c[i] \div chunk[i]}
        element(c) == IF holding(c) = {} THEN Zero
                      ELSE CopiedFrom(file, chunk, CHOOSE e \in holding(c) : TRUE, c)
    IN  IF Product(dims) = 0
        THEN <<>>
        ELSE IF ~ IsNode(file, address) \/ \E e \in entries : Refused(file, dims, chunk, e)
        THEN Failed
        ELSE [k \in 1 .. Product(dims) |-> element(Coordinate(k - 1, dims))]
=============================================================================
