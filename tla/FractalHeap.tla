----------------------------- MODULE FractalHeap -----------------------------
(***************************************************************************)
(* A fractal heap, internal/structures/fractalheap_write.go and its readers *)
(* in fractalheap.go and internal/core/attribute.go: the operations on the *)
(* heap in memory, the image of it that is written, and what each reader   *)
(* finds in that image.  An object is a sequence of bytes, a byte an        *)
(* opaque tuple; offsets count from zero as in the code.                   *)
(***************************************************************************)
EXTENDS Integers, SequencesExt, Functions

CONSTANTS BlockSize,    \* size of a direct block, its header included
          BlockHeader,  \* signature, version, heap address and block offset
          Checksum,     \* size of the checksum at the end of a block
          OffsetLimit,  \* 2^16: offsets in a heap ID have two bytes
          MaxObject,    \* MaxManagedObjectSize
          TableWidth    \* entries of the root indirect block

ASSUME HeapAssumption ==
    /\ {BlockSize, BlockHeader, Checksum, MaxObject, TableWidth} \subseteq Nat
    /\ OffsetLimit \in Nat \ {0}
    /\ BlockHeader + Checksum < BlockSize

-----------------------------------------------------------------------------
(* The heap in memory *)

Zero == <<>>            \* a byte that nothing was written to
Sum == <<"checksum">>   \* a byte of a checksum
Behind == <<"behind">>  \* a byte behind the block

EmptyBlock == [objects |-> <<>>, free |-> 0]

\* NewWritableFractalHeap
NewHeap == [rows |-> 0, iter |-> 0, managed |-> BlockSize, space |-> BlockSize,
            count |-> 0, blocks |-> [at \in {0} |-> EmptyBlock]]

\* Mutant: offsets are kept in full.
EncodeAllOffset(offset, length) == [offset |-> offset, length |-> length]

\* encodeHeapID.  The ID's seven bytes in the B-tree hold all of it.
EncodeHeapID(offset, length) == [offset |-> offset % OffsetLimit, length |-> length]

\* Mutant: bytes are appended, though the slice of a loaded heap is full.
AppendTo(objects, offset, data) == objects \o data

\* Bytes copied to an offset of a slice that is extended when it is too short.
CopyTo(objects, offset, data) ==
    [i \in 1 .. (IF offset + Len(data) > Len(objects) THEN offset + Len(data)
                                                      ELSE Len(objects)) |->
        IF i \in offset + 1 .. offset + Len(data) THEN data[i - offset]
        ELSE IF i <= Len(objects) THEN objects[i] ELSE Zero]

HasRoom(block, data) == block.free + Len(data) <= BlockSize

\* The heap with an object in the block at an offset, and the object's ID.
PutObject(h, at, data) ==
    LET block == h.blocks[at]
    IN  [heap |-> [h EXCEPT !.iter = @ + Len(data),
                            !.count = @ + 1,
                            !.space = @ - Len(data),
                            !.blocks[at] = [objects |-> CopyTo(block.objects, block.free, data),
                                            free |-> block.free + Len(data)]],
         id |-> EncodeHeapID(at + block.free, Len(data))]

\* needsTransition
NeedsTransition(h, data) == h.rows = 0 /\ ~ HasRoom(h.blocks[0], data)

\* transitionToIndirectRoot: one row, whose first child is the direct block.
ToIndirectRoot(h) == [h EXCEPT !.rows = 1]

\* A new child block, at the end of the heap's address space.
WithChild(h) ==
    [h EXCEPT !.managed = @ + BlockSize,
              !.space = @ + BlockSize,
              !.blocks = [at \in DOMAIN h.blocks \cup {h.managed} |->
                             IF at = h.managed THEN EmptyBlock ELSE h.blocks[at]]]

\* insertViaIndirect: any block with room, as a map is searched, or a new one
\* if the root has an entry left.  A set of results, empty for an error.
InsertViaIndirect(h, data) ==
    LET fitting == {at \in DOMAIN h.blocks : HasRoom(h.blocks[at], data)}
    IN  IF fitting # {} THEN {PutObject(h, at, data) : at \in fitting}
        ELSE IF Cardinality(DOMAIN h.blocks) < TableWidth
             THEN {PutObject(WithChild(h), h.managed, data)}
             ELSE {}

\* InsertObject, with insertViaDirect.
InsertObject(h, data) ==
    IF data = <<>> \/ Len(data) > MaxObject THEN {}
    ELSE IF NeedsTransition(h, data) THEN InsertViaIndirect(ToIndirectRoot(h), data)
    ELSE IF h.rows # 0 THEN InsertViaIndirect(h, data)
    ELSE {PutObject(h, 0, data)}

\* An ID that OverwriteObject and DeleteObject accept: both look at the direct
\* block only.
InDirectBlock(h, id) == /\ id.offset < Len(h.blocks[0].objects)
                        /\ id.offset + id.length <= Len(h.blocks[0].objects)

\* OverwriteObject, for data of the size of the object.
OverwriteObject(h, id, data) ==
    [h EXCEPT !.blocks[0].objects = CopyTo(@, id.offset, data)]

\* Mutant: the space of the object is given to the next one.
ReclaimObject(h, id) ==
    [h EXCEPT !.blocks[0].objects = CopyTo(@, id.offset, [i \in 1 .. id.length |-> Zero]),
              !.blocks[0].free = @ - id.length,
              !.iter = @ - id.length,
              !.count = @ - 1, !.space = @ + id.length]

\* Mutant: the object still counts.
KeepCount(h, id) ==
    [h EXCEPT !.blocks[0].objects = CopyTo(@, id.offset, [i \in 1 .. id.length |-> Zero]),
              !.space = @ + id.length]

\* DeleteObject zeroes the object; its space is not used again.
DeleteObject(h, id) ==
    [h EXCEPT !.blocks[0].objects = CopyTo(@, id.offset, [i \in 1 .. id.length |-> Zero]),
              !.count = @ - 1, !.space = @ + id.length]

\* GetObject, with getObjectFromDirect and getObjectFromIndirect: the bytes
\* from the block that the offset is in, empty for an error.
GetObject(h, id) ==
    LET within(at) == /\ id.offset - at \in 0 .. Len(h.blocks[at].objects) - 1
                      /\ id.offset - at + id.length <= Len(h.blocks[at].objects)
        holding == {at \in DOMAIN h.blocks : within(at)}
    IN  IF holding = {} THEN <<>>
        ELSE LET at == CHOOSE at \in holding : TRUE
             IN  SubSeq(h.blocks[at].objects, id.offset - at + 1,
                        id.offset - at + id.length)

-----------------------------------------------------------------------------
(* The heap in the file *)

DataSize == BlockSize - BlockHeader

\* Room for objects in a block that is written.
Capacity == DataSize - Checksum

\* writeHeaderAt
HeaderImage(h) == [rows |-> h.rows, iter |-> h.iter, managed |-> h.managed,
                   space |-> h.space, count |-> h.count]

\* writeDirectBlockAt: what follows the header of the block of offset 0.
BlockImage(h) ==
    LET objects == h.blocks[0].objects
    IN  [i \in 1 .. DataSize |-> IF i > Capacity THEN Sum
                                 ELSE IF i <= Len(objects) THEN objects[i] ELSE Zero]

\* WriteToFile, WriteAt: the direct block is the root whatever the number of
\* rows.
HeapImage(h) == [header |-> HeaderImage(h), area |-> BlockImage(h)]

\* readDirectBlockFromFile
BlockData(image) == SubSeq(image.area, 1, Capacity)

\* OpenFractalHeap reads the header, and no block.
OpenFractalHeap(image) == image.header

\* LoadFromFile, which refuses indirect blocks.
CanLoad(image) == OpenFractalHeap(image).rows = 0
LoadHeap(image) ==
    LET header == OpenFractalHeap(image)
    IN  [rows |-> header.rows, iter |-> header.iter, managed |-> header.managed,
         space |-> header.space, count |-> header.count,
         blocks |-> [at \in {0} |-> [objects |-> BlockData(image), free |-> header.iter]]]

\* FractalHeap.ReadObject with readManagedObject: inside the block and with
\* a direct block as the root, or an error (empty).
ReadObject(image, id) ==
    IF OpenFractalHeap(image).rows = 0 /\ id.offset + id.length <= DataSize
    THEN SubSeq(image.area, id.offset + 1, id.offset + id.length)
    ELSE <<>>

\* core.readHeapObject, what attributes and dense groups are read with: it
\* looks at neither the rows nor the size of the block.
ReadHeapObject(image, id) ==
    [i \in 1 .. id.length |->
        IF id.offset + i <= DataSize THEN image.area[id.offset + i] ELSE Behind]
=============================================================================
