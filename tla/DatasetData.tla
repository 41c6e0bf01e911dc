---------------------------- MODULE DatasetData -----------------------------
(***************************************************************************)
(* The data of one dataset from creation to reading and deletion: Write and *)
(* Resize of a DatasetWriter (dataset_write.go, dataset_write_chunked.go),  *)
(* the readers of a closed file, the chunk iterator, and the space that a   *)
(* deletion frees.  Datasets that another library wrote are only read.      *)
(***************************************************************************)
EXTENDS Hyperslab

CONSTANTS Shapes,       \* layout, dimensions, chunk dimensions, dimensions for Resize
          MaxWrites,    \* bound: calls of Write that get as far as the B-tree
          MaxFailures,  \* bound: calls of Write that fail
          HeaderSizes,  \* what WriteAttribute can make of the header's size
          Word,         \* 2^32, what a word of a B-tree key holds; larger than an address
          MaxStride,    \* bound: strides of the selections
          MaxBlock,     \* bound: blocks of the selections
          None          \* no dataset, no handle, no output, ...

ASSUME DataAssumption ==
    /\ MaxWrites \in Nat /\ MaxFailures \in Nat /\ Word \in Nat \ {0}
    /\ HeaderSizes \subseteq {"short", "long", "wide"}
    /\ \A s \in Shapes : Len(s.chunk) = Len(s.dims) /\ s.chunk[1] > 0

VARIABLES shape,     \* the dataset
          file,      \* the blocks of the file
          header,    \* its object header in the file
          handle,    \* the DatasetWriter
          failures,  \* how many calls of Write failed
          iter,      \* the chunk iterator
          out,       \* what was read last
          freed,     \* the blocks that the deletion frees, with their sizes
          writes     \* history: address, dimensions and data of every Write, and
                     \* the dimensions that no Resize has cut off since

vars == <<shape, file, header, handle, failures, iter, out, freed, writes>>

Chunked == shape.layout = "chunked"
Closed == shape # None /\ handle = None /\ freed = None

\* What the n-th Write writes: elements that no other Write writes.
Buffer(n, dims) == [k \in 1 .. Product(dims) |-> <<n, k>>]

Init == /\ shape = None /\ file = <<>> /\ header = None /\ handle = None
        /\ failures = 0 /\ iter = None /\ out = None /\ freed = None /\ writes = <<>>

-----------------------------------------------------------------------------
(* Creation *)

\* The header in the file: the extent, the address of the B-tree or of the
\* data, its size against its allocation, and if its checksum and the bytes of
\* its attributes are right.
NewHeader(dims, address) ==
    [dims |-> dims, address |-> address, size |-> "alloc", sum |-> TRUE, attrs |-> TRUE]
NewHandle(dims) == [dims |-> dims, cached |-> None]

\* createChunkedDataset: no B-tree before the first Write.
CreateChunked(s) ==
    /\ shape = None /\ s.layout = "chunked"
    /\ \A i \in DOMAIN s.dims : s.chunk[i] # 0 /\ s.chunk[i] <= s.dims[i]
    /\ shape' = s
    /\ header' = NewHeader(s.dims, 0)
    /\ handle' = NewHandle(s.dims)
    /\ UNCHANGED <<file, failures, iter, out, freed, writes>>

\* CreateDataset without chunk dimensions: the data is allocated at once.
CreateContiguous(s) ==
    /\ shape = None /\ s.layout = "contiguous"
    /\ shape' = s
    /\ file' = <<[data |-> [k \in 1 .. Product(s.dims) |-> Zero]]>>
    /\ header' = NewHeader(s.dims, 1)
    /\ handle' = NewHandle(s.dims)
    /\ UNCHANGED <<failures, iter, out, freed, writes>>

\* Another library's chunk has its full size, padded at the edges.
PaddedChunk(data, dims, chunk, coord) ==
    [k \in 1 .. Product(chunk) |->
       LET rel == Coordinate(k - 1, chunk)
           c == [i \in DOMAIN dims |-> coord[i] * chunk[i] + rel[i]]
       IN  IF \A i \in DOMAIN dims : c[i] < dims[i] THEN data[Offset(c, dims) + 1] ELSE Zero]

\* A file of another library: compact data, or chunks of which some were
\* never written, which is data that is zero.
Foreign(s, coords) ==
    LET dims == s.dims
        present == {k \in DOMAIN coords : coords[k] # None}
        order == SetToSortSeq(present, <)
        data == [k \in 1 .. Product(dims) |->
                   LET c == Coordinate(k - 1, dims)
                   IN  IF s.layout = "compact"
                          \/ \E j \in present : \A i \in DOMAIN dims :
                                c[i] \div s.chunk[i] = coords[j][i]
                       THEN <<1, k>> ELSE Zero]
        blocks == [j \in DOMAIN order |->
                     [data |-> PaddedChunk(data, dims, s.chunk, coords[order[j]])]]
        entries == [j \in DOMAIN order |->
                      [coord |-> coords[order[j]], addr |-> j, nbytes |-> Product(s.chunk)]]
        tree == IF s.layout = "compact" THEN [file |-> <<[data |-> data]>>, root |-> 1]
                                        ELSE WriteTree(blocks, entries, s.chunk)
    IN  /\ shape = None
        /\ shape' = s
        /\ file' = tree.file
        /\ header' = NewHeader(dims, tree.root)
        /\ writes' = <<[address |-> tree.root, dims |-> dims, data |-> data,
                        clipped |-> FALSE, kept |-> dims]>>
        /\ UNCHANGED <<handle, failures, iter, out, freed>>

OpenForeign(s) ==
    /\ s.layout \in {"foreign", "compact"}
    /\ LET all == Coordinates(NumChunks(s.dims, s.chunk))
       IN  \E gone \in {{}} \cup {{k} : k \in DOMAIN all} :
              /\ gone # DOMAIN all /\ (s.layout = "compact" => gone = {})
              /\ Foreign(s, [k \in DOMAIN all |-> IF k \in gone THEN None ELSE all[k]])

-----------------------------------------------------------------------------
(* Write, Resize, WriteAttribute *)

\* The chunks of a buffer as blocks of the file, and their entries.
ChunkBlocks(data) ==
    LET all == Coordinates(NumChunks(handle.dims, shape.chunk))
    IN  [k \in DOMAIN all |->
           [data |-> ExtractChunkData(data, handle.dims, shape.chunk, all[k])]]
ChunkEntries(blocks) ==
    LET all == Coordinates(NumChunks(handle.dims, shape.chunk))
    IN  [k \in DOMAIN all |->
           AddChunkWithSize(all[k], Len(file) + k, Len(blocks[k].data))]

\* The address goes to a fixed place of the header; a header of more than 255
\* bytes has a longer length field, and everything behind it is one byte on.
PatchAddress(h, address) ==
    [h EXCEPT !.address = IF h.size = "wide" THEN None ELSE address, !.sum = FALSE]

\* The checksum goes to the end of the size the header was created with: into
\* the unused space behind a shorter one, into the attributes of a longer one.
PatchChecksum(h) ==
    [h EXCEPT !.sum = h.size = "alloc",
              !.attrs = h.attrs /\ h.size \notin {"long", "wide"}]

NewData == Buffer(Len(writes) + 1, handle.dims)
Written(address) ==
    writes' = Append(writes, [address |-> address, dims |-> handle.dims,
                              data |-> NewData, clipped |-> TRUE, kept |-> handle.dims])

\* The file with the chunks of the new data and their B-tree behind the old ones.
NewTree == LET blocks == ChunkBlocks(NewData)
           IN  WriteTree(file \o blocks, ChunkEntries(blocks), shape.chunk)

\* A Write of no elements panics at the first chunk of the extent that was
\* there before the refused Resize, and has written nothing.
NoElements(dims) == \E i \in DOMAIN dims : dims[i] = 0
CanWrite == handle # None /\ ~ NoElements(handle.dims) /\ Len(writes) < MaxWrites
Fails == failures < MaxFailures /\ failures' = failures + 1

\* writeChunkedData: new chunks, a new B-tree, and the header at last.
WriteChunked ==
    LET tree == NewTree
    IN  /\ CanWrite /\ Chunked
        /\ file' = tree.file
        /\ header' = PatchChecksum(PatchAddress(header, tree.root))
        /\ Written(tree.root)
        /\ UNCHANGED <<shape, handle, failures, iter, out, freed>>

\* An error of the allocator or the file after some of the chunks and nodes.
WriteChunkedFails ==
    LET tree == NewTree
    IN  /\ CanWrite /\ Chunked /\ Fails
        /\ \E done \in Len(file) .. Len(tree.file) : file' = SubSeq(tree.file, 1, done)
        /\ UNCHANGED <<shape, header, handle, iter, out, freed, writes>>

\* An error when the header is read for its checksum, or when that is written.
WriteUnsealed ==
    LET tree == NewTree
    IN  /\ CanWrite /\ Chunked /\ Fails
        /\ file' = tree.file
        /\ header' = PatchAddress(header, tree.root)
        /\ Written(tree.root)
        /\ UNCHANGED <<shape, handle, iter, out, freed>>

\* Write of a contiguous dataset, in place.
WriteContiguous ==
    /\ CanWrite /\ ~ Chunked
    /\ file' = [file EXCEPT ![header.address].data = NewData]
    /\ Written(header.address)
    /\ UNCHANGED <<shape, header, handle, failures, iter, out, freed>>

\* The header is read once and kept: a later Resize writes the kept one back.
\* Chunks stay as they are.  An extent without elements is refused, but only
\* when the header is written and the handle changed: all that is missing then
\* is the new ChunkCoordinator.
Resize(dims) ==
    LET kept == IF handle.cached = None THEN header ELSE handle.cached
        new == [kept EXCEPT !.dims = dims, !.sum = TRUE]
    IN  /\ handle # None /\ Chunked /\ dims \in shape.sizes
        /\ header' = new
        /\ handle' = [dims |-> dims, cached |-> new]
        /\ writes' = [n \in DOMAIN writes |->
                        [writes[n] EXCEPT !.kept = [i \in DOMAIN dims |-> Min({@[i], dims[i]})]]]
        /\ UNCHANGED <<shape, file, failures, iter, out, freed>>

\* WriteAttribute reads the header anew, drops its padding and writes it back
\* with a right checksum: it gets shorter or longer than it was created.  What
\* was spoilt of an attribute stays so unless it is the one that is replaced.
WriteAttribute(size) ==
    /\ handle # None /\ Chunked /\ size # header.size
    /\ \E attrs \in {header.attrs, TRUE} :
          header' = [header EXCEPT !.size = size, !.sum = TRUE, !.attrs = attrs]
    /\ UNCHANGED <<shape, file, handle, failures, iter, out, freed, writes>>

Close == /\ handle # None /\ handle' = None
         /\ UNCHANGED <<shape, file, header, failures, iter, out, freed, writes>>

-----------------------------------------------------------------------------
(* Reading the closed file *)

\* dispatchHyperslabReader, after the size of the output
ReadSelection(sel) ==
    CASE OutputSize(sel) = 0 -> <<>>
      [] OutputSize(sel) # 0 /\ shape.layout = "compact" ->
            ExtractHyperslab(sel, header.dims, file[header.address].data)
      [] OutputSize(sel) # 0 /\ shape.layout = "contiguous" ->
            ReadHyperslabContiguous(sel, header.dims, file[header.address].data)
      [] OTHER -> ReadHyperslabChunked(sel, header.dims, shape.chunk, file, header.address)

Output(sel) == out' = [sel |-> sel, data |-> ReadSelection(sel)]

\* Refused selections change nothing, and nothing depends on what was read before.
ReadHyperslab(sel) ==
    /\ Closed /\ iter = None /\ out = None
    /\ ValidSelection(sel, header.dims)
    /\ Output(FillHyperslabDefaults(sel, header.dims))
    /\ UNCHANGED <<shape, file, header, handle, failures, iter, freed, writes>>

Slice(start, count) == [start |-> start, count |-> count, stride |-> Nil, block |-> Nil]

ReadSlice(sel) ==
    /\ Closed /\ iter = None /\ out = None
    /\ ValidSlice(sel, header.dims)
    /\ Output(FillHyperslabDefaults(sel, header.dims))
    /\ UNCHANGED <<shape, file, header, handle, failures, iter, freed, writes>>

\* ChunkIteratorWithContext, collectChunkCoordinates
ChunkIterator ==
    /\ Closed /\ iter = None /\ shape.layout \in {"chunked", "foreign"}
    /\ IsNode(file, header.address)
    /\ LET entries == CollectAllChunks(file, header.address, shape.chunk)
       IN  iter' = [coords |-> [k \in DOMAIN entries |-> entries[k].coord],
                    current |-> 0, err |-> FALSE]
    /\ out' = None
    /\ UNCHANGED <<shape, file, header, handle, failures, freed, writes>>

\* Next: one chunk on, or the context is cancelled.
IterNext == /\ iter # None /\ ~ iter.err /\ iter.current <= Len(iter.coords)
            /\ \/ iter' = [iter EXCEPT !.current = @ + 1]
               \/ iter' = [iter EXCEPT !.err = TRUE]
            /\ out' = None
            /\ UNCHANGED <<shape, file, header, handle, failures, freed, writes>>

Reset == /\ iter # None /\ iter' = [iter EXCEPT !.current = 0, !.err = FALSE]
         /\ out' = None
         /\ UNCHANGED <<shape, file, header, handle, failures, freed, writes>>

\* Chunk: a slice clamped to the dataset.  A chunk that starts behind its edge
\* gets a count that wraps, for which no buffer can be made.
Chunk ==
    LET coord == iter.coords[iter.current]
        sel == FillHyperslabDefaults(
                  Slice(ChunkStart(coord, shape.chunk),
                        GetChunkSize(header.dims, shape.chunk, coord)), header.dims)
    IN  /\ iter # None /\ iter.current \in 1 .. Len(iter.coords)
        /\ IF Beyond(header.dims, shape.chunk, coord)
           THEN out' = [sel |-> sel, data |-> Failed]
           ELSE Output(sel)
        /\ UNCHANGED <<shape, file, header, handle, failures, iter, freed, writes>>

-----------------------------------------------------------------------------
(* Deletion *)

\* A leaf as words of four bytes, each number of eight bytes low word first.
Words(node) ==
    LET key(k) == <<k.nbytes, 0>> \o FlattenSeq([i \in DOMAIN k.offset |-> <<k.offset[i], 0>>])
    IN  FlattenSeq([i \in DOMAIN node.keys |->
                      key(node.keys[i])
                        \o (IF i \in DOMAIN node.children THEN <<node.children[i], 0>>
                                                          ELSE <<>>)])

\* A leaf taken apart for keys of 2 + g words; unused space of a node is zero.
Guess(words, entries, g) ==
    LET at(p) == IF p <= Len(words) THEN words[p] ELSE 0
    IN  [i \in 1 .. entries |->
           LET p == (i - 1) * (4 + g)
           IN  <<at(p + 3 + g) + Word * at(p + 4 + g), at(p + 1)>>]

\* Mutant: every key size will do.
AnyGuess(guess) == TRUE

Plausible(guess) == \A i \in DOMAIN guess : guess[i][1] # 0

\* freeChunkedData tries the key sizes of one to four dimensions of a word each
\* and takes the first for which no address is zero.  The keys have dimensions
\* of two words, and one dimension more.  Only a leaf is looked at.
FreeChunkedData(node) ==
    LET guess == [g \in 1 .. 4 |-> Guess(Words(node), Len(node.children), g)]
        good == {g \in 1 .. 4 : Plausible(guess[g])}
    IN  IF node.level > 0 \/ good = {} THEN {}
        ELSE ToSet(guess[CHOOSE g \in good : \A f \in good : g <= f])

\* freeDataLayout, of a deletion that nothing else keeps the dataset from
DeleteDataset ==
    /\ handle # None
    /\ freed' = IF ~ Chunked
                THEN {<<header.address, Len(file[header.address].data)>>}
                ELSE IF IsNode(file, header.address)
                THEN FreeChunkedData(file[header.address])
                ELSE {}
    /\ handle' = None
    /\ UNCHANGED <<shape, file, header, failures, iter, out, writes>>

-----------------------------------------------------------------------------
\* Selections that pass the checks, and slices, of every extent.
Extents == {s.dims : s \in Shapes} \cup UNION {s.sizes : s \in Shapes}
Axis(d) == {a \in [start : 0 .. d - 1, count : 1 .. d, stride : 1 .. MaxStride,
                   block : 1 .. MaxBlock] :
              a.start + (a.count - 1) * a.stride + a.block <= d}
Selections ==
    [dims \in Extents |->
       {[start |-> [i \in DOMAIN dims |-> f[i].start],
         count |-> [i \in DOMAIN dims |-> f[i].count],
         stride |-> [i \in DOMAIN dims |-> f[i].stride],
         block |-> [i \in DOMAIN dims |-> f[i].block]] :
           f \in {g \in [DOMAIN dims -> UNION {Axis(dims[i]) : i \in DOMAIN dims}] :
                    \A i \in DOMAIN dims : g[i] \in Axis(dims[i])}}]
Slices ==
    [dims \in Extents |->
       {Slice(start, count) :
          start, count \in ToSet(Coordinates([i \in DOMAIN dims |-> dims[i] + 1]))}]

Next ==
    \/ \E s \in Shapes : CreateChunked(s) \/ CreateContiguous(s) \/ OpenForeign(s)
    \/ WriteChunked \/ WriteChunkedFails \/ WriteUnsealed \/ WriteContiguous
    \/ shape # None /\ \E dims \in shape.sizes : Resize(dims)
    \/ \E size \in HeaderSizes : WriteAttribute(size)
    \/ Close \/ DeleteDataset
    \/ Closed /\ \E sel \in Selections[header.dims] : ReadHyperslab(sel)
    \/ Closed /\ \E sel \in Slices[header.dims] : ReadSlice(sel)
    \/ ChunkIterator \/ IterNext \/ Reset \/ Chunk

Spec == Init /\ [][Next]_vars

-----------------------------------------------------------------------------
(* Properties *)

\* The Write that the header leads to, what it stored at a place, and the
\* element that Resize promises there: what was cut off is lost, for good.
Named == {n \in DOMAIN writes : writes[n].address = header.address}
Shown == writes[CHOOSE n \in Named : \A m \in Named : m <= n]
Inside(c, dims) == \A i \in DOMAIN c : c[i] < dims[i]
Stored(c) == IF Inside(c, Shown.dims) THEN Shown.data[Offset(c, Shown.dims) + 1] ELSE Zero
Element(c) == IF Inside(c, Shown.kept) THEN Stored(c) ELSE Zero
Elements(dims) == [k \in 1 .. Product(dims) |-> Element(Coordinate(k - 1, dims))]

\* The dataset shrank and grew again: the chunks still hold what was cut off.
Resurrected ==
    \E i \in DOMAIN Shown.dims : Shown.kept[i] < Min({Shown.dims[i], header.dims[i]})

\* What this library does not read back: it stores a chunk at the edge with its
\* clipped size, and reads it as if it had its full size.
ClippedRows ==
    /\ Chunked /\ Shown.clipped
    /\ \E i \in DOMAIN shape.chunk : /\ Shown.dims[i] % shape.chunk[i] # 0
                                     /\ \E j \in 1 .. i - 1 : shape.chunk[j] > 1
ClippedThenGrown ==
    /\ Shown.clipped
    /\ \E i \in DOMAIN shape.chunk : /\ Shown.dims[i] % shape.chunk[i] # 0
                                     /\ header.dims[i] > Shown.dims[i]
\* A chunk that Resize left behind the edge is an error for the reader.
LeftBehind ==
    \E k \in 1 .. Product(NumChunks(Shown.dims, shape.chunk)) :
       Beyond(header.dims, shape.chunk,
              Coordinate(k - 1, NumChunks(Shown.dims, shape.chunk)))


\* What the readers of a contiguous dataset get right: elements that lie one
\* behind the other, read at once, and two dimensions element by element.
ContiguousExact(sel) ==
    LET n == Len(header.dims)
    IN  IF n = 1 \/ IsContiguousSelection(sel, header.dims)
        THEN \A k \in 1 .. OutputSize(sel) :
                Offset(Selected(sel, k), header.dims) = Offset(sel.start, header.dims) + k - 1
        ELSE n = 2

\* Blocks that are longer than their stride: selectionOutputIndex places the
\* elements of a chunked dataset wrongly, for one block, too.
BlocksOverlap(sel) ==
    \E i \in DOMAIN sel.count :
       sel.block[i] > sel.stride[i] /\ (sel.count[i] > 1 \/ sel.stride[i] > 1)


\* Whatever key size freeChunkedData guesses, it frees blocks of the dataset and
\* each with its size, or none; only the single chunk of a one-dimensional
\* dataset is taken for one at another address.
FreesOnlyChunks ==
    freed # None /\ freed # {} =>
       \/ Chunked /\ Len(shape.chunk) = 1 /\ Len(file[header.address].children) = 1
       \/ \A block \in freed :
             /\ ~ Chunked \/ block[1] \in ToSet(file[header.address].children)
             /\ block[2] = Len(file[block[1]].data)

\* copyChunkToArray is said to handle "partial chunks at boundaries": what was
\* written is read back whatever the chunk dimensions are.
EdgeChunksReadBack ==
    shape # None /\ Chunked /\ Named # {} /\ header.dims = Shown.dims
       => ReadChunkedData(file, header.address, header.dims, shape.chunk) = Shown.data

\* Resize is said to lose "data beyond new dimensions" when it shrinks a dataset
\* and to fill "new space ... with zeros" when it grows it: in that order, too.
ShrunkDataLost ==
    shape # None /\ Chunked /\ Named # {} /\ ~ ClippedRows /\ ~ ClippedThenGrown /\ ~ LeftBehind
       => ReadChunkedData(file, header.address, header.dims, shape.chunk)
             = Elements(header.dims)
=============================================================================
