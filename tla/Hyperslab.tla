----------------------------- MODULE Hyperslab ------------------------------
(***************************************************************************)
(* Reading a part of a dataset (dataset_read_hyperslab.go): a selection     *)
(* gives, for every dimension, where it starts, how many blocks it takes,   *)
(* how far apart they are and how long they are.  There is a reader for     *)
(* each layout, and two for the contiguous one.                             *)
(***************************************************************************)
EXTENDS ChunkIndex

CONSTANTS Nil,    \* a stride or a block that is not given
          Behind  \* what the file holds behind the data

Ones(dims) == [i \in DOMAIN dims |-> 1]

\* fillHyperslabDefaults
FillHyperslabDefaults(sel, dims) ==
    [sel EXCEPT !.stride = IF @ = Nil THEN Ones(dims) ELSE @,
                !.block = IF @ = Nil THEN Ones(dims) ELSE @]

\* validateHyperslabSelection, with ValidateHyperslabBounds
ValidSelection(sel, dims) ==
    LET s == FillHyperslabDefaults(sel, dims)
    IN  /\ \A f \in DOMAIN s : Len(s[f]) = Len(dims)
        /\ \A i \in DOMAIN dims :
              /\ s.count[i] > 0 /\ s.stride[i] > 0 /\ s.block[i] > 0
              /\ s.start[i] + (s.count[i] - 1) * s.stride[i] + s.block[i] <= dims[i]

\* ReadSlice's own check, which lets a count of 0 pass.
ValidSlice(sel, dims) ==
    /\ Len(sel.start) = Len(dims) /\ Len(sel.count) = Len(dims)
    /\ \A i \in DOMAIN dims : sel.start[i] + sel.count[i] <= dims[i]

\* calculateHyperslabOutputSize
Extent(sel) == [i \in DOMAIN sel.count |-> sel.count[i] * sel.block[i]]
OutputSize(sel) == Product(Extent(sel))

\* The k-th coordinate that the nested loops over counts and blocks come to.
Selected(sel, k) ==
    LET u == Coordinate(k - 1, Extent(sel))
    IN  [i \in DOMAIN u |->
           sel.start[i] + (u[i] \div sel.block[i]) * sel.stride[i] + (u[i] % sel.block[i])]

-----------------------------------------------------------------------------
(* Compact and contiguous layout: the data is one array, raw *)

\* extractHyperslabRecursive: what lies behind the end of raw is passed over
\* and leaves the end of the output as it was.
ExtractHyperslab(sel, dims, raw) ==
    LET places == [k \in 1 .. OutputSize(sel) |-> Offset(Selected(sel, k), dims)]
        found == SelectSeq(places, LAMBDA p : p < Len(raw))
    IN  [k \in DOMAIN places |-> IF k \in DOMAIN found THEN raw[found[k] + 1] ELSE Zero]

\* One read of n elements; blocks that overlap make it longer than the data.
Run(raw, first, n) ==
    [k \in 1 .. n |-> IF first + k <= Len(raw) THEN raw[first + k] ELSE Behind]

\* isContiguousSelection looks at the last dimension only.
IsContiguousSelection(sel, dims) ==
    LET n == Len(dims)
    IN  sel.stride[n] = 1 /\ sel.block[n] = 1 /\ sel.count[n] = dims[n]

\* readContiguousOptimized: as many elements as are selected, from the first on.
ReadContiguousOptimized(sel, dims, raw) ==
    Run(raw, Offset(sel.start, dims), OutputSize(sel))

\* readContiguous2DOptimized: element by element.
ReadContiguous2D(sel, dims, raw) ==
    [k \in 1 .. OutputSize(sel) |-> raw[Offset(Selected(sel, k), dims) + 1]]

\* readContiguousRowByRow: as many elements as the bounding box has, from its
\* first on, in which the coordinates of the dataset are then looked up.
ReadContiguousRowByRow(sel, dims, raw) ==
    LET box == [i \in DOMAIN dims |->
                  (sel.count[i] - 1) * sel.stride[i] + sel.block[i]]
    IN  ExtractHyperslab(sel, dims, Run(raw, Offset(sel.start, dims), Product(box)))

\* readHyperslabContiguous
ReadHyperslabContiguous(sel, dims, raw) ==
    IF Len(dims) = 1 \/ IsContiguousSelection(sel, dims)
    THEN ReadContiguousOptimized(sel, dims, raw)
    ELSE IF Len(dims) = 2 THEN ReadContiguous2D(sel, dims, raw)
                          ELSE ReadContiguousRowByRow(sel, dims, raw)

-----------------------------------------------------------------------------
(* Chunked layout *)

\* findOverlappingChunks, generateChunkCoordinates
FirstChunk(sel, chunk) == [i \in DOMAIN chunk |-> sel.start[i] \div chunk[i]]

LastChunk(sel, chunk, dims) ==
    [i \in DOMAIN chunk |->
       LET end == sel.start[i] + (sel.count[i] - 1) * sel.stride[i] + sel.block[i] - 1
       IN  (IF end >= dims[i] THEN dims[i] - 1 ELSE end) \div chunk[i]]

Overlaps(sel, chunk, dims, coord) ==
    \A i \in DOMAIN chunk :
       coord[i] \in FirstChunk(sel, chunk)[i] .. LastChunk(sel, chunk, dims)[i]

\* selectionOutputIndex: where in the output the element of a coordinate goes.
OutputIndex(sel, c) ==
    LET place(i) == LET rel == c[i] - sel.start[i]
                    IN  IF sel.stride[i] <= 1 THEN rel
                        ELSE (rel \div sel.stride[i]) * sel.block[i] + (rel % sel.stride[i])
    IN  Offset([i \in DOMAIN c |-> place(i)], Extent(sel))

\* extractChunkPortionRecursive: the selected elements that are inside the
\* chunk and the dataset, at their offsets in a chunk of full size, and when
\* the loops over chunks and selection come to them last.  What the stored
\* chunk does not hold is left out.
ChunkPortion(sel, chunk, dims, coord, bytes) ==
    LET start == ChunkStart(coord, chunk)
        size == GetChunkSize(dims, chunk, coord)
        inChunk == {c \in {Selected(sel, k) : k \in 1 .. OutputSize(sel)} :
                      \A i \in DOMAIN c : c[i] \in start[i] .. start[i] + size[i] - 1}
        source(c) == Offset([i \in DOMAIN c |-> c[i] - start[i]], chunk)
    IN  {[slot |-> OutputIndex(sel, c) + 1, time |-> coord \o c, element |-> bytes[source(c) + 1]] :
            c \in {d \in inChunk : source(d) < Len(bytes)}}

\* readHyperslabChunked: a chunk that the B-tree does not have leaves zeros, and
\* of several elements for one place of the output the last one stays.
ReadHyperslabChunked(sel, dims, chunk, file, address) ==
    IF ~ IsNode(file, address)
    THEN Failed
    ELSE LET entries == CollectAllChunks(file, address, chunk)
             read == {e \in ToSet(entries) : Overlaps(sel, chunk, dims, e.coord)}
             put == UNION {ChunkPortion(sel, chunk, dims, e.coord, ChunkBytes(file, e)) :
                             e \in read}
             last(k) == {p \in put : /\ p.slot = k
                                     /\ \A q \in put : q.slot = k => ~ Before(p.time, q.time)}
         IN  [k \in 1 .. OutputSize(sel) |->
                IF last(k) = {} THEN Zero ELSE (CHOOSE p \in last(k) : TRUE).element]
=============================================================================
