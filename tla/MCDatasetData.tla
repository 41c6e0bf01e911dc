--------------------------- MODULE MCDatasetData ----------------------------
(* DatasetData for TLC. *)
EXTENDS DatasetData

Dataset(layout, dims, chunk, sizes) ==
    [layout |-> layout, dims |-> dims, chunk |-> chunk, sizes |-> sizes]

\* Datasets that are written and resized: trees of one, two and three levels,
\* partial chunks, an extent without elements; and the layouts that are only
\* read.
MCShapes == {
    Dataset("chunked", <<3>>, <<2>>, {<<0>>, <<1>>, <<2>>}),
    Dataset("chunked", <<5>>, <<1>>, {<<4>>}),
    Dataset("chunked", <<3, 2>>, <<2, 1>>, {<<1, 3>>, <<2, 2>>}),
    Dataset("chunked", <<2, 3>>, <<1, 2>>, {<<2, 4>>}),
    Dataset("chunked", <<5>>, <<2>>, {<<2>>, <<6>>}),
    Dataset("chunked", <<2, 3>>, <<2, 2>>, {}),
    Dataset("foreign", <<3, 3>>, <<2, 2>>, {}),
    Dataset("foreign", <<2, 3, 2>>, <<1, 2, 2>>, {}),
    Dataset("compact", <<2, 3>>, <<2, 3>>, {}),
    Dataset("contiguous", <<5>>, <<5>>, {}),
    Dataset("contiguous", <<3, 4>>, <<3, 4>>, {}),
    Dataset("contiguous", <<2, 2, 2>>, <<2, 2, 2>>, {})}

\* One dataset that every call of Resize accepts.
MCResized == {Dataset("chunked", <<3>>, <<2>>, {<<1>>, <<2>>})}
=============================================================================
