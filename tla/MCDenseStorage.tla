--------------------------- MODULE MCDenseStorage ---------------------------
(* DenseStorage for TLC: two of the names have the same hash, and there are *)
(* two messages of the same size and one that is too large.                 *)
EXTENDS DenseStorage

MCHash == [n \in Names |-> IF n = "b" THEN 2 ELSE 1]
MCValues == {<<1, "t">>, <<2, "t">>, <<2, "u">>, <<4, "t">>}

\* Nothing is promised once a colliding name was given.
Collisionless == ~ collided
=============================================================================
