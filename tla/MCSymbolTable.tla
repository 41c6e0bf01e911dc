---------------------------- MODULE MCSymbolTable ----------------------------
(* SymbolTable for TLC: one name longer than the others, so that a heap can *)
(* be too full for it and still have room for a shorter one.                *)
EXTENDS SymbolTable

MCLength == 1 :> 1 @@ 2 :> 2 @@ 3 :> 1
=============================================================================
