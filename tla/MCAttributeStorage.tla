------------------------- MODULE MCAttributeStorage -------------------------
(* AttributeStorage for TLC: two short attributes, or one long one, fit in a *)
(* header besides a continuation message.  Names are interchangeable: the    *)
(* order of attributes is that of their messages.                            *)
EXTENDS AttributeStorage, TLC

NameSymmetry == Permutations(Names)
=============================================================================
