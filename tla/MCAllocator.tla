----------------------------- MODULE MCAllocator -----------------------------
(* Allocator for TLC: the managed file is six addresses long. *)
EXTENDS Allocator
=============================================================================
