---------------------------- MODULE MCObjectLinks ----------------------------
(* ObjectLinks for TLC: two objects, two names, two entries per group. *)
EXTENDS ObjectLinks
=============================================================================
