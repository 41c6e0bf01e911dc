----------------------- MODULE MCIncrementalRebalancer -----------------------
(* IncrementalRebalancer for TLC. *)
EXTENDS IncrementalRebalancer
=============================================================================
