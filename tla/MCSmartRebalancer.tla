-------------------------- MODULE MCSmartRebalancer --------------------------
(* SmartRebalancer for TLC: two starts, so that a second monitor may meet *)
(* the goroutine that the first one has started, and a user who races     *)
(* with the monitors for the selector.                                    *)
EXTENDS SmartRebalancer
=============================================================================
