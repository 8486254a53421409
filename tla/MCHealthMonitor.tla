--------------------------- MODULE MCHealthMonitor --------------------------
(* A fallback to the CPU cache where the hot cache is configured off, and nobody else switches it. *)
EXTENDS HealthMonitor

MCHealthSetups == {[policy |-> "LOCAL_CPU", hot |-> FALSE, ping |-> TRUE, toggles |-> 0]}
=============================================================================
