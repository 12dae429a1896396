----------------------------- MODULE MCLifecycle -----------------------------
(* Lifecycle on three devices: the interface goes up three times. *)
EXTENDS Lifecycle, TLC

Allocations == Permutations(Device)
=============================================================================
