------------------------------ MODULE MCClient ------------------------------
(* Instances of Client for TLC, with Finalization and the delays of the waits. *)
EXTENDS Finalization, Waits
=============================================================================
