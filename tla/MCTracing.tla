------------------------------ MODULE MCTracing ------------------------------
(* A small instance of Tracing for TLC. *)
EXTENDS Tracing

CONSTANTS g1, g2, g3

MCGoroutine == {g1, g2, g3}
=============================================================================
