------------------------------ MODULE MCMetrics ------------------------------
(* A small instance of Metrics for TLC. *)
EXTENDS Metrics, TLC

CONSTANTS r1, r2, w1, w2

MCRequest == {r1, r2}
MCWriter == {w1, w2}
\* Requests and writers are interchangeable.
MCSymmetry == Permutations(MCRequest) \cup Permutations(MCWriter)
=============================================================================
