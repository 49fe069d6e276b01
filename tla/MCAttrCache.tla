----------------------------- MODULE MCAttrCache -----------------------------
(* Small instances of AttrCache for TLC. *)
EXTENDS AttrCache, TLC

CONSTANTS k1, k2, k3, a1, g1, g2

MCKey == {k1, k2, k3}
MCTwoKeys == {k1, k2}
MCAttrs == {a1}
MCGoroutine == {g1, g2}
\* Keys and goroutines are interchangeable in the specification.
KeyAndGoroutineSymmetry == Permutations(MCKey) \cup Permutations(MCGoroutine)
=============================================================================
