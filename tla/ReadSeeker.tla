----------------------------- MODULE ReadSeeker -----------------------------
(* What io.ReadSeeker promises the users of a gcsFile (http.ServeContent):    *)
(* there is one current offset, Read returns the bytes that start there and   *)
(* moves it past them, and Seek moves it.  Reads may be short or fail.        *)
EXTENDS Integers

VARIABLES
    offset,   \* the current offset
    from, n   \* the last operation delivered n bytes starting at from

Init == offset = 0 /\ from = 0 /\ n = 0

Read == /\ n' \in Nat
        /\ n' > 0 => from' = offset
        /\ offset' = offset + n'

Seek == /\ offset' \in Nat
        /\ n' = 0

Next == Read \/ Seek

Spec == Init /\ [][Next]_<<offset, from, n>>
=============================================================================
