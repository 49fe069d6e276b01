--------------------------- MODULE MCServeContent ---------------------------
(* A small instance of ServeContent for TLC. *)
EXTENDS ServeContent

MCSizes == {0, 1, 3, 8}
MCStarts == {0, 1, 3, 4, 5}

MCOffsets == {0}
MCBufLens == {1}
=============================================================================
