------------------------------ MODULE MCGcsFile ------------------------------
(* Small instances of GcsFile for TLC. *)
EXTENDS GcsFile

MCSizes == {0, 1, 3, 6}
MCBufLens == 0 .. 3
MCOffsets == -3 .. 7
=============================================================================
