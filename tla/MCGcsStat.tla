------------------------------ MODULE MCGcsStat ------------------------------
(* Small instances of GcsStat for TLC. *)
EXTENDS GcsStat

CONSTANTS file, dir, g1, g2

MCAttrs == {"object", "dir"}
MCGoroutine == {g1, g2}
AllOps == {"stat", "read", "readdir"}
StatOnly == {"stat"}

AllKeys == {Root, file, dir}
RootAndFile == {Root, file}
FileHasExt == {file}
=============================================================================
