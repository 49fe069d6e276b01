------------------------------- MODULE GcsFile -------------------------------
(* pkg/gcs/fs/gcsfs.go: one open gcsFile as an io.ReadSeeker.  A logical      *)
(* position, a GCS range reader that is opened lazily and kept over small     *)
(* seeks, and a buffer with the first bytes of the object have to stay in     *)
(* step.  The object may be overwritten at any time (a new generation, of     *)
(* another size); a reader, once open, delivers the generation it was opened  *)
(* on.  A byte is identified by its offset and generation.                    *)
EXTENDS Integers

CONSTANTS
    SniffSize,       \* sniffSize (512)
    SkipThreshold,   \* seekSkipThreshold (32 KiB)
    Sizes,           \* the sizes an object may have
    MaxGen,          \* bound: generations of the object
    BufLens,         \* lengths of the buffers Read is called with
    Offsets,         \* offsets Seek is called with
    MaxPos,          \* bound: the furthest offset callers seek to
    BadSeeks,        \* TRUE: callers also seek to before the start
    Faults,          \* TRUE: a stream may break off in the middle of a read
    NoReader         \* reader == nil

ASSUME FileAssumption ==
    /\ SniffSize \in Nat \ {0}
    /\ SkipThreshold \in Nat
    /\ Sizes \subseteq Nat
    /\ MaxGen \in Nat \ {0}
    /\ BufLens \subseteq Nat
    /\ Offsets \subseteq Int
    /\ MaxPos \in Nat
    /\ BadSeeks \in BOOLEAN
    /\ Faults \in BOOLEAN

VARIABLES
    obj,             \* the object in the bucket: [gen, size]
    reader,          \* NoReader or [gen, size, off]: off is the next byte
    pos,             \* pos
    size, sizeKnown, \* size, sizeKnown
    sniff,           \* sniffBuf != nil, sniffLen, sniffPos, generation held
    from, n, gen     \* the last operation returned n bytes, from offset
                     \* "from" of generation gen

handle == <<reader, pos, size, sizeKnown, sniff>>
vars == <<obj, handle, from, n, gen>>

Object == [gen : 1 .. MaxGen, size : Sizes]
Reader == [gen : 1 .. MaxGen, size : Sizes, off : Nat]
Sniff == [has : BOOLEAN, len : Nat, pos : Nat, gen : 0 .. MaxGen]

ASSUME ReaderAssumption == NoReader \notin Reader

TypeOK == /\ obj \in Object
          /\ reader \in Reader \cup {NoReader}
          /\ pos \in Nat
          /\ size \in Sizes \cup {0}
          /\ sizeKnown \in BOOLEAN
          /\ sniff \in Sniff
          /\ from \in Nat /\ n \in Nat /\ gen \in 0 .. MaxGen

Init == /\ obj \in [gen : {1}, size : Sizes]
        /\ reader = NoReader
        /\ pos = 0
        /\ size = 0 /\ sizeKnown = FALSE
        /\ sniff = [has |-> FALSE, len |-> 0, pos |-> 0, gen |-> 0]
        /\ from = 0 /\ n = 0 /\ gen = 0

-----------------------------------------------------------------------------
Least(a, b) == IF a < b THEN a ELSE b

\* how many of the next m bytes a reader yields in one call
Yields(r, m) == 0 .. Least(m, IF r.off < r.size THEN r.size - r.off ELSE 0)

deliver(f, m, g) == /\ from' = IF m = 0 THEN 0 ELSE f
                    /\ n' = m
                    /\ gen' = IF m = 0 THEN 0 ELSE g

nothing == deliver(0, 0, 0)

\* Another program overwrites the object (external).
Overwrite == /\ obj.gen < MaxGen
             /\ \E s \in Sizes : obj' = [gen |-> obj.gen + 1, size |-> s]
             /\ UNCHANGED <<handle, from, n, gen>>

-----------------------------------------------------------------------------
\* Read

InSniff == sniff.has /\ sniff.pos < sniff.len /\ pos < sniff.len

ReadSniff(b) ==
    /\ InSniff
    /\ LET m == Least(b, sniff.len - sniff.pos) IN
       /\ deliver(sniff.pos, m, sniff.gen)
       /\ sniff' = [sniff EXCEPT !.pos = sniff.pos + m]
       /\ pos' = pos + m
    /\ UNCHANGED <<obj, reader, size, sizeKnown>>

\* NewRangeReader fails: a backend error, or an offset at or past the end
ReadOpenFails == /\ ~InSniff
                 /\ reader = NoReader
                 /\ nothing
                 /\ UNCHANGED <<obj, handle>>

\* A mutant of ReadFirst: the reader is closed once the buffer is filled.
ReadFirstClosesReader(b) ==
    /\ ~InSniff
    /\ reader = NoReader
    /\ pos = 0 /\ ~sniff.has
    /\ LET len == Least(SniffSize, obj.size) IN
       /\ sniff' = [has |-> TRUE, len |-> len, pos |-> Least(b, len),
                    gen |-> obj.gen]
       /\ deliver(0, Least(b, len), obj.gen)
       /\ pos' = Least(b, len)
    /\ UNCHANGED <<obj, reader, size, sizeKnown>>

\* The very first read: fill the sniff buffer, serve the caller from it.
ReadFirst(b) ==
    /\ ~InSniff
    /\ reader = NoReader
    /\ pos = 0 /\ ~sniff.has
    /\ LET opened == [gen |-> obj.gen, size |-> obj.size, off |-> 0] IN
       \E len \in Yields(opened, SniffSize) :
         /\ Faults \/ len = Least(SniffSize, obj.size)
         /\ reader' = [opened EXCEPT !.off = len]
         /\ sniff' = [has |-> TRUE, len |-> len, pos |-> Least(b, len),
                      gen |-> obj.gen]
         /\ deliver(0, Least(b, len), obj.gen)
         /\ pos' = Least(b, len)
    /\ UNCHANGED <<obj, size, sizeKnown>>

\* r is the reader's state when it is asked for b bytes
ReadFrom(r, b) ==
    \E m \in Yields(r, b) :
       /\ reader' = [r EXCEPT !.off = r.off + m]
       /\ deliver(r.off, m, r.gen)
       /\ pos' = pos + m

\* A mutant of ReadReopen: the position is not passed to NewRangeReader.
ReadReopenAtStart(b) ==
    /\ ~InSniff
    /\ reader = NoReader
    /\ pos # 0 \/ sniff.has
    /\ ReadFrom([gen |-> obj.gen, size |-> obj.size, off |-> 0], b)
    /\ UNCHANGED <<obj, size, sizeKnown, sniff>>

ReadReopen(b) ==
    /\ ~InSniff
    /\ reader = NoReader
    /\ pos # 0 \/ sniff.has
    /\ pos < obj.size \/ pos = 0
    /\ ReadFrom([gen |-> obj.gen, size |-> obj.size, off |-> pos], b)
    /\ UNCHANGED <<obj, size, sizeKnown, sniff>>

ReadStream(b) ==
    /\ ~InSniff
    /\ reader # NoReader
    /\ ReadFrom(reader, b)
    /\ UNCHANGED <<obj, size, sizeKnown, sniff>>

Read == \/ ReadOpenFails
        \/ \E b \in BufLens : \/ ReadSniff(b) \/ ReadFirst(b)
                              \/ ReadReopen(b) \/ ReadStream(b)

-----------------------------------------------------------------------------
\* Seek, once the target newPos is known

SniffFullyConsumed == ~sniff.has \/ sniff.pos >= sniff.len

SeekBefore == /\ pos' = 0
              /\ UNCHANGED <<reader, sniff>>

\* A mutant of SeekInSniff: a reader past the buffer is kept.
SeekInSniffKeepsReader(newPos) ==
    /\ pos' = newPos
    /\ sniff' = [sniff EXCEPT !.pos = newPos]
    /\ UNCHANGED reader

\* A mutant of SeekInSniff: the buffer's cursor is not moved.
SeekInSniffForgetsCursor(newPos) ==
    /\ pos' = newPos
    /\ reader' = IF pos > sniff.len THEN NoReader ELSE reader
    /\ UNCHANGED sniff

SeekInSniff(newPos) ==
    /\ pos' = newPos
    /\ sniff' = [sniff EXCEPT !.pos = newPos]
    /\ reader' = IF pos > sniff.len THEN NoReader ELSE reader

\* A mutant of CanSkip: a partly served buffer is ignored.
CanSkipIgnoringSniff(newPos) ==
    /\ reader # NoReader
    /\ newPos > pos /\ newPos - pos <= SkipThreshold

CanSkip(newPos) ==
    /\ reader # NoReader
    /\ SniffFullyConsumed
    /\ newPos > pos /\ newPos - pos <= SkipThreshold

Skips(newPos) == CanSkip(newPos) /\ newPos - pos \in Yields(reader, newPos - pos)

\* io.CopyN discards all of it, or fails and the reader is dropped
SeekAhead(newPos) ==
    /\ pos' = newPos
    /\ \/ /\ Skips(newPos)
          /\ reader' = [reader EXCEPT !.off = reader.off + (newPos - pos)]
       \/ /\ Faults \/ ~Skips(newPos)
          /\ reader' = NoReader
    /\ UNCHANGED sniff

\* A mutant of SeekTo: a negative target is not refused.
SeekToUnchecked(newPos) ==
    /\ newPos <= MaxPos
    /\ IF sniff.has /\ newPos < sniff.len THEN SeekInSniff(newPos)
                                          ELSE SeekAhead(newPos)

SeekTo(newPos) ==
    /\ newPos <= MaxPos
    /\ IF newPos < 0 THEN BadSeeks /\ SeekBefore
       ELSE IF sniff.has /\ newPos < sniff.len THEN SeekInSniff(newPos)
       ELSE SeekAhead(newPos)

SeekStart(off) == /\ SeekTo(off)
                  /\ nothing
                  /\ UNCHANGED <<obj, size, sizeKnown>>

SeekCurrent(off) == /\ SeekTo(pos + off)
                    /\ nothing
                    /\ UNCHANGED <<obj, size, sizeKnown>>

\* The size comes from Stat, which may answer from the attribute cache with an
\* older generation's size, and is kept for the life of the handle.
SeekEnd(off) == /\ \E s \in IF sizeKnown THEN {size} ELSE Sizes :
                     /\ SeekTo(s + off)
                     /\ size' = s
                /\ sizeKnown' = TRUE
                /\ nothing
                /\ UNCHANGED obj

\* Stat fails, or whence is none of the three
SeekFails == /\ nothing
             /\ UNCHANGED <<obj, handle>>

Seek == SeekFails \/ \E off \in Offsets : \/ SeekStart(off) \/ SeekCurrent(off)
                                          \/ SeekEnd(off)

Close == /\ reader' = NoReader
         /\ nothing
         /\ UNCHANGED <<obj, pos, size, sizeKnown, sniff>>

Next == Overwrite \/ Read \/ Seek \/ Close

Spec == Init /\ [][Next]_vars

-----------------------------------------------------------------------------
(* The reader, the sniff buffer and the position are in step: within the      *)
(* buffered bytes the buffer's cursor is the position and an open reader      *)
(* waits right behind the buffer; beyond them an open reader is at the        *)
(* position.  Every path through Seek (keep, skip, close) depends on it.      *)
InStep ==
    /\ sniff.has /\ pos < sniff.len =>
          /\ sniff.pos = pos
          /\ reader # NoReader => reader.off = sniff.len
    /\ ~(sniff.has /\ pos < sniff.len) /\ reader # NoReader => reader.off = pos

(* Seen from outside, the handle is an io.ReadSeeker: every Read returns the  *)
(* bytes at the offset where the previous operations left off, whichever of   *)
(* buffer, kept reader, skipped-ahead reader or reopened reader serves them.  *)
Abstract == INSTANCE ReadSeeker WITH offset <- pos
ImplementsReadSeeker == Abstract!Spec
=============================================================================
