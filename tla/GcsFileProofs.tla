---------------------------- MODULE GcsFileProofs ----------------------------
(* Proofs about the file handle and about the GET that uses it.  GcsFile, for  *)
(* callers that never seek to before the start of the object (with such a      *)
(* caller InStep does not hold): for every buffer size, threshold, object size *)
(* and number of generations, reader, sniff buffer and position stay in step,  *)
(* and the handle is an io.ReadSeeker.  ServeContent, whose seeks are all      *)
(* legal: what one GET opens, sends and mixes.                                 *)
EXTENDS ServeContent, TLAPS

\* InStep needs nothing but the types to be inductive.
IInv == TypeOK /\ InStep

USE FileAssumption, ReaderAssumption

-----------------------------------------------------------------------------
(* What deliver records is a range of offsets of one generation.              *)
LEMMA DeliverType ==
  ASSUME NEW f \in Nat, NEW m \in Nat, NEW g \in 0 .. MaxGen, deliver(f, m, g)
  PROVE  from' \in Nat /\ n' \in Nat /\ gen' \in 0 .. MaxGen
BY DEF deliver

(* A reader yields at most what was asked for, and not past its end.          *)
LEMMA YieldsType ==
  ASSUME NEW r \in Reader, NEW b \in Nat
  PROVE  Yields(r, b) \subseteq 0 .. b
<1> DEFINE left == IF r.off < r.size THEN r.size - r.off ELSE 0
<1>1. left \in Nat
  <2>1. r.off \in Nat /\ r.size \in Nat
    BY DEF Reader
  <2> QED
    BY <2>1
<1> HIDE DEF left
<1>2. Least(b, left) \in Nat /\ Least(b, left) <= b
  BY <1>1 DEF Least
<1>3. Yields(r, b) = 0 .. Least(b, left)
  BY DEF Yields, left
<1> QED
  BY <1>2, <1>3

(* Within the buffered bytes Read finds them in the buffer; so whenever it    *)
(* goes to GCS the position is outside the buffer.                            *)
LEMMA OutsideSniff ==
  ASSUME IInv, ~InSniff
  PROVE  ~(sniff.has /\ pos < sniff.len)
BY DEF IInv, InStep, InSniff, TypeOK, Sniff

(* Reading on from a reader that stands at the position, outside the buffer.  *)
LEMMA ReadFromStep ==
  ASSUME IInv, NEW r \in Reader, NEW b \in Nat, r.off = pos,
         ~(sniff.has /\ pos < sniff.len),
         ReadFrom(r, b), UNCHANGED <<obj, size, sizeKnown, sniff>>
  PROVE  /\ IInv'
         /\ n' \in Nat /\ (n' > 0 => from' = pos) /\ pos' = pos + n'
<1>1. PICK m \in Yields(r, b) : /\ reader' = [r EXCEPT !.off = r.off + m]
                                /\ deliver(r.off, m, r.gen)
                                /\ pos' = pos + m
  BY DEF ReadFrom
<1>2. m \in Nat /\ pos \in Nat /\ r.gen \in 0 .. MaxGen
  BY YieldsType DEF IInv, TypeOK, Reader
<1>3. from' \in Nat /\ n' \in Nat /\ gen' \in 0 .. MaxGen
  BY <1>1, <1>2, DeliverType
<1>4. reader' \in Reader /\ reader'.off = pos' /\ pos' \in Nat
  BY <1>1, <1>2 DEF Reader
<1>5. TypeOK'
  BY <1>3, <1>4 DEF IInv, TypeOK
<1>6. InStep'
  BY <1>1, <1>2, <1>4 DEF IInv, TypeOK, InStep, Sniff
<1>7. n' = m /\ (m > 0 => from' = pos)
  BY <1>1, <1>2 DEF deliver
<1> QED
  BY <1>1, <1>3, <1>5, <1>6, <1>7 DEF IInv

(* Every way a buffer of b bytes is read keeps the handle in step and delivers *)
(* the bytes at the current position.                                         *)
LEMMA ReadAny ==
  ASSUME IInv, NEW b \in Nat, ReadSniff(b) \/ ReadFirst(b) \/ ReadReopen(b) \/ ReadStream(b)
  PROVE  /\ IInv'
         /\ n' \in Nat /\ (n' > 0 => from' = pos) /\ pos' = pos + n'
<1>1. CASE ReadSniff(b)
  <2> DEFINE m == Least(b, sniff.len - sniff.pos)
  <2>1. sniff.has /\ sniff.pos = pos /\ pos < sniff.len
    BY <1>1 DEF ReadSniff, InSniff, IInv, InStep
  <2>2. /\ deliver(sniff.pos, m, sniff.gen)
        /\ sniff' = [sniff EXCEPT !.pos = sniff.pos + m]
        /\ pos' = pos + m
        /\ UNCHANGED <<obj, reader, size, sizeKnown>>
    BY <1>1 DEF ReadSniff
  <2>3. m \in Nat /\ pos + m <= sniff.len /\ pos \in Nat /\ sniff \in Sniff
    BY <2>1 DEF Least, IInv, TypeOK, Sniff
  <2> HIDE DEF m
  <2>4. from' \in Nat /\ n' \in Nat /\ gen' \in 0 .. MaxGen
    <3>1. sniff.pos \in Nat /\ sniff.gen \in 0 .. MaxGen
      BY <2>3 DEF Sniff
    <3> QED
      BY <2>2, <2>3, <3>1, DeliverType
  <2>5. sniff' \in Sniff /\ sniff'.has = sniff.has /\ sniff'.len = sniff.len
        /\ sniff'.pos = pos'
    <3>1. sniff.pos + m \in Nat /\ sniff.pos + m = pos'
      BY <2>1, <2>2, <2>3 DEF Sniff
    <3>2. sniff' = [has |-> sniff.has, len |-> sniff.len, pos |-> sniff.pos + m,
                    gen |-> sniff.gen]
      BY <2>2, <2>3 DEF Sniff
    <3> QED
      BY <2>3, <3>1, <3>2 DEF Sniff
  <2>6. TypeOK'
    BY <2>2, <2>3, <2>4, <2>5 DEF IInv, TypeOK
  <2>7. reader # NoReader => reader.off = sniff.len
    BY <2>1 DEF IInv, InStep
  <2>8. InStep'
    <3>1. reader' # NoReader => reader'.off = sniff'.len
      BY <2>2, <2>5, <2>7
    <3>2. pos' <= sniff'.len /\ pos' \in Nat /\ sniff'.len \in Nat
      BY <2>2, <2>3, <2>5 DEF Sniff
    <3>3. ~(pos' < sniff'.len) => pos' = sniff'.len
      BY <3>2
    <3>4. sniff'.has
      BY <2>1, <2>5
    <3> QED
      BY <2>5, <3>1, <3>3, <3>4 DEF InStep
  <2>9. n' = m /\ (m > 0 => from' = pos)
    BY <2>1, <2>2, <2>3 DEF deliver
  <2> QED
    BY <2>2, <2>4, <2>6, <2>8, <2>9 DEF IInv
<1>2. CASE ReadFirst(b)
  <2> DEFINE opened == [gen |-> obj.gen, size |-> obj.size, off |-> 0]
  <2>1. PICK len \in Yields(opened, SniffSize) :
           /\ reader' = [opened EXCEPT !.off = len]
           /\ sniff' = [has |-> TRUE, len |-> len, pos |-> Least(b, len),
                        gen |-> obj.gen]
           /\ deliver(0, Least(b, len), obj.gen)
           /\ pos' = Least(b, len)
    BY <1>2 DEF ReadFirst
  <2>2. opened \in Reader /\ obj.gen \in 1 .. MaxGen /\ pos = 0
        /\ UNCHANGED <<obj, size, sizeKnown>>
    BY <1>2 DEF ReadFirst, IInv, TypeOK, Object, Reader
  <2>3. len \in Nat
    BY <2>2, YieldsType
  <2>4. Least(b, len) \in Nat /\ Least(b, len) <= len
    BY <2>3 DEF Least
  <2>5. from' \in Nat /\ n' \in Nat /\ gen' \in 0 .. MaxGen
    BY <2>1, <2>2, <2>4, DeliverType
  <2>6. reader' \in Reader /\ reader'.off = len
    BY <2>1, <2>2, <2>3 DEF Reader
  <2>7. TypeOK'
    BY <2>1, <2>2, <2>3, <2>4, <2>5, <2>6 DEF IInv, TypeOK, Sniff
  <2>8. InStep'
    BY <2>1, <2>3, <2>4, <2>6 DEF InStep
  <2>9. n' = Least(b, len) /\ (n' > 0 => from' = 0)
    BY <2>1, <2>4 DEF deliver
  <2> QED
    BY <2>1, <2>2, <2>4, <2>5, <2>7, <2>8, <2>9 DEF IInv
<1>3. CASE ReadReopen(b)
  <2>1. [gen |-> obj.gen, size |-> obj.size, off |-> pos] \in Reader
    BY DEF IInv, TypeOK, Object, Reader
  <2> QED
    BY <1>3, <2>1, OutsideSniff, ReadFromStep DEF ReadReopen
<1>4. CASE ReadStream(b)
  <2>1. ~(sniff.has /\ pos < sniff.len) /\ reader # NoReader
    BY <1>4, OutsideSniff DEF ReadStream
  <2>2. reader \in Reader /\ reader.off = pos
    BY <2>1 DEF IInv, TypeOK, InStep
  <2> QED
    BY <1>4, <2>1, <2>2, ReadFromStep DEF ReadStream
<1> QED
  BY <1>1, <1>2, <1>3, <1>4

(* So does every Read, one that cannot open a reader included.                *)
LEMMA ReadStep ==
  ASSUME IInv, Read
  PROVE  /\ IInv'
         /\ n' \in Nat /\ (n' > 0 => from' = pos) /\ pos' = pos + n'
<1>1. CASE ReadOpenFails
  BY <1>1 DEF ReadOpenFails, nothing, deliver, handle, IInv, TypeOK, InStep
<1>2. CASE \E b \in BufLens : ReadSniff(b) \/ ReadFirst(b) \/ ReadReopen(b) \/ ReadStream(b)
  <2>1. PICK b \in BufLens : ReadSniff(b) \/ ReadFirst(b) \/ ReadReopen(b) \/ ReadStream(b)
    BY <1>2
  <2>2. b \in Nat
    OBVIOUS
  <2> QED
    BY <2>1, <2>2, ReadAny
<1> QED
  BY <1>1, <1>2 DEF Read

-----------------------------------------------------------------------------
(* Moving the position to newPos, in the buffer, ahead by discarding, or by   *)
(* dropping the reader, keeps the handle in step.                             *)
LEMMA SeekToStep ==
  ASSUME IInv, NEW newPos \in Int, newPos >= 0 \/ ~BadSeeks, SeekTo(newPos)
  PROVE  pos' \in Nat /\ reader' \in Reader \cup {NoReader} /\ sniff' \in Sniff /\ InStep'
<1> USE DEF IInv
<1>0. newPos \in Nat
  BY DEF SeekTo
<1>1. CASE sniff.has /\ newPos < sniff.len
  <2>1. SeekInSniff(newPos)
    BY <1>0, <1>1 DEF SeekTo
  <2>2. sniff' \in Sniff /\ sniff'.has /\ sniff'.len = sniff.len /\ sniff'.pos = newPos
    BY <1>0, <1>1, <2>1 DEF SeekInSniff, TypeOK, Sniff
  <2>3. reader' # NoReader => reader' = reader /\ pos <= sniff.len
    BY <2>1 DEF SeekInSniff, TypeOK, Sniff
  <2>4. reader' # NoReader => reader'.off = sniff.len
    BY <1>1, <2>3 DEF TypeOK, InStep, Sniff
  <2> QED
    BY <1>0, <1>1, <2>1, <2>2, <2>3, <2>4 DEF SeekInSniff, TypeOK, InStep
<1>2. CASE ~(sniff.has /\ newPos < sniff.len)
  <2>1. SeekAhead(newPos)
    BY <1>0, <1>2 DEF SeekTo
  <2>2. pos' = newPos /\ sniff' = sniff /\ sniff \in Sniff
    BY <2>1 DEF SeekAhead, TypeOK
  <2>3. CASE reader' = NoReader
    BY <1>0, <1>2, <2>2, <2>3 DEF InStep
  <2>4. CASE CanSkip(newPos) /\ reader' = [reader EXCEPT !.off = reader.off + (newPos - pos)]
    <3>1. reader \in Reader /\ newPos - pos \in Nat /\ pos \in Nat
      BY <1>0, <2>4 DEF CanSkip, TypeOK
    <3>2. reader.off = pos
      BY <2>4, <3>1 DEF CanSkip, SniffFullyConsumed, InStep, TypeOK, Sniff
    <3>3. reader' \in Reader /\ reader'.off = newPos
      BY <1>0, <2>4, <3>1, <3>2 DEF Reader
    <3> QED
      BY <1>0, <1>2, <2>2, <3>3 DEF InStep
  <2> QED
    BY <2>1, <2>3, <2>4 DEF SeekAhead, Skips
<1> QED
  BY <1>1, <1>2

(* A Seek by any whence, failed ones included.                                *)
LEMMA SeekStep ==
  ASSUME ~BadSeeks, IInv, Seek
  PROVE  IInv' /\ pos' \in Nat /\ n' = 0
<1>0. from' \in Nat /\ n' = 0 /\ gen' \in 0 .. MaxGen
  BY DEF Seek, SeekFails, SeekStart, SeekCurrent, SeekEnd, nothing, deliver
<1>1. CASE SeekFails
  BY <1>0, <1>1 DEF SeekFails, handle, IInv, TypeOK, InStep
<1>2. ASSUME NEW off \in Offsets, SeekStart(off)
      PROVE  IInv' /\ pos' \in Nat
  <2>1. off \in Int /\ SeekTo(off) /\ UNCHANGED <<obj, size, sizeKnown>>
    BY <1>2 DEF SeekStart
  <2> QED
    BY <1>0, <2>1, SeekToStep DEF IInv, TypeOK
<1>3. ASSUME NEW off \in Offsets, SeekCurrent(off)
      PROVE  IInv' /\ pos' \in Nat
  <2>1. pos + off \in Int /\ SeekTo(pos + off) /\ UNCHANGED <<obj, size, sizeKnown>>
    BY <1>3 DEF SeekCurrent, IInv, TypeOK
  <2> QED
    BY <1>0, <2>1, SeekToStep DEF IInv, TypeOK
<1>4. ASSUME NEW off \in Offsets, SeekEnd(off)
      PROVE  IInv' /\ pos' \in Nat
  <2>1. PICK s \in IF sizeKnown THEN {size} ELSE Sizes : SeekTo(s + off) /\ size' = s
    BY <1>4 DEF SeekEnd
  <2>2. s \in Sizes \cup {0} /\ s + off \in Int /\ sizeKnown' = TRUE /\ obj' = obj
    BY <1>4, <2>1 DEF SeekEnd, IInv, TypeOK
  <2> QED
    BY <1>0, <2>1, <2>2, SeekToStep DEF IInv, TypeOK
<1> QED
  BY <1>0, <1>1, <1>2, <1>3, <1>4 DEF Seek, IInv, TypeOK, SeekFails, handle

(* Closing drops the reader; another program's overwrite touches no handle.   *)
LEMMA OtherStep ==
  ASSUME IInv, Close \/ Overwrite
  PROVE  IInv'
<1>1. CASE Close
  BY <1>1 DEF Close, nothing, deliver, IInv, TypeOK, InStep
<1>2. CASE Overwrite
  <2>1. obj' \in Object /\ UNCHANGED <<handle, from, n, gen>>
    BY <1>2 DEF Overwrite, IInv, TypeOK, Object
  <2> QED
    BY <2>1 DEF handle, IInv, TypeOK, InStep
<1> QED
  BY <1>1, <1>2

(* The invariant is inductive.                                                *)
LEMMA NextIInv ==
  ASSUME ~BadSeeks, IInv, [Next]_vars
  PROVE  IInv'
<1>1. CASE UNCHANGED vars
  BY <1>1 DEF vars, handle, IInv, TypeOK, InStep
<1> QED
  BY <1>1, ReadStep, SeekStep, OtherStep DEF Next

(* Freshly opened, nothing has been read.                                     *)
LEMMA InitIInv == Init => IInv
<1> SUFFICES ASSUME Init
             PROVE  IInv
  OBVIOUS
<1>1. obj \in Object
  BY DEF Init, Object
<1>2. sniff \in Sniff /\ ~ sniff.has
  BY DEF Init, Sniff
<1>3. reader = NoReader /\ pos = 0 /\ size = 0 /\ sizeKnown = FALSE
      /\ from = 0 /\ n = 0 /\ gen = 0
  BY DEF Init
<1>4. TypeOK
  <2>1. 0 \in 0 .. MaxGen
    OBVIOUS
  <2> QED
    BY <1>1, <1>2, <1>3, <2>1 DEF TypeOK
<1> QED
  BY <1>2, <1>3, <1>4 DEF IInv, InStep

(* The invariant holds in every reachable state.                              *)
LEMMA Inductive ==
  ASSUME ~BadSeeks
  PROVE  Spec => []IInv
<1>1. IInv /\ [Next]_vars => IInv'
  BY NextIInv
<1> QED
  BY <1>1, InitIInv, PTL DEF Spec

(* Every field of a handle that is never sought to before its start keeps its *)
(* type: in particular the position and the buffer's cursor never get below   *)
(* zero.                                                                      *)
THEOREM TypeCorrect ==
  ASSUME ~BadSeeks
  PROVE  Spec => []TypeOK
<1>1. IInv => TypeOK
  BY DEF IInv
<1> QED
  BY <1>1, Inductive, PTL

(* The agreement of reader, sniff buffer and position holds in every          *)
(* reachable state of a handle that is never sought to before its start       *)
(* (gcsfs.go, Read and Seek).                                                 *)
THEOREM HandleInStep ==
  ASSUME ~BadSeeks
  PROVE  Spec => []InStep
<1>1. IInv => InStep
  BY DEF IInv
<1> QED
  BY <1>1, Inductive, PTL

(* The handle implements io.ReadSeeker: whatever serves a Read (buffer, kept, *)
(* skipped-ahead or reopened reader), the bytes are those at the position the *)
(* previous operations left.                                                  *)
THEOREM Refinement ==
  ASSUME ~BadSeeks
  PROVE  Spec => ImplementsReadSeeker
<1>1. Init => Abstract!Init
  BY DEF Init, Abstract!Init
<1>2. IInv /\ [Next]_vars => [Abstract!Next]_<<pos, from, n>>
  <2> SUFFICES ASSUME IInv, [Next]_vars
               PROVE  Abstract!Next \/ UNCHANGED <<pos, from, n>>
    OBVIOUS
  <2>1. CASE Read
    BY <2>1, ReadStep DEF Abstract!Next, Abstract!Read
  <2>2. CASE Seek
    BY <2>2, SeekStep DEF Abstract!Next, Abstract!Seek
  <2>3. CASE Close
    BY <2>3 DEF Close, nothing, deliver, IInv, TypeOK, Abstract!Next, Abstract!Seek
  <2>4. CASE Overwrite \/ UNCHANGED vars
    BY <2>4 DEF Overwrite, vars, handle
  <2> QED
    BY <2>1, <2>2, <2>3, <2>4 DEF Next
<1>3. IInv /\ [Next]_vars => IInv'
  BY NextIInv
<1> QED
  BY <1>1, <1>2, <1>3, InitIInv, PTL DEF Spec, ImplementsReadSeeker, Abstract!Spec

-----------------------------------------------------------------------------
\* A GET.  What each phase of ServeContent has.
ServeType ==
  /\ phase \in {"guess", "guessRewind", "size", "sizeRewind", "range", "body", "finish", "done"}
  /\ guess \in BOOLEAN /\ start \in Nat /\ opens \in Nat /\ sent \in Nat

Before == {"guess", "guessRewind", "size", "sizeRewind", "range"}

PhaseInv ==
  /\ phase \in {"guess", "guessRewind"} => guess
  /\ phase = "range" => pos = 0
  /\ phase \in Before => sent = 0 /\ sentGens = {}
  /\ phase = "body" => pos = start + sent

\* Before the body a reader is opened only to fill the buffer, for a guess; in
\* the body only when there is none, and never within the buffered bytes.
OpenInv ==
  /\ phase \in Before => /\ opens <= IF sniff.has THEN 1 ELSE 0
                         /\ ~sniff.has => reader = NoReader
                         /\ ~guess => ~sniff.has
  /\ phase = "guess" => IF sniff.has THEN reader # NoReader ELSE pos = 0
  /\ phase = "body" =>
       /\ ~guess /\ sniff.has => reader # NoReader
       /\ reader = NoReader => opens <= IF guess /\ sniff.has THEN 1 ELSE 0
       /\ reader # NoReader => opens <= IF guess /\ sniff.has THEN 2 ELSE 1
       /\ size <= sniff.len => opens <= 1

\* The body begins in the buffer of a guess.
Kept == guess /\ sniff.has /\ start < sniff.len

\* What was sent comes from the open reader, which is also the buffer's; where
\* the body begins in the buffer of a guess and ends in it, from the buffer.
BodyInv ==
  phase = "body" =>
    /\ ~Kept /\ reader = NoReader => sentGens = {}
    /\ ~Kept /\ reader # NoReader =>
          /\ sentGens \subseteq {reader.gen}
          /\ sniff.has /\ pos < sniff.len => reader.gen = sniff.gen
    /\ Kept /\ size <= sniff.len => sentGens \subseteq {sniff.gen}

SInv ==
  /\ IInv /\ ServeType /\ PhaseInv /\ OpenInv /\ BodyInv
  /\ ReadersPerGet /\ BodyOneGeneration /\ BodyContiguous

-----------------------------------------------------------------------------
\* What a read does to reader and buffer: it is served from the buffer, it fills
\* the buffer, or it goes to a reader, kept or reopened.
FromBuffer ==
  /\ sniff.has /\ pos < sniff.len /\ reader' = reader
  /\ sniff'.has /\ sniff'.len = sniff.len /\ sniff'.gen = sniff.gen
  /\ n' > 0 => gen' = sniff.gen

FillsBuffer ==
  /\ ~sniff.has /\ reader = NoReader /\ pos = 0
  /\ reader' \in Reader /\ sniff'.has /\ reader'.gen = sniff'.gen
  /\ sniff'.len \in Nat /\ n' <= sniff'.len
  /\ n' > 0 => gen' = reader'.gen

FromReader ==
  /\ ~(sniff.has /\ pos < sniff.len) /\ sniff' = sniff /\ reader' \in Reader
  /\ reader = NoReader => pos # 0 \/ sniff.has
  /\ reader # NoReader => reader'.gen = reader.gen
  /\ n' > 0 => gen' = reader'.gen

(* What a reader that is asked for b bytes delivers. *)
LEMMA ReaderEffect ==
  ASSUME NEW r \in Reader, NEW b \in Nat, ReadFrom(r, b)
  PROVE  /\ reader' \in Reader /\ reader'.gen = r.gen
         /\ n' > 0 => gen' = reader'.gen
<1>1. PICK m \in Yields(r, b) : /\ reader' = [r EXCEPT !.off = r.off + m]
                                /\ deliver(r.off, m, r.gen)
  BY DEF ReadFrom
<1>2. m \in Nat /\ r.off + m \in Nat
  <2>1. m \in Nat
    BY YieldsType
  <2>2. r.off \in Nat
    BY DEF Reader
  <2> QED
    BY <2>1, <2>2
<1>3. reader' \in Reader /\ reader'.gen = r.gen
  BY <1>1, <1>2 DEF Reader
<1>4. n' = m /\ (m > 0 => gen' = r.gen)
  BY <1>1, <1>2 DEF deliver
<1> QED
  BY <1>3, <1>4

(* Every read is one of the three. *)
LEMMA ReadEffect ==
  ASSUME IInv, NEW b \in Nat, ReadUpTo(b)
  PROVE  FromBuffer \/ FillsBuffer \/ FromReader
<1>1. CASE ReadSniff(b)
  <2> DEFINE m == Least(b, sniff.len - sniff.pos)
  <2>1. sniff.has /\ pos < sniff.len /\ reader' = reader
    BY <1>1 DEF ReadSniff, InSniff
  <2>2. sniff' = [sniff EXCEPT !.pos = sniff.pos + m] /\ deliver(sniff.pos, m, sniff.gen)
    BY <1>1 DEF ReadSniff
  <2>3. sniff \in Sniff
    BY DEF IInv, TypeOK
  <2> HIDE DEF m
  <2>4. sniff'.has = sniff.has /\ sniff'.len = sniff.len /\ sniff'.gen = sniff.gen
    BY <2>2, <2>3 DEF Sniff
  <2>5. n' = m /\ (m # 0 => gen' = sniff.gen)
    BY <2>2 DEF deliver
  <2> QED
    BY <2>1, <2>4, <2>5 DEF FromBuffer
<1>2. CASE ReadFirst(b)
  <2> DEFINE opened == [gen |-> obj.gen, size |-> obj.size, off |-> 0]
  <2>1. PICK len \in Yields(opened, SniffSize) :
           /\ reader' = [opened EXCEPT !.off = len]
           /\ sniff' = [has |-> TRUE, len |-> len, pos |-> Least(b, len),
                        gen |-> obj.gen]
           /\ deliver(0, Least(b, len), obj.gen)
    BY <1>2 DEF ReadFirst
  <2>2. opened \in Reader /\ pos = 0 /\ ~sniff.has /\ reader = NoReader
    BY <1>2 DEF ReadFirst, IInv, TypeOK, Object, Reader
  <2>3. len \in Nat
    BY <2>2, YieldsType
  <2>4. reader' \in Reader /\ reader'.gen = obj.gen
    BY <2>1, <2>2, <2>3 DEF Reader
  <2>5. sniff'.has /\ sniff'.len = len /\ sniff'.gen = obj.gen
    BY <2>1
  <2>6. n' = Least(b, len) /\ (n' # 0 => gen' = obj.gen) /\ Least(b, len) <= len
    BY <2>1, <2>3 DEF deliver, Least
  <2> QED
    BY <2>2, <2>3, <2>4, <2>5, <2>6 DEF FillsBuffer
<1>3. CASE ReadReopen(b)
  <2> DEFINE r == [gen |-> obj.gen, size |-> obj.size, off |-> pos]
  <2>1. r \in Reader
    BY DEF IInv, TypeOK, Object, Reader
  <2>2. ReadFrom(r, b) /\ reader = NoReader /\ sniff' = sniff /\ (pos # 0 \/ sniff.has)
    BY <1>3 DEF ReadReopen
  <2>3. ~(sniff.has /\ pos < sniff.len)
    BY <1>3, OutsideSniff DEF ReadReopen
  <2> HIDE DEF r
  <2>4. reader' \in Reader /\ (n' > 0 => gen' = reader'.gen)
    BY <2>1, <2>2, ReaderEffect
  <2> QED
    BY <2>2, <2>3, <2>4 DEF FromReader
<1>4. CASE ReadStream(b)
  <2>1. ~(sniff.has /\ pos < sniff.len) /\ reader # NoReader
    BY <1>4, OutsideSniff DEF ReadStream
  <2>2. reader \in Reader /\ ReadFrom(reader, b) /\ sniff' = sniff
    BY <1>4, <2>1 DEF ReadStream, IInv, TypeOK
  <2>3. /\ reader' \in Reader /\ reader'.gen = reader.gen
        /\ n' > 0 => gen' = reader'.gen
    BY <2>2, ReaderEffect
  <2> QED
    BY <2>1, <2>2, <2>3 DEF FromReader
<1> QED
  BY <1>1, <1>2, <1>3, <1>4 DEF ReadUpTo

(* What a seek to p does to the buffer and the reader: it opens none.          *)
LEMMA SeekEffect ==
  ASSUME IInv, NEW p \in Nat, SeekTo(p)
  PROVE  /\ pos' = p
         /\ sniff'.has = sniff.has /\ sniff'.len = sniff.len /\ sniff'.gen = sniff.gen
         /\ reader = NoReader => reader' = NoReader
<1>0. sniff \in Sniff
  BY DEF IInv, TypeOK
<1>1. CASE sniff.has /\ p < sniff.len
  <2>1. /\ pos' = p /\ sniff' = [sniff EXCEPT !.pos = p]
        /\ reader' = IF pos > sniff.len THEN NoReader ELSE reader
    BY <1>1 DEF SeekTo, SeekInSniff
  <2>2. sniff'.has = sniff.has /\ sniff'.len = sniff.len /\ sniff'.gen = sniff.gen
    BY <1>0, <2>1 DEF Sniff
  <2> QED
    BY <2>1, <2>2
<1>2. CASE ~(sniff.has /\ p < sniff.len)
  BY <1>2 DEF SeekTo, SeekAhead, Skips, CanSkip
<1> QED
  BY <1>1, <1>2

-----------------------------------------------------------------------------
(* What a step leaves of the request, and the counting of opened readers.      *)
LEMMA CountEffect ==
  ASSUME ServeType, CountOpens, UNCHANGED request
  PROVE  /\ opens' \in Nat /\ start' = start /\ guess' = guess
         /\ reader = NoReader /\ reader' # NoReader => opens' = opens + 1
         /\ ~(reader = NoReader /\ reader' # NoReader) => opens' = opens
BY DEF CountOpens, request, ServeType

(* A step before the body sends nothing. *)
LEMMA QuietStep ==
  ASSUME SInv, IInv', phase \in Before, phase' \in Before \cup {"body", "finish"},
         opens' \in Nat, start' = start, guess' = guess, sent' = sent, sentGens' = sentGens,
         phase' \in {"guess", "guessRewind"} => guess,
         phase' = "range" => pos' = 0,
         phase' = "body" => pos' = start /\ n' = 0 /\ (~guess => ~sniff'.has),
         opens' <= 1, OpenInv'
  PROVE  SInv'
<1>1. ServeType /\ PhaseInv
  BY DEF SInv
<1>2. sent = 0 /\ sentGens = {}
  BY <1>1 DEF PhaseInv
<1>3. ServeType'
  BY <1>1 DEF ServeType, Before
<1>4. PhaseInv'
  BY <1>1, <1>2 DEF PhaseInv, ServeType
<1>5. BodyContiguous' /\ BodyOneGeneration'
  BY <1>2 DEF BodyContiguous, BodyOneGeneration, Before
<1>6. ReadersPerGet'
  BY <1>3 DEF ReadersPerGet, ServeType
<1>7. BodyInv'
  BY <1>2 DEF BodyInv, Kept
<1> QED
  BY <1>3, <1>4, <1>5, <1>6, <1>7 DEF SInv

(* A read for the content type opens a reader once, to fill the buffer; a      *)
(* failed one leaves everything as it was.                                     *)
LEMMA GuessRead ==
  ASSUME SInv, GuessStep
  PROVE  SInv'
<1>1. IInv /\ ServeType /\ phase = "guess" /\ guess /\ phase \in Before /\ pos < SniffSize
      /\ pos \in Nat
  BY DEF SInv, PhaseInv, GuessStep, Before, IInv, TypeOK
<1>2. /\ phase' \in {"guess", "guessRewind"}
      /\ CountOpens /\ UNCHANGED request /\ sent' = sent /\ sentGens' = sentGens
  BY DEF GuessStep, Quiet
<1>3. /\ opens' \in Nat /\ start' = start /\ guess' = guess
      /\ reader = NoReader /\ reader' # NoReader => opens' = opens + 1
      /\ ~(reader = NoReader /\ reader' # NoReader) => opens' = opens
  BY <1>1, <1>2, CountEffect
<1>4. /\ opens <= IF sniff.has THEN 1 ELSE 0
      /\ ~sniff.has => reader = NoReader
      /\ IF sniff.has THEN reader # NoReader ELSE pos = 0
      /\ opens \in Nat
  BY <1>1 DEF SInv, OpenInv, ServeType
<1>5. CASE ReadUpTo(SniffSize - pos)
  <2>1. SniffSize - pos \in Nat
    BY <1>1
  <2>2. IInv'
    BY <1>1, <1>5, <2>1, ReadAny DEF ReadUpTo
  <2>3. FromBuffer \/ FillsBuffer \/ FromReader
    BY <1>1, <1>5, <2>1, ReadEffect
  <2>4. sniff'.has /\ reader' # NoReader /\ opens' <= 1
    <3>1. CASE FromBuffer
      BY <1>3, <1>4, <3>1 DEF FromBuffer
    <3>2. CASE FillsBuffer
      BY <1>3, <1>4, <3>2 DEF FillsBuffer
    <3>3. CASE FromReader
      BY <1>3, <1>4, <3>3 DEF FromReader
    <3> QED
      BY <2>3, <3>1, <3>2, <3>3
  <2>5. OpenInv'
    BY <1>1, <1>2, <1>3, <2>4 DEF OpenInv
  <2> QED
    BY <1>1, <1>2, <1>3, <2>2, <2>4, <2>5, QuietStep DEF Before
<1>6. CASE ReadOpenFails /\ phase' = "guessRewind"
  <2>1. reader' = reader /\ sniff' = sniff
    BY <1>6 DEF ReadOpenFails, handle
  <2>2. IInv'
    BY <1>1, <1>6 DEF ReadOpenFails, nothing, deliver, handle, IInv, TypeOK, InStep
  <2>3. opens' <= 1 /\ OpenInv'
    BY <1>1, <1>3, <1>4, <1>6, <2>1 DEF OpenInv
  <2> QED
    BY <1>1, <1>2, <1>3, <2>2, <2>3, QuietStep DEF Before
<1> QED
  BY <1>5, <1>6 DEF GuessStep

(* The read for the content type has ended: nothing moves.                     *)
LEMMA GuessStops ==
  ASSUME SInv, GuessEnds
  PROVE  SInv'
<1>1. IInv /\ ServeType /\ phase = "guess" /\ guess /\ phase \in Before
  BY DEF SInv, PhaseInv, GuessEnds, Before
<1>2. /\ phase' = "guessRewind" /\ start' = start /\ guess' = guess
      /\ opens' = opens /\ sent' = sent /\ sentGens' = sentGens
      /\ reader' = reader /\ sniff' = sniff /\ pos' = pos
  BY DEF GuessEnds, vars, handle, request
<1>3. IInv'
  BY <1>1 DEF GuessEnds, vars, handle, IInv, TypeOK, InStep
<1>4. opens' \in Nat /\ opens' <= 1 /\ OpenInv'
  BY <1>1, <1>2 DEF SInv, OpenInv, ServeType
<1> QED
  BY <1>1, <1>2, <1>3, <1>4, QuietStep DEF Before

(* The seeks before the body (after the guess, to the end and back, to the     *)
(* start of the range) may close the reader and never open one.                *)
LEMMA SeekQuiet ==
  ASSUME SInv, IInv', phase \in Before,
         phase' \in {"size", "sizeRewind", "range", "body", "finish"},
         CountOpens, UNCHANGED request, sent' = sent, sentGens' = sentGens,
         sniff'.has = sniff.has, sniff'.len = sniff.len,
         reader = NoReader => reader' = NoReader,
         phase' = "range" => pos' = 0,
         phase' = "body" => pos' = start /\ n' = 0
  PROVE  SInv'
<1>1. ServeType /\ OpenInv
  BY DEF SInv
<1>2. opens' \in Nat /\ start' = start /\ guess' = guess /\ opens' = opens
  BY <1>1, CountEffect
<1>3. /\ opens <= IF sniff.has THEN 1 ELSE 0
      /\ ~sniff.has => reader = NoReader
      /\ ~guess => ~sniff.has
      /\ opens \in Nat /\ opens <= 1
  BY <1>1 DEF OpenInv, ServeType
<1>4. OpenInv'
  BY <1>2, <1>3 DEF OpenInv, Before
<1> QED
  BY <1>2, <1>3, <1>4, QuietStep DEF Before

(* The two rewinds. *)
LEMMA Rewinds ==
  ASSUME SInv, GuessRewind \/ SizeRewind
  PROVE  SInv'
<1>1. IInv /\ phase \in Before /\ phase' \in {"size", "range"} /\ SeekStart(0)
      /\ CountOpens /\ UNCHANGED request /\ sent' = sent /\ sentGens' = sentGens
  BY DEF SInv, GuessRewind, SizeRewind, Quiet, Before
<1>2. SeekTo(0) /\ nothing /\ UNCHANGED <<obj, size, sizeKnown>>
  BY <1>1 DEF SeekStart
<1>3. from' \in Nat /\ n' = 0 /\ gen' \in 0 .. MaxGen
  BY <1>2 DEF nothing, deliver
<1>4. pos' \in Nat /\ reader' \in Reader \cup {NoReader} /\ sniff' \in Sniff /\ InStep'
  BY <1>1, <1>2, SeekToStep
<1>5. IInv'
  BY <1>1, <1>2, <1>3, <1>4 DEF IInv, TypeOK
<1>6. /\ pos' = 0 /\ sniff'.has = sniff.has /\ sniff'.len = sniff.len
      /\ reader = NoReader => reader' = NoReader
  BY <1>1, <1>2, SeekEffect
<1> QED
  BY <1>1, <1>5, <1>6, SeekQuiet

(* The seek to the end, and its failure. *)
LEMMA SizeSeek ==
  ASSUME SInv, SizeStep
  PROVE  SInv'
<1>1. IInv /\ phase \in Before /\ phase' \in {"sizeRewind", "finish"}
      /\ CountOpens /\ UNCHANGED request /\ sent' = sent /\ sentGens' = sentGens
  BY DEF SInv, SizeStep, Quiet, Before
<1>2. CASE SeekEnd(0)
  <2>1. PICK s \in IF sizeKnown THEN {size} ELSE Sizes : SeekTo(s + 0) /\ size' = s
    BY <1>2 DEF SeekEnd
  <2>2. s \in Sizes \cup {0} /\ s \in Nat /\ s + 0 = s /\ sizeKnown' = TRUE /\ obj' = obj
    BY <1>1, <1>2, <2>1 DEF SeekEnd, IInv, TypeOK
  <2>3. SeekTo(s)
    BY <2>1, <2>2
  <2>4. from' \in Nat /\ n' = 0 /\ gen' \in 0 .. MaxGen
    BY <1>2 DEF SeekEnd, nothing, deliver
  <2>5. pos' \in Nat /\ reader' \in Reader \cup {NoReader} /\ sniff' \in Sniff /\ InStep'
    BY <1>1, <2>2, <2>3, SeekToStep
  <2>6. IInv'
    BY <1>1, <2>1, <2>2, <2>4, <2>5 DEF IInv, TypeOK
  <2>7. /\ sniff'.has = sniff.has /\ sniff'.len = sniff.len
        /\ reader = NoReader => reader' = NoReader
    BY <1>1, <2>2, <2>3, SeekEffect
  <2> QED
    BY <1>1, <2>6, <2>7, SeekQuiet
<1>3. CASE SeekFails
  <2>1. IInv' /\ reader' = reader /\ sniff' = sniff
    BY <1>1, <1>3 DEF SeekFails, nothing, deliver, handle, IInv, TypeOK, InStep
  <2> QED
    BY <1>1, <2>1, SeekQuiet
<1> QED
  BY <1>2, <1>3 DEF SizeStep

(* The seek to the start of the range, or none without a Range header.         *)
LEMMA RangeSeek ==
  ASSUME SInv, RangeStep
  PROVE  SInv'
<1>1. IInv /\ phase \in Before /\ phase' = "body" /\ pos = 0 /\ start \in Nat
      /\ CountOpens /\ UNCHANGED request /\ sent' = sent /\ sentGens' = sentGens
  BY DEF SInv, PhaseInv, ServeType, RangeStep, Quiet, Before
<1>2. CASE start = 0 /\ nothing /\ UNCHANGED <<obj, handle>>
  <2>1. /\ IInv' /\ n' = 0 /\ pos' = start
        /\ reader' = reader /\ sniff' = sniff
    BY <1>1, <1>2 DEF nothing, deliver, handle, IInv, TypeOK, InStep
  <2> QED
    BY <1>1, <2>1, SeekQuiet
<1>3. CASE SeekStart(start)
  <2>1. SeekTo(start) /\ nothing /\ UNCHANGED <<obj, size, sizeKnown>>
    BY <1>3 DEF SeekStart
  <2>2. from' \in Nat /\ n' = 0 /\ gen' \in 0 .. MaxGen
    BY <2>1 DEF nothing, deliver
  <2>3. pos' \in Nat /\ reader' \in Reader \cup {NoReader} /\ sniff' \in Sniff /\ InStep'
    BY <1>1, <2>1, SeekToStep
  <2>4. IInv'
    BY <1>1, <2>1, <2>2, <2>3 DEF IInv, TypeOK
  <2>5. /\ pos' = start /\ sniff'.has = sniff.has /\ sniff'.len = sniff.len
        /\ reader = NoReader => reader' = NoReader
    BY <1>1, <2>1, SeekEffect
  <2> QED
    BY <1>1, <2>2, <2>4, <2>5, SeekQuiet
<1> QED
  BY <1>2, <1>3 DEF RangeStep

-----------------------------------------------------------------------------
(* A read that delivers body bytes: a reader is opened only where there is     *)
(* none, and not for bytes the buffer holds; what was sent and what comes      *)
(* now have one generation, or the body has left the buffer of a guess.        *)
LEMMA BodyCopy ==
  ASSUME SInv, phase = "body", start + sent < size, NEW b \in Nat, ReadUpTo(b),
         CountOpens, UNCHANGED request, size' = size, sent' = sent + n',
         phase' = IF n' = 0 THEN "finish" ELSE "body",
         sentGens' = IF n' > 0 THEN sentGens \cup {gen'} ELSE sentGens
  PROVE  SInv'
<1>1. /\ IInv /\ ServeType /\ OpenInv /\ BodyInv /\ ReadersPerGet /\ BodyOneGeneration
      /\ pos = start + sent /\ pos \in Nat /\ start \in Nat /\ sent \in Nat /\ opens \in Nat
      /\ size \in Nat /\ sniff.len \in Nat /\ guess \in BOOLEAN
  BY DEF SInv, PhaseInv, ServeType, IInv, TypeOK, Sniff
<1>2. IInv' /\ n' \in Nat /\ (n' > 0 => from' = pos) /\ pos' = pos + n'
  BY <1>1, ReadAny DEF ReadUpTo
<1>3. FromBuffer \/ FillsBuffer \/ FromReader
  BY <1>1, ReadEffect
<1>4. /\ opens' \in Nat /\ start' = start /\ guess' = guess
      /\ reader = NoReader /\ reader' # NoReader => opens' = opens + 1
      /\ ~(reader = NoReader /\ reader' # NoReader) => opens' = opens
  BY <1>1, CountEffect
<1>5. ServeType' /\ PhaseInv' /\ BodyContiguous'
  <2>1. ServeType'
    <3>1. phase' \in {"body", "finish"}
      OBVIOUS
    <3>2. sent' \in Nat
      <4>1. \A x, y \in Nat : x + y \in Nat
        OBVIOUS
      <4> QED
        BY <1>1, <1>2, <4>1, Zenon
    <3> QED
      BY <1>1, <1>4, <3>1, <3>2 DEF ServeType
  <2>2. pos' = start' + sent'
    BY <1>1, <1>2, <1>4
  <2>3. PhaseInv'
    BY <2>2 DEF PhaseInv, Before
  <2>4. BodyContiguous'
    BY <1>1, <1>2, <1>4 DEF BodyContiguous
  <2> QED
    BY <2>1, <2>3, <2>4
<1>6. /\ ~guess /\ sniff.has => reader # NoReader
      /\ reader = NoReader => opens <= IF guess /\ sniff.has THEN 1 ELSE 0
      /\ reader # NoReader => opens <= IF guess /\ sniff.has THEN 2 ELSE 1
      /\ size <= sniff.len => opens <= 1
  BY <1>1 DEF OpenInv
<1>7. sniff'.len \in Nat /\ (sniff.has => sniff'.has) /\ (sniff.has => sniff'.len = sniff.len)
  BY <1>1, <1>3 DEF FromBuffer, FillsBuffer, FromReader
<1>8. /\ ~guess /\ sniff'.has => reader' # NoReader
      /\ reader' = NoReader => opens' <= IF guess /\ sniff'.has THEN 1 ELSE 0
      /\ reader' # NoReader => opens' <= IF guess /\ sniff'.has THEN 2 ELSE 1
      /\ size <= sniff'.len => opens' <= 1
  <2>1. CASE FromBuffer
    BY <1>1, <1>4, <1>6, <2>1 DEF FromBuffer
  <2>2. CASE FillsBuffer
    <3>1. opens = 0 /\ opens' = 1 /\ reader' # NoReader
      BY <1>1, <1>4, <1>6, <2>2 DEF FillsBuffer
    <3> QED
      BY <3>1
  <2>3. CASE FromReader
    <3>1. reader' # NoReader /\ sniff' = sniff
      BY <2>3 DEF FromReader
    <3>2. ~(sniff.has /\ size <= sniff.len)
      BY <1>1, <2>3 DEF FromReader
    <3>3. CASE reader = NoReader
      BY <1>1, <1>4, <1>6, <3>1, <3>2, <3>3
    <3>4. CASE reader # NoReader
      BY <1>1, <1>4, <1>6, <3>1, <3>4
    <3> QED
      BY <3>3, <3>4
  <2> QED
    BY <1>3, <2>1, <2>2, <2>3
<1>9. OpenInv' /\ ReadersPerGet'
  <2>1. OpenInv'
    BY <1>4, <1>8 DEF OpenInv, Before
  <2>2. ReadersPerGet'
    <3>1. opens' <= 2 /\ (~guess => opens' <= 1) /\ (size <= sniff'.len => opens' <= 1)
      BY <1>4, <1>8
    <3> QED
      BY <1>1, <1>4, <1>7, <3>1 DEF ReadersPerGet, Resumed
  <2> QED
    BY <2>1, <2>2
<1>10. /\ ~Kept /\ reader = NoReader => sentGens = {}
       /\ ~Kept /\ reader # NoReader =>
             /\ sentGens \subseteq {reader.gen}
             /\ sniff.has /\ pos < sniff.len => reader.gen = sniff.gen
       /\ Kept /\ size <= sniff.len => sentGens \subseteq {sniff.gen}
  BY <1>1 DEF BodyInv
<1>11. CASE n' = 0
  <2>1. phase' = "finish" /\ sentGens' = sentGens
    BY <1>11
  <2>2. BodyInv'
    BY <2>1 DEF BodyInv
  <2>3. BodyOneGeneration'
    <3>1. CASE FillsBuffer
      <4>1. sentGens = {}
        BY <1>10, <3>1 DEF FillsBuffer, Kept
      <4> QED
        BY <2>1, <4>1 DEF BodyOneGeneration
    <3>2. CASE FromBuffer \/ FromReader
      <4>1. sniff'.len = sniff.len
        BY <3>2 DEF FromBuffer, FromReader
      <4> QED
        BY <1>1, <1>4, <2>1, <4>1 DEF BodyOneGeneration, Resumed
    <3> QED
      BY <1>3, <3>1, <3>2
  <2> QED
    BY <1>2, <1>5, <1>9, <2>2, <2>3 DEF SInv
<1>12. CASE n' > 0
  <2>1. sentGens' = sentGens \cup {gen'} /\ phase' = "body"
    BY <1>12
  <2>2. /\ ~Kept' => reader' # NoReader /\ sentGens' \subseteq {reader'.gen}
        /\ ~Kept' /\ sniff'.has /\ pos' < sniff'.len => reader'.gen = sniff'.gen
        /\ Kept' /\ size <= sniff'.len => sentGens' \subseteq {sniff'.gen}
    <3>1. CASE FromBuffer
      <4>1. (Kept' <=> Kept) /\ gen' = sniff.gen /\ sniff'.gen = sniff.gen /\ reader' = reader
            /\ sniff'.len = sniff.len
        BY <1>4, <1>12, <3>1 DEF FromBuffer, Kept
      <4>2. CASE ~Kept
        <5>1. ~guess
          BY <1>1, <3>1, <4>2 DEF FromBuffer, Kept
        <5>2. reader # NoReader /\ reader.gen = sniff.gen /\ sentGens \subseteq {reader.gen}
          BY <1>6, <1>10, <3>1, <4>2, <5>1 DEF FromBuffer
        <5> QED
          BY <2>1, <4>1, <4>2, <5>2
      <4>3. CASE Kept
        BY <1>10, <2>1, <4>1, <4>3
      <4> QED
        BY <4>2, <4>3
    <3>2. CASE FillsBuffer
      <4>1. sentGens = {}
        BY <1>10, <3>2 DEF FillsBuffer, Kept
      <4>2. gen' = reader'.gen /\ reader'.gen = sniff'.gen /\ reader' # NoReader
        BY <1>12, <3>2 DEF FillsBuffer
      <4> QED
        BY <2>1, <4>1, <4>2
    <3>3. CASE FromReader
      <4>1. (Kept' <=> Kept) /\ sniff' = sniff /\ gen' = reader'.gen /\ reader' # NoReader
        BY <1>4, <1>12, <3>3 DEF FromReader, Kept
      <4>2. ~(sniff.has /\ pos < sniff.len) /\ (reader # NoReader => reader'.gen = reader.gen)
        BY <3>3 DEF FromReader
      <4>3. ~Kept => sentGens \subseteq {reader'.gen}
        BY <1>10, <4>2
      <4>4. ~(sniff'.has /\ pos' < sniff'.len)
        BY <1>1, <1>2, <4>1, <4>2
      <4>5. ~(Kept /\ size <= sniff.len)
        BY <1>1, <4>2 DEF Kept
      <4> QED
        BY <2>1, <4>1, <4>3, <4>4, <4>5
    <3> QED
      BY <1>3, <3>1, <3>2, <3>3
  <2>3. BodyInv'
    BY <2>2 DEF BodyInv
  <2>4. BodyOneGeneration'
    <3>1. CASE ~Kept'
      BY <2>2, <3>1 DEF BodyOneGeneration
    <3>2. CASE Kept' /\ size <= sniff'.len
      BY <2>2, <3>2 DEF BodyOneGeneration
    <3>3. CASE Kept' /\ ~(size <= sniff'.len)
      <4>1. Resumed' /\ start' < sniff'.len
        BY <1>1, <1>7, <3>3 DEF Kept, Resumed
      <4> QED
        BY <4>1 DEF BodyOneGeneration
    <3> QED
      BY <3>1, <3>2, <3>3
  <2> QED
    BY <1>2, <1>5, <1>9, <2>3, <2>4 DEF SInv
<1> QED
  BY <1>2, <1>11, <1>12

(* A read of the body, one that cannot open a reader included.                 *)
LEMMA BodyRead ==
  ASSUME SInv, BodyStep
  PROVE  SInv'
<1>1. /\ IInv /\ ServeType /\ phase = "body" /\ start + sent < size
      /\ start \in Nat /\ sent \in Nat /\ size \in Nat
  BY DEF SInv, BodyStep, ServeType, IInv, TypeOK
<1>2. /\ phase' = IF n' = 0 THEN "finish" ELSE "body"
      /\ CountOpens /\ UNCHANGED request /\ sent' = sent + n'
      /\ sentGens' = IF n' > 0 THEN sentGens \cup {gen'} ELSE sentGens
  BY DEF BodyStep
<1>3. ASSUME NEW b \in 1 .. Least(CopyLen, size - (start + sent)), ReadUpTo(b)
      PROVE  SInv'
  <2>1. size' = size
    BY <1>3 DEF ReadUpTo, ReadSniff, ReadFirst, ReadReopen, ReadStream
  <2>2. b \in Nat
    <3> DEFINE left == size - (start + sent)
    <3>1. left \in Nat
      BY <1>1
    <3> HIDE DEF left
    <3>2. Least(CopyLen, left) \in Nat
      BY <3>1, ServeAssumption DEF Least
    <3>3. b \in 1 .. Least(CopyLen, left)
      BY DEF left
    <3> QED
      BY <3>2, <3>3
  <2> QED
    BY <1>1, <1>2, <1>3, <2>1, <2>2, BodyCopy
<1>4. CASE ReadOpenFails
  <2>1. /\ n' = 0 /\ reader' = reader /\ sniff' = sniff /\ size' = size
    BY <1>4 DEF ReadOpenFails, nothing, deliver, handle
  <2>2. IInv'
    BY <1>1, <1>4 DEF ReadOpenFails, nothing, deliver, handle, IInv, TypeOK, InStep
  <2>3. phase' = "finish" /\ sentGens' = sentGens /\ sent' = sent
        /\ start' = start /\ guess' = guess /\ opens' = opens
    BY <1>1, <1>2, <2>1, CountEffect
  <2>4. ServeType' /\ PhaseInv' /\ OpenInv' /\ BodyInv' /\ BodyContiguous'
    BY <1>1, <2>3 DEF ServeType, PhaseInv, OpenInv, BodyInv, BodyContiguous, Before
  <2>5. ReadersPerGet' /\ BodyOneGeneration'
    BY <2>1, <2>3 DEF SInv, ReadersPerGet, BodyOneGeneration, Resumed
  <2> QED
    BY <2>2, <2>4, <2>5 DEF SInv
<1> QED
  BY <1>3, <1>4 DEF BodyStep

(* The end of the request: what was opened and sent is as it was.              *)
LEMMA LastStep ==
  ASSUME SInv, Finish
  PROVE  SInv'
<1>1. IInv /\ ServeType
  BY DEF SInv
<1>2. /\ phase' = "done" /\ start' = start /\ guess' = guess /\ opens' = opens
      /\ sent' = sent /\ sentGens' = sentGens /\ sniff' = sniff /\ size' = size
  BY DEF Finish, Close, request
<1>3. IInv'
  BY <1>1, OtherStep DEF Finish
<1>4. ServeType' /\ PhaseInv' /\ OpenInv' /\ BodyInv' /\ BodyContiguous'
  BY <1>1, <1>2 DEF ServeType, PhaseInv, OpenInv, BodyInv, BodyContiguous, Before
<1>5. ReadersPerGet' /\ BodyOneGeneration'
  BY <1>2 DEF SInv, ReadersPerGet, BodyOneGeneration, Resumed
<1> QED
  BY <1>3, <1>4, <1>5 DEF SInv

(* An overwrite of the object touches neither the handle nor the request.      *)
LEMMA SameStep ==
  ASSUME SInv, Replace \/ UNCHANGED serveVars
  PROVE  SInv'
<1>1. IInv /\ ServeType /\ PhaseInv /\ OpenInv /\ BodyInv
  BY DEF SInv
<1>2. /\ phase' = phase /\ start' = start /\ guess' = guess
      /\ opens' = opens /\ sent' = sent /\ sentGens' = sentGens /\ size' = size
      /\ reader' = reader /\ sniff' = sniff /\ pos' = pos /\ from' = from /\ n' = n
  BY DEF Replace, Overwrite, handle, request, serveVars, vars
<1>3. IInv'
  <2>1. CASE Replace
    BY <1>1, <2>1, OtherStep DEF Replace
  <2>2. CASE UNCHANGED serveVars
    BY <1>1, <2>2 DEF serveVars, vars, handle, IInv, TypeOK, InStep
  <2> QED
    BY <2>1, <2>2
<1>4. ServeType' /\ PhaseInv'
  BY <1>1, <1>2 DEF ServeType, PhaseInv
<1>5. OpenInv' /\ BodyInv'
  BY <1>1, <1>2 DEF OpenInv, BodyInv, Kept
<1>6. ReadersPerGet' /\ BodyOneGeneration' /\ BodyContiguous'
  BY <1>2 DEF SInv, ReadersPerGet, BodyOneGeneration, BodyContiguous, Resumed
<1> QED
  BY <1>3, <1>4, <1>5, <1>6 DEF SInv

-----------------------------------------------------------------------------
(* The invariant of a GET holds throughout.                                    *)
LEMMA ServeInductive == ServeSpec => []SInv
<1>1. ServeInit => SInv
  <2> SUFFICES ASSUME ServeInit PROVE SInv
    OBVIOUS
  <2>1. IInv
    BY InitIInv DEF ServeInit
  <2>2. /\ phase \in {"guess", "size"} /\ guess \in BOOLEAN /\ (phase = "guess" => guess)
        /\ start \in Nat /\ opens = 0 /\ sent = 0 /\ sentGens = {}
        /\ ~sniff.has /\ reader = NoReader /\ pos = 0
    BY ServeAssumption DEF ServeInit, Init
  <2>3. ServeType /\ PhaseInv /\ BodyContiguous
    BY <2>2 DEF ServeType, PhaseInv, BodyContiguous
  <2>4. OpenInv /\ BodyInv /\ ReadersPerGet /\ BodyOneGeneration
    BY <2>2 DEF OpenInv, BodyInv, ReadersPerGet, BodyOneGeneration
  <2> QED
    BY <2>1, <2>3, <2>4 DEF SInv
<1>2. SInv /\ [ServeNext]_serveVars => SInv'
  BY GuessRead, GuessStops, Rewinds, SizeSeek, RangeSeek, BodyRead, LastStep, SameStep
     DEF ServeNext, Done
<1> QED
  BY <1>1, <1>2, PTL DEF ServeSpec

(* A GET opens one GCS reader, or two when the content type was guessed and    *)
(* the object is longer than the sniff buffer: for every object, range, buffer *)
(* and copy length, however the object is overwritten meanwhile and wherever   *)
(* a stream breaks off (Read and Seek, called by http.ServeContent).           *)
THEOREM ReadersOpened == ServeSpec => []ReadersPerGet
<1>1. SInv => ReadersPerGet
  BY DEF SInv
<1> QED
  BY <1>1, ServeInductive, PTL

(* No response body mixes two generations of the object, unless it begins in   *)
(* the buffer of a guess and goes on behind it.                                *)
THEOREM OneGeneration == ServeSpec => []BodyOneGeneration
<1>1. SInv => BodyOneGeneration
  BY DEF SInv
<1> QED
  BY <1>1, ServeInductive, PTL

(* The body is the requested range, without a gap or a repetition.             *)
THEOREM Contiguous == ServeSpec => []BodyContiguous
<1>1. SInv => BodyContiguous
  BY DEF SInv
<1> QED
  BY <1>1, ServeInductive, PTL
=============================================================================
