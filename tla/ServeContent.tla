---------------------------- MODULE ServeContent ----------------------------
(* A GET request on one gcsFile: the open file is handed to                   *)
(* net/http.ServeContent, which may read the first bytes to guess the content *)
(* type and rewind, then asks for the size with a Seek to the end and another *)
(* back, seeks to the start of the requested range and copies the body.  The  *)
(* driver is external (net/http); every call it makes is an operation of      *)
(* GcsFile, and the object may be overwritten between any two of them.        *)
EXTENDS GcsFile

CONSTANTS
    Starts,    \* where requested ranges start
    CopyLen    \* the copy buffer's length

ASSUME ServeAssumption == Starts \subseteq Nat /\ CopyLen \in Nat \ {0}

VARIABLES
    phase,     \* what ServeContent does next
    guess,     \* TRUE: the content type has to be guessed from the content
    start,     \* first byte of the requested range
    opens,     \* range readers opened so far
    sent,      \* body bytes written so far
    sentGens   \* the generations they came from

serveVars == <<vars, phase, guess, start, opens, sent, sentGens>>
request == <<guess, start>>

ServeInit == /\ Init
             /\ guess \in BOOLEAN
             /\ phase = IF guess THEN "guess" ELSE "size"
             /\ start \in Starts
             /\ opens = 0 /\ sent = 0 /\ sentGens = {}

CountOpens == opens' = IF reader = NoReader /\ reader' # NoReader THEN opens + 1 ELSE opens

\* a call of ServeContent that writes no body
Quiet == CountOpens /\ UNCHANGED <<request, sent, sentGens>>

ReadUpTo(b) == ReadSniff(b) \/ ReadFirst(b) \/ ReadReopen(b) \/ ReadStream(b)

-----------------------------------------------------------------------------
\* io.ReadFull into a buffer of SniffSize bytes, whose error is ignored ...
GuessStep == /\ phase = "guess"
             /\ pos < SniffSize
             /\ \/ /\ ReadUpTo(SniffSize - pos)
                   /\ phase' = IF n' = 0 THEN "guessRewind" ELSE "guess"
                \/ ReadOpenFails /\ phase' = "guessRewind"
             /\ Quiet

\* ... and which ends when the buffer is full, or with an error that came
\* along with the stream's last bytes
GuessEnds == /\ phase = "guess"
             /\ pos >= SniffSize \/ (sniff.has /\ pos > sniff.len)
             /\ phase' = "guessRewind"
             /\ UNCHANGED <<vars, request, opens, sent, sentGens>>

GuessRewind == /\ phase = "guessRewind"
               /\ SeekStart(0)
               /\ phase' = "size"
               /\ Quiet

\* sizeFunc, its two Seeks; without a size the answer is 500
SizeStep == /\ phase = "size"
            /\ \/ SeekEnd(0) /\ phase' = "sizeRewind"
               \/ SeekFails /\ phase' = "finish"
            /\ Quiet

SizeRewind == /\ phase = "sizeRewind"
              /\ SeekStart(0)
              /\ phase' = "range"
              /\ Quiet

\* no seek without a Range header; a range that starts past the size is refused
RangeStep == /\ phase = "range"
             /\ start < size
             /\ \/ start = 0 /\ nothing /\ UNCHANGED <<obj, handle>>
                \/ SeekStart(start)
             /\ phase' = "body"
             /\ Quiet

\* io.CopyN, whose last buffer is what is left of the range
BodyStep == /\ phase = "body"
            /\ start + sent < size
            /\ \/ \E b \in 1 .. Least(CopyLen, size - (start + sent)) : ReadUpTo(b)
               \/ ReadOpenFails
            /\ phase' = IF n' = 0 THEN "finish" ELSE "body"
            /\ CountOpens
            /\ sent' = sent + n'
            /\ sentGens' = IF n' > 0 THEN sentGens \cup {gen'} ELSE sentGens
            /\ UNCHANGED request

\* The body is complete, its client is gone, the range ends or is refused, or an
\* operation has failed.
Finish == /\ phase \in {"body", "finish"} \/ (phase = "range" /\ start >= size)
          /\ phase' = "done"
          /\ Close
          /\ UNCHANGED <<request, opens, sent, sentGens>>

Done == phase = "done" /\ UNCHANGED serveVars

Replace == /\ phase # "done"
           /\ Overwrite
           /\ UNCHANGED <<phase, request, opens, sent, sentGens>>

ServeNext == \/ GuessStep \/ GuessEnds \/ GuessRewind \/ SizeStep \/ SizeRewind
             \/ RangeStep \/ BodyStep \/ Finish \/ Done \/ Replace

ServeSpec == ServeInit /\ [][ServeNext]_serveVars

-----------------------------------------------------------------------------
\* The content type was guessed, and the object is longer than what was kept.
Resumed == guess /\ sniff.len < size

(* What a GET costs: one GCS reader, whatever the range and however the       *)
(* object is overwritten or a stream breaks off, and a second one only after  *)
(* a guess, for an object longer than the sniff buffer.  The buffer is there  *)
(* to save that second one (the comments on sniffBuf and in Read), and does   *)
(* not: the rewind leaves it unread, so the Seek to the end that follows      *)
(* closes the reader.                                                         *)
ReadersPerGet == opens <= IF Resumed THEN 2 ELSE 1

(* A response body never mixes two generations of an object that is           *)
(* overwritten while it is served: buffer and reader come from one GCS stream *)
(* and no call after the first Read of the body drops the reader.  The one    *)
(* exception is a body that begins in the buffer of a guess and goes on       *)
(* behind it: that is where the second reader is opened.                      *)
BodyOneGeneration ==
    ~(Resumed /\ start < sniff.len) => \A g1, g2 \in sentGens : g1 = g2

(* The body is the requested range: what has been sent are the bytes from     *)
(* start on, without a gap or a repetition, also where a second reader takes  *)
(* over from the buffer.                                                      *)
BodyContiguous == phase = "body" /\ n > 0 => from + n = start + sent
=============================================================================
