------------------------------- MODULE Metrics -------------------------------
(* pkg/observability/metrics/metrics.go: the process-wide instruments, their   *)
(* Init and Shutdown, the recording helpers, and the gcs_metrics middleware    *)
(* with its pool of response writers.  Config loads call Init (Provision of    *)
(* gcs_metrics and of prometheus) while requests of a running config, and the  *)
(* GCS mounts of any config, read the instruments without a lock.              *)
(*                                                                             *)
(* OpenTelemetry, sync.Pool and net/http are external.  A body is counted in   *)
(* units; methods, routes and durations are left out.                          *)
EXTENDS Naturals, Sequences

CONSTANTS
    Request,      \* requests served at a time
    Writer,       \* response writers the pool may hold
    MaxLoads,     \* bound: config loads
    MaxInits,     \* bound: meter providers created
    MaxBody,      \* bound: units a handler writes
    Nil

ASSUME MetricsAssumption ==
    /\ MaxLoads \in Nat /\ MaxInits \in Nat /\ MaxBody \in Nat
    /\ Nil \notin Writer

\* A mutant of Instruments: the total of the GCS operations comes first.
InstrumentsTotalFirst == <<"httpRequestDuration", "httpRequestTotal", "httpRequestErrors",
                           "httpResponseSize", "gcsOperationsTotal", "gcsOperationDuration",
                           "gcsOperationErrors", "gcsCacheHits", "gcsCacheMisses",
                           "gcsStreamingBytes", "gcsConcurrentReqs">>

\* in the order createInstruments makes them
Instruments == <<"httpRequestDuration", "httpRequestTotal", "httpRequestErrors",
                 "httpResponseSize", "gcsOperationDuration", "gcsOperationsTotal",
                 "gcsOperationErrors", "gcsCacheHits", "gcsCacheMisses",
                 "gcsStreamingBytes", "gcsConcurrentReqs">>

Instrument == {Instruments[i] : i \in DOMAIN Instruments}

\* The status codes handlers set or return: an informational one, which is sent
\* on its own and is no answer yet, and final ones.
Status == {103, 200, 404}
ErrorCode == {404, 500}

VARIABLES
    initOnce,     \* the Once is done
    provider,     \* meterProvider: its number, 0 for nil
    instrument,   \* the provider each instrument was made by, 0 for nil
    initPc,       \* Init, under metricsMu: "idle", "exporter", "create"
    creating,     \* index of the instrument Init makes next
    fatal,        \* the Go runtime has ended the process
    running,      \* a config with these handlers serves
    loads,        \* bound: config loads so far
    inits,        \* bound: providers so far
    failed,       \* history: instruments that could not be created
    stuck,        \* history: a Shutdown failed
    pool,         \* writers in responseWriterPool
    writer,       \* the fields of each writer
    pc,           \* where each request is
    held,         \* its writer
    wire,         \* history: status the client was sent, 0 for none yet
    sent,         \* history: body units the client was sent
    neat,         \* history: see WriteHeader, Write and Return
    panicked      \* history: whether the last step was a recording helper's
                  \* panic, "fault", or one that is due to a stale read, "race"

package == <<initOnce, provider, instrument, initPc, creating, fatal, running, loads,
             inits, failed, stuck>>
middleware == <<pool, writer, pc, held, wire, sent, neat>>
vars == <<package, middleware, panicked>>

Unused == [status |-> 0, size |-> 0]

Init ==
    /\ initOnce = FALSE
    /\ provider = 0
    /\ instrument = [i \in Instrument |-> 0]
    /\ initPc = "idle"
    /\ creating = 1
    /\ fatal = FALSE
    /\ running = FALSE
    /\ loads = 0
    /\ inits = 0
    /\ failed = {}
    /\ stuck = FALSE
    /\ pool = Writer
    /\ writer = [w \in Writer |-> Unused]
    /\ pc = [r \in Request |-> "idle"]
    /\ held = [r \in Request |-> Nil]
    /\ wire = [r \in Request |-> 0]
    /\ sent = [r \in Request |-> 0]
    /\ neat = [r \in Request |-> TRUE]
    /\ panicked = "none"

\* A step of the living process that does not panic in a recording helper.
Silent == ~fatal /\ panicked' = "none"

-----------------------------------------------------------------------------
\* Init.  A load whose Provision gets nil from Init goes on to run; one that
\* gets an error is dropped and what was running keeps running.

\* A mutant of Provision: the Once is forgotten.
ProvisionAgain ==
    /\ Silent
    /\ initPc = "idle" /\ loads < MaxLoads
    /\ loads' = loads + 1
    /\ initPc' = "exporter"
    /\ UNCHANGED <<initOnce, provider, instrument, creating, fatal, running, inits, failed, stuck,
                   middleware>>

\* Provision calls Init, which does nothing when the Once is done.
Provision ==
    /\ Silent
    /\ initPc = "idle" /\ loads < MaxLoads
    /\ loads' = loads + 1
    /\ IF initOnce THEN running' = TRUE /\ UNCHANGED initPc
                   ELSE initPc' = "exporter" /\ UNCHANGED running
    /\ UNCHANGED <<initOnce, provider, instrument, creating, fatal, inits, failed, stuck,
                   middleware>>

NewExporter ==
    /\ Silent
    /\ initPc = "exporter"
    /\ inits < MaxInits
    /\ inits' = inits + 1
    /\ provider' = inits'
    /\ initPc' = "create" /\ creating' = 1
    /\ UNCHANGED <<initOnce, instrument, fatal, running, loads, failed, stuck, middleware>>

\* Init replaces the Once from inside its Do, which then unlocks a mutex nobody
\* has locked: the runtime ends the process.
ExporterFails ==
    /\ Silent
    /\ initPc = "exporter"
    /\ fatal' = TRUE
    /\ UNCHANGED <<initOnce, provider, instrument, initPc, creating, running, loads, inits,
                   failed, stuck, middleware>>

\* createInstruments: the next one is made; after the last, Init returns nil.
CreateInstrument ==
    /\ Silent
    /\ initPc = "create"
    /\ instrument' = [instrument EXCEPT ![Instruments[creating]] = provider]
    /\ IF creating < Len(Instruments)
       THEN creating' = creating + 1 /\ UNCHANGED <<initPc, initOnce, running>>
       ELSE creating' = 1 /\ initPc' = "idle" /\ initOnce' = TRUE /\ running' = TRUE
    /\ UNCHANGED <<provider, fatal, loads, inits, failed, stuck, middleware>>

\* One cannot be made: whatever came with the error is assigned, the rest are
\* left as they are, Init returns the error, and the Once is done.
CreateFails ==
    /\ Silent
    /\ initPc = "create"
    /\ \E x \in {0, provider} : instrument' = [instrument EXCEPT ![Instruments[creating]] = x]
    /\ failed' = failed \cup {Instruments[creating]}
    /\ creating' = 1 /\ initPc' = "idle" /\ initOnce' = TRUE
    /\ UNCHANGED <<provider, fatal, running, loads, inits, stuck, middleware>>

\* A mutant of Shutdown: the Once is not reset.
ShutdownKeepsOnce ==
    /\ Silent
    /\ initPc = "idle" /\ \A r \in Request : pc[r] = "idle"
    /\ running' = FALSE
    /\ provider' = 0
    /\ UNCHANGED <<initOnce, instrument, initPc, creating, fatal, loads, inits, failed, stuck,
                   middleware>>

\* Shutdown is for test cleanup: nothing serves when it is called.  If the
\* provider cannot be shut down, nothing is reset.
Shutdown ==
    /\ Silent
    /\ initPc = "idle" /\ \A r \in Request : pc[r] = "idle"
    /\ running' = FALSE
    /\ \/ provider' = 0 /\ initOnce' = FALSE /\ UNCHANGED stuck
       \/ provider # 0 /\ stuck' = TRUE /\ UNCHANGED <<provider, initOnce>>
    /\ UNCHANGED <<instrument, initPc, creating, fatal, loads, inits, failed, middleware>>

-----------------------------------------------------------------------------
\* The recording helpers: each looks at one instrument and uses some.  Those
\* for GCS are called by the mounts of any config, with metrics or without.

Guard == [RecordHTTPRequest |-> "httpRequestTotal", RecordGCSOperation |-> "gcsOperationsTotal",
          RecordGCSError |-> "gcsOperationErrors", RecordCacheHit |-> "gcsCacheHits",
          RecordCacheMiss |-> "gcsCacheMisses", RecordStreamingBytes |-> "gcsStreamingBytes",
          ConcurrentRequests |-> "gcsConcurrentReqs"]

Uses(h, status) ==
    CASE h = "RecordHTTPRequest" ->
            {Guard[h], "httpRequestDuration", "httpResponseSize"}
                \cup (IF status >= 400 THEN {"httpRequestErrors"} ELSE {})
      [] h = "RecordGCSOperation" -> {Guard[h], "gcsOperationDuration"}
      [] OTHER -> {Guard[h]}

\* The helper gets past its test and meets an instrument it sees as nil; stale
\* are the ones whose assignment has not reached it.
Panics(h, status, stale) ==
    LET Nil0(i) == instrument[i] = 0 \/ i \in stale IN
    ~Nil0(Guard[h]) /\ \E i \in Uses(h, status) : Nil0(i)

\* While the first Init assigns them, a reader without a lock may see any of
\* the instruments as it was, in any combination.
Stale(h) == IF initPc = "create" /\ inits = 1 THEN SUBSET Uses(h, 0) ELSE {{}}

\* The helpers for GCS operations (also Inc- and DecConcurrentRequests)
RecordGCS(h) ==
    /\ ~fatal /\ h # "RecordHTTPRequest"
    /\ \E stale \in Stale(h) :
          panicked' = IF ~Panics(h, 0, stale) THEN "none"
                      ELSE IF stale = {} THEN "fault" ELSE "race"
    /\ UNCHANGED <<package, middleware>>

-----------------------------------------------------------------------------
\* MetricsHandler.ServeHTTP and the writer it gives to the next handler.

goto(r, l) == pc' = [pc EXCEPT ![r] = l]

\* A mutant of Reset: the writer keeps the size of its last request.
ResetStatusOnly(w) == [writer EXCEPT ![w].status = 0]

Reset(w) == [writer EXCEPT ![w] = Unused]

ServeHTTP(r) ==
    /\ Silent
    /\ running /\ pc[r] = "idle"
    /\ \E w \in pool : /\ pool' = pool \ {w}
                       /\ held' = [held EXCEPT ![r] = w]
                       /\ writer' = Reset(w)
    /\ goto(r, "serving")
    /\ UNCHANGED <<package, wire, sent, neat>>

\* The status line goes out with the first final code; more of them, and ones
\* after the body has begun, are ignored by the server but not by the writer.
\* A handler is neat as long as it does nothing of the kind.
WriteHeader(r, s) ==
    /\ Silent
    /\ pc[r] = "serving"
    /\ writer' = [writer EXCEPT ![held[r]].status = s]
    /\ wire' = [wire EXCEPT ![r] = IF @ = 0 /\ s >= 200 THEN s ELSE @]
    /\ neat' = [neat EXCEPT ![r] = @ /\ wire[r] = 0 /\ s >= 200]
    /\ UNCHANGED <<package, pool, pc, held, sent>>

Implicit(r) == IF writer[held[r]].status = 0 THEN 200 ELSE writer[held[r]].status
Begun(r) == wire' = [wire EXCEPT ![r] = IF @ = 0 THEN 200 ELSE @]

\* Write counts what it is given, delivered or not.
Write(r, delivered) ==
    /\ Silent
    /\ pc[r] = "serving" /\ writer[held[r]].size < MaxBody
    /\ writer' = [writer EXCEPT ![held[r]] = [status |-> Implicit(r), size |-> @.size + 1]]
    /\ Begun(r)
    /\ sent' = [sent EXCEPT ![r] = IF delivered THEN @ + 1 ELSE @]
    /\ neat' = [neat EXCEPT ![r] = @ /\ delivered]
    /\ UNCHANGED <<package, pool, pc, held>>

\* ReadFrom counts what was delivered; copying nothing sends no header.
ReadFrom(r, n) ==
    /\ Silent
    /\ pc[r] = "serving" /\ writer[held[r]].size + n <= MaxBody
    /\ writer' = [writer EXCEPT ![held[r]] = [status |-> Implicit(r), size |-> @.size + n]]
    /\ IF n > 0 THEN Begun(r) ELSE UNCHANGED wire
    /\ sent' = [sent EXCEPT ![r] = @ + n]
    /\ UNCHANGED <<package, pool, pc, held, neat>>

\* Flush sends the header; the writer does not notice.
Flush(r) ==
    /\ Silent
    /\ pc[r] = "serving"
    /\ Begun(r)
    /\ UNCHANGED <<package, pool, writer, pc, held, sent, neat>>

\* the status that is recorded when the next handler returns nil (0) or an error
Recorded(r, e) == IF writer[held[r]].status # 0 THEN writer[held[r]].status
                  ELSE IF e # 0 THEN 500 ELSE 200

\* The next handler returns.  Without a status line so far the server sends 200,
\* or Caddy the error's own code.  An error is neat when it comes before any use
\* of the writer and stands for 500, or after a status line the writer has seen.
Return(r, e) ==
    /\ Silent
    /\ pc[r] = "serving"
    /\ writer' = [writer EXCEPT ![held[r]].status = Recorded(r, e)]
    /\ wire' = [wire EXCEPT ![r] = IF @ # 0 THEN @ ELSE IF e = 0 THEN 200 ELSE e]
    /\ neat' = [neat EXCEPT ![r] = @ /\ 
                                (\/ e = 0
                                 \/ e = 500 /\ wire[r] = 0 /\ writer[held[r]].status = 0
                                 \/ wire[r] # 0 /\ writer[held[r]].status # 0)]
    /\ goto(r, "record")
    /\ UNCHANGED <<package, pool, held, sent>>

\* The deferred function: the writer goes back to the pool.
Put(r) == /\ pool' = pool \cup {held[r]}
          /\ held' = [held EXCEPT ![r] = Nil]
          /\ wire' = [wire EXCEPT ![r] = 0]
          /\ sent' = [sent EXCEPT ![r] = 0]
          /\ neat' = [neat EXCEPT ![r] = TRUE]
          /\ goto(r, "idle")

\* The next handler panics (http.ErrAbortHandler): nothing is recorded.
Abort(r) == /\ Silent
            /\ pc[r] = "serving"
            /\ Put(r)
            /\ UNCHANGED <<package, writer>>

\* RecordHTTPRequest, one step: no instrument is assigned in between (NoRacyInit).
Record(r) ==
    /\ ~fatal /\ pc[r] = "record"
    /\ panicked' = IF Panics("RecordHTTPRequest", writer[held[r]].status, {})
                   THEN "fault" ELSE "none"
    /\ Put(r)
    /\ UNCHANGED <<package, writer>>

-----------------------------------------------------------------------------
Load == Provision \/ NewExporter \/ ExporterFails \/ CreateInstrument \/ CreateFails

Handle(r) == \/ \E s \in Status : WriteHeader(r, s)
             \/ \E delivered \in BOOLEAN : Write(r, delivered)
             \/ \E n \in 0 .. MaxBody : ReadFrom(r, n)
             \/ Flush(r) \/ Abort(r)
             \/ \E e \in {0} \cup ErrorCode : Return(r, e)

Next == \/ Load \/ Shutdown
        \/ \E h \in DOMAIN Guard : RecordGCS(h)
        \/ \E r \in Request : ServeHTTP(r) \/ Handle(r) \/ Record(r)

Spec == Init /\ [][Next]_vars

-----------------------------------------------------------------------------
(* A config that serves has all its instruments, made by the provider whose   *)
(* exporter is scraped, whatever loads and Shutdowns came before (initOnce,   *)
(* createInstruments, Shutdown) - unless an instrument could not be created   *)
(* or a provider not be shut down, which Init never repairs.                  *)
ServesComplete ==
    running /\ failed = {} /\ ~stuck
        => provider # 0 /\ \A i \in Instrument : instrument[i] = provider

(* While a config with gcs_metrics or prometheus serves, nobody assigns an   *)
(* instrument: its requests read them without a lock, so an Init that wrote   *)
(* them again at a reload would race.                                         *)
NoRacyInit == [][running /\ running' => instrument' = instrument]_vars

(* The recording helpers are nil-safe, as their heading says, although each   *)
(* tests one instrument and uses up to four, and mounts call them before,     *)
(* during and after the first Init - unless an instrument could not be        *)
(* created, when the next Init reports success and requests do panic, or      *)
(* memory shows a mount the instruments out of order ("race").                *)
RecordNilSafe == panicked = "fault" => failed # {}

(* What is recorded of a request is what its client was sent, and nothing of  *)
(* a request that used the writer before or at the same time - for a handler  *)
(* that sets a final status at most once and before the body, whose writes    *)
(* succeed, and that does not return an error after a bare Flush or an empty  *)
(* copy or with another code than 500 for Caddy to send.                      *)
RecordedTruth ==
    \A r \in Request :
        pc[r] = "record" /\ neat[r]
            => writer[held[r]] = [status |-> wire[r], size |-> sent[r]]
=============================================================================
