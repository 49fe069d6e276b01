---------------------------- MODULE MetricsProofs ----------------------------
(* Safety of the metrics package for any number of requests, response writers, *)
(* config loads and providers.                                                 *)
EXTENDS Metrics, TLAPS

\* Made(i): the i-th instrument in createInstruments' order is not nil.
Made(i) == instrument[Instruments[i]] # 0

PackageType ==
    /\ initPc \in {"idle", "exporter", "create"} /\ creating \in 1 .. 11
    /\ initOnce \in BOOLEAN /\ running \in BOOLEAN
    /\ provider \in Nat /\ inits \in Nat
    /\ instrument \in [Instrument -> Nat]

MiddlewareType ==
    /\ pool \in SUBSET Writer
    /\ writer \in [Writer -> [status : Nat, size : Nat]]
    /\ pc \in [Request -> {"idle", "serving", "record"}]
    /\ held \in [Request -> Writer \cup {Nil}]
    /\ wire \in [Request -> Nat] /\ sent \in [Request -> Nat]
    /\ neat \in [Request -> BOOLEAN]

\* A config serves only when the Once is done, and no Init runs while it is; as
\* long as a request is served the config that serves it is not taken down.
OnceInv ==
    /\ running => initOnce
    /\ initOnce => initPc = "idle"
    /\ initPc # "create" => creating = 1
    /\ \A r \in Request : pc[r] # "idle" => running

\* Unless one could not be created, the instruments are made in order, once and
\* for all: a reader meets none of them, all of them, or those before the one
\* that is being made.
InstrumentInv ==
    /\ failed = {} => \/ \A i \in 1 .. 11 : Made(i)
                      \/ \A i \in 1 .. 11 : Made(i) <=> i < creating
    /\ initPc = "create" => /\ provider # 0
                            /\ \A i \in 1 .. creating - 1 : instrument[Instruments[i]] = provider
    /\ initOnce /\ failed = {} =>
          provider # 0 /\ \A i \in Instrument : instrument[i] = provider

\* A request that is being served has a writer of its own.
WriterInv ==
    /\ \A r \in Request : pc[r] # "idle" => held[r] \in Writer \ pool
    /\ \A r, q \in Request : pc[r] # "idle" /\ pc[q] # "idle" /\ held[r] = held[q] => r = q
    /\ \A r \in Request : pc[r] = "idle" => wire[r] = 0 /\ sent[r] = 0 /\ neat[r]

\* What writer w knows of a neat handler's response so far, of which status a
\* and b units were sent: all units, and the status that was sent or, before
\* anything is sent, the one that will be.
Fits(w, a, b, l) ==
    /\ w.size = b
    /\ w.status # 0 => w.status = IF a = 0 THEN 200 ELSE a
    /\ w.status = 0 => a \in {0, 200}
    /\ l = "record" => w.status # 0 /\ a # 0

NeatInv ==
    \A r \in Request :
        neat[r] /\ pc[r] # "idle" => Fits(writer[held[r]], wire[r], sent[r], pc[r])

Inv == /\ PackageType /\ OnceInv /\ InstrumentInv /\ RecordNilSafe
       /\ MiddlewareType /\ WriterInv /\ NeatInv

-----------------------------------------------------------------------------
(* createInstruments makes eleven different instruments. *)
LEMMA Eleven == /\ Len(Instruments) = 11
                /\ \A i \in 1 .. 11 : Instruments[i] \in Instrument
                /\ \A i, j \in 1 .. 11 : Instruments[i] = Instruments[j] => i = j
                /\ \A x \in Instrument : \E i \in 1 .. 11 : x = Instruments[i]
<1>1. Len(Instruments) = 11 /\ DOMAIN Instruments = 1 .. 11
  BY DEF Instruments
<1>2. \A i, j \in 1 .. 11 : Instruments[i] = Instruments[j] => i = j
  BY DEF Instruments
<1> QED
  BY <1>1, <1>2 DEF Instrument

(* The order in which the helpers look and the instruments are made. *)
LEMMA Order == /\ Instruments[5] = "gcsOperationDuration"
               /\ Instruments[6] = "gcsOperationsTotal"
               /\ "gcsOperationDuration" \in Instrument /\ "gcsOperationsTotal" \in Instrument
<1>1. Instruments[5] = "gcsOperationDuration" /\ Instruments[6] = "gcsOperationsTotal"
  BY DEF Instruments
<1> QED
  BY <1>1, Eleven

(* The initial state satisfies the invariant. *)
LEMMA InitInv == Init => Inv
<1> SUFFICES ASSUME Init PROVE Inv
  OBVIOUS
<1>0. initOnce \in BOOLEAN /\ running \in BOOLEAN /\ creating \in 1 .. 11
  <2>1. initOnce \in BOOLEAN /\ running \in BOOLEAN
    BY Zenon DEF Init
  <2> QED
    BY <2>1 DEF Init
<1>1. PackageType /\ OnceInv /\ RecordNilSafe
  BY <1>0 DEF Init, PackageType, OnceInv, RecordNilSafe
<1>2. InstrumentInv
  BY Eleven DEF Init, InstrumentInv, Made
<1>3. MiddlewareType /\ WriterInv /\ NeatInv
  BY DEF Init, MiddlewareType, WriterInv, NeatInv, Unused, Fits
<1> QED
  BY <1>1, <1>2, <1>3 DEF Inv

(* Init and Shutdown leave the middleware alone, and a step that leaves the   *)
(* package alone leaves what its invariants say.                              *)
LEMMA MiddlewareKept ==
    ASSUME Inv, UNCHANGED middleware
    PROVE  MiddlewareType' /\ WriterInv' /\ NeatInv'
  BY DEF Inv, middleware, MiddlewareType, WriterInv, NeatInv

LEMMA PackageKept ==
    ASSUME Inv, UNCHANGED package
    PROVE  PackageType' /\ InstrumentInv'
  BY DEF Inv, package, PackageType, InstrumentInv, Made

(* The next instrument is made: the ones before it, and it, now exist. *)
LEMMA CreateStep ==
    ASSUME Inv, CreateInstrument
    PROVE  PackageType' /\ OnceInv' /\ InstrumentInv'
<1>1. /\ initPc = "create" /\ creating \in 1 .. 11 /\ provider \in Nat /\ provider # 0
      /\ ~initOnce /\ ~running
      /\ instrument' = [instrument EXCEPT ![Instruments[creating]] = provider]
      /\ failed' = failed /\ provider' = provider /\ inits' = inits /\ pc' = pc
  BY DEF Inv, PackageType, OnceInv, InstrumentInv, CreateInstrument, middleware
<1>2. \A i \in 1 .. 11 : instrument'[Instruments[i]] =
                            IF i = creating THEN provider ELSE instrument[Instruments[i]]
  BY <1>1, Eleven DEF Inv, PackageType
<1>3. instrument' \in [Instrument -> Nat]
  BY <1>1, Eleven DEF Inv, PackageType
<1>4. CASE creating < 11
  <2>1. creating' = creating + 1 /\ UNCHANGED <<initPc, initOnce, running>>
    BY <1>4, Eleven DEF CreateInstrument
  <2>2. PackageType' /\ OnceInv'
    BY <1>1, <1>3, <1>4, <2>1 DEF Inv, PackageType, OnceInv
  <2>3. InstrumentInv'
    <3>1. failed = {} => \/ \A i \in 1 .. 11 : Made(i)'
                         \/ \A i \in 1 .. 11 : Made(i)' <=> i < creating'
      BY <1>1, <1>2, <2>1 DEF Inv, InstrumentInv, Made
    <3>2. \A i \in 1 .. creating' - 1 : instrument'[Instruments[i]] = provider
      BY <1>1, <1>2, <1>4, <2>1 DEF Inv, InstrumentInv
    <3> QED
      BY <1>1, <2>1, <3>1, <3>2 DEF InstrumentInv
  <2> QED
    BY <2>2, <2>3
<1>5. CASE ~(creating < 11)
  <2>1. creating = 11 /\ creating' = 1 /\ initPc' = "idle" /\ initOnce' /\ running'
        /\ initOnce' \in BOOLEAN /\ running' \in BOOLEAN
    BY <1>1, <1>5, Eleven DEF CreateInstrument
  <2>2. PackageType' /\ OnceInv'
    BY <1>1, <1>3, <2>1 DEF Inv, PackageType, OnceInv
  <2>3. \A i \in 1 .. 11 : instrument'[Instruments[i]] = provider
    BY <1>1, <1>2, <2>1 DEF Inv, InstrumentInv
  <2>4. InstrumentInv'
    BY <1>1, <2>1, <2>3, Eleven DEF InstrumentInv, Made
  <2> QED
    BY <2>2, <2>4
<1> QED
  BY <1>4, <1>5

(* Init and Shutdown. *)
LEMMA LoadStep ==
    ASSUME Inv, Load \/ Shutdown
    PROVE  Inv'
<1>1. MiddlewareType' /\ WriterInv' /\ NeatInv' /\ UNCHANGED middleware
  BY MiddlewareKept DEF Load, Shutdown, Provision, NewExporter, ExporterFails,
                        CreateInstrument, CreateFails
<1>2. RecordNilSafe'
  BY DEF RecordNilSafe, Silent, Load, Shutdown, Provision, NewExporter, ExporterFails,
         CreateInstrument, CreateFails
<1>3. CASE Provision
  <2>1. PackageType' /\ OnceInv'
    BY <1>1, <1>3 DEF Inv, PackageType, OnceInv, Provision, middleware
  <2>2. InstrumentInv'
    BY <1>3 DEF Inv, InstrumentInv, Made, Provision
  <2> QED
    BY <1>1, <1>2, <2>1, <2>2 DEF Inv
<1>4. CASE NewExporter
  <2>1. PackageType' /\ OnceInv'
    BY <1>1, <1>4 DEF Inv, PackageType, OnceInv, NewExporter, middleware
  <2>2. InstrumentInv'
    BY <1>4 DEF Inv, PackageType, OnceInv, InstrumentInv, Made, NewExporter
  <2> QED
    BY <1>1, <1>2, <2>1, <2>2 DEF Inv
<1>5. CASE ExporterFails
  <2>1. PackageType' /\ OnceInv'
    BY <1>1, <1>5 DEF Inv, PackageType, OnceInv, ExporterFails, middleware
  <2>2. InstrumentInv'
    BY <1>5 DEF Inv, InstrumentInv, Made, ExporterFails
  <2> QED
    BY <1>1, <1>2, <2>1, <2>2 DEF Inv
<1>6. CASE CreateInstrument
  BY <1>1, <1>2, <1>6, CreateStep DEF Inv
<1>7. CASE CreateFails
  <2>1. /\ instrument' \in [Instrument -> Nat] /\ failed' # {}
        /\ creating' = 1 /\ initPc' = "idle" /\ initOnce' = TRUE
        /\ UNCHANGED <<provider, running, inits>>
    BY <1>7, Eleven DEF Inv, PackageType, CreateFails
  <2>2. PackageType' /\ OnceInv'
    BY <1>1, <2>1 DEF Inv, PackageType, OnceInv, middleware
  <2>3. InstrumentInv'
    BY <2>1 DEF InstrumentInv
  <2> QED
    BY <1>1, <1>2, <2>2, <2>3 DEF Inv
<1>8. CASE Shutdown
  <2>0. initOnce' \in BOOLEAN /\ running' \in BOOLEAN
    BY <1>8, Zenon DEF Inv, PackageType, Shutdown
  <2>1. PackageType' /\ OnceInv'
    BY <1>1, <1>8, <2>0 DEF Inv, PackageType, OnceInv, Shutdown, middleware
  <2>2. InstrumentInv'
    BY <1>8 DEF Inv, InstrumentInv, Made, Shutdown
  <2> QED
    BY <1>1, <1>2, <2>1, <2>2 DEF Inv
<1> QED
  BY <1>3, <1>4, <1>5, <1>6, <1>7, <1>8 DEF Load

(* A step of the next handler of one request, which reaches that request's    *)
(* writer only and keeps the writer in step with what was sent.               *)
LEMMA HandlerStep ==
    ASSUME Inv, UNCHANGED <<package, pool, held>>, panicked' = "none",
           NEW r \in Request, pc[r] = "serving",
           NEW l \in {"serving", "record"}, pc' = [pc EXCEPT ![r] = l],
           NEW x \in [status : Nat, size : Nat], writer' = [writer EXCEPT ![held[r]] = x],
           NEW a \in Nat, wire' = [wire EXCEPT ![r] = a],
           NEW b \in Nat, sent' = [sent EXCEPT ![r] = b],
           NEW q \in BOOLEAN, neat' = [neat EXCEPT ![r] = q],
           q => Fits(x, a, b, l)
    PROVE  Inv'
<1>1. held[r] \in Writer
  BY DEF Inv, WriterInv
<1>2. MiddlewareType'
  BY <1>1 DEF Inv, MiddlewareType
<1>3. /\ writer'[held[r]] = x
      /\ \A w \in Writer : w # held[r] => writer'[w] = writer[w]
  BY <1>1 DEF Inv, MiddlewareType
<1>4. \A p \in Request : pc'[p] = "idle" <=> pc[p] = "idle"
  BY DEF Inv, MiddlewareType
<1>5. \A p \in Request \ {r} : /\ wire'[p] = wire[p] /\ sent'[p] = sent[p]
                               /\ neat'[p] = neat[p] /\ pc'[p] = pc[p]
  BY DEF Inv, MiddlewareType
<1>6. WriterInv'
  BY <1>4, <1>5 DEF Inv, WriterInv
<1>7. NeatInv'
  <2> SUFFICES ASSUME NEW p \in Request, neat'[p], pc'[p] # "idle"
               PROVE  Fits(writer'[held'[p]], wire'[p], sent'[p], pc'[p])
    BY DEF NeatInv
  <2>1. CASE p = r
    BY <1>3, <2>1 DEF Inv, MiddlewareType
  <2>2. CASE p # r
    <3>1. held[p] \in Writer /\ held[p] # held[r]
      BY <1>4, <2>2 DEF Inv, WriterInv
    <3>2. writer'[held'[p]] = writer[held[p]]
      BY <1>3, <3>1
    <3> QED
      BY <1>5, <2>2, <3>2 DEF Inv, NeatInv
  <2> QED
    BY <2>1, <2>2
<1>8. OnceInv' /\ RecordNilSafe'
  BY <1>4 DEF Inv, OnceInv, RecordNilSafe, package
<1> QED
  BY <1>2, <1>6, <1>7, <1>8, PackageKept DEF Inv

(* Every call the next handler makes on its writer keeps the invariant. *)
LEMMA HandleStep ==
    ASSUME Inv, NEW r \in Request, Handle(r), ~Abort(r)
    PROVE  Inv'
<1> DEFINE w == writer[held[r]]
<1>1. CASE pc[r] # "serving"
  BY <1>1 DEF Handle, WriteHeader, Write, ReadFrom, Flush, Return
<1>2. CASE pc[r] = "serving"
  <2>1. /\ held[r] \in Writer /\ w \in [status : Nat, size : Nat]
        /\ wire[r] \in Nat /\ sent[r] \in Nat /\ neat[r] \in BOOLEAN
        /\ neat[r] => Fits(w, wire[r], sent[r], "serving")
        /\ pc = [pc EXCEPT ![r] = "serving"]
        /\ writer = [writer EXCEPT ![held[r]] = w]
        /\ wire = [wire EXCEPT ![r] = wire[r]]
        /\ sent = [sent EXCEPT ![r] = sent[r]]
        /\ neat = [neat EXCEPT ![r] = neat[r]]
    BY <1>2 DEF Inv, WriterInv, MiddlewareType, NeatInv
  <2>2. ASSUME NEW s \in Status, WriteHeader(r, s) PROVE Inv'
    <3> DEFINE x == [status |-> s, size |-> w.size]
               a == IF wire[r] = 0 /\ s >= 200 THEN s ELSE wire[r]
               q == neat[r] /\ wire[r] = 0 /\ s >= 200
    <3>1. s \in Nat /\ x \in [status : Nat, size : Nat] /\ a \in Nat /\ q \in BOOLEAN
      BY <2>1 DEF Status
    <3>2. q => Fits(x, a, sent[r], "serving")
      BY <2>1, <3>1 DEF Fits
    <3>3. writer' = [writer EXCEPT ![held[r]] = x]
      <4>1. x = [w EXCEPT !.status = s]
        BY <2>1, <3>1
      <4>2. writer' = [writer EXCEPT ![held[r]] = [w EXCEPT !.status = s]]
        BY <2>2, Zenon DEF WriteHeader
      <4> QED
        BY <4>1, <4>2
    <3>4. wire' = [wire EXCEPT ![r] = a] /\ neat' = [neat EXCEPT ![r] = q]
      BY <2>1, <2>2 DEF WriteHeader
    <3>5. /\ UNCHANGED <<package, pool, held>> /\ panicked' = "none"
          /\ pc' = pc /\ sent' = sent
      BY <2>2 DEF WriteHeader, Silent
    <3> QED
      <4> HIDE DEF x, a, q
      <4> QED
        BY <1>2, <2>1, <3>1, <3>2, <3>3, <3>4, <3>5, HandlerStep
  <2>3. ASSUME NEW delivered \in BOOLEAN, Write(r, delivered) PROVE Inv'
    <3> DEFINE x == [status |-> Implicit(r), size |-> w.size + 1]
               a == IF wire[r] = 0 THEN 200 ELSE wire[r]
               b == IF delivered THEN sent[r] + 1 ELSE sent[r]
               q == neat[r] /\ delivered
    <3>1. x \in [status : Nat, size : Nat] /\ a \in Nat /\ b \in Nat
      BY <2>1 DEF Implicit
    <3>2. q \in BOOLEAN
      BY <2>1, Zenon
    <3>3. q => Fits(x, a, b, "serving")
      BY <2>1 DEF Fits, Implicit
    <3>4. writer' = [writer EXCEPT ![held[r]] = x]
      BY <2>1, <2>3 DEF Write
    <3>5. wire' = [wire EXCEPT ![r] = a] /\ sent' = [sent EXCEPT ![r] = b]
      BY <2>1, <2>3 DEF Write, Begun
    <3>6. neat' = [neat EXCEPT ![r] = q]
      BY <2>3, Zenon DEF Write
    <3>7. UNCHANGED <<package, pool, held>> /\ panicked' = "none" /\ pc' = pc
      BY <2>3 DEF Write, Silent
    <3> QED
      <4> HIDE DEF x, a, b, q
      <4> QED
        BY <1>2, <2>1, <3>1, <3>2, <3>3, <3>4, <3>5, <3>6, <3>7, HandlerStep
  <2>4. ASSUME NEW n \in 0 .. MaxBody, ReadFrom(r, n) PROVE Inv'
    <3> DEFINE x == [status |-> Implicit(r), size |-> w.size + n]
               a == IF n > 0 /\ wire[r] = 0 THEN 200 ELSE wire[r]
    <3>1. /\ x \in [status : Nat, size : Nat] /\ a \in Nat /\ sent[r] + n \in Nat
          /\ n \in Nat
      BY <2>1, MetricsAssumption DEF Implicit
    <3>2. neat[r] => Fits(x, a, sent[r] + n, "serving")
      BY <2>1, <3>1 DEF Fits, Implicit
    <3>3. writer' = [writer EXCEPT ![held[r]] = x]
      BY <2>1, <2>4 DEF ReadFrom
    <3>4. wire' = [wire EXCEPT ![r] = a] /\ sent' = [sent EXCEPT ![r] = sent[r] + n]
      BY <2>1, <2>4, <3>1 DEF ReadFrom, Begun
    <3>5. /\ UNCHANGED <<package, pool, held>> /\ panicked' = "none"
          /\ pc' = pc /\ neat' = neat
      BY <2>4 DEF ReadFrom, Silent
    <3> QED
      <4> HIDE DEF x, a
      <4> QED
        BY <1>2, <2>1, <3>1, <3>2, <3>3, <3>4, <3>5, HandlerStep
  <2>5. CASE Flush(r)
    <3> DEFINE a == IF wire[r] = 0 THEN 200 ELSE wire[r]
    <3>1. a \in Nat /\ (neat[r] => Fits(w, a, sent[r], "serving"))
      BY <2>1 DEF Fits
    <3>2. wire' = [wire EXCEPT ![r] = a]
      BY <2>1, <2>5 DEF Flush, Begun
    <3>3. /\ UNCHANGED <<package, pool, held>> /\ panicked' = "none"
          /\ pc' = pc /\ neat' = neat /\ sent' = sent /\ writer' = writer
      BY <2>5 DEF Flush, Silent
    <3> QED
      <4> HIDE DEF a, w
      <4> QED
        BY <1>2, <2>1, <3>1, <3>2, <3>3, HandlerStep
  <2>6. ASSUME NEW e \in {0} \cup ErrorCode, Return(r, e) PROVE Inv'
    <3> DEFINE x == [status |-> Recorded(r, e), size |-> w.size]
               a == IF wire[r] # 0 THEN wire[r] ELSE IF e = 0 THEN 200 ELSE e
               q == neat[r] /\ (\/ e = 0
                                \/ e = 500 /\ wire[r] = 0 /\ w.status = 0
                                \/ wire[r] # 0 /\ w.status # 0)
    <3>1. e \in Nat /\ x \in [status : Nat, size : Nat] /\ a \in Nat
      BY <2>1 DEF ErrorCode, Recorded
    <3>2. q \in BOOLEAN
      BY <2>1, Zenon
    <3>3. q => Fits(x, a, sent[r], "record")
      BY <2>1, <3>1 DEF Fits, Recorded
    <3>4. writer' = [writer EXCEPT ![held[r]] = x]
      <4>1. x = [w EXCEPT !.status = Recorded(r, e)]
        BY <2>1, <3>1
      <4>2. writer' = [writer EXCEPT ![held[r]] = [w EXCEPT !.status = Recorded(r, e)]]
        BY <2>6, Zenon DEF Return
      <4> QED
        BY <4>1, <4>2
    <3>5. wire' = [wire EXCEPT ![r] = a]
      BY <2>1, <2>6 DEF Return
    <3>6. neat' = [neat EXCEPT ![r] = q]
      BY <2>6, Zenon DEF Return
    <3>7. /\ UNCHANGED <<package, pool, held>> /\ panicked' = "none"
          /\ pc' = [pc EXCEPT ![r] = "record"] /\ sent' = sent
      BY <2>6 DEF Return, Silent, goto
    <3> QED
      <4> HIDE DEF x, a, q
      <4> QED
        BY <1>2, <2>1, <3>1, <3>2, <3>3, <3>4, <3>5, <3>6, <3>7, HandlerStep
  <2> QED
    BY <2>2, <2>3, <2>4, <2>5, <2>6 DEF Handle
<1> QED
  BY <1>1, <1>2

(* A request gets a writer nobody uses, wiped clean. *)
LEMMA ServeStep ==
    ASSUME Inv, NEW r \in Request, ServeHTTP(r)
    PROVE  Inv'
<1>1. PICK w \in pool : /\ pool' = pool \ {w}
                        /\ held' = [held EXCEPT ![r] = w]
                        /\ writer' = [writer EXCEPT ![w] = Unused]
  BY DEF ServeHTTP, Reset
<1>2. /\ UNCHANGED <<package, wire, sent, neat>> /\ panicked' = "none" /\ running
      /\ pc[r] = "idle" /\ pc' = [pc EXCEPT ![r] = "serving"]
  BY DEF ServeHTTP, goto, Silent
<1>3. w \in Writer /\ Unused \in [status : Nat, size : Nat]
  BY <1>1 DEF Inv, MiddlewareType, Unused
<1>4. MiddlewareType'
  BY <1>1, <1>2, <1>3 DEF Inv, MiddlewareType
<1>5. /\ held'[r] = w /\ pc'[r] = "serving" /\ writer'[w] = Unused
      /\ \A p \in Request : p # r => held'[p] = held[p] /\ pc'[p] = pc[p]
      /\ \A v \in Writer : v # w => writer'[v] = writer[v]
  BY <1>1, <1>2, <1>3 DEF Inv, MiddlewareType
<1>6. \A p \in Request : p # r /\ pc[p] # "idle" =>
         held[p] \in Writer \ pool /\ held[p] # w
  BY <1>1 DEF Inv, WriterInv
<1>7. WriterInv'
  <2>1. \A p \in Request : pc'[p] # "idle" => held'[p] \in Writer \ pool'
    BY <1>1, <1>3, <1>5, <1>6
  <2>2. \A p, q \in Request :
           pc'[p] # "idle" /\ pc'[q] # "idle" /\ held'[p] = held'[q] => p = q
    BY <1>5, <1>6 DEF Inv, WriterInv
  <2>3. \A p \in Request : pc'[p] = "idle" => wire'[p] = 0 /\ sent'[p] = 0 /\ neat'[p]
    BY <1>2, <1>5 DEF Inv, WriterInv
  <2> QED
    BY <2>1, <2>2, <2>3 DEF WriterInv
<1>8. NeatInv'
  <2> SUFFICES ASSUME NEW p \in Request, neat'[p], pc'[p] # "idle"
               PROVE  Fits(writer'[held'[p]], wire'[p], sent'[p], pc'[p])
    BY DEF NeatInv
  <2>1. CASE p = r
    <3>1. wire'[r] = 0 /\ sent'[r] = 0
      BY <1>2 DEF Inv, WriterInv
    <3> QED
      BY <1>5, <2>1, <3>1 DEF Fits, Unused
  <2>2. CASE p # r
    <3>1. held'[p] = held[p] /\ pc'[p] = pc[p] /\ writer'[held[p]] = writer[held[p]]
      BY <1>5, <1>6, <2>2
    <3> QED
      BY <1>2, <3>1 DEF Inv, NeatInv
  <2> QED
    BY <2>1, <2>2
<1>9. OnceInv' /\ RecordNilSafe'
  BY <1>2, <1>5 DEF Inv, OnceInv, RecordNilSafe, package
<1> QED
  BY <1>2, <1>4, <1>7, <1>8, <1>9, PackageKept DEF Inv

(* The deferred Put: the request is over and its writer is free. *)
LEMMA PutStep ==
    ASSUME Inv, NEW r \in Request, pc[r] # "idle", Put(r),
           UNCHANGED <<package, writer>>, RecordNilSafe'
    PROVE  Inv'
<1>1. /\ pool' = pool \cup {held[r]} /\ held' = [held EXCEPT ![r] = Nil]
      /\ wire' = [wire EXCEPT ![r] = 0] /\ sent' = [sent EXCEPT ![r] = 0]
      /\ neat' = [neat EXCEPT ![r] = TRUE] /\ pc' = [pc EXCEPT ![r] = "idle"]
  BY DEF Put, goto
<1>2. held[r] \in Writer
  BY DEF Inv, WriterInv
<1>3. /\ pc'[r] = "idle" /\ wire'[r] = 0 /\ sent'[r] = 0 /\ neat'[r]
      /\ \A p \in Request : p # r => /\ held'[p] = held[p] /\ pc'[p] = pc[p]
                                     /\ wire'[p] = wire[p] /\ sent'[p] = sent[p]
                                     /\ neat'[p] = neat[p]
  BY <1>1 DEF Inv, MiddlewareType
<1>4. MiddlewareType'
  <2>1. neat' \in [Request -> BOOLEAN]
    BY <1>1, Zenon DEF Inv, MiddlewareType
  <2> QED
    BY <1>1, <1>2, <2>1 DEF Inv, MiddlewareType
<1>5. WriterInv'
  <2>1. \A p \in Request : pc'[p] # "idle" => held'[p] \in Writer \ pool'
    BY <1>1, <1>3 DEF Inv, WriterInv
  <2> QED
    BY <1>3, <2>1 DEF Inv, WriterInv
<1>6. NeatInv'
  BY <1>3 DEF Inv, NeatInv
<1>7. OnceInv'
  BY <1>3 DEF Inv, OnceInv, package
<1> QED
  BY <1>4, <1>5, <1>6, <1>7, PackageKept DEF Inv

(* RecordGCSOperation looks at gcsOperationsTotal and uses the histogram made *)
(* before it; the other GCS helpers use what they look at.                    *)
LEMMA GCSHelperSafe ==
    ASSUME Inv, failed = {}, NEW h \in DOMAIN Guard, h # "RecordHTTPRequest"
    PROVE  ~Panics(h, 0, {})
<1>1. CASE h = "RecordGCSOperation"
  <2>1. Guard[h] = "gcsOperationsTotal"
    BY <1>1 DEF Guard
  <2>2. Uses(h, 0) = {"gcsOperationsTotal", "gcsOperationDuration"}
    BY <1>1, <2>1 DEF Uses
  <2>3. Made(6) => Made(5)
    BY DEF Inv, InstrumentInv, PackageType
  <2> QED
    BY <2>1, <2>2, <2>3, Order DEF Panics, Made
<1>2. CASE h # "RecordGCSOperation"
  <2>1. Uses(h, 0) = {Guard[h]}
    BY <1>2 DEF Uses
  <2> QED
    BY <2>1 DEF Panics
<1> QED
  BY <1>1, <1>2

(* While a config serves, RecordHTTPRequest finds all it uses. *)
LEMMA HTTPHelperSafe ==
    ASSUME Inv, failed = {}, running, NEW s
    PROVE  ~Panics("RecordHTTPRequest", s, {})
<1>1. \A i \in Instrument : instrument[i] # 0
  BY DEF Inv, OnceInv, InstrumentInv
<1>2. /\ Instruments[1] = "httpRequestDuration" /\ Instruments[2] = "httpRequestTotal"
      /\ Instruments[3] = "httpRequestErrors" /\ Instruments[4] = "httpResponseSize"
  BY DEF Instruments
<1>3. {"httpRequestDuration", "httpRequestTotal", "httpRequestErrors", "httpResponseSize"}
         \subseteq Instrument
  BY <1>2, Eleven
<1>4. Guard["RecordHTTPRequest"] = "httpRequestTotal"
  BY DEF Guard
<1>5. Uses("RecordHTTPRequest", s) \subseteq Instrument
  BY <1>3, <1>4 DEF Uses
<1> QED
  BY <1>1, <1>5 DEF Panics

(* One step of Next keeps the invariant. *)
LEMMA NextInv == Inv /\ [Next]_vars => Inv'
<1> SUFFICES ASSUME Inv, [Next]_vars PROVE Inv'
  OBVIOUS
<1>1. CASE UNCHANGED vars
  <2>1. OnceInv' /\ RecordNilSafe'
    BY <1>1 DEF vars, package, middleware, Inv, OnceInv, RecordNilSafe
  <2> QED
    BY <1>1, <2>1, PackageKept, MiddlewareKept DEF vars, Inv
<1>2. CASE Load \/ Shutdown
  BY <1>2, LoadStep
<1>3. ASSUME NEW h \in DOMAIN Guard, RecordGCS(h) PROVE Inv'
  <2>1. UNCHANGED <<package, middleware>> /\ h # "RecordHTTPRequest"
    BY <1>3 DEF RecordGCS
  <2>2. panicked' = "fault" => Panics(h, 0, {})
    BY <1>3 DEF RecordGCS
  <2>3. RecordNilSafe'
    BY <2>1, <2>2, GCSHelperSafe DEF RecordNilSafe, package
  <2>4. OnceInv'
    BY <2>1 DEF Inv, OnceInv, package, middleware
  <2> QED
    BY <2>1, <2>3, <2>4, PackageKept, MiddlewareKept DEF Inv
<1>4. ASSUME NEW r \in Request, ServeHTTP(r) PROVE Inv'
  BY <1>4, ServeStep
<1>5. ASSUME NEW r \in Request, Handle(r) PROVE Inv'
  <2>1. CASE Abort(r)
    <3>1. RecordNilSafe'
      BY <2>1 DEF Abort, Silent, RecordNilSafe
    <3> QED
      BY <2>1, <3>1, PutStep DEF Abort
  <2> QED
    BY <1>5, <2>1, HandleStep
<1>6. ASSUME NEW r \in Request, Record(r) PROVE Inv'
  <2>1. running /\ pc[r] = "record" /\ Put(r) /\ UNCHANGED <<package, writer>>
    BY <1>6 DEF Record, Inv, OnceInv
  <2>2. panicked' = "fault" => Panics("RecordHTTPRequest", writer[held[r]].status, {})
    BY <1>6 DEF Record
  <2>3. RecordNilSafe'
    BY <2>1, <2>2, HTTPHelperSafe DEF RecordNilSafe, package
  <2> QED
    BY <2>1, <2>3, PutStep
<1> QED
  BY <1>1, <1>2, <1>3, <1>4, <1>5, <1>6 DEF Next

-----------------------------------------------------------------------------
(* A config that serves has every instrument, of the provider that is scraped. *)
THEOREM Complete == Spec => []ServesComplete
<1>1. Inv => ServesComplete
  BY DEF Inv, OnceInv, InstrumentInv, ServesComplete
<1> QED
  BY InitInv, NextInv, <1>1, PTL DEF Spec

(* No recording helper meets a nil instrument, at any time of any Init.       *)
THEOREM NilSafe == Spec => []RecordNilSafe
<1>1. Inv => RecordNilSafe
  BY DEF Inv
<1> QED
  BY InitInv, NextInv, <1>1, PTL DEF Spec

(* What is recorded of a neat handler's request is what was sent, however     *)
(* many requests share the pool of writers.                                   *)
THEOREM Truth == Spec => []RecordedTruth
<1>1. Inv => RecordedTruth
  <2> SUFFICES ASSUME Inv, NEW r \in Request, pc[r] = "record", neat[r]
               PROVE  writer[held[r]] = [status |-> wire[r], size |-> sent[r]]
    BY DEF RecordedTruth
  <2>1. writer[held[r]] \in [status : Nat, size : Nat]
    BY DEF Inv, MiddlewareType, WriterInv
  <2>2. Fits(writer[held[r]], wire[r], sent[r], "record")
    BY DEF Inv, NeatInv
  <2>3. writer[held[r]].status = wire[r] /\ writer[held[r]].size = sent[r]
    BY <2>2 DEF Fits
  <2> QED
    BY <2>1, <2>3
<1> QED
  BY InitInv, NextInv, <1>1, PTL DEF Spec

(* No instrument is assigned while a config serves. *)
THEOREM NoRace == Spec => NoRacyInit
<1>1. Inv /\ [Next]_vars => [running /\ running' => instrument' = instrument]_vars
  <2> SUFFICES ASSUME Inv, Next, running PROVE instrument' = instrument
    BY DEF vars
  <2>1. initPc = "idle"
    BY DEF Inv, OnceInv
  <2> QED
    BY <2>1 DEF Next, Load, Provision, NewExporter, ExporterFails, CreateInstrument,
                CreateFails, Shutdown, RecordGCS, ServeHTTP, Handle, WriteHeader, Write,
                ReadFrom, Flush, Abort, Return, Record, package
<1> QED
  BY InitInv, NextInv, <1>1, PTL DEF Spec, NoRacyInit
=============================================================================
