------------------------------- MODULE Tracing -------------------------------
(* pkg/observability/tracing: the process-wide tracer, its Init and Shutdown,  *)
(* and the spans of goroutines that come and go meanwhile.  Init and Shutdown  *)
(* talk to the collector while they hold initMu; StartSpan takes no lock and   *)
(* goes through OpenTelemetry's own global provider.                           *)
(*                                                                             *)
(* A tracer is the provider it was obtained from; a span belongs to the        *)
(* provider of its tracer, which drops it once it has been shut down.          *)
EXTENDS Naturals

CONSTANTS
    Goroutine,
    MaxProviders,   \* bound: providers created
    Nil

ASSUME TracingAssumption ==
    /\ MaxProviders \in Nat
    /\ Nil \notin Nat
    /\ Nil \notin Goroutine

\* What Init is called with: a usable exporter ("otlp", "stdout"), none, or one
\* that cannot be built (unknown type, missing endpoint, unsupported protocol).
Exporter == {"usable", "none", "bad"}

Default == 0
Provider == 1 .. MaxProviders
Tracer == Provider \cup {Default}

VARIABLES
    initMu,        \* the goroutine that holds it, or Nil
    initialized,
    shutdownFunc,  \* the provider it shuts down, or Nil
    tracer,        \* the package's tracer, or Nil
    global,        \* otel's global provider
    made,          \* providers created so far
    live,          \* providers created and not shut down
    pc,            \* where each goroutine is
    exporter,      \* the exporter its Init is called with, or Nil
    span           \* the provider of the span it has started, or Nil

state == <<initialized, shutdownFunc, tracer>>
otel == <<global, made, live>>
vars == <<initMu, state, otel, pc, exporter, span>>

TypeOK ==
    /\ initMu \in Goroutine \cup {Nil}
    /\ initialized \in BOOLEAN
    /\ shutdownFunc \in Provider \cup {Nil}
    /\ tracer \in Tracer \cup {Nil}
    /\ global \in Tracer
    /\ made \in 0 .. MaxProviders
    /\ live \subseteq Provider
    /\ pc \in [Goroutine -> {"idle", "Init", "build", "Shutdown", "flush",
                             "GetTracer", "span"}]
    /\ exporter \in [Goroutine -> Exporter \cup {Nil}]
    /\ span \in [Goroutine -> Tracer \cup {Nil}]

Init == /\ initMu = Nil
        /\ initialized = FALSE
        /\ shutdownFunc = Nil
        /\ tracer = Nil
        /\ global = Default
        /\ made = 0
        /\ live = {}
        /\ pc = [g \in Goroutine |-> "idle"]
        /\ exporter = [g \in Goroutine |-> Nil]
        /\ span = [g \in Goroutine |-> Nil]

-----------------------------------------------------------------------------
goto(g, l) == pc' = [pc EXCEPT ![g] = l]

\* A goroutine calls one of the package's functions.
CallInit(g, x) == /\ pc[g] = "idle"
                  /\ goto(g, "Init")
                  /\ exporter' = [exporter EXCEPT ![g] = x]
                  /\ UNCHANGED <<initMu, state, otel, span>>

Call(g, f) == /\ pc[g] = "idle"
              /\ goto(g, f)
              /\ UNCHANGED <<initMu, state, otel, exporter, span>>

\* The end of a function that was holding the lock (or never took it).
InitReturns(g) == /\ goto(g, "idle")
                  /\ exporter' = [exporter EXCEPT ![g] = Nil]
                  /\ UNCHANGED span

-----------------------------------------------------------------------------
\* A mutant of InitLock: an initialized package is initialized again.
InitLockAgain(g) ==
    /\ pc[g] = "Init" /\ initMu = Nil
    /\ initMu' = g /\ goto(g, "build") /\ UNCHANGED <<exporter, span>>
    /\ UNCHANGED <<state, otel>>

\* Init takes the lock; an initialized package is left as it is.
InitLock(g) ==
    /\ pc[g] = "Init" /\ initMu = Nil
    /\ \/ initialized /\ InitReturns(g) /\ UNCHANGED initMu
       \/ /\ ~initialized
          /\ initMu' = g /\ goto(g, "build") /\ UNCHANGED <<exporter, span>>
    /\ UNCHANGED <<state, otel>>

\* The resource or the exporter cannot be built: Init returns the error.
InitFails(g) ==
    /\ pc[g] = "build"
    /\ initMu' = Nil /\ InitReturns(g)
    /\ UNCHANGED <<state, otel>>

\* A mutant of InitNone: the global provider is remembered for Shutdown.
InitNoneBound(g) ==
    /\ pc[g] = "build" /\ exporter[g] = "none"
    /\ tracer' = global /\ shutdownFunc' = global
    /\ initialized' = TRUE
    /\ initMu' = Nil /\ InitReturns(g)
    /\ UNCHANGED otel

\* Exporter "none" or "": a tracer, and nothing to shut down.
InitNone(g) ==
    /\ pc[g] = "build" /\ exporter[g] = "none"
    /\ tracer' = global
    /\ initialized' = TRUE
    /\ initMu' = Nil /\ InitReturns(g)
    /\ UNCHANGED <<shutdownFunc, otel>>

\* A mutant of Install: the package keeps the provider to itself.
InstallNowhere(p) == UNCHANGED global

\* otel.SetTracerProvider
Install(p) == global' = p

\* A usable exporter: a provider is built, installed and remembered.
InitProvider(g) ==
    /\ pc[g] = "build" /\ exporter[g] = "usable"
    /\ made < MaxProviders
    /\ made' = made + 1
    /\ live' = live \cup {made'}
    /\ Install(made')
    /\ tracer' = global'
    /\ shutdownFunc' = made'
    /\ initialized' = TRUE
    /\ initMu' = Nil /\ InitReturns(g)

-----------------------------------------------------------------------------
\* Nothing to shut down: not initialized, or initialized with "none".
ShutdownLock(g) ==
    /\ pc[g] = "Shutdown" /\ initMu = Nil
    /\ \/ /\ ~initialized \/ shutdownFunc = Nil
          /\ goto(g, "idle") /\ UNCHANGED initMu
       \/ /\ initialized /\ shutdownFunc # Nil
          /\ initMu' = g /\ goto(g, "flush")
    /\ UNCHANGED <<state, otel, exporter, span>>

\* The provider flushes and stops, with or without an error; either way the
\* package is reset and its tracer comes from the global provider.
ShutdownFlush(g) ==
    /\ pc[g] = "flush"
    /\ live' = live \ {shutdownFunc}
    /\ initialized' = FALSE
    /\ shutdownFunc' = Nil
    /\ tracer' = global
    /\ initMu' = Nil /\ goto(g, "idle")
    /\ UNCHANGED <<global, made, exporter, span>>

-----------------------------------------------------------------------------
\* A mutant of GetTracer: the lock is not given back.
GetTracerKeepsLock(g) == /\ pc[g] = "GetTracer" /\ initMu = Nil
                         /\ initMu' = g /\ goto(g, "idle")
                         /\ UNCHANGED <<state, otel, exporter, span>>

\* GetTracer waits for the lock and reads the tracer.
GetTracer(g) == /\ pc[g] = "GetTracer" /\ initMu = Nil
                /\ goto(g, "idle")
                /\ UNCHANGED <<initMu, state, otel, exporter, span>>

\* StartSpan takes no lock: the span belongs to the global provider's tracer.
StartSpan(g) == /\ pc[g] = "idle"
                /\ span' = [span EXCEPT ![g] = global]
                /\ goto(g, "span")
                /\ UNCHANGED <<initMu, state, otel, exporter>>

\* AddSpanAttributes and RecordSpanError touch the span only; then it ends.
EndSpan(g) == /\ pc[g] = "span"
              /\ span' = [span EXCEPT ![g] = Nil]
              /\ goto(g, "idle")
              /\ UNCHANGED <<initMu, state, otel, exporter>>

Step(g) == \/ InitLock(g) \/ InitFails(g) \/ InitNone(g) \/ InitProvider(g)
           \/ ShutdownLock(g) \/ ShutdownFlush(g)
           \/ GetTracer(g) \/ EndSpan(g)

Next == \E g \in Goroutine :
            \/ \E x \in Exporter : CallInit(g, x)
            \/ \E f \in {"Shutdown", "GetTracer"} : Call(g, f)
            \/ StartSpan(g)
            \/ Step(g)

\* A goroutine in a call goes on; sync.Mutex hands the lock to a waiter that
\* has starved long enough.
Spec == /\ Init /\ [][Next]_vars
        /\ \A g \in Goroutine : SF_vars(Step(g))

-----------------------------------------------------------------------------
(* No provider is lost: one that is running, with its batches and its         *)
(* connection, is the one Shutdown would stop, whatever Init and Shutdown     *)
(* calls race (the initialized flag is tested under the lock that also covers *)
(* the slow construction of the exporter).                                    *)
NoProviderLost == live = IF shutdownFunc = Nil THEN {} ELSE {shutdownFunc}

(* Between an Init that succeeded with a real exporter and the end of         *)
(* Shutdown, the tracer GetTracer hands out and the one StartSpan fetches     *)
(* without the lock both belong to the running provider, also when earlier    *)
(* rounds left a stopped one behind as OpenTelemetry's global.  (A provider    *)
(* counts as running until its flush ends; it drops new spans a little sooner.) *)
SpansReachProvider ==
    shutdownFunc # Nil => global \in live /\ tracer \in live

(* What makes the two invariants inductive: the goroutine between its steps   *)
(* is the one that holds initMu, what it decided when it took the lock still  *)
(* holds, and provider numbers are fresh.                                     *)
Protocol ==
    /\ \A g \in Goroutine : pc[g] \in {"build", "flush"} => initMu = g
    /\ \A g \in Goroutine : pc[g] = "build" => ~initialized
    /\ \A g \in Goroutine : pc[g] = "flush" => initialized /\ shutdownFunc # Nil
    /\ shutdownFunc # Nil => initialized
    /\ live \subseteq 1 .. made

(* Every call returns: nobody waits for ever on initMu, although it is held   *)
(* while an exporter is built and while a provider flushes.                   *)
CallsReturn == \A g \in Goroutine : (pc[g] # "idle") ~> (pc[g] = "idle")
=============================================================================
