---------------------------- MODULE TracingProofs ----------------------------
(* Safety of the tracing package for any number of goroutines and providers:  *)
(* no provider is lost and spans reach the running one.                       *)
EXTENDS Tracing, TLAPS

Inv == TypeOK /\ Protocol /\ NoProviderLost /\ SpansReachProvider

(* The initial state satisfies the invariant. *)
LEMMA InitInv == Init => Inv
  <1> SUFFICES ASSUME Init PROVE Inv
    OBVIOUS
  <1>0. made \in 0 .. MaxProviders
    BY TracingAssumption DEF Init
  <1>1. TypeOK
    BY <1>0, Zenon DEF Init, TypeOK, Tracer, Default
  <1>2. Protocol /\ NoProviderLost /\ SpansReachProvider
    BY DEF Init, Protocol, NoProviderLost, SpansReachProvider
  <1>3. QED BY <1>1, <1>2 DEF Inv

(* Calls, spans and steps that end a call without touching the package's       *)
(* state keep it: nobody enters or leaves the locked sections.                 *)
LEMMA QuietStep ==
    ASSUME Inv, UNCHANGED <<initMu, state, otel>>,
           NEW g \in Goroutine, NEW l \in {"idle", "Init", "Shutdown", "GetTracer", "span"},
           pc' = [pc EXCEPT ![g] = l],
           exporter' \in [Goroutine -> Exporter \cup {Nil}],
           span' \in [Goroutine -> Tracer \cup {Nil}]
    PROVE  Inv'
  BY DEF Inv, TypeOK, Protocol, NoProviderLost, SpansReachProvider, state, otel,
         Provider, Tracer, Default

(* One step of Next keeps the invariant, one proof step per action. *)
LEMMA NextInv == Inv /\ [Next]_vars => Inv'
  <1> SUFFICES ASSUME Inv, [Next]_vars PROVE Inv'
    OBVIOUS
  <1> USE TracingAssumption
  <1>1. CASE UNCHANGED vars
    BY <1>1 DEF vars, Inv, TypeOK, Protocol, NoProviderLost, SpansReachProvider,
                state, otel, Provider, Tracer
  <1>2. ASSUME NEW g \in Goroutine, NEW x \in Exporter, CallInit(g, x)
        PROVE  Inv'
    BY <1>2, QuietStep DEF CallInit, goto, Inv, TypeOK
  <1>3. ASSUME NEW g \in Goroutine, NEW f \in {"Shutdown", "GetTracer"}, Call(g, f)
        PROVE  Inv'
    BY <1>3, QuietStep DEF Call, goto, Inv, TypeOK
  <1>4. ASSUME NEW g \in Goroutine, StartSpan(g) PROVE Inv'
    BY <1>4, QuietStep DEF StartSpan, goto, Inv, TypeOK
  <1>5. ASSUME NEW g \in Goroutine, EndSpan(g) PROVE Inv'
    BY <1>5, QuietStep DEF EndSpan, goto, Inv, TypeOK
  <1>6. ASSUME NEW g \in Goroutine, GetTracer(g) PROVE Inv'
    BY <1>6, QuietStep DEF GetTracer, goto, Inv, TypeOK
  <1>7. ASSUME NEW g \in Goroutine, InitLock(g) PROVE Inv'
    <2>1. CASE initialized
      BY <1>7, <2>1, QuietStep DEF InitLock, InitReturns, goto, Inv, TypeOK
    <2>2. CASE ~initialized
      BY <1>7, <2>2 DEF InitLock, goto, Inv, TypeOK, Protocol, NoProviderLost,
                        SpansReachProvider, state, otel, Provider, Tracer, Default
    <2>3. QED BY <2>1, <2>2
  <1>8. ASSUME NEW g \in Goroutine, InitFails(g) PROVE Inv'
    BY <1>8 DEF InitFails, InitReturns, goto, Inv, TypeOK, Protocol, NoProviderLost,
                SpansReachProvider, state, otel, Provider, Tracer, Default
  <1>9. ASSUME NEW g \in Goroutine, InitNone(g) PROVE Inv'
    BY <1>9 DEF InitNone, InitReturns, goto, Inv, TypeOK, Protocol, NoProviderLost,
                SpansReachProvider, otel, Provider, Tracer, Default
  <1>10. ASSUME NEW g \in Goroutine, InitProvider(g) PROVE Inv'
    <2>1. /\ made' = made + 1 /\ made' \in Provider
          /\ shutdownFunc = Nil /\ live = {}
          /\ live' = {made'} /\ shutdownFunc' = made' /\ shutdownFunc' # Nil
          /\ global' = made' /\ tracer' = made'
          /\ initialized' /\ initMu = g /\ initMu' = Nil
      BY <1>10 DEF InitProvider, Install, Inv, TypeOK, Protocol, NoProviderLost, Provider
    <2>2. TypeOK'
      BY <1>10, <2>1 DEF InitProvider, InitReturns, goto, Inv, TypeOK, Provider, Tracer
    <2>3. \A h \in Goroutine : pc'[h] \notin {"build", "flush"}
      BY <1>10, <2>1 DEF InitProvider, InitReturns, goto, Inv, TypeOK, Protocol
    <2>4. QED
      BY <2>1, <2>2, <2>3 DEF Inv, TypeOK, Protocol, NoProviderLost, SpansReachProvider, Provider
  <1>11. ASSUME NEW g \in Goroutine, ShutdownLock(g) PROVE Inv'
    <2>1. CASE ~initialized \/ shutdownFunc = Nil
      <3>1. UNCHANGED <<initMu, state, otel>> /\ pc' = [pc EXCEPT ![g] = "idle"]
        BY <1>11, <2>1 DEF ShutdownLock, goto
      <3>2. QED
        BY <1>11, <3>1, QuietStep DEF ShutdownLock, Inv, TypeOK
    <2>2. CASE initialized /\ shutdownFunc # Nil
      BY <1>11, <2>2 DEF ShutdownLock, goto, Inv, TypeOK, Protocol, NoProviderLost,
                         SpansReachProvider, state, otel, Provider, Tracer, Default
    <2>3. QED BY <2>1, <2>2
  <1>12. ASSUME NEW g \in Goroutine, ShutdownFlush(g) PROVE Inv'
    BY <1>12 DEF ShutdownFlush, goto, Inv, TypeOK, Protocol, NoProviderLost,
                 SpansReachProvider, Provider, Tracer, Default
  <1>13. QED
    BY <1>1, <1>2, <1>3, <1>4, <1>5, <1>6, <1>7, <1>8, <1>9, <1>10, <1>11, <1>12
       DEF Next, Step

(* The invariant holds in every reachable state. *)
LEMMA Inductive == Spec => []Inv
  BY InitInv, NextInv, PTL DEF Spec

(* Every variable of the package and of OpenTelemetry keeps its type. *)
THEOREM TypeCorrect == Spec => []TypeOK
  <1>1. Inv => TypeOK
    BY DEF Inv
  <1>2. QED
    BY Inductive, <1>1, PTL

(* A running provider is always the one that Shutdown will stop, however Init *)
(* and Shutdown calls interleave.                                             *)
THEOREM ProviderKept == Spec => []NoProviderLost
  <1>1. Inv => NoProviderLost
    BY DEF Inv
  <1>2. QED
    BY Inductive, <1>1, PTL

(* Between a successful Init and the end of Shutdown the package's tracer and *)
(* OpenTelemetry's global one belong to the running provider.                 *)
THEOREM SpansKept == Spec => []SpansReachProvider
  <1>1. Inv => SpansReachProvider
    BY DEF Inv
  <1>2. QED
    BY Inductive, <1>1, PTL
=============================================================================
