-------------------------------- MODULE Health --------------------------------
(* pkg/observability/health: the gcs_health handler (health_endpoint.go) and   *)
(* the checkers it asks (health.go).  Requests are served concurrently, each   *)
(* GCS call of a check is a step of its own, and checkers may be registered    *)
(* before Provision or while probes run.                                       *)
(*                                                                             *)
(* A response is abstracted to its HTTP code; bodies, labels and redaction are *)
(* left out.  compositeChecker is read without the handler's lock: the pointer *)
(* a probe reads is the one stored when it reads it.                           *)
EXTENDS Naturals, Sequences, FiniteSets

CONSTANTS
    Checker,     \* GCSHealthCheckers that may be registered
    Enabled,     \* Enabled[c]: the optional parts c's HealthConfig turns on
    NoClient,    \* checkers built with a nil client
    Request,     \* requests served at a time
    Written,     \* the gcs_health blocks users write
    MaxFaults,   \* bound: GCS calls failing at a time
    Nil

Part == {"connectivity", "storage", "permissions"}
Endpoint == {"health", "ready", "live", "startup", "detailed", "metrics"}

\* A block: its flags, detailed_local_only (or nothing) and whether a label has
\* a CR, LF or NUL.
Block == [flags : SUBSET {"enable_detailed", "enable_metrics"},
          localOnly : {"", "true", "false", "other"},
          badLabel : BOOLEAN]

ASSUME HealthAssumption ==
    /\ Enabled \in [Checker -> SUBSET {"connectivity", "permissions"}]
    /\ NoClient \subseteq Checker
    /\ Written \subseteq Block
    /\ MaxFaults \in Nat
    /\ Nil \notin Seq(Checker) /\ Nil \notin BOOLEAN

VARIABLES
    phase,           \* "written", "parsed", "provisioned", "refused" (dropped)
    block,           \* the block the handler comes from
    localOnly,       \* DetailedLocalOnly: Nil, TRUE or FALSE
    checkers,        \* h.checkers
    composite,       \* h.compositeChecker: Nil or the checkers it was built from
    startupComplete,
    faults,          \* GCS calls <<checker, part>> that fail now
    pc,              \* where each request is
    ep,              \* its endpoint
    queue,           \* checkers its composite check has still to ask
    parts,           \* what is left of the check of the first one
    status,          \* what it has found: "starting" is unhealthy, for startup
    atProvision,     \* history: checkers registered when Provision ran
    verified,        \* history: checkers a completed startup probe found storage of
    announced,       \* history: a /startup answer was 200
    since,           \* history: checkers registered when the request arrived
    knew,            \* history: announced, when the request arrived
    passed           \* history: checkers that passed in this request

handler == <<phase, block, localOnly, checkers, composite, startupComplete, atProvision>>
local == <<ep, since, knew>>
vars == <<handler, faults, pc, local, queue, parts, status,
          verified, announced, passed>>

Range(s) == {s[i] : i \in DOMAIN s}

TypeOK ==
    /\ phase \in {"written", "parsed", "provisioned", "refused"}
    /\ block \in Written
    /\ localOnly \in BOOLEAN \cup {Nil}
    /\ phase = "provisioned" => localOnly # Nil
    /\ checkers \in Seq(Checker)
    /\ composite \in Seq(Checker) \cup {Nil}
    /\ startupComplete \in BOOLEAN
    /\ faults \in SUBSET (Checker \X Part)
    /\ pc \in [Request -> {"idle", "flag", "composite", "check", "set", "write"}]
    /\ ep \in [Request -> Endpoint]
    /\ queue \in [Request -> Seq(Checker)]
    /\ parts \in [Request -> Seq(Part)]
    /\ status \in [Request -> {"", "healthy", "unhealthy", "starting"}]
    /\ atProvision \in SUBSET Checker
    /\ verified \in SUBSET Checker
    /\ announced \in BOOLEAN
    /\ since \in [Request -> SUBSET Checker]
    /\ knew \in [Request -> BOOLEAN]
    /\ passed \in [Request -> SUBSET Checker]

Init ==
    /\ phase = "written"
    /\ block \in Written
    /\ localOnly = Nil
    /\ checkers = <<>>
    /\ composite = Nil
    /\ startupComplete = FALSE
    /\ faults = {}
    /\ pc = [r \in Request |-> "idle"]
    /\ ep = [r \in Request |-> "live"]
    /\ queue = [r \in Request |-> <<>>]
    /\ parts = [r \in Request |-> <<>>]
    /\ status = [r \in Request |-> ""]
    /\ atProvision = {}
    /\ verified = {}
    /\ announced = FALSE
    /\ since = [r \in Request |-> {}]
    /\ knew = [r \in Request |-> FALSE]
    /\ passed = [r \in Request |-> {}]

-----------------------------------------------------------------------------
\* The handler's own life.

requests == <<pc, local, queue, parts, status, verified, announced, passed>>

UnmarshalCaddyfile ==
    /\ phase = "written"
    /\ IF block.localOnly = "other"
       THEN phase' = "refused" /\ UNCHANGED localOnly
       ELSE /\ phase' = "parsed"
            /\ localOnly' = IF block.localOnly = "" THEN Nil ELSE block.localOnly = "true"
    /\ UNCHANGED <<block, checkers, composite, startupComplete, atProvision, faults, requests>>

\* A mutant of Provision: the default of DetailedLocalOnly is left out.
ProvisionWithoutDefault ==
    /\ phase = "parsed"
    /\ phase' = IF block.badLabel THEN "refused" ELSE "provisioned"
    /\ composite' = IF Len(checkers) > 0 THEN checkers ELSE composite
    /\ startupComplete' = (Len(checkers) = 0)
    /\ atProvision' = Range(checkers)
    /\ UNCHANGED <<localOnly, block, checkers, faults, requests>>

\* A bad label is found after the defaults are in and before the state is set.
Provision ==
    /\ phase = "parsed"
    /\ localOnly' = IF localOnly = Nil THEN TRUE ELSE localOnly
    /\ IF block.badLabel
       THEN phase' = "refused" /\ UNCHANGED <<composite, startupComplete, atProvision>>
       ELSE /\ phase' = "provisioned"
            /\ composite' = IF Len(checkers) > 0 THEN checkers ELSE composite
            /\ startupComplete' = (Len(checkers) = 0)
            /\ atProvision' = Range(checkers)
    /\ UNCHANGED <<block, checkers, faults, requests>>

\* A mutant of AddHealthChecker: an existing composite is kept.
AddWithoutRebuild(c) ==
    /\ phase \in {"parsed", "provisioned"}
    /\ c \notin Range(checkers)
    /\ checkers' = Append(checkers, c)
    /\ composite' = IF composite = Nil THEN checkers' ELSE composite
    /\ UNCHANGED <<phase, block, localOnly, startupComplete, atProvision, faults, requests>>

\* Under the write lock: the list grows and the composite is built anew.
AddHealthChecker(c) ==
    /\ phase \in {"parsed", "provisioned"}
    /\ c \notin Range(checkers)
    /\ checkers' = Append(checkers, c)
    /\ composite' = checkers'
    /\ UNCHANGED <<phase, block, localOnly, startupComplete, atProvision, faults, requests>>

-----------------------------------------------------------------------------
\* The checkers.

\* GCSHealthChecker.Check: what it asks GCS, in order.
CheckParts(c) ==
    LET Optional(x) == IF x \in Enabled[c] THEN <<x>> ELSE <<>>
    IN Optional("connectivity") \o <<"storage">> \o Optional("permissions")

\* CheckConnectivity, CheckStorage and CheckPermissions: one call each, none
\* and unhealthy without a client.
Healthy(c, part) == c \notin NoClient /\ <<c, part>> \notin faults

\* Outages begin and end at any time; a deadline or a client that goes away
\* fails a call the same way.
Outage ==
    /\ \E f \in SUBSET {x \in Checker \X Part : x[2] \in Range(CheckParts(x[1]))} :
           Cardinality(f) <= MaxFaults /\ faults' = f
    /\ UNCHANGED <<handler, requests>>

-----------------------------------------------------------------------------
\* A request.

goto(r, l) == pc' = [pc EXCEPT ![r] = l]

\* The status is decided; what remains is to write it.
report(r, s) == goto(r, "write") /\ status' = [status EXCEPT ![r] = s]

history == <<verified, announced>>

\* isDetailedAllowed: loopback only, unless the block says otherwise.
isDetailedAllowed(loopback) == localOnly = FALSE \/ loopback

\* ServeHTTP's switch: the endpoint is served, and not left to the next handler.
Serves(e, loopback) ==
    CASE e = "detailed" -> "enable_detailed" \in block.flags /\ isDetailedAllowed(loopback)
      [] e = "metrics" -> "enable_metrics" \in block.flags /\ isDetailedAllowed(loopback)
      [] OTHER -> TRUE

\* Alive is all it says.
serveLiveness(r) == report(r, "healthy")

\* serveReadiness and serveStartup look at the flag first, the others go
\* straight to the composite.
ServeHTTP(r, e, loopback) ==
    /\ phase = "provisioned"
    /\ pc[r] = "idle"
    /\ Serves(e, loopback)
    /\ ep' = [ep EXCEPT ![r] = e]
    /\ since' = [since EXCEPT ![r] = Range(checkers)]
    /\ knew' = [knew EXCEPT ![r] = announced]
    /\ CASE e = "live" -> serveLiveness(r)
         [] e \in {"ready", "startup"} -> goto(r, "flag") /\ UNCHANGED status
         [] OTHER -> goto(r, "composite") /\ UNCHANGED status
    /\ UNCHANGED <<handler, faults, queue, parts, history, passed>>

\* A mutant of ReadFlag: a startup probe reports the flag and never checks.
ReadFlagOnly(r) ==
    /\ pc[r] = "flag"
    /\ IF startupComplete /\ ep[r] = "ready"
       THEN goto(r, "composite") /\ UNCHANGED status
       ELSE report(r, IF startupComplete THEN "healthy" ELSE "starting")
    /\ UNCHANGED <<handler, faults, local, queue, parts, history, passed>>

\* startupComplete, read under the read lock.
ReadFlag(r) ==
    /\ pc[r] = "flag"
    /\ IF startupComplete = (ep[r] = "ready")
       THEN goto(r, "composite") /\ UNCHANGED status
       ELSE report(r, IF startupComplete THEN "healthy" ELSE "starting")
    /\ UNCHANGED <<handler, faults, local, queue, parts, history, passed>>

\* What a check of checker c consists of: /health runs Check, all the other
\* endpoints run CheckStorage.
ToAsk(e, c) == IF e = "health" THEN CheckParts(c) ELSE <<"storage">>

\* A check is over: a startup probe has yet to set the flag.
Conclude(r) ==
    IF ep[r] = "startup" THEN goto(r, "set") /\ UNCHANGED status ELSE report(r, "healthy")

ReadComposite(r) ==
    /\ pc[r] = "composite"
    /\ IF composite = Nil
       THEN Conclude(r) /\ UNCHANGED <<queue, parts>>
       ELSE /\ goto(r, "check")
            /\ queue' = [queue EXCEPT ![r] = composite]
            /\ parts' = [parts EXCEPT ![r] = ToAsk(ep[r], Head(composite))]
            /\ UNCHANGED status
    /\ UNCHANGED <<handler, faults, local, history, passed>>

\* CompositeHealthChecker: the next GCS call answers well.
CheckPasses(r) ==
    /\ pc[r] = "check"
    /\ Healthy(Head(queue[r]), Head(parts[r]))
    /\ IF Len(parts[r]) > 1
       THEN /\ parts' = [parts EXCEPT ![r] = Tail(@)]
            /\ UNCHANGED <<pc, status, queue, passed>>
       ELSE /\ passed' = [passed EXCEPT ![r] = @ \cup {Head(queue[r])}]
            /\ queue' = [queue EXCEPT ![r] = Tail(@)]
            /\ IF Len(queue[r]) > 1
               THEN /\ parts' = [parts EXCEPT ![r] = ToAsk(ep[r], queue[r][2])]
                    /\ UNCHANGED <<pc, status>>
               ELSE parts' = [parts EXCEPT ![r] = <<>>] /\ Conclude(r)
    /\ UNCHANGED <<handler, faults, local, history>>

\* A mutant of CheckFails: tryCompleteStartup ignores the status.
CheckFailsUnseen(r) ==
    /\ pc[r] = "check"
    /\ ~ Healthy(Head(queue[r]), Head(parts[r]))
    /\ Conclude(r)
    /\ queue' = [queue EXCEPT ![r] = <<>>]
    /\ parts' = [parts EXCEPT ![r] = <<>>]
    /\ UNCHANGED <<handler, faults, local, history, passed>>

\* ... or fails, and the composite stops there.
CheckFails(r) ==
    /\ pc[r] = "check"
    /\ ~ Healthy(Head(queue[r]), Head(parts[r]))
    /\ report(r, IF ep[r] = "startup" THEN "starting" ELSE "unhealthy")
    /\ queue' = [queue EXCEPT ![r] = <<>>]
    /\ parts' = [parts EXCEPT ![r] = <<>>]
    /\ UNCHANGED <<handler, faults, local, history, passed>>

\* A mutant of tryCompleteStartup: success is returned and not recorded.
CompleteUnrecorded(r) ==
    /\ pc[r] = "set"
    /\ report(r, "healthy")
    /\ verified' = verified \cup passed[r]
    /\ UNCHANGED <<handler, faults, local, queue, parts, announced, passed>>

\* tryCompleteStartup: the flag, under the write lock.
tryCompleteStartup(r) ==
    /\ pc[r] = "set"
    /\ startupComplete' = TRUE
    /\ verified' = verified \cup passed[r]
    /\ report(r, "healthy")
    /\ UNCHANGED <<phase, block, localOnly, checkers, composite, atProvision,
                   faults, local, queue, parts, announced, passed>>

\* writeHealthResponse and the end of serveDetailedHealth: 503 unless healthy.
\* serveHealthMetrics puts the status in the body and always answers 200.
StatusCode(e, s) == IF s = "healthy" \/ e = "metrics" THEN 200 ELSE 503

\* The code a request whose status is decided answers with.
Answers(r, n) == pc[r] = "write" /\ StatusCode(ep[r], status[r]) = n

\* The response is written and the request is over.
WriteResponse(r) ==
    /\ pc[r] = "write"
    /\ goto(r, "idle")
    /\ announced' = (announced \/ (ep[r] = "startup" /\ Answers(r, 200)))
    /\ ep' = [ep EXCEPT ![r] = "live"]
    /\ status' = [status EXCEPT ![r] = ""]
    /\ since' = [since EXCEPT ![r] = {}]
    /\ knew' = [knew EXCEPT ![r] = FALSE]
    /\ passed' = [passed EXCEPT ![r] = {}]
    /\ UNCHANGED <<handler, faults, queue, parts, verified>>

Step(r) ==
    \/ ReadFlag(r)
    \/ ReadComposite(r)
    \/ CheckPasses(r)
    \/ CheckFails(r)
    \/ tryCompleteStartup(r)
    \/ WriteResponse(r)

Next ==
    \/ UnmarshalCaddyfile
    \/ Provision
    \/ \E c \in Checker : AddHealthChecker(c)
    \/ Outage
    \/ \E r \in Request, e \in Endpoint, loopback \in BOOLEAN : ServeHTTP(r, e, loopback)
    \/ \E r \in Request : Step(r)

\* Every goroutine runs on, Caddy brings the handler up, and whatever watches
\* the pod keeps sending startup probes.
Fairness ==
    /\ WF_vars(UnmarshalCaddyfile)
    /\ WF_vars(Provision)
    /\ \A r \in Request : WF_vars(Step(r))
    /\ \A r \in Request : SF_vars(ServeHTTP(r, "startup", TRUE))

Spec == Init /\ [][Next]_vars /\ Fairness

-----------------------------------------------------------------------------
\* Properties.

\* Startup is complete only after storage was found reachable, by a startup
\* probe, for every checker registered when Provision ran (the comment in
\* Provision at health_endpoint.go:125, tryCompleteStartup), whatever probes
\* run side by side and whenever outages come and go.
StartupVerified == startupComplete => atProvision \subseteq verified

\* A 200 from /health, /ready or /health/detailed means that every checker
\* registered before the request arrived passed in this very request, even
\* though compositeChecker is replaced while requests run.
HealthyMeansChecked ==
    \A r \in Request :
        Answers(r, 200) /\ ep[r] \in {"health", "ready", "detailed"}
            => since[r] \subseteq passed[r]

\* Once somebody was told that startup is complete, no probe that arrives later
\* answers that the service is still starting up (serveReadiness, serveStartup).
NoRelapse == \A r \in Request : status[r] = "starting" => ~ knew[r]

\* When GCS stays reachable and somebody keeps probing /startup, a handler that
\* is not refused completes its startup (serveStartup, tryCompleteStartup).
StartupCompletes ==
    <>[](faults = {} /\ Range(checkers) \cap NoClient = {})
        => <>(startupComplete \/ phase = "refused")
=============================================================================
