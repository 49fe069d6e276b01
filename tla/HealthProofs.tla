----------------------------- MODULE HealthProofs -----------------------------
(* Safety of the gcs_health handler for any number of checkers, concurrent     *)
(* requests and failing GCS calls.                                             *)
EXTENDS Health, TLAPS

\* The handler's own state: the composite is built from all the checkers, no
\* request runs before Provision, and nobody was told that startup is complete
\* before it was.
HandlerInv ==
    /\ composite = IF checkers = <<>> THEN Nil ELSE checkers
    /\ phase # "provisioned" => ~announced /\ \A r \in Request : pc[r] = "idle"
    /\ atProvision \subseteq Range(checkers)
    /\ announced => startupComplete

\* What a request has found, and has still to ask, covers the checkers that were
\* registered when it arrived.
CoverInv(r) ==
    /\ pc[r] # "idle" => atProvision \subseteq since[r] /\ since[r] \subseteq Range(checkers)
    /\ pc[r] = "check" => queue[r] # <<>> /\ since[r] \subseteq passed[r] \cup Range(queue[r])
    /\ pc[r] = "set" => since[r] \subseteq passed[r]
    /\ pc[r] = "write" /\ status[r] = "healthy" /\ ep[r] \in {"health", "ready", "detailed"}
          => since[r] \subseteq passed[r]

\* A request that arrived after somebody was told that startup is complete meets
\* the flag set, so no startup probe among them goes on to check.
FlagInv(r) ==
    /\ pc[r] # "write" => status[r] = ""
    /\ knew[r] => announced
    /\ pc[r] = "flag" => ep[r] \in {"ready", "startup"}
    /\ pc[r] \in {"composite", "check", "set"} /\ ep[r] = "startup" => ~knew[r]
    /\ status[r] = "starting" => ~knew[r]
    /\ pc[r] = "write" /\ status[r] = "healthy" /\ ep[r] = "startup" => startupComplete

RequestInv == \A r \in Request : CoverInv(r) /\ FlagInv(r)

Inv == TypeOK /\ HandlerInv /\ RequestInv /\ StartupVerified

-----------------------------------------------------------------------------
(* The elements of a list that has grown, and of what is left of one. *)
LEMMA RangeAppend ==
    ASSUME NEW s \in Seq(Checker), NEW c \in Checker
    PROVE  Range(Append(s, c)) = Range(s) \cup {c} /\ Append(s, c) # <<>>
<1>1. /\ Append(s, c) \in Seq(Checker) /\ Len(s) \in Nat
      /\ Len(Append(s, c)) = Len(s) + 1
      /\ \A i \in 1 .. Len(s) : Append(s, c)[i] = s[i]
      /\ Append(s, c)[Len(s) + 1] = c
  OBVIOUS
<1>2. DOMAIN Append(s, c) = 1 .. Len(s) + 1 /\ DOMAIN s = 1 .. Len(s)
  BY <1>1
<1> QED
  BY <1>1, <1>2 DEF Range

LEMMA RangeTail ==
    ASSUME NEW s \in Seq(Checker), s # <<>>
    PROVE  /\ Head(s) \in Checker /\ Tail(s) \in Seq(Checker)
           /\ Range(s) \subseteq {Head(s)} \cup Range(Tail(s))
           /\ Range(s) \subseteq Checker
           /\ Len(s) > 1 => Tail(s) # <<>> /\ s[2] \in Checker
           /\ ~(Len(s) > 1) => Range(Tail(s)) = {}
<1>1. /\ Len(s) \in Nat /\ Len(s) > 0 /\ DOMAIN s = 1 .. Len(s)
      /\ \A i \in 1 .. Len(s) : s[i] \in Checker
      /\ Head(s) = s[1] /\ Tail(s) \in Seq(Checker) /\ Len(Tail(s)) = Len(s) - 1
      /\ \A i \in 1 .. Len(s) - 1 : Tail(s)[i] = s[i + 1]
  OBVIOUS
<1>2. DOMAIN Tail(s) = 1 .. Len(s) - 1
  BY <1>1
<1>3. ASSUME NEW i \in 1 .. Len(s) PROVE s[i] \in {Head(s)} \cup Range(Tail(s))
  <2>1. CASE i = 1
    BY <1>1, <2>1
  <2>2. CASE i # 1
    <3>1. i - 1 \in 1 .. Len(s) - 1 /\ Tail(s)[i - 1] = s[i]
      BY <1>1, <2>2
    <3> QED
      BY <1>2, <3>1 DEF Range
  <2> QED
    BY <2>1, <2>2
<1>4. Range(s) \subseteq {Head(s)} \cup Range(Tail(s)) /\ Range(s) \subseteq Checker
  BY <1>1, <1>3 DEF Range
<1>5. Len(s) > 1 => Tail(s) # <<>> /\ s[2] \in Checker
  <2> SUFFICES ASSUME Len(s) > 1 PROVE Tail(s) # <<>> /\ s[2] \in Checker
    OBVIOUS
  <2>1. Len(Tail(s)) # 0
    BY <1>1
  <2>2. 2 \in 1 .. Len(s)
    BY <1>1
  <2>3. Len(<<>>) = 0
    OBVIOUS
  <2>4. Tail(s) # <<>>
    BY <2>1, <2>3, Zenon
  <2> QED
    BY <1>1, <2>2, <2>4
<1>6. ~(Len(s) > 1) => Range(Tail(s)) = {}
  BY <1>1, <1>2 DEF Range
<1> QED
  BY <1>1, <1>4, <1>5, <1>6

(* A sequence of checkers ranges over checkers; it is empty when its length is *)
(* zero; and it may grow.                                                      *)
LEMMA SeqFacts ==
    ASSUME NEW s \in Seq(Checker)
    PROVE  /\ Range(s) \in SUBSET Checker
           /\ Len(s) \in Nat
           /\ Len(s) = 0 <=> s = <<>>
           /\ Len(s) = 0 => Range(s) = {}
           /\ \A c \in Checker : Append(s, c) \in Seq(Checker)
<1>1. Len(s) \in Nat /\ DOMAIN s = 1 .. Len(s) /\ \A i \in 1 .. Len(s) : s[i] \in Checker
  OBVIOUS
<1>2. Len(s) = 0 <=> s = <<>>
  OBVIOUS
<1>3. \A c \in Checker : Append(s, c) \in Seq(Checker)
  OBVIOUS
<1> QED
  BY <1>1, <1>2, <1>3 DEF Range

(* The handler's list is a sequence of checkers. *)
LEMMA ListType == Inv => checkers \in Seq(Checker)
  BY DEF Inv, TypeOK

(* What a checker asks GCS are its parts. *)
LEMMA ToAskType ==
    ASSUME NEW e \in Endpoint, NEW c \in Checker
    PROVE  ToAsk(e, c) \in Seq(Part)
<1>1. <<"storage">> \in Seq(Part) /\ <<>> \in Seq(Part)
      /\ <<"connectivity">> \in Seq(Part) /\ <<"permissions">> \in Seq(Part)
  BY DEF Part
<1>2. \A s, t \in Seq(Part) : s \o t \in Seq(Part)
  OBVIOUS
<1> QED
  BY <1>1, <1>2 DEF ToAsk, CheckParts

(* The initial state satisfies the invariant. *)
LEMMA InitInv == Init => Inv
<1> SUFFICES ASSUME Init PROVE Inv
  OBVIOUS
<1>1. /\ startupComplete \in BOOLEAN /\ announced \in BOOLEAN /\ knew \in [Request -> BOOLEAN]
      /\ ~announced /\ ~startupComplete /\ \A r \in Request : ~knew[r]
  <2>1. startupComplete \in BOOLEAN /\ announced \in BOOLEAN /\ ~announced /\ ~startupComplete
    BY Zenon DEF Init
  <2>2. knew = [r \in Request |-> FALSE]
    BY DEF Init
  <2>3. knew \in [Request -> BOOLEAN] /\ \A r \in Request : ~knew[r]
    BY <2>2
  <2> QED
    BY <2>1, <2>3
<1>2. TypeOK
  <2>1. <<>> \in Seq(Checker) /\ <<>> \in Seq(Part)
    OBVIOUS
  <2>2. /\ checkers \in Seq(Checker) /\ composite \in Seq(Checker) \cup {Nil}
        /\ queue \in [Request -> Seq(Checker)] /\ parts \in [Request -> Seq(Part)]
    BY <2>1, Zenon DEF Init
  <2>3. /\ phase = "written" /\ block \in Written /\ localOnly = Nil /\ faults = {}
        /\ pc \in [Request -> {"idle", "flag", "composite", "check", "set", "write"}]
        /\ ep \in [Request -> Endpoint]
        /\ status \in [Request -> {"", "healthy", "unhealthy", "starting"}]
        /\ since \in [Request -> SUBSET Checker] /\ passed \in [Request -> SUBSET Checker]
        /\ atProvision = {} /\ verified = {}
    BY DEF Init, Endpoint
  <2> QED
    BY <1>1, <2>2, <2>3 DEF TypeOK
<1>3. HandlerInv /\ StartupVerified
  BY <1>1 DEF Init, HandlerInv, StartupVerified, Range
<1>4. RequestInv
  BY <1>1 DEF Init, RequestInv, CoverInv, FlagInv
<1> QED
  BY <1>2, <1>3, <1>4 DEF Inv

(* Requests that do not move keep what they rely on, while checkers are added *)
(* and startup completes.                                                     *)
LEMMA OthersKept ==
    ASSUME Inv, NEW r \in Request,
           /\ pc'[r] = pc[r] /\ ep'[r] = ep[r] /\ queue'[r] = queue[r]
           /\ status'[r] = status[r] /\ since'[r] = since[r] /\ knew'[r] = knew[r]
           /\ passed'[r] = passed[r],
           pc[r] # "idle" => atProvision' = atProvision,
           Range(checkers) \subseteq Range(checkers)',
           announced => announced', startupComplete => startupComplete'
    PROVE  CoverInv(r)' /\ FlagInv(r)'
<1>1. CoverInv(r) /\ FlagInv(r)
  BY DEF Inv, RequestInv
<1> QED
  BY <1>1 DEF CoverInv, FlagInv

(* The handler's own life, and outages. *)
LEMMA HandlerStep ==
    ASSUME Inv, TypeOK', HandlerInv', StartupVerified', UNCHANGED requests,
           phase = "provisioned" => atProvision' = atProvision,
           Range(checkers) \subseteq Range(checkers)',
           phase = "provisioned" /\ startupComplete => startupComplete'
    PROVE  Inv'
<1>1. ASSUME NEW r \in Request PROVE CoverInv(r)' /\ FlagInv(r)'
  <2>1. CASE phase = "provisioned"
    BY <2>1, OthersKept DEF requests, local
  <2>2. CASE phase # "provisioned"
    <3>1. pc'[r] = "idle" /\ status'[r] = status[r] /\ knew'[r] = knew[r] /\ ~announced
          /\ pc[r] = "idle"
      BY <2>2 DEF Inv, HandlerInv, requests, local
    <3> QED
      BY <3>1 DEF Inv, RequestInv, CoverInv, FlagInv
  <2> QED
    BY <2>1, <2>2
<1> QED
  BY <1>1 DEF Inv, RequestInv

(* UnmarshalCaddyfile, Provision, AddHealthChecker and outages. *)
LEMMA LifeStep ==
    ASSUME Inv, \/ UnmarshalCaddyfile \/ Provision \/ Outage
                \/ \E c \in Checker : AddHealthChecker(c)
    PROVE  Inv'
<1> USE HealthAssumption
<1>1. CASE UnmarshalCaddyfile
  <2>1. /\ phase = "written" /\ phase' \in {"refused", "parsed"}
        /\ UNCHANGED <<block, checkers, composite, startupComplete, atProvision, faults, requests>>
    BY <1>1 DEF UnmarshalCaddyfile
  <2>2. localOnly' \in BOOLEAN \cup {Nil}
    BY <1>1 DEF UnmarshalCaddyfile, Inv, TypeOK
  <2>3. TypeOK'
    BY <2>1, <2>2 DEF Inv, TypeOK, requests, local
  <2>4. HandlerInv' /\ StartupVerified' /\ Range(checkers)' = Range(checkers)
    BY <2>1 DEF Inv, HandlerInv, StartupVerified, requests, Range
  <2> QED
    BY <2>1, <2>3, <2>4, HandlerStep
<1>2. CASE Provision
  <2>1. /\ phase = "parsed" /\ UNCHANGED <<block, checkers, faults, requests>>
        /\ ~announced /\ \A r \in Request : pc[r] = "idle"
    BY <1>2 DEF Provision, Inv, HandlerInv
  <2>2. localOnly' \in BOOLEAN
    BY <1>2 DEF Provision, Inv, TypeOK
  <2>3. Range(checkers)' = Range(checkers) /\ Range(checkers) \in SUBSET Checker
    BY <2>1, ListType, SeqFacts DEF Range
  <2>4. CASE block.badLabel
    <3>1. phase' = "refused" /\ UNCHANGED <<composite, startupComplete, atProvision>>
      BY <1>2, <2>4 DEF Provision
    <3>2. TypeOK'
      BY <2>1, <2>2, <3>1 DEF Inv, TypeOK, requests, local
    <3>3. HandlerInv' /\ StartupVerified'
      BY <2>1, <2>3, <3>1 DEF Inv, HandlerInv, StartupVerified, requests
    <3> QED
      BY <2>1, <2>3, <3>2, <3>3, HandlerStep
  <2>5. CASE ~block.badLabel
    <3>1. /\ phase' = "provisioned"
          /\ composite' = IF Len(checkers) > 0 THEN checkers ELSE composite
          /\ startupComplete' = (Len(checkers) = 0)
          /\ atProvision' = Range(checkers)
      BY <1>2, <2>5 DEF Provision
    <3>2. startupComplete' \in BOOLEAN /\ (startupComplete' => Len(checkers) = 0)
      BY <3>1, Zenon
    <3>3. composite' = composite /\ (Len(checkers) = 0 => Range(checkers) = {})
      <4>1. /\ Len(checkers) = 0 <=> checkers = <<>>
            /\ Len(checkers) \in Nat /\ (Len(checkers) = 0 => Range(checkers) = {})
        BY ListType, SeqFacts
      <4> QED
        BY <3>1, <4>1 DEF Inv, HandlerInv
    <3>4. TypeOK'
      BY <2>1, <2>2, <2>3, <3>1, <3>2, <3>3 DEF Inv, TypeOK, requests, local
    <3>5. HandlerInv'
      BY <2>1, <2>3, <3>1, <3>3 DEF Inv, HandlerInv, requests
    <3>6. StartupVerified'
      BY <3>1, <3>2, <3>3 DEF StartupVerified
    <3> QED
      BY <2>1, <2>3, <3>4, <3>5, <3>6, HandlerStep
  <2> QED
    BY <2>4, <2>5
<1>3. ASSUME NEW c \in Checker, AddHealthChecker(c) PROVE Inv'
  <2>1. /\ checkers' = Append(checkers, c) /\ composite' = checkers'
        /\ UNCHANGED <<phase, block, localOnly, startupComplete, atProvision, faults, requests>>
    BY <1>3 DEF AddHealthChecker
  <2>2. /\ Range(checkers)' = Range(checkers) \cup {c} /\ checkers' # <<>>
        /\ checkers' \in Seq(Checker)
    <3>1. Range(Append(checkers, c)) = Range(checkers) \cup {c} /\ Append(checkers, c) # <<>>
      BY RangeAppend DEF Inv, TypeOK
    <3>2. Append(checkers, c) \in Seq(Checker)
      BY ListType, SeqFacts
    <3> QED
      BY <2>1, <3>1, <3>2 DEF Range
  <2>3. TypeOK'
    BY <2>1, <2>2 DEF Inv, TypeOK, requests, local
  <2>4. HandlerInv' /\ StartupVerified'
    BY <2>1, <2>2 DEF Inv, HandlerInv, StartupVerified, requests
  <2> QED
    BY <2>1, <2>2, <2>3, <2>4, HandlerStep
<1>4. CASE Outage
  <2>1. faults' \in SUBSET (Checker \X Part) /\ UNCHANGED <<handler, requests>>
    BY <1>4 DEF Outage
  <2>2. TypeOK'
    BY <2>1 DEF Inv, TypeOK, handler, requests, local
  <2>3. HandlerInv' /\ StartupVerified' /\ Range(checkers)' = Range(checkers)
    BY <2>1 DEF Inv, HandlerInv, StartupVerified, handler, requests, Range
  <2> QED
    BY <2>1, <2>2, <2>3, HandlerStep DEF handler
<1> QED
  BY <1>1, <1>2, <1>3, <1>4

(* A step of one request: the others keep what they rely on. *)
LEMMA RequestStep ==
    ASSUME Inv, TypeOK', NEW r \in Request, phase = "provisioned",
           UNCHANGED <<phase, checkers, composite, atProvision>>,
           announced => announced', startupComplete => startupComplete',
           announced' => startupComplete', StartupVerified',
           \A q \in Request : q # r =>
               /\ pc'[q] = pc[q] /\ ep'[q] = ep[q] /\ queue'[q] = queue[q]
               /\ status'[q] = status[q] /\ since'[q] = since[q] /\ knew'[q] = knew[q]
               /\ passed'[q] = passed[q],
           CoverInv(r)', FlagInv(r)'
    PROVE  Inv'
<1>0. Range(checkers)' = Range(checkers)
  BY DEF Range
<1>1. ASSUME NEW q \in Request PROVE CoverInv(q)' /\ FlagInv(q)'
  <2>1. CASE q = r
    BY <2>1
  <2>2. CASE q # r
    BY <1>0, <2>2, OthersKept
  <2> QED
    BY <2>1, <2>2
<1>2. HandlerInv'
  BY <1>0 DEF Inv, HandlerInv
<1> QED
  BY <1>1, <1>2 DEF Inv, RequestInv

(* A request that is under way runs in a provisioned handler. *)
LEMMA UnderWay ==
    ASSUME Inv, NEW r \in Request, pc[r] # "idle"
    PROVE  phase = "provisioned" /\ CoverInv(r) /\ FlagInv(r)
  BY DEF Inv, HandlerInv, RequestInv

(* A request arrives. *)
LEMMA ServeStep ==
    ASSUME Inv, NEW r \in Request, NEW e \in Endpoint, NEW loopback \in BOOLEAN,
           ServeHTTP(r, e, loopback)
    PROVE  Inv'
<1>1. /\ phase = "provisioned" /\ pc[r] = "idle"
      /\ ep' = [ep EXCEPT ![r] = e]
      /\ since' = [since EXCEPT ![r] = Range(checkers)]
      /\ UNCHANGED <<handler, faults, queue, parts, history, passed>>
  BY DEF ServeHTTP
<1>2. knew' = [knew EXCEPT ![r] = announced]
  BY DEF ServeHTTP
<1>3. PICK l \in {"write", "flag", "composite"}, s \in {"", "healthy"} :
         /\ pc' = [pc EXCEPT ![r] = l] /\ status' = [status EXCEPT ![r] = s]
         /\ l = "write" <=> e = "live"
         /\ l = "flag" <=> e \in {"ready", "startup"}
         /\ s = "healthy" <=> l = "write"
  <2>1. status[r] = "" /\ status = [status EXCEPT ![r] = status[r]]
    BY <1>1 DEF Inv, TypeOK, RequestInv, FlagInv
  <2>2. CASE e = "live"
    BY <2>2 DEF ServeHTTP, serveLiveness, report, goto
  <2>3. CASE e \in {"ready", "startup"}
    BY <2>1, <2>3 DEF ServeHTTP, goto
  <2>4. CASE e \notin {"live", "ready", "startup"}
    BY <2>1, <2>4 DEF ServeHTTP, goto
  <2> QED
    BY <2>2, <2>3, <2>4
<1>4. knew' \in [Request -> BOOLEAN] /\ knew'[r] = announced
      /\ \A q \in Request : q # r => knew'[q] = knew[q]
  BY <1>2, Zenon DEF Inv, TypeOK
<1>5. Range(checkers) \in SUBSET Checker
  BY ListType, SeqFacts
<1>6. TypeOK'
  BY <1>1, <1>3, <1>4, <1>5 DEF Inv, TypeOK, handler, history
<1>7. /\ pc'[r] = l /\ status'[r] = s /\ ep'[r] = e /\ since'[r] = Range(checkers)
      /\ \A q \in Request : q # r =>
            /\ pc'[q] = pc[q] /\ ep'[q] = ep[q] /\ queue'[q] = queue[q]
            /\ status'[q] = status[q] /\ since'[q] = since[q] /\ passed'[q] = passed[q]
  BY <1>1, <1>3, <1>5 DEF Inv, TypeOK
<1>8. Range(checkers)' = Range(checkers)
  BY <1>1 DEF Range, handler
<1>9. CoverInv(r)'
  BY <1>1, <1>3, <1>7, <1>8 DEF CoverInv, Inv, HandlerInv, handler
<1>10. FlagInv(r)'
  BY <1>1, <1>3, <1>4, <1>7 DEF FlagInv, handler, history
<1>11. StartupVerified'
  BY <1>1 DEF Inv, StartupVerified, handler, history
<1>12. announced' = announced /\ startupComplete' = startupComplete
       /\ UNCHANGED <<phase, checkers, composite, atProvision>>
       /\ (announced => startupComplete)
  BY <1>1 DEF handler, history, Inv, HandlerInv
<1> QED
  BY <1>1, <1>4, <1>6, <1>7, <1>9, <1>10, <1>11, <1>12, RequestStep

(* A step of a request that only moves the request: what it has found and has *)
(* still to ask must cover what it relies on.                                 *)
LEMMA MoveStep ==
    ASSUME Inv, NEW r \in Request, pc[r] # "idle",
           pc'[r] \in {"flag", "composite", "check", "set", "write"},
           status'[r] \in {"", "healthy", "unhealthy", "starting"},
           queue'[r] \in Seq(Checker), parts'[r] \in Seq(Part), passed'[r] \in SUBSET Checker,
           pc' = [pc EXCEPT ![r] = pc'[r]], status' = [status EXCEPT ![r] = status'[r]],
           queue' = [queue EXCEPT ![r] = queue'[r]], parts' = [parts EXCEPT ![r] = parts'[r]],
           passed' = [passed EXCEPT ![r] = passed'[r]],
           UNCHANGED <<handler, faults, local, history>>,
           pc'[r] = "check" => /\ queue'[r] # <<>>
                               /\ since[r] \subseteq passed'[r] \cup Range(queue'[r]),
           pc'[r] = "set" => since[r] \subseteq passed'[r],
           pc'[r] = "write" /\ status'[r] = "healthy" /\ ep[r] \in {"health", "ready", "detailed"}
               => since[r] \subseteq passed'[r],
           pc'[r] # "write" => status'[r] = "",
           pc'[r] = "flag" => ep[r] \in {"ready", "startup"},
           pc'[r] \in {"composite", "check", "set"} /\ ep[r] = "startup" => ~knew[r],
           status'[r] = "starting" => ~knew[r],
           pc'[r] = "write" /\ status'[r] = "healthy" /\ ep[r] = "startup" => startupComplete
    PROVE  Inv'
<1>1. phase = "provisioned" /\ CoverInv(r) /\ FlagInv(r)
  BY UnderWay
<1>2. TypeOK'
  <2>1. queue' \in [Request -> Seq(Checker)]
    BY DEF Inv, TypeOK
  <2>2. parts' \in [Request -> Seq(Part)]
    BY DEF Inv, TypeOK
  <2>3. passed' \in [Request -> SUBSET Checker]
    BY DEF Inv, TypeOK
  <2>4. pc' \in [Request -> {"idle", "flag", "composite", "check", "set", "write"}]
    BY DEF Inv, TypeOK
  <2>5. status' \in [Request -> {"", "healthy", "unhealthy", "starting"}]
    BY DEF Inv, TypeOK
  <2>6. UNCHANGED <<phase, block, localOnly, checkers, composite, startupComplete, faults,
                    ep, atProvision, verified, announced, since, knew>>
    BY DEF handler, local, history
  <2> QED
    BY <2>1, <2>2, <2>3, <2>4, <2>5, <2>6 DEF Inv, TypeOK
<1>3. /\ ep' = ep /\ since' = since /\ knew' = knew
      /\ \A q \in Request : q # r =>
            /\ pc'[q] = pc[q] /\ ep'[q] = ep[q] /\ queue'[q] = queue[q]
            /\ status'[q] = status[q] /\ since'[q] = since[q] /\ knew'[q] = knew[q]
            /\ passed'[q] = passed[q]
  BY DEF Inv, TypeOK, local
<1>4. /\ UNCHANGED <<phase, checkers, composite, atProvision, startupComplete, announced>>
      /\ announced => startupComplete
  BY DEF handler, history, Inv, HandlerInv
<1>5. Range(checkers)' = Range(checkers)
  BY <1>4 DEF Range
<1>6. CoverInv(r)'
  BY <1>1, <1>3, <1>4, <1>5 DEF CoverInv
<1>7. FlagInv(r)'
  BY <1>1, <1>3, <1>4 DEF FlagInv
<1>8. StartupVerified'
  BY DEF Inv, StartupVerified, handler, history
<1> QED
  BY <1>1, <1>2, <1>3, <1>4, <1>6, <1>7, <1>8, RequestStep

(* What a request holds has its type. *)
LEMMA RequestType ==
    ASSUME Inv, NEW r \in Request
    PROVE  /\ ep[r] \in Endpoint /\ queue[r] \in Seq(Checker) /\ parts[r] \in Seq(Part)
           /\ passed[r] \in SUBSET Checker
           /\ DOMAIN pc = Request /\ DOMAIN status = Request /\ DOMAIN queue = Request
           /\ DOMAIN parts = Request /\ DOMAIN passed = Request
           /\ queue = [queue EXCEPT ![r] = queue[r]]
           /\ parts = [parts EXCEPT ![r] = parts[r]]
           /\ passed = [passed EXCEPT ![r] = passed[r]]
           /\ status = [status EXCEPT ![r] = status[r]]
  BY DEF Inv, TypeOK

(* A request that arrived after startup was announced finds the flag set, so a *)
(* startup probe among them answers at once.                                   *)
LEMMA ReadFlagStep ==
    ASSUME Inv, NEW r \in Request, ReadFlag(r)
    PROVE  Inv'
<1>1. pc[r] = "flag" /\ UNCHANGED <<handler, faults, local, queue, parts, history, passed>>
  BY DEF ReadFlag
<1>2. CoverInv(r) /\ FlagInv(r) /\ (announced => startupComplete)
  BY <1>1, UnderWay DEF Inv, HandlerInv
<1>3. knew[r] => startupComplete
  BY <1>2 DEF FlagInv
<1>4. ep[r] \in {"ready", "startup"} /\ status[r] = ""
  BY <1>1, <1>2 DEF FlagInv
<1>5. startupComplete \in BOOLEAN /\ (ep[r] = "ready") \in BOOLEAN
  BY Zenon DEF Inv, TypeOK
<1>6. CASE startupComplete = (ep[r] = "ready")
  <2>1. pc' = [pc EXCEPT ![r] = "composite"] /\ status' = [status EXCEPT ![r] = ""]
    BY <1>4, <1>6, RequestType DEF ReadFlag, goto
  <2>0. pc'[r] = "composite" /\ status'[r] = "" /\ queue'[r] = queue[r]
        /\ parts'[r] = parts[r] /\ passed'[r] = passed[r]
    BY <1>1, <2>1, RequestType
  <2>2. ep[r] = "startup" => ~startupComplete
    <3> SUFFICES ASSUME ep[r] = "startup" PROVE ~startupComplete
      OBVIOUS
    <3>1. ~(ep[r] = "ready")
      OBVIOUS
    <3> QED
      BY <1>6, <3>1, Zenon
  <2> QED
    BY <1>1, <1>3, <1>4, <2>0, <2>1, <2>2, RequestType, MoveStep
<1>7. CASE startupComplete # (ep[r] = "ready")
  <2> DEFINE s == IF startupComplete THEN "healthy" ELSE "starting"
  <2>1. pc' = [pc EXCEPT ![r] = "write"] /\ status' = [status EXCEPT ![r] = s]
    BY <1>7, Zenon DEF ReadFlag, report, goto
  <2>2. startupComplete => ep[r] # "ready"
    BY <1>5, <1>7, Zenon
  <2>3. /\ s \in {"", "healthy", "unhealthy", "starting"}
        /\ s = "healthy" => startupComplete
        /\ s = "starting" => ~startupComplete
    OBVIOUS
  <2> HIDE DEF s
  <2>4. pc'[r] = "write" /\ status'[r] = s /\ queue'[r] = queue[r]
        /\ parts'[r] = parts[r] /\ passed'[r] = passed[r]
    BY <1>1, <2>1, RequestType
  <2> QED
    BY <1>1, <1>3, <1>4, <2>1, <2>2, <2>3, <2>4, RequestType, MoveStep
<1> QED
  BY <1>6, <1>7

(* A check that is over: a startup probe goes on to set the flag, the others   *)
(* report.                                                                     *)
LEMMA ConcludeFacts ==
    ASSUME Inv, NEW r \in Request, pc[r] \in {"composite", "check"}, Conclude(r)
    PROVE  /\ pc' = [pc EXCEPT ![r] = pc'[r]] /\ status' = [status EXCEPT ![r] = status'[r]]
           /\ ep[r] = "startup" => pc'[r] = "set" /\ status'[r] = "" /\ ~knew[r]
           /\ ep[r] # "startup" => pc'[r] = "write" /\ status'[r] = "healthy"
<1>1. status[r] = "" /\ (ep[r] = "startup" => ~knew[r])
  BY UnderWay DEF FlagInv
<1>2. CASE ep[r] = "startup"
  <2>1. pc' = [pc EXCEPT ![r] = "set"] /\ status' = status
    BY <1>2 DEF Conclude, goto
  <2> QED
    BY <1>1, <1>2, <2>1, RequestType
<1>3. CASE ep[r] # "startup"
  <2>1. pc' = [pc EXCEPT ![r] = "write"] /\ status' = [status EXCEPT ![r] = "healthy"]
    BY <1>3 DEF Conclude, goto, report
  <2> QED
    BY <1>3, <2>1, RequestType
<1> QED
  BY <1>2, <1>3

(* The composite names every checker that is registered when it is read, so    *)
(* every one that was registered when the request arrived.                     *)
LEMMA ReadCompositeStep ==
    ASSUME Inv, NEW r \in Request, ReadComposite(r)
    PROVE  Inv'
<1>1. pc[r] = "composite" /\ UNCHANGED <<handler, faults, local, history, passed>>
  BY DEF ReadComposite
<1>2. /\ status[r] = "" /\ (ep[r] = "startup" => ~knew[r])
      /\ since[r] \subseteq Range(checkers)
      /\ composite = IF checkers = <<>> THEN Nil ELSE checkers
  BY <1>1, UnderWay DEF CoverInv, FlagInv, Inv, HandlerInv
<1>3. passed'[r] = passed[r] /\ passed' = [passed EXCEPT ![r] = passed'[r]]
  BY <1>1, RequestType
<1>4. CASE composite = Nil
  <2>1. Conclude(r) /\ UNCHANGED <<queue, parts>>
    BY <1>4 DEF ReadComposite
  <2>2. checkers = <<>>
    BY <1>2, <1>4, ListType, HealthAssumption
  <2>3. since[r] \subseteq passed'[r]
    BY <1>2, <2>2, ListType, SeqFacts
  <2>4. /\ pc' = [pc EXCEPT ![r] = pc'[r]] /\ status' = [status EXCEPT ![r] = status'[r]]
        /\ ep[r] = "startup" => pc'[r] = "set" /\ status'[r] = "" /\ ~knew[r]
        /\ ep[r] # "startup" => pc'[r] = "write" /\ status'[r] = "healthy"
    BY <1>1, <2>1, ConcludeFacts
  <2>5. /\ queue'[r] = queue[r] /\ queue' = [queue EXCEPT ![r] = queue'[r]]
        /\ parts'[r] = parts[r] /\ parts' = [parts EXCEPT ![r] = parts'[r]]
    BY <2>1, RequestType
  <2> QED
    BY <1>1, <1>2, <1>3, <2>3, <2>4, <2>5, RequestType, MoveStep
<1>5. CASE composite # Nil
  <2>1. /\ pc' = [pc EXCEPT ![r] = "check"]
        /\ queue' = [queue EXCEPT ![r] = composite]
        /\ parts' = [parts EXCEPT ![r] = ToAsk(ep[r], Head(composite))]
        /\ UNCHANGED status
    BY <1>5 DEF ReadComposite, goto
  <2>2. composite = checkers /\ checkers # <<>> /\ checkers \in Seq(Checker)
    BY <1>2, <1>5, ListType
  <2>3. ToAsk(ep[r], Head(composite)) \in Seq(Part)
    BY <2>2, RangeTail, RequestType, ToAskType
  <2>4. /\ pc'[r] = "check" /\ queue'[r] = checkers /\ status'[r] = ""
        /\ parts'[r] = ToAsk(ep[r], Head(composite))
    BY <1>2, <2>1, <2>2, RequestType
  <2>5. /\ pc' = [pc EXCEPT ![r] = pc'[r]] /\ status' = [status EXCEPT ![r] = status'[r]]
        /\ queue' = [queue EXCEPT ![r] = queue'[r]] /\ parts' = [parts EXCEPT ![r] = parts'[r]]
    BY <1>2, <2>1, <2>2, <2>4, RequestType
  <2> QED
    BY <1>1, <1>2, <1>3, <2>2, <2>3, <2>4, <2>5, RequestType, MoveStep
<1> QED
  BY <1>4, <1>5

(* A call that answers well: the checker passes with its last one. *)
LEMMA CheckPassesStep ==
    ASSUME Inv, NEW r \in Request, CheckPasses(r)
    PROVE  Inv'
<1>1. pc[r] = "check" /\ UNCHANGED <<handler, faults, local, history>>
  BY DEF CheckPasses
<1>2. /\ status[r] = "" /\ (ep[r] = "startup" => ~knew[r])
      /\ queue[r] # <<>> /\ since[r] \subseteq passed[r] \cup Range(queue[r])
  BY <1>1, UnderWay DEF CoverInv, FlagInv
<1>3. CASE Len(parts[r]) > 1
  <2>1. parts' = [parts EXCEPT ![r] = Tail(parts[r])] /\ UNCHANGED <<pc, status, queue, passed>>
    BY <1>3 DEF CheckPasses
  <2>2. Tail(parts[r]) \in Seq(Part)
    <3>1. parts[r] \in Seq(Part) /\ parts[r] # <<>>
      BY <1>3, RequestType
    <3> QED
      BY <3>1
  <2>3. /\ pc'[r] = "check" /\ queue'[r] = queue[r] /\ status'[r] = "" /\ passed'[r] = passed[r]
        /\ parts'[r] = Tail(parts[r])
    BY <1>1, <1>2, <2>1, RequestType
  <2>4. /\ pc' = [pc EXCEPT ![r] = pc'[r]] /\ status' = [status EXCEPT ![r] = status'[r]]
        /\ queue' = [queue EXCEPT ![r] = queue'[r]] /\ parts' = [parts EXCEPT ![r] = parts'[r]]
        /\ passed' = [passed EXCEPT ![r] = passed'[r]]
    BY <2>1, <2>3, RequestType DEF Inv, TypeOK
  <2> QED
    BY <1>1, <1>2, <2>2, <2>3, <2>4, RequestType, MoveStep
<1>4. CASE ~(Len(parts[r]) > 1)
  <2>1. /\ passed' = [passed EXCEPT ![r] = passed[r] \cup {Head(queue[r])}]
        /\ queue' = [queue EXCEPT ![r] = Tail(queue[r])]
    BY <1>4 DEF CheckPasses
  <2>2. /\ passed'[r] = passed[r] \cup {Head(queue[r])}
        /\ passed' = [passed EXCEPT ![r] = passed'[r]]
        /\ queue'[r] = Tail(queue[r]) /\ queue' = [queue EXCEPT ![r] = queue'[r]]
    BY <2>1, RequestType
  <2>3. /\ Head(queue[r]) \in Checker /\ Tail(queue[r]) \in Seq(Checker)
        /\ Range(queue[r]) \subseteq {Head(queue[r])} \cup Range(Tail(queue[r]))
        /\ Len(queue[r]) > 1 => Tail(queue[r]) # <<>> /\ queue[r][2] \in Checker
        /\ ~(Len(queue[r]) > 1) => Range(Tail(queue[r])) = {}
    BY <1>2, RangeTail, RequestType
  <2>4. passed'[r] \in SUBSET Checker /\ since[r] \subseteq passed'[r] \cup Range(Tail(queue[r]))
    BY <1>2, <2>2, <2>3, RequestType
  <2>5. CASE Len(queue[r]) > 1
    <3>1. parts' = [parts EXCEPT ![r] = ToAsk(ep[r], queue[r][2])] /\ UNCHANGED <<pc, status>>
      BY <1>4, <2>5 DEF CheckPasses
    <3>2. ToAsk(ep[r], queue[r][2]) \in Seq(Part)
      BY <2>3, <2>5, RequestType, ToAskType
    <3>3. pc'[r] = "check" /\ status'[r] = "" /\ parts'[r] = ToAsk(ep[r], queue[r][2])
      BY <1>1, <1>2, <3>1, RequestType
    <3>4. /\ pc' = [pc EXCEPT ![r] = pc'[r]] /\ status' = [status EXCEPT ![r] = status'[r]]
          /\ parts' = [parts EXCEPT ![r] = parts'[r]]
      BY <3>1, <3>3, RequestType DEF Inv, TypeOK
    <3> QED
      BY <1>1, <1>2, <2>2, <2>3, <2>4, <2>5, <3>2, <3>3, <3>4, MoveStep
  <2>6. CASE ~(Len(queue[r]) > 1)
    <3>1. parts' = [parts EXCEPT ![r] = <<>>] /\ Conclude(r)
      BY <1>4, <2>6 DEF CheckPasses
    <3>2. /\ pc' = [pc EXCEPT ![r] = pc'[r]] /\ status' = [status EXCEPT ![r] = status'[r]]
          /\ ep[r] = "startup" => pc'[r] = "set" /\ status'[r] = "" /\ ~knew[r]
          /\ ep[r] # "startup" => pc'[r] = "write" /\ status'[r] = "healthy"
      BY <1>1, <3>1, ConcludeFacts
    <3>3. parts'[r] \in Seq(Part) /\ parts' = [parts EXCEPT ![r] = parts'[r]]
      <4>1. <<>> \in Seq(Part)
        OBVIOUS
      <4>2. parts'[r] = <<>>
        BY <3>1, RequestType
      <4> QED
        BY <3>1, <4>1, <4>2, Zenon
    <3>4. since[r] \subseteq passed'[r]
      BY <2>3, <2>4, <2>6
    <3> QED
      BY <1>1, <2>2, <2>3, <2>4, <3>2, <3>3, <3>4, MoveStep
  <2> QED
    BY <2>5, <2>6
<1> QED
  BY <1>3, <1>4

(* A call that fails ends the check. *)
LEMMA CheckFailsStep ==
    ASSUME Inv, NEW r \in Request, CheckFails(r)
    PROVE  Inv'
<1> DEFINE s == IF ep[r] = "startup" THEN "starting" ELSE "unhealthy"
<1>1. /\ pc[r] = "check" /\ UNCHANGED <<handler, faults, local, history, passed>>
      /\ pc' = [pc EXCEPT ![r] = "write"] /\ status' = [status EXCEPT ![r] = s]
      /\ queue' = [queue EXCEPT ![r] = <<>>] /\ parts' = [parts EXCEPT ![r] = <<>>]
  BY DEF CheckFails, report, goto
<1>2. ep[r] = "startup" => ~knew[r]
  BY <1>1, UnderWay DEF FlagInv
<1>3. /\ s \in {"unhealthy", "starting"} /\ (s = "starting" => ~knew[r])
  BY <1>2
<1> HIDE DEF s
<1>4. /\ pc'[r] = "write" /\ pc' = [pc EXCEPT ![r] = pc'[r]]
      /\ status'[r] = s /\ status' = [status EXCEPT ![r] = status'[r]]
      /\ passed'[r] = passed[r] /\ passed' = [passed EXCEPT ![r] = passed'[r]]
  BY <1>1, RequestType
<1>5. /\ queue'[r] \in Seq(Checker) /\ queue' = [queue EXCEPT ![r] = queue'[r]]
      /\ parts'[r] \in Seq(Part) /\ parts' = [parts EXCEPT ![r] = parts'[r]]
  <2>1. <<>> \in Seq(Part) /\ <<>> \in Seq(Checker)
    OBVIOUS
  <2>2. queue'[r] = <<>> /\ parts'[r] = <<>>
    BY <1>1, RequestType
  <2> QED
    BY <1>1, <2>1, <2>2, Zenon
<1> QED
  BY <1>1, <1>3, <1>4, <1>5, RequestType, MoveStep

(* The flag is set by a startup probe that found every checker registered when *)
(* Provision ran.                                                              *)
LEMMA CompleteStep ==
    ASSUME Inv, NEW r \in Request, tryCompleteStartup(r)
    PROVE  Inv'
<1>1. /\ pc[r] = "set" /\ verified' = verified \cup passed[r]
      /\ pc' = [pc EXCEPT ![r] = "write"] /\ status' = [status EXCEPT ![r] = "healthy"]
      /\ UNCHANGED <<phase, block, localOnly, checkers, composite, atProvision,
                     faults, local, queue, parts, announced, passed>>
  BY DEF tryCompleteStartup, report, goto
<1>2. startupComplete' /\ startupComplete' \in BOOLEAN
  BY Zenon DEF tryCompleteStartup
<1>3. phase = "provisioned" /\ CoverInv(r) /\ FlagInv(r)
  BY <1>1, UnderWay
<1>4. /\ atProvision \subseteq since[r] /\ since[r] \subseteq passed[r]
      /\ since[r] \subseteq Range(checkers)
  BY <1>1, <1>3 DEF CoverInv
<1>5. TypeOK'
  BY <1>1, <1>2 DEF Inv, TypeOK, local
<1>6. /\ pc'[r] = "write" /\ status'[r] = "healthy" /\ passed' = passed
      /\ ep' = ep /\ since' = since /\ knew' = knew
      /\ \A q \in Request : q # r =>
            /\ pc'[q] = pc[q] /\ ep'[q] = ep[q] /\ queue'[q] = queue[q]
            /\ status'[q] = status[q] /\ since'[q] = since[q] /\ knew'[q] = knew[q]
            /\ passed'[q] = passed[q]
  BY <1>1 DEF Inv, TypeOK, local
<1>7. Range(checkers)' = Range(checkers)
  BY <1>1 DEF Range
<1>8. CoverInv(r)'
  BY <1>1, <1>4, <1>6, <1>7 DEF CoverInv
<1>9. FlagInv(r)'
  BY <1>1, <1>2, <1>3, <1>6 DEF FlagInv
<1>10. StartupVerified'
  BY <1>1, <1>4 DEF StartupVerified
<1> QED
  BY <1>1, <1>2, <1>3, <1>5, <1>6, <1>8, <1>9, <1>10, RequestStep

(* Only a startup probe that met the flag set announces that startup is        *)
(* complete.                                                                   *)
LEMMA WriteStep ==
    ASSUME Inv, NEW r \in Request, WriteResponse(r)
    PROVE  Inv'
<1>1. /\ pc[r] = "write"
      /\ pc' = [pc EXCEPT ![r] = "idle"] /\ ep' = [ep EXCEPT ![r] = "live"]
      /\ status' = [status EXCEPT ![r] = ""]
      /\ since' = [since EXCEPT ![r] = {}] /\ passed' = [passed EXCEPT ![r] = {}]
      /\ UNCHANGED <<handler, faults, queue, parts, verified>>
  BY DEF WriteResponse, goto
<1>2. /\ knew' = [knew EXCEPT ![r] = FALSE]
      /\ announced' = (announced \/ (ep[r] = "startup" /\ Answers(r, 200)))
  BY DEF WriteResponse
<1>3. phase = "provisioned" /\ CoverInv(r) /\ FlagInv(r) /\ (announced => startupComplete)
  BY <1>1, UnderWay DEF Inv, HandlerInv
<1>4. ep[r] = "startup" /\ Answers(r, 200) => startupComplete
  <2> SUFFICES ASSUME ep[r] = "startup", Answers(r, 200) PROVE startupComplete
    OBVIOUS
  <2>1. status[r] = "healthy"
    BY DEF Answers, StatusCode
  <2> QED
    BY <1>1, <1>3, <2>1 DEF FlagInv
<1>5. /\ announced' \in BOOLEAN /\ (announced => announced')
      /\ (announced' => startupComplete)
  <2>1. CASE announced \/ (ep[r] = "startup" /\ Answers(r, 200))
    BY <1>2, <1>3, <1>4, <2>1, Zenon
  <2>2. CASE ~(announced \/ (ep[r] = "startup" /\ Answers(r, 200)))
    BY <1>2, <2>2, Zenon
  <2> QED
    BY <2>1, <2>2
<1>6. knew \in [Request -> BOOLEAN]
  BY DEF Inv, TypeOK
<1>7. /\ knew' \in [Request -> BOOLEAN] /\ ~knew'[r]
      /\ \A q \in Request : q # r => knew'[q] = knew[q]
  BY <1>2, <1>6, Zenon
<1>8. TypeOK'
  <2>1. /\ pc' \in [Request -> {"idle", "flag", "composite", "check", "set", "write"}]
        /\ ep' \in [Request -> Endpoint]
        /\ status' \in [Request -> {"", "healthy", "unhealthy", "starting"}]
        /\ since' \in [Request -> SUBSET Checker] /\ passed' \in [Request -> SUBSET Checker]
    BY <1>1 DEF Inv, TypeOK, Endpoint
  <2> QED
    BY <1>1, <1>5, <1>7, <2>1 DEF Inv, TypeOK, handler
<1>9. /\ pc'[r] = "idle" /\ status'[r] = ""
      /\ \A q \in Request : q # r =>
            /\ pc'[q] = pc[q] /\ ep'[q] = ep[q] /\ queue'[q] = queue[q]
            /\ status'[q] = status[q] /\ since'[q] = since[q] /\ passed'[q] = passed[q]
  BY <1>1 DEF Inv, TypeOK
<1>10. CoverInv(r)' /\ FlagInv(r)'
  BY <1>7, <1>9 DEF CoverInv, FlagInv
<1>11. /\ StartupVerified' /\ startupComplete' = startupComplete
       /\ UNCHANGED <<phase, checkers, composite, atProvision>>
  BY <1>1 DEF Inv, StartupVerified, handler
<1> QED
  BY <1>3, <1>5, <1>7, <1>8, <1>9, <1>10, <1>11, RequestStep

(* Every step preserves the invariant. *)
LEMMA NextInv == Inv /\ [Next]_vars => Inv'
<1> SUFFICES ASSUME Inv, [Next]_vars PROVE Inv'
  OBVIOUS
<1>1. CASE UNCHANGED vars
  <2>1. UNCHANGED <<handler, faults, requests>>
    BY <1>1 DEF vars, requests
  <2>2. /\ UNCHANGED <<phase, block, localOnly, checkers, composite, startupComplete,
                       atProvision, faults, pc, ep, since, knew, queue, parts, status,
                       verified, announced, passed>>
    BY <2>1 DEF handler, requests, local
  <2>3. TypeOK'
    BY <2>2 DEF Inv, TypeOK
  <2>4. HandlerInv' /\ StartupVerified' /\ Range(checkers)' = Range(checkers)
    BY <2>2 DEF Inv, HandlerInv, StartupVerified, Range
  <2> QED
    BY <2>1, <2>2, <2>3, <2>4, HandlerStep
<1>2. CASE \/ UnmarshalCaddyfile \/ Provision \/ Outage
           \/ \E c \in Checker : AddHealthChecker(c)
  BY <1>2, LifeStep
<1>3. CASE \E r \in Request, e \in Endpoint, loopback \in BOOLEAN : ServeHTTP(r, e, loopback)
  BY <1>3, ServeStep
<1>4. CASE \E r \in Request : Step(r)
  BY <1>4, ReadFlagStep, ReadCompositeStep, CheckPassesStep, CheckFailsStep,
     CompleteStep, WriteStep DEF Step
<1> QED
  BY <1>1, <1>2, <1>3, <1>4 DEF Next

-----------------------------------------------------------------------------
(* Every variable of the handler and of its requests keeps its type, and a     *)
(* provisioned handler has DetailedLocalOnly set (Provision).                  *)
THEOREM TypeCorrect == Spec => []TypeOK
<1>1. Inv => TypeOK
  BY DEF Inv
<1> QED
  BY InitInv, NextInv, <1>1, PTL DEF Spec

(* Startup is complete only after startup probes found storage reachable for   *)
(* every checker registered when Provision ran (tryCompleteStartup).           *)
THEOREM Startup == Spec => []StartupVerified
<1>1. Inv => StartupVerified
  BY DEF Inv
<1> QED
  BY InitInv, NextInv, <1>1, PTL DEF Spec

(* A 200 from /health, /ready or /health/detailed means that every checker     *)
(* registered before the request arrived passed in this request, although      *)
(* AddHealthChecker replaces the composite while requests run.                 *)
THEOREM Checked == Spec => []HealthyMeansChecked
<1>1. Inv => HealthyMeansChecked
  <2> SUFFICES ASSUME Inv, NEW r \in Request, Answers(r, 200),
                      ep[r] \in {"health", "ready", "detailed"}
               PROVE  since[r] \subseteq passed[r]
    BY DEF HealthyMeansChecked
  <2>1. pc[r] = "write" /\ status[r] = "healthy"
    BY DEF Answers, StatusCode
  <2> QED
    BY <2>1 DEF Inv, RequestInv, CoverInv
<1> QED
  BY InitInv, NextInv, <1>1, PTL DEF Spec

(* Once somebody was told that startup is complete, no probe that arrives      *)
(* later answers that the service is still starting (serveStartup).            *)
THEOREM Monotone == Spec => []NoRelapse
<1>1. Inv => NoRelapse
  BY DEF Inv, RequestInv, FlagInv, NoRelapse
<1> QED
  BY InitInv, NextInv, <1>1, PTL DEF Spec
=============================================================================
