-------------------------- MODULE ValidationProofs --------------------------
(* Proofs about Validation, for every number of goroutines and results, every  *)
(* sequence of requests and library calls, and every rule registered meanwhile: *)
(* /status is not behind what clients were told, what it reports was to be      *)
(* served, and every verdict has a reason.                                      *)
EXTENDS Validation, TLAPS

Call == {"idle", "decode", "deadline", "validate", "store", "respond", "status", "done"}

LocalType ==
  /\ pc \in [Goroutine -> Call]
  /\ DOMAIN req = Goroutine /\ DOMAIN seen = Goroutine /\ DOMAIN answer = Goroutine
  /\ todo \in [Goroutine -> SUBSET Field]
  /\ errors \in [Goroutine -> SUBSET Field]

\* Every default rule stays registered, under its own or another meaning.
Registry(r) == Rule \subseteq DOMAIN r /\ \A m \in DOMAIN r : r[m] \in Rule

\* Nothing is served, and no result stored, before the handler is provisioned.
HandlerInv ==
  /\ handler \in [live : BOOLEAN, dryRun : BOOLEAN, localOnly : BOOLEAN \cup {Nil},
                  provisioned : BOOLEAN]
  /\ handler.provisioned => handler.localOnly \in BOOLEAN /\ Registry(rules)
  /\ ~handler.provisioned => /\ stores = 0 /\ DOMAIN rules = {}
                             /\ \A g \in Goroutine : pc[g] = "idle"

\* The last result is the one with the highest number, and no client was told
\* of a later one.
LastInv ==
  /\ stores \in Nat /\ answered \in Nat /\ answered <= stores
  /\ stores = 0 => last = Nil
  /\ stores > 0 =>
        /\ last \in [by : {"/validate", "/live"}, from : Origin, errors : SUBSET Field, seq : Nat]
        /\ last.seq = stores
        /\ last.by = "/live" => handler.live
        /\ handler.localOnly # FALSE => last.from = "loopback"

\* What the handler keeps of a request; its number and its floor are behind.
Served(g) ==
  /\ DOMAIN req[g] = {"by", "from", "body", "config", "floor", "seq", "report"}
  /\ req[g].by \in Route /\ req[g].from \in Origin
  /\ req[g].floor \in Nat /\ req[g].floor <= answered
  /\ req[g].seq \in Nat /\ req[g].seq <= stores
  /\ HasBody(g) => \A f \in DOMAIN req[g].body.config : req[g].body.config[f] \in Value

\* A request on its way to a result: nothing turned it away, nothing is stored.
Pending(g) ==
  /\ req[g].seq = 0 /\ req[g].by # "/status"
  /\ req[g].by = "/live" => handler.live
  /\ handler.localOnly # FALSE => req[g].from = "loopback"

RequestInv(g) ==
  /\ pc[g] \in {"decode", "deadline", "store", "respond", "status"} => Served(g)
  /\ pc[g] \in {"validate", "done"} => req[g].by = "ValidateConfig" \/ Served(g)
  /\ pc[g] \in {"decode", "deadline", "store"} => Pending(g)
  /\ pc[g] = "validate" => req[g].by = "ValidateConfig" \/ Pending(g)
  /\ pc[g] = "store" => req[g].by # "/dry-run"
  /\ pc[g] = "done" /\ answer[g] \in {"403", "408", "next"} => req[g].seq = 0
  /\ pc[g] \in {"deadline", "store"} => ~Undecodable(g)
  /\ pc[g] = "validate" => req[g].by = "ValidateConfig" \/ ~Undecodable(g)
  /\ pc[g] # "idle" => req[g].by = "ValidateConfig" \/ ~Undecodable(g) \/ req[g].seq = 0
  /\ pc[g] = "done" /\ answer[g] = "status" => req[g].report >= req[g].floor

\* Of the fields looked at, each was judged by the rules of some registry in force
\* since the call began.
Checked(g) ==
  ~(req[g].by = "/validate" /\ ~HasBody(g)) =>
     \A f \in Field \ todo[g] : \E r \in seen[g] :
        f \notin errors[g] <=> FieldOK(r, GCSRules[f], Given(req[g].config, f))

VerdictInv(g) ==
  /\ pc[g] \in {"idle", "decode", "deadline", "status"} => errors[g] = {} /\ todo[g] = {}
  /\ pc[g] \in {"store", "respond"} => todo[g] = {}
  /\ Busy(g) => rules \in seen[g]
  /\ \A r \in seen[g] : Registry(r)
  /\ pc[g] = "validate" => errors[g] \cap todo[g] = {}
  /\ pc[g] \in {"validate", "store", "respond"} \/ Judged(g) => Checked(g)
  /\ Judged(g) => todo[g] = {} /\ (answer[g] \in {"valid", "200"} <=> errors[g] = {})
  /\ pc[g] # "idle" => \A f \in Field : Given(req[g].config, f) \in Value

Inv == /\ LocalType /\ HandlerInv /\ LastInv
       /\ \A g \in Goroutine : RequestInv(g) /\ VerdictInv(g)

-----------------------------------------------------------------------------
(* ValidateGCSConfig names default rules only.                                 *)
LEMMA FieldRules == \A f \in Field : GCSRules[f] \in Rule
BY DEF Field, GCSRules, Rule

(* The configuration of a request without one holds values callers pass.       *)
LEMMA ZeroValues ==
  /\ \A f \in Field : f \in DOMAIN ZeroConfig /\ ZeroConfig[f] \in Value
  /\ [type |-> "nil"] \in Value
<1>1. String("") \in Value
  <2>1. "" \in Text
    BY ValidationAssumption, Zenon
  <2>2. String("") \in {String(t) : t \in Text}
    BY <2>1
  <2> QED
    BY <2>2 DEF Value
<1>2. Integer(0) \in Value
  BY DEF Value, NonText
<1>3. [type |-> "nil"] \in Value
  BY DEF Value, NonText
<1> QED
  BY <1>1, <1>2, <1>3 DEF ZeroConfig

(* So does what buildConfigMap makes of a decoded one.                         *)
LEMMA BuiltValues ==
  ASSUME NEW c, \A f \in DOMAIN c : c[f] \in Value, NEW f \in Field
  PROVE  Given(buildConfigMap(c), f) \in Value
BY ZeroValues DEF Given, buildConfigMap

\* A step of one goroutine.
Kept(h) ==
  /\ pc'[h] = pc[h] /\ req'[h] = req[h] /\ todo'[h] = todo[h]
  /\ errors'[h] = errors[h] /\ seen'[h] = seen[h] /\ answer'[h] = answer[h]

Moves(g) ==
  /\ \A h \in Goroutine \ {g} : Kept(h)
  /\ UNCHANGED <<handler, rules>>
  /\ LocalType' /\ LastInv'
  /\ stores' >= stores /\ answered' >= answered

(* A step that stores and tells no result.                                     *)
LEMMA ResultsKept ==
  ASSUME LastInv, UNCHANGED <<handler, results>>
  PROVE  LastInv' /\ stores' >= stores /\ answered' >= answered
<1>1. stores' = stores /\ answered' = answered /\ last' = last /\ handler' = handler
  BY DEF results
<1>2. LastInv'
  BY <1>1 DEF LastInv
<1>3. \A x \in Nat : x >= x
  OBVIOUS
<1> QED
  BY <1>1, <1>2, <1>3 DEF LastInv

(* A goroutine that another's step passes by.                                  *)
LEMMA KeptInv ==
  ASSUME Inv, NEW h \in Goroutine, Kept(h), UNCHANGED <<handler, rules>>,
         LastInv', stores' >= stores, answered' >= answered
  PROVE  RequestInv(h)' /\ VerdictInv(h)'
<1>1. RequestInv(h) /\ VerdictInv(h)
  BY DEF Inv
<1>2. /\ stores \in Nat /\ answered \in Nat /\ stores' \in Nat /\ answered' \in Nat
  BY DEF Inv, LastInv
<1>3. Served(h) => Served(h)'
  BY <1>2 DEF Served, HasBody, Kept
<1>4. Pending(h) => Pending(h)'
  BY DEF Pending, Kept
<1>5. RequestInv(h)'
  BY <1>1, <1>3, <1>4 DEF RequestInv, Kept, Undecodable
<1>6. /\ Judged(h)' <=> Judged(h)
      /\ Checked(h)' <=> Checked(h)
      /\ Busy(h)' <=> Busy(h)
  BY DEF Judged, Checked, Busy, HasBody, Kept
<1>7. VerdictInv(h)'
  BY <1>1, <1>6 DEF VerdictInv, Kept
<1> QED
  BY <1>5, <1>7

(* So a step keeps the invariant when it keeps it for its own goroutine.       *)
LEMMA MovesInv ==
  ASSUME Inv, NEW g \in Goroutine, Moves(g), handler.provisioned,
         RequestInv(g)', VerdictInv(g)'
  PROVE  Inv'
<1>1. \A h \in Goroutine : RequestInv(h)' /\ VerdictInv(h)'
  BY KeptInv DEF Moves
<1>2. HandlerInv'
  BY DEF Inv, HandlerInv, Moves
<1> QED
  BY <1>1, <1>2 DEF Inv, Moves

(* A goroutine that is at work is one of a provisioned handler.                *)
LEMMA AtWork ==
  ASSUME Inv, NEW g \in Goroutine, pc[g] # "idle"
  PROVE  handler.provisioned
BY DEF Inv, HandlerInv

-----------------------------------------------------------------------------
\* The steps, one by one.

(* A request begins: it is turned away, or local_only and the block let it in. *)
LEMMA ServeStep ==
  ASSUME Inv, NEW g \in Goroutine, NEW r \in Requests[g], ServeHTTP(g, r)
  PROVE  Inv'
<1>1. /\ LocalType /\ HandlerInv /\ LastInv /\ VerdictInv(g)
      /\ handler.provisioned /\ pc[g] = "idle"
  BY DEF Inv, ServeHTTP
<1>2. /\ r.route \in Route /\ r.from \in Origin
      /\ r.body.kind = "config" => \A f \in DOMAIN r.body.config : r.body.config[f] \in Value
  BY ValidationAssumption
<1>3. req' = [req EXCEPT ![g] = [by |-> r.route, from |-> r.from, body |-> r.body,
                                 config |-> ZeroConfig,
                                 floor |-> answered, seq |-> 0, report |-> 0]]
      /\ seen' = [seen EXCEPT ![g] = {rules}]
      /\ UNCHANGED <<validator, results, todo, errors>>
  BY DEF ServeHTTP
<1>4. \/ Answer(g, "403") \/ Answer(g, "next")
      \/ /\ ~Forbidden(r.from) /\ ~Disabled(r.route) /\ UNCHANGED answer
         /\ \/ goto(g, "status") /\ r.route = "/status"
            \/ goto(g, "decode") /\ r.route # "/status"
  BY DEF ServeHTTP
<1>5. \/ pc' = [pc EXCEPT ![g] = "done"] /\ \E a \in {"403", "next"} : answer' = [answer EXCEPT ![g] = a]
      \/ /\ ~Forbidden(r.from) /\ ~Disabled(r.route) /\ answer' = answer
         /\ \/ pc' = [pc EXCEPT ![g] = "status"] /\ r.route = "/status"
            \/ pc' = [pc EXCEPT ![g] = "decode"] /\ r.route # "/status"
  BY <1>4 DEF Answer, goto
<1>6. /\ DOMAIN req'[g] = {"by", "from", "body", "config", "floor", "seq", "report"}
      /\ req'[g].by = r.route /\ req'[g].from = r.from /\ req'[g].config = ZeroConfig
      /\ req'[g].body = r.body
      /\ req'[g].floor = answered /\ req'[g].seq = 0
      /\ seen'[g] = {rules} /\ todo'[g] = {} /\ errors'[g] = {}
  BY <1>1, <1>3 DEF LocalType, VerdictInv
<1>7. \/ pc'[g] = "done" /\ answer'[g] \in {"403", "next"}
      \/ /\ ~Forbidden(r.from) /\ ~Disabled(r.route)
         /\ \/ pc'[g] = "status"
            \/ pc'[g] = "decode" /\ r.route # "/status"
  BY <1>1, <1>5 DEF LocalType
<1>8. Moves(g)
  <2>1. LocalType'
    BY <1>1, <1>3, <1>5 DEF LocalType, Call
  <2>2. LastInv' /\ stores' >= stores /\ answered' >= answered
    BY <1>1, <1>3, ResultsKept DEF validator
  <2>3. \A h \in Goroutine \ {g} : Kept(h)
    BY <1>1, <1>3, <1>5 DEF Kept, LocalType
  <2> QED
    BY <1>3, <2>1, <2>2, <2>3 DEF Moves, validator
<1>9. RequestInv(g)'
  <2>1. Served(g)'
    BY <1>1, <1>2, <1>3, <1>6 DEF Served, HasBody, LastInv, results
  <2>2. ~Forbidden(r.from) => (handler'.localOnly # FALSE => r.from = "loopback")
    BY <1>1, <1>2, <1>3 DEF Forbidden, HandlerInv, Origin, validator
  <2>3. ~Disabled(r.route) => (r.route = "/live" => handler'.live)
    BY <1>3 DEF Disabled, validator
  <2>4. pc'[g] = "decode" => Pending(g)'
    BY <1>6, <1>7, <2>2, <2>3 DEF Pending
  <2> QED
    BY <1>6, <1>7, <2>1, <2>4 DEF RequestInv
<1>10. VerdictInv(g)'
  <2>1. Registry(rules)
    BY <1>1 DEF HandlerInv
  <2>2. ~Judged(g)'
    BY <1>6, <1>7 DEF Judged
  <2>3. \A f \in Field : Given(req'[g].config, f) \in Value
    BY <1>6, ZeroValues DEF Given
  <2> QED
    BY <1>3, <1>6, <1>7, <2>1, <2>2, <2>3 DEF VerdictInv, validator
<1> QED
  BY <1>1, <1>8, <1>9, <1>10, MovesInv

(* A library call begins.                                                      *)
LEMMA CallStep ==
  ASSUME Inv, NEW g \in Goroutine, NEW c \in Partial[g], CallValidateConfig(g, c)
  PROVE  Inv'
<1>1. /\ LocalType /\ HandlerInv /\ LastInv /\ VerdictInv(g)
      /\ handler.provisioned /\ pc[g] = "idle"
  BY DEF Inv, CallValidateConfig
<1>2. \A f \in DOMAIN c : c[f] \in Value
  BY ValidationAssumption
<1>3. /\ req' = [req EXCEPT ![g] = [by |-> "ValidateConfig", config |-> c]]
      /\ seen' = [seen EXCEPT ![g] = {rules}]
      /\ pc' = [pc EXCEPT ![g] = "validate"]
      /\ todo' = [todo EXCEPT ![g] = Field]
      /\ UNCHANGED <<validator, results, errors, answer>>
  BY DEF CallValidateConfig, Begin, goto
<1>4. /\ req'[g].by = "ValidateConfig" /\ req'[g].config = c /\ pc'[g] = "validate"
      /\ seen'[g] = {rules} /\ todo'[g] = Field /\ errors'[g] = {}
  BY <1>1, <1>3 DEF LocalType, VerdictInv
<1>5. Moves(g)
  <2>1. LocalType'
    BY <1>1, <1>3 DEF LocalType, Call
  <2>2. LastInv' /\ stores' >= stores /\ answered' >= answered
    BY <1>1, <1>3, ResultsKept DEF validator
  <2>3. \A h \in Goroutine \ {g} : Kept(h)
    BY <1>1, <1>3 DEF Kept, LocalType
  <2> QED
    BY <1>3, <2>1, <2>2, <2>3 DEF Moves, validator
<1>6. RequestInv(g)'
  BY <1>4 DEF RequestInv
<1>7. VerdictInv(g)'
  <2>1. Registry(rules)
    BY <1>1 DEF HandlerInv
  <2>2. ~Judged(g)' /\ Checked(g)'
    BY <1>4 DEF Judged, Checked
  <2>3. \A f \in Field : Given(req'[g].config, f) \in Value
    BY <1>2, <1>4, ZeroValues DEF Given
  <2> QED
    BY <1>3, <1>4, <2>1, <2>2, <2>3 DEF VerdictInv, validator
<1> QED
  BY <1>1, <1>5, <1>6, <1>7, MovesInv

(* The body is decoded: refused, or turned into a configuration.               *)
LEMMA DecodeStep ==
  ASSUME Inv, NEW g \in Goroutine, Decode(g)
  PROVE  Inv'
<1>1. /\ LocalType /\ LastInv /\ RequestInv(g) /\ VerdictInv(g) /\ pc[g] = "decode"
      /\ handler.provisioned
  BY AtWork DEF Inv, Decode
<1>2. /\ Served(g) /\ Pending(g) /\ errors[g] = {} /\ todo[g] = {} /\ rules \in seen[g]
      /\ \A f \in Field : Given(req[g].config, f) \in Value
  BY <1>1 DEF RequestInv, VerdictInv, Busy
<1>3. UNCHANGED <<validator, results, todo, errors, seen>>
  BY DEF Decode
<1>4. CASE Answer(g, "400") /\ UNCHANGED req
  <2>1. pc' = [pc EXCEPT ![g] = "done"] /\ answer' = [answer EXCEPT ![g] = "400"] /\ req' = req
    BY <1>4 DEF Answer, goto
  <2>2. Moves(g)
    <3>1. LocalType'
      BY <1>1, <1>3, <2>1 DEF LocalType, Call
    <3>2. LastInv' /\ stores' >= stores /\ answered' >= answered
      BY <1>1, <1>3, ResultsKept DEF validator
    <3>3. \A h \in Goroutine \ {g} : Kept(h)
      BY <1>1, <1>3, <2>1 DEF Kept, LocalType
    <3> QED
      BY <1>3, <3>1, <3>2, <3>3 DEF Moves, validator
  <2>3. pc'[g] = "done" /\ answer'[g] = "400"
    BY <1>1, <2>1 DEF LocalType
  <2>4. RequestInv(g)'
    <3>1. Served(g)'
      BY <1>2, <1>3, <2>1 DEF Served, HasBody, results
    <3> QED
      BY <1>2, <2>1, <2>3, <3>1 DEF RequestInv, Pending
  <2>5. VerdictInv(g)'
    <3>1. ~Judged(g)' /\ ~Busy(g)'
      BY <1>2, <1>3, <2>3 DEF Judged, Busy
    <3> QED
      BY <1>1, <1>2, <1>3, <2>1, <2>3, <3>1 DEF VerdictInv
  <2> QED
    BY <1>1, <2>2, <2>4, <2>5, MovesInv
<1>5. CASE /\ goto(g, "deadline")
           /\ req' = [req EXCEPT ![g].config =
                         IF HasBody(g) THEN buildConfigMap(req[g].body.config) ELSE @]
           /\ UNCHANGED answer
  <2> DEFINE made == IF HasBody(g) THEN buildConfigMap(req[g].body.config) ELSE req[g].config
  <2>1. /\ pc' = [pc EXCEPT ![g] = "deadline"] /\ answer' = answer
        /\ req' = [req EXCEPT ![g] = [req[g] EXCEPT !.config = made]]
    BY <1>1, <1>5 DEF goto, LocalType
  <2> HIDE DEF made
  <2>2. Moves(g)
    <3>1. LocalType'
      BY <1>1, <1>3, <2>1 DEF LocalType, Call
    <3>2. LastInv' /\ stores' >= stores /\ answered' >= answered
      BY <1>1, <1>3, ResultsKept DEF validator
    <3>3. \A h \in Goroutine \ {g} : Kept(h)
      BY <1>1, <1>3, <2>1 DEF Kept, LocalType
    <3> QED
      BY <1>3, <3>1, <3>2, <3>3 DEF Moves, validator
  <2>3. pc'[g] = "deadline" /\ req'[g] = [req[g] EXCEPT !.config = made]
    BY <1>1, <2>1 DEF LocalType
  <2>4. /\ DOMAIN req'[g] = DOMAIN req[g] /\ req'[g].config = made
        /\ req'[g].by = req[g].by /\ req'[g].from = req[g].from
        /\ req'[g].floor = req[g].floor /\ req'[g].seq = req[g].seq
        /\ req'[g].body = req[g].body
    BY <1>2, <2>3 DEF Served
  <2>5. RequestInv(g)'
    <3>1. Served(g)' /\ Pending(g)'
      BY <1>2, <1>3, <2>4 DEF Served, HasBody, Pending, results, validator
    <3>2. ~Undecodable(g)'
      BY <1>1, <1>5, <2>3, <2>4 DEF Decode, Undecodable, Answer, goto, LocalType
    <3> QED
      BY <2>3, <2>4, <3>1, <3>2 DEF RequestInv
  <2>6. VerdictInv(g)'
    <3>1. ~Judged(g)'
      BY <2>3 DEF Judged
    <3>2. \A f \in Field : Given(made, f) \in Value
      <4>1. CASE HasBody(g)
        BY <1>2, <4>1, BuiltValues DEF made, Served
      <4>2. CASE ~HasBody(g)
        BY <1>2, <4>2 DEF made
      <4> QED
        BY <4>1, <4>2
    <3> QED
      BY <1>1, <1>2, <1>3, <2>3, <2>4, <3>1, <3>2 DEF VerdictInv, validator
  <2> QED
    BY <1>1, <2>2, <2>5, <2>6, MovesInv
<1> QED
  BY <1>4, <1>5 DEF Decode

(* The deadline has passed, nothing has to be validated, or validation begins. *)
LEMMA DeadlineStep ==
  ASSUME Inv, NEW g \in Goroutine, Deadline(g)
  PROVE  Inv'
<1>1. /\ LocalType /\ LastInv /\ RequestInv(g) /\ VerdictInv(g) /\ pc[g] = "deadline"
      /\ handler.provisioned
  BY AtWork DEF Inv, Deadline
<1>2. /\ Served(g) /\ Pending(g) /\ errors[g] = {} /\ todo[g] = {} /\ rules \in seen[g]
      /\ \A f \in Field : Given(req[g].config, f) \in Value
  BY <1>1 DEF RequestInv, VerdictInv, Busy
<1>3. UNCHANGED <<validator, results, req, errors, seen>>
  BY DEF Deadline
<1>4. \/ pc' = [pc EXCEPT ![g] = "done"] /\ answer' = [answer EXCEPT ![g] = "408"] /\ todo' = todo
      \/ /\ pc' = [pc EXCEPT ![g] = "store"] /\ answer' = answer /\ todo' = todo
         /\ req[g].by = "/validate" /\ ~HasBody(g)
      \/ /\ pc' = [pc EXCEPT ![g] = "validate"] /\ answer' = answer
         /\ todo' = [todo EXCEPT ![g] = Field]
  BY DEF Deadline, Answer, Begin, goto
<1>5. Moves(g)
  <2>1. LocalType'
    BY <1>1, <1>3, <1>4 DEF LocalType, Call
  <2>2. LastInv' /\ stores' >= stores /\ answered' >= answered
    BY <1>1, <1>3, ResultsKept DEF validator
  <2>3. \A h \in Goroutine \ {g} : Kept(h)
    BY <1>1, <1>3, <1>4 DEF Kept, LocalType
  <2> QED
    BY <1>3, <2>1, <2>2, <2>3 DEF Moves, validator
<1>6. \/ pc'[g] = "done" /\ answer'[g] = "408" /\ todo'[g] = {}
      \/ pc'[g] = "store" /\ todo'[g] = {} /\ req[g].by = "/validate" /\ ~HasBody(g)
      \/ pc'[g] = "validate" /\ todo'[g] = Field
  BY <1>1, <1>2, <1>4 DEF LocalType
<1>7. RequestInv(g)'
  <2>1. Served(g)' /\ Pending(g)'
    BY <1>2, <1>3 DEF Served, HasBody, Pending, results, validator
  <2>2. req'[g].seq = 0
    BY <2>1 DEF Pending
  <2>3. ~Undecodable(g)'
    BY <1>1, <1>3 DEF RequestInv, Undecodable
  <2> QED
    BY <1>3, <1>6, <2>1, <2>2, <2>3 DEF RequestInv
<1>8. VerdictInv(g)'
  <2>1. ~Judged(g)'
    BY <1>6 DEF Judged
  <2>2. pc'[g] \in {"validate", "store"} => Checked(g)'
    BY <1>3, <1>6 DEF Checked, HasBody
  <2> QED
    BY <1>1, <1>2, <1>3, <1>6, <2>1, <2>2 DEF VerdictInv, Busy, validator
<1> QED
  BY <1>1, <1>5, <1>7, <1>8, MovesInv

(* One field is looked at: the registry in force gives its verdict a reason,   *)
(* and the verdicts on the other fields keep theirs.                           *)
LEMMA FieldStep ==
  ASSUME Inv, NEW g \in Goroutine, ValidateConfig(g)
  PROVE  Inv'
<1>1. /\ LocalType /\ HandlerInv /\ LastInv /\ RequestInv(g) /\ VerdictInv(g)
      /\ pc[g] = "validate" /\ handler.provisioned
  BY AtWork DEF Inv, ValidateConfig
<1>2. UNCHANGED <<validator, results, pc, req, seen, answer>>
  BY DEF ValidateConfig
<1>3. PICK f \in todo[g] : CheckField(g, f) /\ todo' = [todo EXCEPT ![g] = @ \ {f}]
  BY DEF ValidateConfig
<1>4. f \in Field /\ GCSRules[f] \in Rule /\ Registry(rules) /\ rules \in seen[g]
  BY <1>1, FieldRules DEF LocalType, HandlerInv, VerdictInv, Busy
<1>5. PICK ok \in BOOLEAN : /\ ok <=> FieldOK(rules, GCSRules[f], Given(req[g].config, f))
                            /\ errors' = [errors EXCEPT ![g] = IF ok THEN @ ELSE @ \cup {f}]
  <2>1. CASE Missing(g, f)
    <3>1. Given(req[g].config, f) = [type |-> "nil"]
      BY <2>1 DEF Missing, Given
    <3>2. FieldOK(rules, GCSRules[f], [type |-> "nil"]) <=> ~Required(rules[GCSRules[f]])
      BY <1>4 DEF FieldOK, Registry
    <3> QED
      BY <1>3, <2>1, <3>1, <3>2 DEF CheckField, Required
  <2>2. CASE ~Missing(g, f)
    <3>1. Given(req[g].config, f) = req[g].config[f]
      BY <2>2 DEF Missing, Given
    <3>2. errors' = [errors EXCEPT ![g] =
             IF FieldOK(rules, GCSRules[f], req[g].config[f]) THEN @ ELSE @ \cup {f}]
      BY <1>3, <2>2 DEF CheckField
    <3>3. CASE FieldOK(rules, GCSRules[f], req[g].config[f])
      BY <3>1, <3>2, <3>3
    <3>4. CASE ~FieldOK(rules, GCSRules[f], req[g].config[f])
      BY <3>1, <3>2, <3>4
    <3> QED
      BY <3>3, <3>4
  <2> QED
    BY <2>1, <2>2
<1>6. /\ todo'[g] = todo[g] \ {f}
      /\ errors'[g] = IF ok THEN errors[g] ELSE errors[g] \cup {f}
  BY <1>1, <1>3, <1>5 DEF LocalType
<1>7. Moves(g)
  <2>1. LocalType'
    <3>1. errors' \in [Goroutine -> SUBSET Field]
      BY <1>1, <1>4, <1>5 DEF LocalType
    <3>2. todo' \in [Goroutine -> SUBSET Field]
      BY <1>1, <1>3 DEF LocalType
    <3> QED
      BY <1>1, <1>2, <3>1, <3>2 DEF LocalType
  <2>2. LastInv' /\ stores' >= stores /\ answered' >= answered
    BY <1>1, <1>2, ResultsKept DEF validator
  <2>3. \A h \in Goroutine \ {g} : Kept(h)
    BY <1>1, <1>2, <1>3, <1>5 DEF Kept, LocalType
  <2> QED
    BY <1>2, <2>1, <2>2, <2>3 DEF Moves, validator
<1>8. RequestInv(g)'
  BY <1>1, <1>2 DEF RequestInv, Served, HasBody, Pending, results, validator, Undecodable
<1>9. VerdictInv(g)'
  <2>1. errors[g] \cap todo[g] = {} /\ Checked(g) /\ pc'[g] = "validate"
    BY <1>1, <1>2 DEF VerdictInv
  <2>2. Checked(g)'
    <3> SUFFICES ASSUME ~(req[g].by = "/validate" /\ ~HasBody(g)), NEW e \in Field \ todo'[g]
                 PROVE  \E r \in seen[g] :
                           e \notin errors'[g] <=> FieldOK(r, GCSRules[e], Given(req[g].config, e))
      BY <1>2 DEF Checked, HasBody
    <3>1. CASE e = f
      <4>1. f \notin errors'[g] <=> ok
        BY <1>3, <1>6, <2>1
      <4> QED
        BY <1>4, <1>5, <3>1, <4>1
    <3>2. CASE e # f
      <4>1. e \in Field \ todo[g] /\ (e \in errors'[g] <=> e \in errors[g])
        BY <1>6, <3>2
      <4> QED
        BY <2>1, <4>1 DEF Checked
    <3> QED
      BY <3>1, <3>2
  <2>3. errors'[g] \cap todo'[g] = {} /\ ~Judged(g)'
    BY <1>6, <2>1 DEF Judged
  <2> QED
    BY <1>1, <1>2, <2>1, <2>2, <2>3 DEF VerdictInv, Busy, validator
<1> QED
  BY <1>1, <1>7, <1>8, <1>9, MovesInv

(* All fields have been looked at: a library caller gets its verdict, a dry    *)
(* run goes on to its answer, and other results are to be stored.              *)
LEMMA ValidatedStep ==
  ASSUME Inv, NEW g \in Goroutine, Validated(g)
  PROVE  Inv'
<1>1. /\ LocalType /\ LastInv /\ RequestInv(g) /\ VerdictInv(g)
      /\ pc[g] = "validate" /\ todo[g] = {} /\ handler.provisioned
  BY AtWork DEF Inv, Validated
<1>2. UNCHANGED <<validator, results, req, todo, errors, seen>>
  BY DEF Validated
<1>3. \/ /\ req[g].by = "ValidateConfig" /\ pc' = [pc EXCEPT ![g] = "done"]
         /\ answer' = [answer EXCEPT ![g] = IF errors[g] = {} THEN "valid" ELSE "invalid"]
      \/ /\ req[g].by = "/dry-run" /\ pc' = [pc EXCEPT ![g] = "respond"] /\ answer' = answer
      \/ /\ req[g].by \notin {"ValidateConfig", "/dry-run"}
         /\ pc' = [pc EXCEPT ![g] = "store"] /\ answer' = answer
  BY DEF Validated, Answer, goto
<1>4. Moves(g)
  <2>1. LocalType'
    BY <1>1, <1>2, <1>3 DEF LocalType, Call
  <2>2. LastInv' /\ stores' >= stores /\ answered' >= answered
    BY <1>1, <1>2, ResultsKept DEF validator
  <2>3. \A h \in Goroutine \ {g} : Kept(h)
    BY <1>1, <1>2, <1>3 DEF Kept, LocalType
  <2> QED
    BY <1>2, <2>1, <2>2, <2>3 DEF Moves, validator
<1>5. \/ /\ req[g].by = "ValidateConfig" /\ pc'[g] = "done"
         /\ answer'[g] = IF errors[g] = {} THEN "valid" ELSE "invalid"
      \/ req[g].by # "ValidateConfig" /\ pc'[g] = "respond"
      \/ req[g].by \notin {"ValidateConfig", "/dry-run"} /\ pc'[g] = "store"
  BY <1>1, <1>3 DEF LocalType
<1>6. RequestInv(g)'
  <2>1. req[g].by # "ValidateConfig" => Served(g)' /\ Pending(g)'
    <3>1. req[g].by # "ValidateConfig" => Served(g) /\ Pending(g)
      BY <1>1 DEF RequestInv
    <3> QED
      BY <1>2, <3>1 DEF Served, HasBody, Pending, results, validator
  <2>2. req[g].by # "ValidateConfig" => ~Undecodable(g)'
    BY <1>1, <1>2 DEF RequestInv, Undecodable
  <2> QED
    BY <1>2, <1>5, <2>1, <2>2 DEF RequestInv
<1>7. VerdictInv(g)'
  <2>1. Checked(g)'
    BY <1>1, <1>2 DEF VerdictInv, Checked, HasBody
  <2>2. Judged(g)' => (answer'[g] \in {"valid", "200"} <=> errors'[g] = {})
    BY <1>2, <1>5 DEF Judged
  <2> QED
    BY <1>1, <1>2, <1>5, <2>1, <2>2 DEF VerdictInv, Busy, validator
<1> QED
  BY <1>1, <1>4, <1>6, <1>7, MovesInv

(* A result is stored under the next number: it is the last one now.           *)
LEMMA StoreStep ==
  ASSUME Inv, NEW g \in Goroutine, Store(g)
  PROVE  Inv'
<1>1. /\ LocalType /\ HandlerInv /\ LastInv /\ RequestInv(g) /\ VerdictInv(g)
      /\ pc[g] = "store" /\ handler.provisioned /\ stores \in Nat /\ answered \in Nat
  BY AtWork DEF Inv, Store, LastInv
<1>2. Served(g) /\ Pending(g) /\ req[g].by # "/dry-run" /\ errors[g] \in SUBSET Field
  BY <1>1 DEF RequestInv, LocalType
<1>3. /\ stores' = stores + 1 /\ last' = Result(g)
      /\ pc' = [pc EXCEPT ![g] = "respond"]
      /\ UNCHANGED <<validator, answered, todo, errors, seen, answer>>
  BY DEF Store, goto
<1>4. PICK number \in Nat : number = stores + 1 /\ number = stores' /\ number > stores
  BY <1>1, <1>3
<1>5. req' = [req EXCEPT ![g] = [req[g] EXCEPT !.seq = number]]
  BY <1>1, <1>4 DEF Store, LocalType
<1>6. LastInv'
  <2>1. last' = [by |-> req[g].by, from |-> req[g].from, errors |-> errors[g], seq |-> number]
    BY <1>3, <1>4 DEF Result
  <2>2. req[g].by \in {"/validate", "/live"}
    BY <1>2 DEF Served, Pending, Route
  <2>3. last' \in [by : {"/validate", "/live"}, from : Origin, errors : SUBSET Field, seq : Nat]
    BY <1>2, <2>1, <2>2 DEF Served
  <2>4. last'.seq = number /\ last'.by = req[g].by /\ last'.from = req[g].from
    BY <2>1
  <2>5. /\ last'.by = "/live" => handler'.live
        /\ handler'.localOnly # FALSE => last'.from = "loopback"
    BY <1>2, <1>3, <2>4 DEF Pending, validator
  <2>6. stores' \in Nat /\ answered' \in Nat /\ answered' <= stores' /\ stores' > 0
    BY <1>1, <1>3, <1>4 DEF LastInv
  <2>7. stores' # 0 /\ last'.seq = stores'
    BY <1>4, <2>4, <2>6
  <2> QED
    BY <2>3, <2>5, <2>6, <2>7, Zenon DEF LastInv
<1>7. Moves(g)
  <2>1. LocalType'
    BY <1>1, <1>3, <1>5 DEF LocalType, Call
  <2>2. stores' >= stores /\ answered' >= answered
    BY <1>1, <1>3, <1>4
  <2>3. \A h \in Goroutine \ {g} : Kept(h)
    BY <1>1, <1>3, <1>5 DEF Kept, LocalType
  <2> QED
    BY <1>3, <1>6, <2>1, <2>2, <2>3 DEF Moves, validator
<1>8. pc'[g] = "respond" /\ req'[g] = [req[g] EXCEPT !.seq = number]
  BY <1>1, <1>3, <1>5 DEF LocalType
<1>9. /\ DOMAIN req'[g] = DOMAIN req[g] /\ req'[g].seq = number
      /\ req'[g].by = req[g].by /\ req'[g].from = req[g].from
      /\ req'[g].floor = req[g].floor /\ req'[g].body = req[g].body
      /\ req'[g].config = req[g].config
  BY <1>2, <1>8 DEF Served
<1>10. RequestInv(g)'
  <2>1. Served(g)'
    BY <1>2, <1>3, <1>4, <1>9 DEF Served, HasBody
  <2>2. ~Undecodable(g)'
    BY <1>1, <1>9 DEF RequestInv, Undecodable
  <2> QED
    BY <1>8, <2>1, <2>2 DEF RequestInv
<1>11. VerdictInv(g)'
  <2>1. Checked(g)' /\ ~Judged(g)'
    BY <1>1, <1>3, <1>8, <1>9 DEF VerdictInv, Checked, HasBody, Judged
  <2> QED
    BY <1>1, <1>3, <1>8, <1>9, <2>1 DEF VerdictInv, Busy, validator
<1> QED
  BY <1>1, <1>7, <1>10, <1>11, MovesInv

(* A client is told its result, which has been stored before.                  *)
LEMMA RespondStep ==
  ASSUME Inv, NEW g \in Goroutine, Respond(g)
  PROVE  Inv'
<1>1. /\ LocalType /\ LastInv /\ RequestInv(g) /\ VerdictInv(g)
      /\ pc[g] = "respond" /\ handler.provisioned /\ stores \in Nat /\ answered \in Nat
  BY AtWork DEF Inv, Respond, LastInv
<1>2. Served(g) /\ todo[g] = {} /\ Checked(g)
  BY <1>1 DEF RequestInv, VerdictInv
<1>3. /\ pc' = [pc EXCEPT ![g] = "done"]
      /\ answer' = [answer EXCEPT ![g] = IF errors[g] = {} THEN "200" ELSE "400"]
      /\ UNCHANGED <<validator, last, stores, req, todo, errors, seen>>
  BY DEF Respond, Answer, goto
<1>4. answered' \in Nat /\ answered' >= answered /\ answered' <= stores
  <2>1. answered' = IF req[g].seq > answered THEN req[g].seq ELSE answered
    BY DEF Respond
  <2>2. req[g].seq \in Nat /\ req[g].seq <= stores
    BY <1>2 DEF Served
  <2> QED
    BY <1>1, <2>1, <2>2 DEF LastInv
<1>5. LastInv'
  <2>1. stores' = stores /\ last' = last /\ handler' = handler
    BY <1>3 DEF validator
  <2> QED
    BY <1>1, <1>4, <2>1 DEF LastInv
<1>6. Moves(g)
  <2>1. LocalType'
    BY <1>1, <1>3 DEF LocalType, Call
  <2>2. stores' >= stores
    BY <1>1, <1>3
  <2>3. \A h \in Goroutine \ {g} : Kept(h)
    BY <1>1, <1>3 DEF Kept, LocalType
  <2> QED
    BY <1>3, <1>4, <1>5, <2>1, <2>2, <2>3 DEF Moves, validator
<1>7. pc'[g] = "done" /\ answer'[g] = IF errors[g] = {} THEN "200" ELSE "400"
  BY <1>1, <1>3 DEF LocalType
<1>8. RequestInv(g)'
  <2>1. Served(g)'
    <3>1. req[g].floor \in Nat /\ req[g].floor <= answered
      BY <1>2 DEF Served
    <3>2. req[g].floor <= answered'
      BY <1>1, <1>4, <3>1
    <3> QED
      BY <1>2, <1>3, <3>2 DEF Served, HasBody
  <2> QED
    BY <1>1, <1>3, <1>7, <2>1 DEF RequestInv, Undecodable
<1>9. VerdictInv(g)'
  <2>1. Checked(g)'
    BY <1>2, <1>3 DEF Checked, HasBody
  <2>2. Judged(g)' => (answer'[g] \in {"valid", "200"} <=> errors'[g] = {})
    BY <1>3, <1>7 DEF Judged
  <2> QED
    BY <1>1, <1>2, <1>3, <1>7, <2>1, <2>2 DEF VerdictInv, Busy
<1> QED
  BY <1>1, <1>6, <1>8, <1>9, MovesInv

(* The status endpoint reports the last result, which is not behind what any   *)
(* client had been told when the request came in.                              *)
LEMMA StatusStep ==
  ASSUME Inv, NEW g \in Goroutine, serveValidationStatus(g)
  PROVE  Inv'
<1>1. /\ LocalType /\ LastInv /\ RequestInv(g) /\ VerdictInv(g)
      /\ pc[g] = "status" /\ handler.provisioned
  BY AtWork DEF Inv, serveValidationStatus
<1>2. Served(g) /\ todo[g] = {} /\ errors[g] = {}
  BY <1>1 DEF RequestInv, VerdictInv
<1>3. /\ pc' = [pc EXCEPT ![g] = "done"]
      /\ answer' = [answer EXCEPT ![g] = "status"]
      /\ UNCHANGED <<validator, results, todo, errors, seen>>
  BY DEF serveValidationStatus, Answer, goto
<1>4. (IF last = Nil THEN 0 ELSE last.seq) = stores
  <2>1. CASE stores = 0
    BY <1>1, <2>1 DEF LastInv
  <2>2. CASE stores > 0
    <3>1. /\ last \in [by : {"/validate", "/live"}, from : Origin, errors : SUBSET Field, seq : Nat]
          /\ last.seq = stores
      BY <1>1, <2>2 DEF LastInv
    <3>2. last \in [by : Route, from : Origin, errors : SUBSET Field, seq : Nat]
      BY <3>1 DEF Route
    <3>3. last # Nil
      BY <3>2, ValidationAssumption
    <3> QED
      BY <3>1, <3>3
  <2> QED
    BY <1>1, <2>1, <2>2 DEF LastInv
<1>5. req' = [req EXCEPT ![g] = [req[g] EXCEPT !.report = stores]]
  BY <1>1, <1>4 DEF serveValidationStatus, LocalType
<1>6. Moves(g)
  <2>1. LocalType'
    BY <1>1, <1>3, <1>5 DEF LocalType, Call
  <2>2. LastInv' /\ stores' >= stores /\ answered' >= answered
    BY <1>1, <1>3, ResultsKept DEF validator
  <2>3. \A h \in Goroutine \ {g} : Kept(h)
    BY <1>1, <1>3, <1>5 DEF Kept, LocalType
  <2> QED
    BY <1>3, <2>1, <2>2, <2>3 DEF Moves, validator
<1>7. pc'[g] = "done" /\ answer'[g] = "status" /\ req'[g] = [req[g] EXCEPT !.report = stores]
  BY <1>1, <1>3, <1>5 DEF LocalType
<1>8. /\ DOMAIN req'[g] = DOMAIN req[g] /\ req'[g].report = stores
      /\ req'[g].by = req[g].by /\ req'[g].from = req[g].from
      /\ req'[g].floor = req[g].floor /\ req'[g].body = req[g].body
      /\ req'[g].config = req[g].config /\ req'[g].seq = req[g].seq
  BY <1>2, <1>7 DEF Served
<1>9. RequestInv(g)'
  <2>1. Served(g)'
    BY <1>2, <1>3, <1>8 DEF Served, HasBody, results
  <2>2. req'[g].report >= req'[g].floor
    BY <1>1, <1>2, <1>8 DEF Served, LastInv
  <2> QED
    BY <1>1, <1>7, <1>8, <2>1, <2>2 DEF RequestInv, Undecodable
<1>10. VerdictInv(g)'
  <2>1. ~Judged(g)'
    BY <1>7 DEF Judged
  <2> QED
    BY <1>1, <1>3, <1>7, <1>8, <2>1 DEF VerdictInv, Busy
<1> QED
  BY <1>1, <1>6, <1>9, <1>10, MovesInv

(* The caller turns to something else.                                         *)
LEMMA DoneStep ==
  ASSUME Inv, NEW g \in Goroutine, Done(g)
  PROVE  Inv'
<1>1. LocalType /\ LastInv /\ pc[g] = "done" /\ handler.provisioned
  BY AtWork DEF Inv, Done
<1>2. /\ pc' = [pc EXCEPT ![g] = "idle"] /\ req' = [req EXCEPT ![g] = Nil]
      /\ todo' = [todo EXCEPT ![g] = {}] /\ errors' = [errors EXCEPT ![g] = {}]
      /\ seen' = [seen EXCEPT ![g] = {}] /\ answer' = [answer EXCEPT ![g] = Nil]
      /\ UNCHANGED <<validator, results>>
  BY DEF Done, goto
<1>3. Moves(g)
  <2>1. LocalType'
    BY <1>1, <1>2 DEF LocalType, Call
  <2>2. LastInv' /\ stores' >= stores /\ answered' >= answered
    BY <1>1, <1>2, ResultsKept DEF validator
  <2>3. \A h \in Goroutine \ {g} : Kept(h)
    BY <1>1, <1>2 DEF Kept, LocalType
  <2> QED
    BY <1>2, <2>1, <2>2, <2>3 DEF Moves, validator
<1>4. pc'[g] = "idle" /\ todo'[g] = {} /\ errors'[g] = {} /\ seen'[g] = {}
  BY <1>1, <1>2 DEF LocalType
<1>5. RequestInv(g)' /\ VerdictInv(g)'
  BY <1>4 DEF RequestInv, VerdictInv, Judged, Busy
<1> QED
  BY <1>1, <1>3, <1>5, MovesInv

(* Provisioning, before which nothing is served, registers the default rules.  *)
LEMMA ProvisionStep ==
  ASSUME Inv, Provision
  PROVE  Inv'
<1>1. /\ LocalType /\ HandlerInv /\ LastInv /\ ~handler.provisioned
      /\ stores = 0 /\ \A g \in Goroutine : pc[g] = "idle"
  BY DEF Inv, Provision, HandlerInv
<1>2. /\ rules' = [m \in Rule |-> m] /\ UNCHANGED <<registered, results, local>>
      /\ handler' = [handler EXCEPT !.provisioned = TRUE,
                                    !.localOnly = IF @ = Nil THEN TRUE ELSE @]
  BY DEF Provision
<1>3. UNCHANGED <<last, stores, answered, pc, req, todo, errors, seen, answer>>
  BY <1>2 DEF results, local
<1>4. HandlerInv'
  <2>1. Registry(rules)'
    BY <1>2 DEF Registry
  <2>2. /\ handler' \in [live : BOOLEAN, dryRun : BOOLEAN, localOnly : BOOLEAN \cup {Nil},
                         provisioned : BOOLEAN]
        /\ handler'.provisioned /\ handler'.localOnly \in BOOLEAN
    BY <1>1, <1>2 DEF HandlerInv
  <2> QED
    BY <2>1, <2>2 DEF HandlerInv
<1>5. LastInv' /\ LocalType'
  BY <1>1, <1>3 DEF LastInv, LocalType
<1>6. ASSUME NEW g \in Goroutine
      PROVE  RequestInv(g)' /\ VerdictInv(g)'
  <2>1. pc'[g] = "idle" /\ VerdictInv(g)
    BY <1>1, <1>3 DEF Inv
  <2> QED
    BY <1>3, <2>1 DEF RequestInv, VerdictInv, Judged, Busy
<1> QED
  BY <1>4, <1>5, <1>6 DEF Inv

(* A rule is registered while calls are under way: they see the new registry,  *)
(* and what they have judged keeps its reason.                                 *)
LEMMA RegisterStep ==
  ASSUME Inv, NEW p \in Registered, RegisterRule(p[1], p[2])
  PROVE  Inv'
<1>1. LocalType /\ HandlerInv /\ LastInv /\ handler.provisioned /\ Registry(rules)
  BY DEF Inv, RegisterRule, HandlerInv
<1>2. p[2] \in Rule
  BY ValidationAssumption
<1>3. /\ rules' = [m \in DOMAIN rules \cup {p[1]} |-> IF m = p[1] THEN p[2] ELSE rules[m]]
      /\ seen' = [g \in Goroutine |-> IF Busy(g) THEN seen[g] \cup {rules'} ELSE seen[g]]
      /\ UNCHANGED <<handler, results, pc, req, todo, errors, answer>>
  BY DEF RegisterRule
<1>4. Registry(rules')
  BY <1>1, <1>2, <1>3 DEF Registry
<1>5. HandlerInv'
  BY <1>1, <1>3, <1>4 DEF HandlerInv, Registry
<1>6. LastInv'
  BY <1>1, <1>3, ResultsKept
<1>7. LocalType'
  BY <1>1, <1>3 DEF LocalType
<1>8. ASSUME NEW g \in Goroutine
      PROVE  RequestInv(g)' /\ VerdictInv(g)'
  <2>1. RequestInv(g) /\ VerdictInv(g)
    BY DEF Inv
  <2>2. RequestInv(g)'
    BY <1>3, <2>1 DEF RequestInv, Served, HasBody, Pending, Undecodable, results
  <2>3. /\ seen[g] \subseteq seen'[g] /\ (Busy(g) => rules' \in seen'[g])
        /\ \A r \in seen'[g] : r = rules' \/ r \in seen[g]
    BY <1>3
  <2>4. Checked(g) => Checked(g)'
    <3>1. req' = req /\ todo' = todo /\ errors' = errors
      BY <1>3
    <3> QED
      BY <2>3, <3>1 DEF Checked, HasBody
  <2>5. (Judged(g)' <=> Judged(g)) /\ (Busy(g)' <=> Busy(g))
    BY <1>3 DEF Judged, Busy
  <2>6. \A r \in seen'[g] : Registry(r)
    BY <1>4, <2>1, <2>3 DEF VerdictInv
  <2>7. VerdictInv(g)'
    BY <1>3, <2>1, <2>3, <2>4, <2>5, <2>6 DEF VerdictInv
  <2> QED
    BY <2>2, <2>7
<1> QED
  BY <1>5, <1>6, <1>7, <1>8 DEF Inv

(* A stuttering step.                                                          *)
LEMMA SameStep ==
  ASSUME Inv, UNCHANGED vars
  PROVE  Inv'
<1>1. UNCHANGED <<handler, rules, last, stores, answered, pc, req, todo, errors, seen, answer>>
  BY DEF vars, validator, results, local
<1>2. LocalType' /\ HandlerInv'
  BY <1>1 DEF Inv, LocalType, HandlerInv, Registry
<1>3. LastInv' /\ stores' >= stores /\ answered' >= answered
  BY ResultsKept DEF Inv, vars, validator
<1>4. \A g \in Goroutine : RequestInv(g)' /\ VerdictInv(g)'
  BY <1>1, <1>3, KeptInv DEF Kept
<1> QED
  BY <1>2, <1>3, <1>4 DEF Inv

-----------------------------------------------------------------------------
(* The invariant holds in every reachable state.                               *)
LEMMA Inductive == Spec => []Inv
<1>1. Init => Inv
  <2> SUFFICES ASSUME Init PROVE Inv
    OBVIOUS
  <2>1. LocalType
    BY DEF Init, LocalType, Call
  <2>2. handler \in [live : BOOLEAN, dryRun : BOOLEAN, localOnly : BOOLEAN \cup {Nil},
                     provisioned : BOOLEAN] /\ ~handler.provisioned
    <3>1. PICK w \in Written : handler = UnmarshalCaddyfile(w)
      BY DEF Init
    <3>2. PICK live, dryRun \in BOOLEAN, localOnly \in BOOLEAN \cup {Nil} :
             handler = [live |-> live, dryRun |-> dryRun, localOnly |-> localOnly,
                        provisioned |-> FALSE]
      <4>1. (IF w.localOnly = "" THEN Nil ELSE w.localOnly = "true") \in BOOLEAN \cup {Nil}
        OBVIOUS
      <4>2. ("enable_live" \in w.flags) \in BOOLEAN /\ ("enable_dry_run" \in w.flags) \in BOOLEAN
        OBVIOUS
      <4> QED
        BY <3>1, <4>1, <4>2, Zenon DEF UnmarshalCaddyfile
    <3> QED
      BY <3>2
  <2>3. stores = 0 /\ answered = 0 /\ last = Nil /\ DOMAIN rules = {}
    BY DEF Init
  <2>4. \A g \in Goroutine : /\ pc[g] = "idle" /\ todo[g] = {} /\ errors[g] = {}
                             /\ seen[g] = {}
    BY DEF Init
  <2>5. HandlerInv /\ LastInv
    BY <2>2, <2>3, <2>4 DEF HandlerInv, LastInv
  <2>6. \A g \in Goroutine : RequestInv(g) /\ VerdictInv(g)
    BY <2>4 DEF RequestInv, VerdictInv, Judged, Busy
  <2> QED
    BY <2>1, <2>5, <2>6 DEF Inv
<1>2. Inv /\ [Next]_vars => Inv'
  <2> SUFFICES ASSUME Inv, [Next]_vars PROVE Inv'
    OBVIOUS
  <2>1. ASSUME NEW g \in Goroutine, Step(g) PROVE Inv'
    BY <2>1, DecodeStep, DeadlineStep, FieldStep, ValidatedStep, StoreStep, RespondStep,
       StatusStep, DoneStep DEF Step
  <2>2. CASE UNCHANGED vars
    BY <2>2, SameStep
  <2> QED
    BY <2>1, <2>2, ProvisionStep, RegisterStep, CallStep, ServeStep DEF Next
<1> QED
  BY <1>1, <1>2, PTL DEF Spec

(* A client that asks /status sees nothing older than what any client had been *)
(* told when it asked, however stores, answers and status requests interleave. *)
THEOREM NotStale == Spec => []StatusNotStale
<1>1. Inv => StatusNotStale
  BY DEF Inv, RequestInv, StatusNotStale
<1> QED
  BY <1>1, Inductive, PTL

(* What /status reports comes from a request the handler was to serve, and one *)
(* that was turned away, failed to decode or ran out of time stored nothing.   *)
THEOREM Allowed == Spec => []LastFromAllowed
<1>1. Inv => LastFromAllowed
  <2> SUFFICES ASSUME Inv PROVE LastFromAllowed
    OBVIOUS
  <2>1. stores \in Nat /\ (last # Nil => stores > 0)
    BY DEF Inv, LastInv
  <2>2. \A g \in Goroutine : TurnedAway(g) => req[g].seq = 0
    BY DEF Inv, RequestInv, TurnedAway, Route
  <2> QED
    BY <2>1, <2>2 DEF Inv, LastInv, LastFromAllowed
<1> QED
  BY <1>1, Inductive, PTL

(* What a registry says of a value its rules say, and RulesMeant explains it.  *)
LEMMA ReasonExplains ==
  ASSUME RulesMeant, NEW registries, NEW r \in registries, Registry(r), NEW m \in DOMAIN r,
         NEW v \in Value, NEW ok \in BOOLEAN, ok <=> FieldOK(r, m, v)
  PROVE  Explained(ok, registries, m, v)
<1>1. r[m] \in Rule
  BY DEF Registry
<1>2. ok <=> (IF v.type = "nil" THEN ~Required(r[m]) ELSE Accepts(r[m], v))
  BY DEF FieldOK
<1>3. IF ok THEN v \in Meaning[r[m]] \/ Lenient(r[m], v)
             ELSE v \notin Meaning[r[m]] \/ Strict(r[m], v)
  BY <1>1, <1>2, Zenon DEF RulesMeant
<1> QED
  BY <1>3 DEF Explained, Meant

(* Every verdict has a reason, for whatever the default rules mean: the rules  *)
(* of a registry in force during the call say it, however registrations, the   *)
(* two lookups and the fields' order interleave (ValidateConfig and its        *)
(* callers).                                                                   *)
THEOREM Explanation ==
  ASSUME RulesMeant
  PROVE  Spec => []VerdictExplained
<1>1. Inv => VerdictExplained
  <2> SUFFICES ASSUME Inv PROVE VerdictExplained
    OBVIOUS
  <2>1. ASSUME NEW m \in DOMAIN rules, NEW v \in Value
        PROVE  Explained(FieldOK(rules, m, v), {rules}, m, v)
    <3>1. Registry(rules)
      BY DEF Inv, HandlerInv
    <3>2. FieldOK(rules, m, v) \in BOOLEAN
      BY DEF FieldOK
    <3> QED
      BY <3>1, <3>2, ReasonExplains
  <2>2. ASSUME NEW g \in Goroutine, Judged(g), ~(req[g].by = "/validate" /\ ~HasBody(g)),
               NEW f \in Field
        PROVE  Explained(f \notin errors[g], seen[g], GCSRules[f], Given(req[g].config, f))
    <3>1. VerdictInv(g) /\ pc[g] = "done"
      BY <2>2 DEF Inv, Judged
    <3>2. Checked(g) /\ todo[g] = {} /\ Given(req[g].config, f) \in Value
      BY <2>2, <3>1 DEF VerdictInv
    <3>3. PICK r \in seen[g] : f \notin errors[g]
                                 <=> FieldOK(r, GCSRules[f], Given(req[g].config, f))
      BY <2>2, <3>2 DEF Checked
    <3>4. Registry(r) /\ GCSRules[f] \in DOMAIN r
      BY <3>1, FieldRules DEF VerdictInv, Registry
    <3>5. (f \notin errors[g]) \in BOOLEAN
      OBVIOUS
    <3> QED
      BY <3>2, <3>3, <3>4, <3>5, ReasonExplains
  <2>3. \A g \in Goroutine : Judged(g) => (answer[g] \in {"valid", "200"} <=> errors[g] = {})
    BY DEF Inv, VerdictInv
  <2> QED
    BY <2>1, <2>2, <2>3 DEF VerdictExplained
<1> QED
  BY <1>1, Inductive, PTL
=============================================================================
