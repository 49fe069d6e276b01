----------------------------- MODULE Validation ------------------------------
(* pkg/validation: the ConfigValidator (config.go) with its registry of rules, *)
(* and the config_validation handler (validation_endpoint.go), which validates *)
(* what clients post and remembers the last result for its status endpoint.    *)
(*                                                                             *)
(* Goroutines serve requests, or call the exported ValidateField and           *)
(* ValidateConfig.  Nothing in the repository registers a rule once the        *)
(* handler is provisioned; the model lets an embedding program do so, as the   *)
(* validator's lock is there for.  A text is known by the facts the rules ask  *)
(* of it, and a registered rule is one that works like some default rule.      *)
EXTENDS Integers, FiniteSets

CONSTANTS
    Goroutine,
    Facts,        \* what is true of each text that occurs
    Written,      \* the config_validation blocks users write
    Requests,     \* the requests each goroutine may come to serve
    Partial,      \* the configuration maps each may be made to validate
    Registered,   \* pairs: a rule name, the default rule it is to work like
    MaxRegister,  \* bound: rules registered later
    MaxStores,    \* bound: results stored
    Meaning,      \* rule -> the values its Description covers
    Nil

Text == DOMAIN Facts

-----------------------------------------------------------------------------
\* The default rules: Accepts is the Validate function, Required the flag.

Rule == {"string", "url", "email", "port", "duration", "positive_int", "boolean", "regex",
         "optional_string", "optional_positive_int", "optional_duration", "bucket_name"}

Required(rule) == rule \notin {"optional_string", "optional_positive_int", "optional_duration"}

String(t) == [type |-> "string", text |-> t]
Integer(n) == [type |-> "int", n |-> n]

\* Sscanf("%d") reads a leading integer and ignores the rest of the text.
Numbers(v) == CASE v.type \in {"int", "int64"} -> {v.n}
                [] v.type = "string" -> Facts[v.text].number
                [] OTHER -> {}

Durations(v) == CASE v.type = "duration" -> {v.n}
                  [] v.type = "string" -> Facts[v.text].duration
                  [] OTHER -> {}

Is(v, fact) == v.type = "string" /\ fact \in Facts[v.text].is

\* the values callers pass
NonText == {Integer(n) : n \in {-1, 0, 1, 65535, 65536}}
              \cup {[type |-> "int64", n |-> 1], [type |-> "duration", n |-> -1],
                    [type |-> "bool"], [type |-> "float64"], [type |-> "nil"]}

Value == {String(t) : t \in Text} \cup NonText

BucketName(v) == /\ v.type = "string" /\ ~Is(v, "blank")
                 /\ Facts[v.text].len \in 3 .. 63
                 /\ Is(v, "bucket characters") /\ ~Is(v, "dots") /\ ~Is(v, "address")

\* A value that is not of the expected type passes the last two.
AcceptsOptional(rule, v) ==
    CASE rule = "optional_string" -> v = String("") \/ (v.type = "string" /\ ~Is(v, "blank"))
      [] rule = "optional_positive_int" -> v.type = "int" => v.n >= 0
      [] rule = "optional_duration" -> v = String("") \/ (v.type = "string" => Durations(v) # {})

Accepts(rule, v) ==
    CASE rule = "string" -> v.type = "string" /\ ~Is(v, "blank")
      [] rule \in {"url", "email", "regex"} -> Is(v, rule)
      [] rule = "port" -> \E n \in Numbers(v) : n \in 1 .. 65535
      [] rule = "duration" -> \E d \in Durations(v) : d >= 0
      [] rule = "positive_int" -> \E n \in Numbers(v) : n > 0
      [] rule = "boolean" -> v.type = "bool" \/ Is(v, "boolean")
      [] rule = "bucket_name" -> BucketName(v)
      [] OTHER -> AcceptsOptional(rule, v)

-----------------------------------------------------------------------------
\* ValidateGCSConfig's rules, and what buildConfigMap makes of a decoded GCSConfig:
\* every field is there, with its zero value when the client left it out.

GCSRules == [project_id |-> "optional_string", bucket_name |-> "bucket_name",
             credentials_file |-> "optional_string", credentials_config |-> "optional_string",
             max_connections |-> "optional_positive_int",
             connection_timeout |-> "optional_duration"]

Field == DOMAIN GCSRules

ZeroConfig == [f \in Field |-> IF f = "max_connections" THEN Integer(0) ELSE String("")]

buildConfigMap(c) == [f \in Field |-> IF f \in DOMAIN c THEN c[f] ELSE ZeroConfig[f]]

Route == {"/validate", "/live", "/dry-run", "/status"}
Origin == {"loopback", "remote"}

ASSUME ValidationAssumption ==
    /\ \A g \in Goroutine :
          /\ Requests[g] \subseteq [route : Route, from : Origin,
                                   body : {r.body : r \in Requests[g]}]
          /\ \A r \in Requests[g] :
                /\ r.body.kind \in {"none", "empty", "garbage", "config"}
                /\ r.body.kind = "config" =>
                      \A f \in DOMAIN r.body.config : r.body.config[f] \in Value
          /\ \A c \in Partial[g] :
                DOMAIN c \subseteq Field /\ \A f \in DOMAIN c : c[f] \in Value
    /\ \A p \in Registered : p[2] \in Rule
    /\ Nil \notin [by : Route, from : Origin, errors : SUBSET Field, seq : Nat]
    /\ Written \subseteq [flags : SUBSET {"enable_live", "enable_dry_run"},
                          localOnly : {"", "true", "false", "other"}]
    /\ "" \in Text
    /\ DOMAIN Meaning = Rule
    /\ MaxRegister \in Nat /\ MaxStores \in Nat

VARIABLES
    handler,      \* [live, dryRun, localOnly, provisioned]
    rules,        \* the registry: name -> rule
    registered,   \* bound: rules registered later
    last,         \* lastValidation: [by, from, errors, seq], Nil before the first
    stores,       \* bound: results stored; numbers them
    answered,     \* history: the number of the latest stored result a client was told
    pc,           \* where each goroutine is
    req,          \* its request, or its library call
    todo,         \* fields ValidateConfig has not looked at yet
    errors,       \* fields it has found errors in
    seen,         \* history: the registries since the call began
    answer        \* the status code, or what a library caller got

validator == <<handler, rules, registered>>
results == <<last, stores, answered>>
local == <<pc, req, todo, errors, seen, answer>>
vars == <<validator, results, local>>

\* A block whose local_only is neither true nor false is refused.
Parses(w) == w.localOnly # "other"

UnmarshalCaddyfile(w) ==
    [live |-> "enable_live" \in w.flags, dryRun |-> "enable_dry_run" \in w.flags,
     localOnly |-> IF w.localOnly = "" THEN Nil ELSE w.localOnly = "true",
     provisioned |-> FALSE]

Init ==
    /\ handler \in {UnmarshalCaddyfile(w) : w \in {b \in Written : Parses(b)}}
    /\ rules = [n \in {} |-> "string"]
    /\ registered = 0
    /\ last = Nil
    /\ stores = 0
    /\ answered = 0
    /\ pc = [g \in Goroutine |-> "idle"]
    /\ req = [g \in Goroutine |-> Nil]
    /\ todo = [g \in Goroutine |-> {}]
    /\ errors = [g \in Goroutine |-> {}]
    /\ seen = [g \in Goroutine |-> {}]
    /\ answer = [g \in Goroutine |-> Nil]

\* Provision: local_only is on unless the block turns it off, and the validator
\* gets the default rules.
Provision ==
    /\ ~handler.provisioned
    /\ handler' = [handler EXCEPT !.provisioned = TRUE,
                                  !.localOnly = IF @ = Nil THEN TRUE ELSE @]
    /\ rules' = [n \in Rule |-> n]
    /\ UNCHANGED <<registered, results, local>>

Busy(g) == pc[g] \notin {"idle", "done"}

RegisterRule(n, rule) ==
    /\ handler.provisioned /\ registered < MaxRegister
    /\ registered' = registered + 1
    /\ rules' = [m \in DOMAIN rules \cup {n} |-> IF m = n THEN rule ELSE rules[m]]
    /\ seen' = [g \in Goroutine |-> IF Busy(g) THEN seen[g] \cup {rules'} ELSE seen[g]]
    /\ UNCHANGED <<handler, results, pc, req, todo, errors, answer>>

-----------------------------------------------------------------------------
goto(g, l) == pc' = [pc EXCEPT ![g] = l]

Answer(g, a) == /\ goto(g, "done")
                /\ answer' = [answer EXCEPT ![g] = a]

\* The answer has reached the caller, who may now do something else.
Done(g) == /\ pc[g] = "done"
           /\ goto(g, "idle")
           /\ req' = [req EXCEPT ![g] = Nil]
           /\ todo' = [todo EXCEPT ![g] = {}]
           /\ errors' = [errors EXCEPT ![g] = {}]
           /\ seen' = [seen EXCEPT ![g] = {}]
           /\ answer' = [answer EXCEPT ![g] = Nil]
           /\ UNCHANGED <<validator, results>>

-----------------------------------------------------------------------------
\* ValidateField, which changes nothing: no lock is held while the rule it found
\* is applied.

\* An unknown rule is an error, and so is nil for a required field.
FieldOK(registry, n, v) ==
    /\ n \in DOMAIN registry
    /\ IF v.type = "nil" THEN ~Required(registry[n]) ELSE Accepts(registry[n], v)

\* ValidateConfig looks at the fields in no particular order.  The rule is looked
\* up twice: whether a field that is missing may be, and in ValidateField for
\* one that is there.
Begin(g) == /\ goto(g, "validate")
            /\ todo' = [todo EXCEPT ![g] = Field]

Missing(g, f) == f \notin DOMAIN req[g].config

\* A mutant of CheckField: a missing field is never an error.
CheckFieldIfPresent(g, f) ==
    errors' = [errors EXCEPT ![g] =
        IF Missing(g, f) \/ FieldOK(rules, GCSRules[f], req[g].config[f]) THEN @ ELSE @ \cup {f}]

CheckField(g, f) ==
    LET ok == IF Missing(g, f) THEN ~Required(rules[GCSRules[f]])
                               ELSE FieldOK(rules, GCSRules[f], req[g].config[f])
    IN errors' = [errors EXCEPT ![g] = IF ok THEN @ ELSE @ \cup {f}]

ValidateConfig(g) ==
    /\ pc[g] = "validate"
    /\ \E f \in todo[g] : /\ CheckField(g, f)
                          /\ todo' = [todo EXCEPT ![g] = @ \ {f}]
    /\ UNCHANGED <<validator, results, pc, req, seen, answer>>

CallValidateConfig(g, c) ==
    /\ handler.provisioned /\ pc[g] = "idle"
    /\ req' = [req EXCEPT ![g] = [by |-> "ValidateConfig", config |-> c]]
    /\ seen' = [seen EXCEPT ![g] = {rules}]
    /\ Begin(g)
    /\ UNCHANGED <<validator, results, errors, answer>>

\* A mutant of Validated: a dry run is stored too.
ValidatedStoresAll(g) ==
    /\ pc[g] = "validate" /\ todo[g] = {}
    /\ IF req[g].by = "ValidateConfig" THEN Answer(g, IF errors[g] = {} THEN "valid" ELSE "invalid")
                                       ELSE goto(g, "store") /\ UNCHANGED answer
    /\ UNCHANGED <<validator, results, req, todo, errors, seen>>

\* A library caller is done; a request goes on to its answer.
Validated(g) ==
    /\ pc[g] = "validate" /\ todo[g] = {}
    /\ CASE req[g].by = "ValidateConfig" -> Answer(g, IF errors[g] = {} THEN "valid" ELSE "invalid")
         [] req[g].by = "/dry-run" -> goto(g, "respond") /\ UNCHANGED answer
         [] OTHER -> goto(g, "store") /\ UNCHANGED answer
    /\ UNCHANGED <<validator, results, req, todo, errors, seen>>

-----------------------------------------------------------------------------
\* The handler

\* An address that cannot be parsed counts as remote.
Forbidden(from) == handler.localOnly \in {Nil, TRUE} /\ from = "remote"

Disabled(route) == \/ route = "/live" /\ ~handler.live
                   \/ route = "/dry-run" /\ ~handler.dryRun

\* ServeHTTP.  Paths that are no route of the handler go to the next one.
ServeHTTP(g, r) ==
    /\ handler.provisioned /\ pc[g] = "idle"
    /\ req' = [req EXCEPT ![g] = [by |-> r.route, from |-> r.from, body |-> r.body,
                                  config |-> ZeroConfig,
                                  floor |-> answered, seq |-> 0, report |-> 0]]
    /\ seen' = [seen EXCEPT ![g] = {rules}]
    /\ CASE Forbidden(r.from) -> Answer(g, "403")
         [] ~Forbidden(r.from) /\ Disabled(r.route) -> Answer(g, "next")
         [] OTHER -> /\ goto(g, IF r.route = "/status" THEN "status" ELSE "decode")
                     /\ UNCHANGED answer
    /\ UNCHANGED <<validator, results, todo, errors>>

HasBody(g) == req[g].body.kind = "config"

\* Only /validate takes an empty body for no configuration.
Undecodable(g) == \/ req[g].body.kind = "garbage"
                  \/ req[g].body.kind = "empty" /\ req[g].by # "/validate"

\* A mutant of Decode: the handler goes on after an error.
DecodeIgnoringErrors(g) ==
    /\ pc[g] = "decode"
    /\ goto(g, "deadline")
    /\ req' = [req EXCEPT ![g].config = IF HasBody(g) THEN buildConfigMap(req[g].body.config)
                                                      ELSE @]
    /\ UNCHANGED <<validator, results, todo, errors, seen, answer>>

\* The body is read without a deadline; what there is of it is decoded.
Decode(g) ==
    /\ pc[g] = "decode"
    /\ IF Undecodable(g)
       THEN Answer(g, "400") /\ UNCHANGED req
       ELSE /\ goto(g, "deadline")
            /\ req' = [req EXCEPT ![g].config =
                          IF HasBody(g) THEN buildConfigMap(req[g].body.config) ELSE @]
            /\ UNCHANGED answer
    /\ UNCHANGED <<validator, results, todo, errors, seen>>

\* The deadline is looked at once, after decoding.
Deadline(g) ==
    /\ pc[g] = "deadline"
    /\ \/ Answer(g, "408") /\ UNCHANGED todo
       \/ /\ IF req[g].by = "/validate" /\ ~HasBody(g)
             THEN goto(g, "store") /\ UNCHANGED todo
             ELSE Begin(g)
          /\ UNCHANGED answer
    /\ UNCHANGED <<validator, results, req, errors, seen>>

Result(g) == [by |-> req[g].by, from |-> req[g].from, errors |-> errors[g], seq |-> stores']

\* A mutant of Store: an invalid result is not kept.
StoreValid(g) ==
    /\ pc[g] = "store" /\ stores < MaxStores
    /\ stores' = stores + 1
    /\ last' = IF errors[g] = {} THEN Result(g) ELSE last
    /\ req' = [req EXCEPT ![g].seq = stores']
    /\ goto(g, "respond")
    /\ UNCHANGED <<validator, answered, todo, errors, seen, answer>>

Store(g) ==
    /\ pc[g] = "store" /\ stores < MaxStores
    /\ stores' = stores + 1
    /\ last' = Result(g)
    /\ req' = [req EXCEPT ![g].seq = stores']
    /\ goto(g, "respond")
    /\ UNCHANGED <<validator, answered, todo, errors, seen, answer>>

\* The result goes out; a dry run answers like a validation.
Respond(g) ==
    /\ pc[g] = "respond"
    /\ Answer(g, IF errors[g] = {} THEN "200" ELSE "400")
    /\ answered' = IF req[g].seq > answered THEN req[g].seq ELSE answered
    /\ UNCHANGED <<validator, last, stores, req, todo, errors, seen>>

serveValidationStatus(g) ==
    /\ pc[g] = "status"
    /\ Answer(g, "status")
    /\ req' = [req EXCEPT ![g].report = IF last = Nil THEN 0 ELSE last.seq]
    /\ UNCHANGED <<validator, results, todo, errors, seen>>

-----------------------------------------------------------------------------
Step(g) == \/ Decode(g) \/ Deadline(g) \/ ValidateConfig(g) \/ Validated(g)
           \/ Store(g) \/ Respond(g) \/ serveValidationStatus(g) \/ Done(g)

Next == \/ Provision
        \/ \E p \in Registered : RegisterRule(p[1], p[2])
        \/ \E g \in Goroutine :
              \/ Step(g)
              \/ \E c \in Partial[g] : CallValidateConfig(g, c)
              \/ \E r \in Requests[g] : ServeHTTP(g, r)

Spec == Init /\ [][Next]_vars

-----------------------------------------------------------------------------
\* Where the default rules take more than their Description says.
Lenient(rule, v) ==
    \/ rule \in {"port", "positive_int"} /\ v.type = "string" /\ ~Is(v, "number")
    \/ rule = "optional_positive_int" /\ v.type # "int"
    \/ rule = "optional_duration" /\ v.type \notin {"string", "duration"}

\* Where they take less: blank strings that are not empty, and durations below zero,
\* which the Descriptions "string", "non-empty string", "valid duration" cover.
Strict(rule, v) ==
    \/ rule \in {"string", "optional_string"} /\ Is(v, "blank") /\ v # String("")
    \/ rule = "duration" /\ \E d \in Durations(v) : d < 0

\* Meaning is what the default rules do, but for these values.
RulesMeant ==
    \A rule \in Rule, v \in Value :
        IF (IF v.type = "nil" THEN ~Required(rule) ELSE Accepts(rule, v))
        THEN v \in Meaning[rule] \/ Lenient(rule, v)
        ELSE v \notin Meaning[rule] \/ Strict(rule, v)

Meant(registry, n, v) == n \in DOMAIN registry /\ v \in Meaning[registry[n]]

Explained(ok, registries, n, v) ==
    \E registry \in registries :
        IF ok THEN Meant(registry, n, v) \/ Lenient(registry[n], v)
              ELSE ~Meant(registry, n, v) \/ Strict(registry[n], v)

Given(c, f) == IF f \in DOMAIN c THEN c[f] ELSE [type |-> "nil"]

\* A configuration was validated and the caller knows the outcome.
Judged(g) == pc[g] = "done" /\ (answer[g] \in {"valid", "invalid", "200"}
                                \/ (answer[g] = "400" /\ todo[g] = {} /\ errors[g] # {}))

(* A verdict can be explained: a field is reported exactly when the value the *)
(* caller gave, missing or nil included, is not what the Description of the   *)
(* field's rule says, for a registration of that rule in force at some time   *)
(* of the call - however registrations, the two lookups of a rule and the     *)
(* fields' order interleave (ValidateConfig, ValidateField, the default       *)
(* rules).  Three exceptions, each a disagreement of the code with its own    *)
(* Descriptions: the values Lenient lists are let through all the same, those *)
(* Strict lists are reported all the same, and an empty request to /validate  *)
(* is valid without being validated.                                          *)
VerdictExplained ==
    /\ (\A g \in Goroutine : pc[g] = "idle") =>
          \A n \in DOMAIN rules, v \in Value : Explained(FieldOK(rules, n, v), {rules}, n, v)
    /\ \A g \in Goroutine : Judged(g) =>
          /\ answer[g] \in {"valid", "200"} <=> errors[g] = {}
          /\ ~(req[g].by = "/validate" /\ ~HasBody(g)) =>
                \A f \in Field : Explained(f \notin errors[g], seen[g], GCSRules[f],
                                           Given(req[g].config, f))

(* A client that has been told a result, whoever asked for it, sees that one  *)
(* or a later one when it then asks /status: results are stored before they   *)
(* are answered and none overwrites a later one (serveValidation,             *)
(* serveLiveValidation, serveValidationStatus).                               *)
StatusNotStale ==
    \A g \in Goroutine :
        pc[g] = "done" /\ answer[g] = "status" => req[g].report >= req[g].floor

\* Nothing is to be validated, or to be validated any more.
TurnedAway(g) == \/ pc[g] = "done" /\ answer[g] \in {"403", "408", "next"}
                 \/ pc[g] # "idle" /\ req[g].by \in Route /\ Undecodable(g)

(* What /status reports comes from a request the handler was to serve: never  *)
(* from a dry run, from a live validation that is not enabled, or from a      *)
(* client that local_only keeps out - and no request that was turned away,    *)
(* that ran out of time or whose body does not decode ever stores a result    *)
(* (ServeHTTP, serveValidation and its two siblings).                         *)
LastFromAllowed ==
    /\ last # Nil => /\ last.by = "/validate" \/ (last.by = "/live" /\ handler.live)
                     /\ handler.localOnly # FALSE => last.from = "loopback"
    /\ \A g \in Goroutine : TurnedAway(g) => req[g].seq = 0
=============================================================================
