---------------------------- MODULE MCValidation -----------------------------
(* A small instance of Validation for TLC. *)
EXTENDS Validation, TLC

CONSTANTS g1, g2

MCGoroutine == {g1, g2}
Fact(number, duration, len, is) ==
    [number |-> number, duration |-> duration, len |-> len, is |-> is]
BC == {"regex", "bucket characters"}
MCFacts ==
    "" :> Fact({}, {}, 0, {"blank", "regex"}) @@ "  " :> Fact({}, {}, 2, {"blank", "regex"})
    @@ "my-bucket" :> Fact({}, {}, 9, BC)     @@ "ab" :> Fact({}, {}, 2, BC)
    @@ "a..b" :> Fact({}, {}, 4, BC \cup {"dots"})
    @@ "1.2.3.4" :> Fact({1}, {}, 7, BC \cup {"address"})
    @@ "63 letters" :> Fact({}, {}, 63, BC)   @@ "64 letters" :> Fact({}, {}, 64, BC)
    @@ "30s" :> Fact({30}, {30}, 3, BC)       @@ "-5s" :> Fact({-5}, {-5}, 3, {"regex"})
    @@ "8080" :> Fact({8080}, {}, 4, BC \cup {"number"})
    @@ "80abc" :> Fact({80}, {}, 5, BC)       @@ "0" :> Fact({0}, {0}, 1, {"regex", "number"})
    @@ "https://h" :> Fact({}, {}, 9, {"regex", "url"})
    @@ "a@b.co" :> Fact({}, {}, 6, {"regex", "email"})
    @@ "true" :> Fact({}, {}, 4, BC \cup {"boolean"})
    @@ "(" :> Fact({}, {}, 1, {})

\* What the Descriptions of the default rules cover, of the values above, taken by
\* their words.  "If present": a field the client left out is nil, or the zero value
\* buildConfigMap puts there, which the rules skip as empty.
Strings(T) == {String(t) : t \in T}
Ints(N) == {Integer(n) : n \in N}
NilValue == {[type |-> "nil"]}
OneInt64 == {[type |-> "int64", n |-> 1]}
PositiveInts == Ints({1, 65535, 65536}) \cup OneInt64 \cup Strings({"8080"})
ValidDurations == Strings({"30s", "0", "-5s"}) \cup {[type |-> "duration", n |-> -1]}
MCMeaning ==
    "string" :> Strings(DOMAIN MCFacts \ {""})
    @@ "url" :> Strings({"https://h"})
    @@ "email" :> Strings({"a@b.co"})
    @@ "port" :> PositiveInts \ Ints({65536})
    @@ "duration" :> ValidDurations
    @@ "positive_int" :> PositiveInts
    @@ "boolean" :> {[type |-> "bool"]} \cup Strings({"true"})
    @@ "regex" :> Strings(DOMAIN MCFacts \ {"("})
    @@ "optional_string" :> NilValue \cup Strings(DOMAIN MCFacts)
    @@ "optional_positive_int" :> NilValue \cup Ints({0}) \cup PositiveInts
    @@ "optional_duration" :> NilValue \cup Strings({""}) \cup ValidDurations
    @@ "bucket_name" :> Strings({"my-bucket", "30s", "8080", "80abc", "true", "63 letters"})

\* The premise of ValidationProofs!Explanation.
ASSUME DefaultRulesMeant == RulesMeant

MCWritten == {[flags |-> {"enable_live", "enable_dry_run"}, localOnly |-> ""],
              [flags |-> {}, localOnly |-> "false"], [flags |-> {}, localOnly |-> "other"]}

Good == [bucket_name |-> String("my-bucket"), connection_timeout |-> String("-5s")]
Bad == [bucket_name |-> String("ab"), max_connections |-> Integer(-1)]
Config(c) == [kind |-> "config", config |-> c]
Request(route, from, body) == [route |-> route, from |-> from, body |-> body]
NoBody == [kind |-> "none"]
\* g1 validates configurations field by field; g2 makes the short calls, which
\* may come between any two fields.
MCRequests ==
    g1 :> {Request("/validate", "loopback", Config(Bad)),
           Request("/live", "loopback", Config(Good)), Request("/live", "loopback", NoBody),
           Request("/dry-run", "loopback", Config(Bad))}
    @@ g2 :> {Request("/validate", "loopback", NoBody), Request("/validate", "remote", NoBody),
              Request("/status", "loopback", NoBody),
              Request("/validate", "loopback", [kind |-> "garbage"]),
              Request("/live", "loopback", [kind |-> "empty"])}
MCPartial == g1 :> {[project_id |-> String("ab")]} @@ g2 :> {}

\* One that makes a rule stricter, and one that makes a rule optional.
MCRegistered == {<<"optional_string", "string">>, <<"bucket_name", "optional_string">>}
=============================================================================
