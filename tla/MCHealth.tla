------------------------------- MODULE MCHealth -------------------------------
(* Small instances of Health for TLC. *)
EXTENDS Health

CONSTANTS c1, c2, r1, r2

TwoCheckers == {c1, c2}
MCEnabled == [c \in Checker |-> IF c = c1 THEN {"permissions"} ELSE {}]
MCNoClient == {}
MCRequest == {r1, r2}

Written1(flags, only, bad) ==
    [flags |-> flags, localOnly |-> only, badLabel |-> bad]
Both == {"enable_detailed", "enable_metrics"}
MCWritten == {Written1(Both, "", FALSE), Written1({}, "false", TRUE),
              Written1(Both, "other", FALSE)}
=============================================================================
