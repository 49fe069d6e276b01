------------------------------- MODULE MCMount -------------------------------
(* A small instance of Mount for TLC: three loads, the second with two mounts. *)
EXTENDS Mount

CONSTANTS c1, c2, c3, m1, m2, m3, m4, cl1, cl2, cl3, cl4

MCConfig == {c1, c2, c3}
MCMember == [c \in MCConfig |-> CASE c = c1 -> {m1} [] c = c2 -> {m2, m3} [] c = c3 -> {m4}]
MCClient == {cl1, cl2, cl3, cl4}

Written1(bucket, wif, file, sa, ttl, entries) ==
    [bucket |-> bucket, credentialsConfig |-> wif, credentialsFile |-> file,
     serviceAccount |-> sa, ttl |-> ttl, entries |-> entries]
\* The last one does not parse.
MCWritten == {Written1(TRUE, "", "", "", 0, Unset), Written1(TRUE, "", "key.json", "", 60, 1),
              Written1(TRUE, "", "key.json", "robot", Unset, 500),
              Written1(FALSE, "", "", "", -1, Unset), Written1(TRUE, "wif.json", "", "", -1, 1),
              Written1(TRUE, "wif.json", "key.json", "", Unset, Unset),
              Written1(TRUE, "", "", "", Unset, 0)}
=============================================================================
