------------------------------ MODULE LiveCache ------------------------------
(* The attribute cache as its readers see it: an expired entry is a miss      *)
(* whether or not it has been deleted, so a key either has no entry or has a  *)
(* value and the time it is still good for.  Time is relative, which keeps    *)
(* the state finite while the clock runs for ever.  AttrCache implements this *)
(* specification; GcsStat is built on its operations.                         *)
EXTENDS Integers, FiniteSets

CONSTANTS Key, Attrs, NotFound, Absent, TTL, NegTTL

VARIABLE cached   \* Key -> [attrs, left] or Absent

Kept == [attrs : Attrs \cup {NotFound}, left : Nat]
Lifespan(a) == IF a = NotFound THEN NegTTL ELSE TTL

\* what is left of an entry d time units later
Aged(e, d) == IF e = Absent \/ e.left < d THEN Absent
                                         ELSE [e EXCEPT !.left = e.left - d]

CacheInit == cached = [k \in Key |-> Absent]

Elapse(d) == cached' = [k \in Key |-> Aged(cached[k], d)]

Put(k, a) == cached' = [cached EXCEPT ![k] = [attrs |-> a, left |-> Lifespan(a)]]

\* evicted although still good, to make room for another key
Lose(k) == cached' = [cached EXCEPT ![k] = Absent]

\* After TTL + NegTTL + 1 time units nothing is left, however late the tick.
CacheNext == \/ \E d \in 1 .. TTL + NegTTL + 1 : Elapse(d)
             \/ \E k \in Key : Lose(k) \/ \E a \in Attrs \cup {NotFound} : Put(k, a)

CacheSpec == CacheInit /\ [][CacheNext]_cached
=============================================================================
