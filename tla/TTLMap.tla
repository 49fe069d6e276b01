------------------------------- MODULE TTLMap -------------------------------
(* What the attribute cache (pkg/gcs/fs/attrcache.go) promises its callers:   *)
(* a bounded map whose entries carry an expiry time.  An entry may disappear  *)
(* only because it has expired or because the map is full; it is stored with  *)
(* the lifetime of its kind (positive or not-found); the clock only advances. *)
(* How victims are found (key slice, index, sampling, locks) is AttrCache's.  *)
EXTENDS Integers, FiniteSets

CONSTANTS
    Key,        \* object paths used as cache keys
    Attrs,      \* positive cache values (*storage.ObjectAttrs)
    NotFound,   \* sentinelNotFound
    Absent,     \* marks a key that has no entry
    MaxEntries, \* maxEntries
    TTL,        \* ttl, lifetime of a positive entry
    NegTTL      \* negTTL, lifetime of a not-found entry

VARIABLES
    entries,    \* Key -> entry or Absent
    clock       \* sharedClock.val

Value == Attrs \cup {NotFound}
Entry == [attrs : Value, expiresAt : Nat]

Lifetime(a) == IF a = NotFound THEN NegTTL ELSE TTL
Fresh(a, now) == [attrs |-> a, expiresAt |-> now + Lifetime(a)]
Expired(e, now) == now > e.expiresAt

Present == {k \in Key : entries[k] # Absent}
Full == Cardinality(Present) >= MaxEntries

-----------------------------------------------------------------------------
Init == /\ entries = [k \in Key |-> Absent]
        /\ clock \in Nat

Advance == /\ clock' > clock
           /\ UNCHANGED entries

Put(k, a) == /\ entries' = [entries EXCEPT ![k] = Fresh(a, clock)]
             /\ Cardinality(Present') <= MaxEntries
             /\ UNCHANGED clock

Drop(k) == /\ entries[k] # Absent
           /\ Expired(entries[k], clock) \/ Full
           /\ entries' = [entries EXCEPT ![k] = Absent]
           /\ UNCHANGED clock

Next == \/ Advance
        \/ \E k \in Key : Drop(k) \/ \E a \in Value : Put(k, a)

Spec == Init /\ [][Next]_<<entries, clock>>
=============================================================================
