------------------------------ MODULE AttrCache ------------------------------
(* pkg/gcs/fs/attrcache.go: the attribute cache shared by every request       *)
(* goroutine of a mounted bucket.  A map from key to entry is kept together   *)
(* with a slice of its keys (for random sampling) and an index key ->         *)
(* position in the slice (for removal in constant time).  The map, the slice  *)
(* and the index are protected by one RWMutex; the clock is read without it.  *)
(*                                                                            *)
(* Absent keys are kept as Absent in entries and as 0 in keyIndex; Go's       *)
(* position i of the slice is i + 1 here.  The RLock section of get is a      *)
(* single map read, so it is one step; the sections under the write lock that *)
(* read the clock more than once are split at the reads.                      *)
EXTENDS Integers, Sequences, FiniteSets

CONSTANTS
    Key, Attrs, NotFound, Absent,
    Goroutine,   \* request goroutines
    NoOne,       \* the write lock's holder when it is free
    MaxEntries,  \* maxEntries (cache_max_entries)
    SampleSize,  \* evictSampleSize
    TTL, NegTTL,
    MaxTime,     \* bound: last clock reading
    MaxGets,     \* bound: completed get calls, which the counters count
    ClockSteps   \* TRUE when the wall clock may be set back

ASSUME BoundsAssumption ==
    /\ MaxEntries \in Nat \ {0}
    /\ SampleSize \in Nat \ {0}
    /\ TTL \in Nat \ {0}
    /\ NegTTL \in Nat \ {0}
    /\ MaxTime \in Nat
    /\ MaxGets \in Nat
    /\ ClockSteps \in BOOLEAN

VARIABLES
    entries,     \* entries: Key -> entry or Absent
    keys,        \* keys: the slice sampled by eviction
    keyIndex,    \* keyIndex: Key -> position in keys, 0 when absent
    mu,          \* holder of the write lock
    clock,       \* sharedClock.val
    hits, misses,\* the counters behind stats()
    pc,          \* where each goroutine is in get, set or setNotFound
    key, val,    \* the arguments of each goroutine's call, Absent when idle
    seen,        \* get: the entry copied out under the read lock
    ev           \* evictIfNeeded's locals (only the lock holder runs it)

cacheVars == <<entries, keys, keyIndex>>
vars == <<entries, keys, keyIndex, mu, clock, hits, misses, pc, key, val, seen, ev>>

Value == Attrs \cup {NotFound}
Entry == [attrs : Value, expiresAt : Nat]
Time == 0 .. MaxTime

ASSUME SentinelAssumption ==
    /\ NotFound \notin Attrs
    /\ Absent \notin Entry \cup Key \cup Value \cup [attrs : Value, left : Nat]
    /\ NoOne \notin Goroutine

Present == {k \in Key : entries[k] # Absent}

-----------------------------------------------------------------------------
\* A mutant of SwapRemove: the last key is not moved into the hole.
SwapRemoveHole(s, i, n) == [j \in 1 .. n - 1 |-> IF j = i THEN Absent ELSE s[j]]

\* keys[i] = keys[n]; keys = keys[:n-1], for 1 <= i <= n
SwapRemove(s, i, n) == [j \in 1 .. n - 1 |-> IF j = i THEN s[n] ELSE s[j]]

\* A mutant of Reindex: the moved key keeps its old position.
ReindexWithoutMove(k, i, n) == [keyIndex EXCEPT ![k] = 0]

\* the index after key k at position i has been overwritten by the key at n
Reindex(k, i, n) ==
    IF i = n THEN [keyIndex EXCEPT ![k] = 0]
             ELSE [keyIndex EXCEPT ![k] = 0, ![keys[n]] = i]

\* delete an entry at a known position of the slice (evictIfNeeded)
EvictAt(i, n) == /\ entries' = [entries EXCEPT ![keys[i]] = Absent]
                 /\ keyIndex' = Reindex(keys[i], i, n)
                 /\ keys' = SwapRemove(keys, i, n)

removeKey(k) ==
    IF keyIndex[k] = 0
    THEN UNCHANGED <<keys, keyIndex>>
    ELSE /\ keyIndex' = Reindex(k, keyIndex[k], Len(keys))
         /\ keys' = SwapRemove(keys, keyIndex[k], Len(keys))

Lifetime(a) == IF a = NotFound THEN NegTTL ELSE TTL

\* A mutant of Fresh: setNotFound uses ttl.
FreshAlwaysTTL(a) == [attrs |-> a, expiresAt |-> clock + TTL]

\* the entry that set or setNotFound stores, timed by the clock as it is then
Fresh(a) == [attrs |-> a, expiresAt |-> clock + Lifetime(a)]

NoEviction == [now |-> 0, n |-> 0, left |-> 0, evicted |-> FALSE,
               oldestIdx |-> 0, oldestExpiry |-> 0]

Init == /\ entries = [k \in Key |-> Absent]
        /\ keys = <<>>
        /\ keyIndex = [k \in Key |-> 0]
        /\ mu = NoOne
        /\ clock = 0
        /\ hits = 0 /\ misses = 0
        /\ pc = [g \in Goroutine |-> "idle"]
        /\ key = [g \in Goroutine |-> Absent]
        /\ val = [g \in Goroutine |-> Absent]
        /\ seen = [g \in Goroutine |-> Absent]
        /\ ev = NoEviction

-----------------------------------------------------------------------------
\* The ticker goroutine stores time.Now().UnixNano(), a wall-clock reading.
Tick == /\ \E t \in Time : /\ t > clock \/ ClockSteps
                           /\ clock' = t
        /\ UNCHANGED <<cacheVars, mu, hits, misses, pc, key, val, seen, ev>>

goto(g, label) == pc' = [pc EXCEPT ![g] = label]

return(g) == /\ goto(g, "idle")
             /\ key' = [key EXCEPT ![g] = Absent]
             /\ val' = [val EXCEPT ![g] = Absent]
             /\ seen' = [seen EXCEPT ![g] = Absent]

-----------------------------------------------------------------------------
\* get

GetCall(g) == /\ pc[g] = "idle"
              /\ hits + misses + Cardinality({h \in Goroutine :
                     pc[h] \in {"get", "check", "relock"}}) < MaxGets
              /\ \E k \in Key : key' = [key EXCEPT ![g] = k]
              /\ goto(g, "get")
              /\ UNCHANGED <<cacheVars, mu, clock, hits, misses, val, seen, ev>>

GetLookup(g) == /\ pc[g] = "get"
                /\ mu = NoOne
                /\ LET e == entries[key[g]] IN
                   IF e = Absent
                   THEN /\ misses' = misses + 1
                        /\ return(g)
                   ELSE /\ seen' = [seen EXCEPT ![g] = e]
                        /\ goto(g, "check")
                        /\ UNCHANGED <<misses, key, val>>
                /\ UNCHANGED <<cacheVars, mu, clock, hits, ev>>

GetCheck(g) == /\ pc[g] = "check"
               /\ IF clock > seen[g].expiresAt
                  THEN /\ goto(g, "relock")
                       /\ UNCHANGED <<hits, key, val, seen>>
                  ELSE /\ hits' = hits + 1
                       /\ return(g)
               /\ UNCHANGED <<cacheVars, mu, clock, misses, ev>>

\* A mutant of GetRelock: the entry is not looked at again under the lock.
GetRelockWithoutRecheck(g) ==
    /\ pc[g] = "relock"
    /\ mu = NoOne
    /\ entries' = [entries EXCEPT ![key[g]] = Absent]
    /\ removeKey(key[g])
    /\ misses' = misses + 1
    /\ return(g)
    /\ UNCHANGED <<mu, clock, hits, ev>>

\* The whole second critical section: it reads the clock once, so no other
\* goroutine can tell it from one step.
GetRelock(g) == /\ pc[g] = "relock"
                /\ mu = NoOne
                /\ LET k == key[g] IN
                   IF entries[k] # Absent /\ clock > entries[k].expiresAt
                   THEN /\ entries' = [entries EXCEPT ![k] = Absent]
                        /\ removeKey(k)
                   ELSE UNCHANGED cacheVars
                /\ misses' = misses + 1
                /\ return(g)
                /\ UNCHANGED <<mu, clock, hits, ev>>

-----------------------------------------------------------------------------
\* set and setNotFound, which differ in the value and so in the lifetime

SetCall(g) == /\ pc[g] = "idle"
              /\ \E k \in Key : key' = [key EXCEPT ![g] = k]
              /\ \E a \in Value : val' = [val EXCEPT ![g] = a]
              /\ goto(g, "set")
              /\ UNCHANGED <<cacheVars, mu, clock, hits, misses, seen, ev>>

SetLock(g) ==
    /\ pc[g] = "set"
    /\ mu = NoOne
    /\ mu' = g
    /\ IF Cardinality(Present) < MaxEntries
       THEN goto(g, "insert") /\ UNCHANGED ev
       ELSE /\ goto(g, "evict")
            /\ ev' = [now |-> clock, n |-> Len(keys),
                      left |-> IF SampleSize < Len(keys) THEN SampleSize
                                                         ELSE Len(keys),
                      evicted |-> FALSE, oldestIdx |-> 0, oldestExpiry |-> 0]
    /\ UNCHANGED <<cacheVars, clock, hits, misses, key, val, seen>>

\* A mutant of AfterExpired: evicted stays false.
AfterExpiredForgotten == [ev EXCEPT !.left = ev.left - 1, !.n = ev.n - 1]

\* the locals after an expired entry has been swap-removed
AfterExpired == [ev EXCEPT !.left = ev.left - 1, !.n = ev.n - 1,
                           !.evicted = TRUE]

\* A mutant of AfterEvict: the early return leaves set, the lock is kept.
AfterEvictLeaksLock(g) == IF ev.n = 1 THEN goto(g, "idle") ELSE UNCHANGED pc

\* evictIfNeeded returns as soon as it has emptied the cache
AfterEvict(g) == IF ev.n = 1 THEN goto(g, "insert") ELSE UNCHANGED pc

\* One iteration of the sampling loop; idx is rand.IntN(n).
EvictSample(g) ==
    /\ pc[g] = "evict"
    /\ ev.left > 0
    /\ \E idx \in 1 .. ev.n :
         LET e == entries[keys[idx]] IN
         IF e # Absent /\ ev.now > e.expiresAt
         THEN /\ EvictAt(idx, ev.n)
              /\ ev' = AfterExpired
              /\ AfterEvict(g)
         ELSE /\ ev' = IF /\ e # Absent
                          /\ \/ ev.oldestIdx = 0
                             \/ e.expiresAt < ev.oldestExpiry
                       THEN [ev EXCEPT !.left = ev.left - 1,
                                       !.oldestIdx = idx,
                                       !.oldestExpiry = e.expiresAt]
                       ELSE [ev EXCEPT !.left = ev.left - 1]
              /\ UNCHANGED <<cacheVars, pc>>
    /\ UNCHANGED <<mu, clock, hits, misses, key, val, seen>>

\* A mutant of EvictOldest: only expired entries make room.
EvictExpiredOnly(g) ==
    /\ pc[g] = "evict"
    /\ ev.left = 0
    /\ goto(g, "insert")
    /\ UNCHANGED <<cacheVars, mu, clock, hits, misses, key, val, seen, ev>>

\* After the loop: make room even when nothing sampled had expired.
EvictOldest(g) ==
    /\ pc[g] = "evict"
    /\ ev.left = 0
    /\ IF ~ev.evicted /\ ev.oldestIdx > 0 /\ ev.n > 0
       THEN EvictAt(ev.oldestIdx, ev.n)
       ELSE UNCHANGED cacheVars
    /\ goto(g, "insert")
    /\ UNCHANGED <<mu, clock, hits, misses, key, val, seen, ev>>

Insert(g) ==
    /\ pc[g] = "insert"
    /\ LET k == key[g] IN
       /\ IF entries[k] = Absent
          THEN /\ keyIndex' = [keyIndex EXCEPT ![k] = Len(keys) + 1]
               /\ keys' = Append(keys, k)
          ELSE UNCHANGED <<keys, keyIndex>>
       /\ entries' = [entries EXCEPT ![k] = Fresh(val[g])]
    /\ mu' = NoOne
    /\ return(g)
    /\ ev' = NoEviction
    /\ UNCHANGED <<clock, hits, misses>>

-----------------------------------------------------------------------------
Call(g) == GetCall(g) \/ SetCall(g)
Step(g) == \/ GetLookup(g) \/ GetCheck(g) \/ GetRelock(g)
           \/ SetLock(g) \/ EvictSample(g) \/ EvictOldest(g) \/ Insert(g)

Next == Tick \/ \E g \in Goroutine : Call(g) \/ Step(g)

\* Strong fairness: a goroutine waiting for the RWMutex gets it in the end
\* although others take it in between (sync.RWMutex admits blocked writers
\* before new readers, and sync.Mutex hands over in starvation mode).  Nobody
\* is obliged to call, and the clock need not advance.
Spec == Init /\ [][Next]_vars /\ \A g \in Goroutine : SF_vars(Step(g))

-----------------------------------------------------------------------------
Frame == [now : Nat, n : Nat, left : Nat, evicted : BOOLEAN,
          oldestIdx : Nat, oldestExpiry : Nat]

TypeOK == /\ entries \in [Key -> Entry \cup {Absent}]
          /\ keys \in Seq(Key)
          /\ keyIndex \in [Key -> Nat]
          /\ mu \in Goroutine \cup {NoOne}
          /\ clock \in Time
          /\ hits \in Nat /\ misses \in Nat
          /\ pc \in [Goroutine -> {"idle", "get", "check", "relock",
                                   "set", "evict", "insert"}]
          /\ key \in [Goroutine -> Key \cup {Absent}]
          /\ val \in [Goroutine -> Value \cup {Absent}]
          /\ seen \in [Goroutine -> Entry \cup {Absent}]
          /\ ev \in Frame

(* The map, the slice and the index always describe the same set of keys:     *)
(* position i of the slice holds a key of the map whose index is i, and every *)
(* key of the map is in the slice once.  removeKey and both swap-removes of   *)
(* evictIfNeeded rely on it: with a stale index a later removal drops another *)
(* key from the slice, which can then never be sampled for eviction.          *)
IndexConsistent ==
    /\ \A i \in 1 .. Len(keys) : /\ entries[keys[i]] # Absent
                                 /\ keyIndex[keys[i]] = i
    /\ \A k \in Key : entries[k] # Absent =>
                         /\ keyIndex[k] \in 1 .. Len(keys)
                         /\ keys[keyIndex[k]] = k
    /\ \A k \in Key : entries[k] = Absent => keyIndex[k] = 0

(* The cache never holds more than maxEntries entries, expired ones included, *)
(* whatever mix of expired and live entries the sampling loop meets: each     *)
(* set that finds the cache full makes room before it inserts.                *)
SizeBound == Cardinality(Present) <= MaxEntries

(* Eviction cannot panic: inside the loop rand.IntN is never asked for a      *)
(* number below 0, the local n is the slice's length, and the remembered      *)
(* oldestIdx, when it is used after swap-removes may have moved keys, is in   *)
(* range and still names the entry whose expiry was remembered.               *)
EvictionSafe ==
    \A g \in Goroutine : pc[g] = "evict" =>
        /\ ev.n = Len(keys)
        /\ ev.left > 0 => ev.n > 0
        /\ ~ev.evicted /\ ev.oldestIdx > 0 =>
              /\ ev.oldestIdx <= ev.n
              /\ entries[keys[ev.oldestIdx]].expiresAt = ev.oldestExpiry
        /\ ~ev.evicted /\ ev.left = 0 => ev.oldestIdx > 0

(* While the clock does not go back, no entry can outlive its kind: a         *)
(* not-found entry is gone NegTTL after the present, a positive one TTL,      *)
(* however the store's two clock readings and the ticks interleave.           *)
LifetimeBounded ==
    \A k \in Present : entries[k].expiresAt <= clock + Lifetime(entries[k].attrs)

(* Every call returns: the write lock is released on all paths, including     *)
(* the early return of an eviction that empties the cache, and the sampling   *)
(* loop ends.                                                                 *)
CallsReturn == \A g \in Goroutine : pc[g] # "idle" ~> pc[g] = "idle"

(* The cache implements the bounded TTL map: in particular a live entry       *)
(* disappears only when the cache is full, so an entry refreshed by set       *)
(* between get's read and its write lock is not deleted as expired.           *)
Map == INSTANCE TTLMap
ImplementsTTLMap == Map!Spec

\* The cache as its readers see it: expired entries are misses.
View == [k \in Key |->
           IF entries[k] = Absent \/ clock > entries[k].expiresAt THEN Absent
           ELSE [attrs |-> entries[k].attrs, left |-> entries[k].expiresAt - clock]]

(* To a reader the cache is a map whose values last for a fixed time from     *)
(* their last store and never longer: nothing but set and setNotFound renews  *)
(* an entry, and no internal step brings an expired value back.               *)
Readers == INSTANCE LiveCache WITH cached <- View
ImplementsLiveCache == Readers!CacheSpec
=============================================================================
