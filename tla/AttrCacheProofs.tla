-------------------------- MODULE AttrCacheProofs --------------------------
(* Theorems about AttrCache, for every number of keys, goroutines and          *)
(* entries, every sample size and lifetime, and whether or not the wall clock  *)
(* may be set back.                                                            *)
EXTENDS AttrCache, FiniteSetTheorems, SequenceTheorems, TLAPS

\* The parts of TypeOK that the cache's critical sections write.
CacheType == /\ entries \in [Key -> Entry \cup {Absent}]
             /\ keys \in Seq(Key)
             /\ keyIndex \in [Key -> Nat]

\* A goroutine is between Lock and Unlock exactly while it holds the lock, and
\* a call's arguments and copied entry are there while it needs them.
LockInv == /\ \A g \in Goroutine : pc[g] \in {"evict", "insert"} <=> mu = g
           /\ \A g \in Goroutine :
                /\ pc[g] # "idle" => key[g] \in Key
                /\ pc[g] \in {"set", "evict", "insert"} => val[g] \in Value
                /\ pc[g] \in {"check", "relock"} => seen[g] \in Entry

\* There is room for one more entry whenever a goroutine is about to insert,
\* and during an eviction as soon as one entry has been removed.
RoomInv == /\ Len(keys) <= MaxEntries
           /\ \A g \in Goroutine :
                \/ pc[g] = "insert"
                \/ pc[g] = "evict" /\ ev.evicted
                => Len(keys) < MaxEntries

IInv == TypeOK /\ IndexConsistent /\ LockInv /\ RoomInv /\ EvictionSafe

-----------------------------------------------------------------------------
(* The slice has one position per key of the map, so len(c.entries), which    *)
(* evictIfNeeded compares with maxEntries, equals len(c.keys), from which it  *)
(* samples.                                                                   *)
LEMMA CountPresent ==
    ASSUME CacheType, IndexConsistent
    PROVE  IsFiniteSet(Present) /\ Cardinality(Present) = Len(keys)
<1> DEFINE n == Len(keys)
<1>1. n \in Nat
  BY LenProperties DEF CacheType
<1>2. keys \in [1 .. n -> Present]
  BY <1>1, ElementOfSeq, LenProperties DEF CacheType, IndexConsistent, Present
<1>3. keys \in Bijection(1 .. n, Present)
  <2>1. \A i, j \in 1 .. n : keys[i] = keys[j] => i = j
    BY DEF IndexConsistent
  <2>2. \A k \in Present : \E i \in 1 .. n : keys[i] = k
    BY DEF IndexConsistent, Present
  <2> QED
    BY <1>2, <2>1, <2>2 DEF Bijection, Injection, Surjection, IsInjective
<1>4. ExistsBijection(1 .. n, Present)
  BY <1>3 DEF ExistsBijection
<1> QED
  <2>1. IsFiniteSet(Present)
    BY <1>1, <1>4, FS_NatBijection
  <2>2. Cardinality(Present) = n
    BY <1>1, <1>4, FS_CountingElements
  <2> QED
    BY <2>1, <2>2

(* Swap-removing position i keeps the map, the slice and the index consistent *)
(* and shortens the slice by one.                                             *)
LEMMA EvictAtConsistent ==
    ASSUME CacheType, IndexConsistent,
           NEW i \in 1 .. Len(keys), EvictAt(i, Len(keys))
    PROVE  /\ CacheType'
           /\ IndexConsistent'
           /\ Len(keys') = Len(keys) - 1
<1> DEFINE n == Len(keys)
<1>1. n \in Nat /\ n >= 1 /\ i \in 1 .. n
  BY LenProperties DEF CacheType
<1>2. keys \in [1 .. n -> Key]
  BY LenProperties DEF CacheType
<1>3. keys' \in [1 .. n - 1 -> Key]
  BY <1>1, <1>2 DEF EvictAt, SwapRemove
<1>4. keys' \in Seq(Key) /\ Len(keys') = n - 1
  <2>1. n - 1 \in Nat
    BY <1>1
  <2>2. keys' \in Seq(Key)
    BY <1>3, <2>1, SeqDef
  <2>3. Len(keys') \in Nat /\ DOMAIN keys' = 1 .. Len(keys')
    BY <2>2, LenProperties
  <2> QED
    BY <1>3, <2>1, <2>2, <2>3
<1>5. \A j \in 1 .. n - 1 : keys'[j] = IF j = i THEN keys[n] ELSE keys[j]
  BY DEF EvictAt, SwapRemove
<1>6. keys[i] \in Key /\ keys[n] \in Key
  BY <1>1, <1>2
<1>7. \A k \in Key : entries'[k] = IF k = keys[i] THEN Absent ELSE entries[k]
  BY <1>6 DEF EvictAt, CacheType
<1>8. i # n => keys[i] # keys[n]
  BY <1>1 DEF IndexConsistent
<1>9. \A k \in Key : keyIndex'[k] = IF k = keys[i] THEN 0
                                   ELSE IF i # n /\ k = keys[n] THEN i
                                   ELSE keyIndex[k]
  BY <1>1, <1>6, <1>8 DEF EvictAt, Reindex, CacheType
<1>10. CacheType'
  <2>1. entries' \in [Key -> Entry \cup {Absent}]
    BY <1>6 DEF EvictAt, CacheType
  <2>2. keyIndex' \in [Key -> Nat]
    BY <1>1, <1>6 DEF EvictAt, Reindex, CacheType
  <2> QED
    BY <1>4, <2>1, <2>2 DEF CacheType
<1>11. \A j \in 1 .. n - 1 : /\ entries'[keys'[j]] # Absent
                            /\ keyIndex'[keys'[j]] = j
  <2> SUFFICES ASSUME NEW j \in 1 .. n - 1
               PROVE  entries'[keys'[j]] # Absent /\ keyIndex'[keys'[j]] = j
    OBVIOUS
  <2>1. CASE j = i
    <3>1. keys'[j] = keys[n] /\ i # n
      BY <1>1, <1>5, <2>1
    <3> QED
      BY <1>1, <1>6, <1>7, <1>8, <1>9, <2>1, <3>1 DEF IndexConsistent
  <2>2. CASE j # i
    <3>a. j \in 1 .. n /\ j # n
      BY <1>1
    <3>b. keys'[j] = keys[j]
      BY <1>5, <2>2
    <3>1. keys'[j] = keys[j] /\ keys[j] \in Key /\ j \in 1 .. n /\ j # n
      BY <1>2, <3>a, <3>b
    <3>2. keys[j] # keys[i] /\ keys[j] # keys[n]
      BY <1>1, <2>2, <3>1 DEF IndexConsistent
    <3> QED
      BY <1>7, <1>9, <3>1, <3>2 DEF IndexConsistent
  <2> QED
    BY <2>1, <2>2
<1>12. \A k \in Key : entries'[k] # Absent => /\ keyIndex'[k] \in 1 .. n - 1
                                             /\ keys'[keyIndex'[k]] = k
  <2> SUFFICES ASSUME NEW k \in Key, entries'[k] # Absent
               PROVE  keyIndex'[k] \in 1 .. n - 1 /\ keys'[keyIndex'[k]] = k
    OBVIOUS
  <2>1. k # keys[i] /\ entries[k] # Absent
    BY <1>7
  <2>2. keyIndex[k] \in 1 .. n /\ keys[keyIndex[k]] = k /\ keyIndex[k] # i
    BY <2>1 DEF IndexConsistent
  <2>3. CASE k = keys[n]
    BY <1>1, <1>5, <1>9, <2>1, <2>3
  <2>4. CASE k # keys[n]
    BY <1>1, <1>5, <1>9, <2>1, <2>2, <2>4
  <2> QED
    BY <2>3, <2>4
<1>13. \A k \in Key : entries'[k] = Absent => keyIndex'[k] = 0
  BY <1>1, <1>6, <1>7, <1>9 DEF IndexConsistent
<1> QED
  BY <1>4, <1>10, <1>11, <1>12, <1>13 DEF IndexConsistent

(* get's deletion of an expired entry is a swap-remove at the position the    *)
(* index gives, so it keeps the three structures consistent as well.          *)
LEMMA RemoveKeyConsistent ==
    ASSUME CacheType, IndexConsistent,
           NEW k \in Key, entries[k] # Absent,
           entries' = [entries EXCEPT ![k] = Absent], removeKey(k)
    PROVE  /\ CacheType'
           /\ IndexConsistent'
           /\ Len(keys') = Len(keys) - 1
<1>1. keyIndex[k] \in 1 .. Len(keys) /\ keys[keyIndex[k]] = k
  BY DEF IndexConsistent
<1>2. Len(keys) \in Nat
  BY LenProperties DEF CacheType
<1>3. EvictAt(keyIndex[k], Len(keys))
  BY <1>1, <1>2 DEF removeKey, EvictAt
<1> QED
  BY <1>1, <1>3, EvictAtConsistent

(* Inserting or refreshing one entry keeps the three structures consistent.   *)
LEMMA InsertConsistent ==
    ASSUME CacheType, IndexConsistent, NEW k \in Key, NEW e \in Entry,
           entries' = [entries EXCEPT ![k] = e],
           IF entries[k] = Absent
           THEN /\ keyIndex' = [keyIndex EXCEPT ![k] = Len(keys) + 1]
                /\ keys' = Append(keys, k)
           ELSE UNCHANGED <<keys, keyIndex>>
    PROVE  /\ CacheType'
           /\ IndexConsistent'
           /\ Len(keys') <= Len(keys) + 1
<1>1. Len(keys) \in Nat /\ keys \in [1 .. Len(keys) -> Key]
  BY LenProperties DEF CacheType
<1>2. e # Absent
  BY SentinelAssumption
<1>3. CASE entries[k] # Absent
  BY <1>1, <1>2, <1>3 DEF CacheType, IndexConsistent
<1>4. CASE entries[k] = Absent
  <2> DEFINE n == Len(keys)
  <2>1. /\ keys' \in Seq(Key)
        /\ Len(keys') = n + 1
        /\ keys'[n + 1] = k
        /\ \A i \in 1 .. n : keys'[i] = keys[i]
    <3>1. keys' = Append(keys, k) /\ keys \in Seq(Key)
      BY <1>4 DEF CacheType
    <3>2. k \in Key
      OBVIOUS
    <3>3. /\ Append(keys, k) \in Seq(Key)
          /\ Len(Append(keys, k)) = Len(keys) + 1
          /\ Append(keys, k)[Len(keys) + 1] = k
          /\ \A i \in 1 .. Len(keys) : Append(keys, k)[i] = keys[i]
      BY <3>1, <3>2, AppendProperties
    <3> QED
      BY <3>1, <3>3
  <2>2. CacheType'
    BY <1>1, <1>4, <2>1 DEF CacheType
  <2>3. \A i \in 1 .. n : keys[i] # k /\ keys[i] \in Key
    BY <1>1, <1>4 DEF IndexConsistent
  <2>4. \A i \in 1 .. n + 1 : /\ entries'[keys'[i]] # Absent
                              /\ keyIndex'[keys'[i]] = i
    <3> SUFFICES ASSUME NEW i \in 1 .. n + 1
                 PROVE  entries'[keys'[i]] # Absent /\ keyIndex'[keys'[i]] = i
      OBVIOUS
    <3>1. CASE i = n + 1
      BY <1>2, <1>4, <2>1, <3>1 DEF CacheType
    <3>2. CASE i # n + 1
      <4>1. i \in 1 .. n
        BY <1>1, <3>2
      <4>2. keys'[i] = keys[i] /\ keys[i] # k /\ keys[i] \in Key
        BY <2>1, <2>3, <4>1
      <4> QED
        BY <1>4, <4>1, <4>2 DEF CacheType, IndexConsistent
    <3> QED
      BY <3>1, <3>2
  <2>5. \A j \in Key : entries'[j] # Absent => /\ keyIndex'[j] \in 1 .. n + 1
                                               /\ keys'[keyIndex'[j]] = j
    <3> SUFFICES ASSUME NEW j \in Key, entries'[j] # Absent
                 PROVE  keyIndex'[j] \in 1 .. n + 1 /\ keys'[keyIndex'[j]] = j
      OBVIOUS
    <3>1. CASE j = k
      BY <1>1, <1>4, <2>1, <3>1 DEF CacheType
    <3>2. CASE j # k
      <4>1. entries[j] # Absent /\ keyIndex'[j] = keyIndex[j]
        BY <1>4, <3>2 DEF CacheType
      <4>2. keyIndex[j] \in 1 .. n /\ keys[keyIndex[j]] = j
        BY <4>1 DEF IndexConsistent
      <4> QED
        BY <1>1, <2>1, <4>1, <4>2
    <3> QED
      BY <3>1, <3>2
  <2>6. \A j \in Key : entries'[j] = Absent => keyIndex'[j] = 0
    BY <1>2, <1>4 DEF CacheType, IndexConsistent
  <2> QED
    BY <1>1, <2>1, <2>2, <2>4, <2>5, <2>6 DEF IndexConsistent
<1> QED
  BY <1>3, <1>4

-----------------------------------------------------------------------------
(* Nothing has happened yet in an initial state.                              *)
LEMMA InitIInv == Init => IInv
<1> SUFFICES ASSUME Init PROVE IInv
  OBVIOUS
<1> USE BoundsAssumption, SentinelAssumption
<1>1. keys \in Seq(Key) /\ Len(keys) = 0
  BY EmptySeq DEF Init
<1>2. TypeOK
  BY <1>1 DEF Init, TypeOK, Frame, NoEviction, Time
<1>3. IndexConsistent
  BY <1>1 DEF Init, IndexConsistent
<1>4. LockInv
  BY DEF Init, LockInv
<1>5. RoomInv
  BY <1>1 DEF Init, RoomInv
<1>6. EvictionSafe
  BY DEF Init, EvictionSafe
<1> QED
  BY <1>2, <1>3, <1>4, <1>5, <1>6 DEF IInv

(* Every step of every goroutine keeps the inductive invariant.               *)
LEMMA NextIInv == IInv /\ [Next]_vars => IInv'
<1> SUFFICES ASSUME IInv, [Next]_vars PROVE IInv'
  OBVIOUS
<1> USE BoundsAssumption, SentinelAssumption
<1>t. /\ TypeOK /\ IndexConsistent /\ LockInv /\ RoomInv /\ EvictionSafe
      /\ CacheType /\ Len(keys) \in Nat
  BY LenProperties DEF IInv, TypeOK, CacheType
<1>c. IsFiniteSet(Present) /\ Cardinality(Present) = Len(keys)
  BY <1>t, CountPresent
<1>1. CASE Tick
  <2>1. TypeOK'
    BY <1>1, <1>t DEF TypeOK, Tick, cacheVars
  <2> QED
    BY <1>1, <1>t, <2>1 DEF IInv, Tick, cacheVars, IndexConsistent, LockInv,
                            RoomInv, EvictionSafe
<1>2. ASSUME NEW g \in Goroutine, GetCall(g) PROVE IInv'
  <2>1. TypeOK'
    BY <1>2, <1>t DEF TypeOK, GetCall, cacheVars, goto
  <2>2. LockInv'
    BY <1>2, <1>t DEF TypeOK, GetCall, cacheVars, goto, LockInv
  <2> QED
    BY <1>2, <1>t, <2>1, <2>2 DEF IInv, GetCall, cacheVars, goto, TypeOK,
                            IndexConsistent, RoomInv, EvictionSafe
<1>3. ASSUME NEW g \in Goroutine, GetLookup(g) PROVE IInv'
  <2>0. key[g] \in Key /\ entries[key[g]] \in Entry \cup {Absent}
    BY <1>3, <1>t DEF GetLookup, LockInv, CacheType
  <2>1. TypeOK' /\ LockInv'
    <3>1. CASE entries[key[g]] = Absent
      <4>1. /\ misses' = misses + 1
            /\ pc' = [pc EXCEPT ![g] = "idle"]
            /\ key' = [key EXCEPT ![g] = Absent]
            /\ val' = [val EXCEPT ![g] = Absent]
            /\ seen' = [seen EXCEPT ![g] = Absent]
            /\ UNCHANGED <<cacheVars, mu, clock, hits, ev>>
        BY <1>3, <3>1 DEF GetLookup, return, goto
      <4>2. TypeOK'
        BY <1>t, <4>1 DEF TypeOK, cacheVars
      <4>3. LockInv'
        BY <1>3, <1>t, <4>1 DEF TypeOK, LockInv, GetLookup
      <4> QED
        BY <4>2, <4>3
    <3>2. CASE entries[key[g]] # Absent
      <4>1. /\ seen' = [seen EXCEPT ![g] = entries[key[g]]]
            /\ pc' = [pc EXCEPT ![g] = "check"]
            /\ UNCHANGED <<misses, key, val, cacheVars, mu, clock, hits, ev>>
        BY <1>3, <3>2 DEF GetLookup, goto
      <4>2. TypeOK'
        BY <1>t, <2>0, <4>1 DEF TypeOK, cacheVars
      <4>3. LockInv'
        BY <1>3, <1>t, <2>0, <3>2, <4>1 DEF TypeOK, LockInv, GetLookup
      <4> QED
        BY <4>2, <4>3
    <3> QED
      BY <3>1, <3>2
  <2>2. LockInv'
    BY <2>1
  <2> QED
    BY <1>3, <1>t, <2>1, <2>2 DEF IInv, GetLookup, return, cacheVars, goto,
                            TypeOK, IndexConsistent, RoomInv, EvictionSafe
<1>4. ASSUME NEW g \in Goroutine, GetCheck(g) PROVE IInv'
  <2>1. TypeOK'
    <3>1. CASE clock > seen[g].expiresAt
      BY <1>4, <1>t, <3>1 DEF TypeOK, GetCheck, cacheVars, goto
    <3>2. CASE ~(clock > seen[g].expiresAt)
      <4>1. /\ hits' = hits + 1
            /\ pc' = [pc EXCEPT ![g] = "idle"]
            /\ key' = [key EXCEPT ![g] = Absent]
            /\ val' = [val EXCEPT ![g] = Absent]
            /\ seen' = [seen EXCEPT ![g] = Absent]
            /\ UNCHANGED <<cacheVars, mu, clock, misses, ev>>
        BY <1>4, <3>2 DEF GetCheck, return, goto
      <4> QED
        BY <1>t, <4>1 DEF TypeOK, cacheVars
    <3> QED
      BY <3>1, <3>2
  <2>2. LockInv'
    BY <1>4, <1>t DEF TypeOK, GetCheck, return, cacheVars, goto, LockInv
  <2> QED
    BY <1>4, <1>t, <2>1, <2>2 DEF IInv, GetCheck, return, cacheVars, goto,
                            TypeOK, IndexConsistent, RoomInv, EvictionSafe
<1>5. ASSUME NEW g \in Goroutine, GetRelock(g) PROVE IInv'
  <2>0. key[g] \in Key /\ \A h \in Goroutine : pc[h] \notin {"evict", "insert"}
    BY <1>5, <1>t DEF GetRelock, LockInv
  <2>1. CacheType' /\ IndexConsistent' /\ Len(keys') <= Len(keys) /\ Len(keys') \in Nat
    <3>1. CASE entries[key[g]] # Absent /\ clock > entries[key[g]].expiresAt
      <4>1. entries' = [entries EXCEPT ![key[g]] = Absent] /\ removeKey(key[g])
        BY <1>5, <3>1 DEF GetRelock
      <4>2. CacheType' /\ IndexConsistent' /\ Len(keys') = Len(keys) - 1
        BY <1>t, <2>0, <3>1, <4>1, RemoveKeyConsistent
      <4>3. Len(keys') \in Nat
        BY <4>2, LenProperties DEF CacheType
      <4> QED
        BY <1>t, <4>2, <4>3
    <3>2. CASE ~(entries[key[g]] # Absent /\ clock > entries[key[g]].expiresAt)
      BY <1>5, <1>t, <3>2 DEF GetRelock, cacheVars, CacheType, IndexConsistent
    <3> QED
      BY <3>1, <3>2
  <2>2. TypeOK'
    BY <1>5, <1>t, <2>1 DEF TypeOK, CacheType, GetRelock, return, goto
  <2>3. LockInv'
    BY <1>5, <1>t DEF TypeOK, GetRelock, return, goto, LockInv
  <2>4. RoomInv'
    BY <1>5, <1>t, <2>0, <2>1 DEF TypeOK, GetRelock, return, goto, RoomInv
  <2>5. EvictionSafe'
    BY <1>5, <1>t, <2>0 DEF TypeOK, GetRelock, return, goto, EvictionSafe
  <2> QED
    BY <2>1, <2>2, <2>3, <2>4, <2>5 DEF IInv
<1>6. ASSUME NEW g \in Goroutine, SetCall(g) PROVE IInv'
  <2>1. TypeOK'
    BY <1>6, <1>t DEF TypeOK, SetCall, cacheVars, goto
  <2>2. LockInv'
    BY <1>6, <1>t DEF TypeOK, SetCall, cacheVars, goto, LockInv
  <2> QED
    BY <1>6, <1>t, <2>1, <2>2 DEF IInv, SetCall, cacheVars, goto, TypeOK,
                            IndexConsistent, RoomInv, EvictionSafe
<1>7. ASSUME NEW g \in Goroutine, SetLock(g) PROVE IInv'
  <2>0. \A h \in Goroutine : pc[h] \notin {"evict", "insert"}
    BY <1>7, <1>t DEF SetLock, LockInv
  <2>1. TypeOK'
    <3>1. ev' \in Frame
      <4>1. clock \in Nat /\ ev \in Frame
        BY <1>t DEF TypeOK, Time
      <4>2. (IF SampleSize < Len(keys) THEN SampleSize ELSE Len(keys)) \in Nat
        BY <1>t
      <4>3. CASE Cardinality(Present) < MaxEntries
        BY <1>7, <4>1, <4>3 DEF SetLock
      <4>4. CASE ~(Cardinality(Present) < MaxEntries)
        <5>1. ev' = [now |-> clock, n |-> Len(keys),
                     left |-> IF SampleSize < Len(keys) THEN SampleSize
                                                        ELSE Len(keys),
                     evicted |-> FALSE, oldestIdx |-> 0, oldestExpiry |-> 0]
          BY <1>7, <4>4 DEF SetLock
        <5> HIDE BoundsAssumption, SentinelAssumption
        <5> QED
          BY <1>t, <4>1, <4>2, <5>1 DEF Frame
      <4> QED
        BY <4>3, <4>4
    <3> QED
      BY <1>7, <1>t, <3>1 DEF TypeOK, SetLock, cacheVars, goto
  <2>2. LockInv'
    BY <1>7, <1>t, <2>0 DEF TypeOK, SetLock, cacheVars, goto, LockInv
  <2>3. RoomInv'
    BY <1>7, <1>t, <1>c, <2>0 DEF TypeOK, SetLock, cacheVars, goto, RoomInv
  <2>4. EvictionSafe'
    BY <1>7, <1>t, <1>c, <2>0 DEF TypeOK, SetLock, cacheVars, goto, EvictionSafe
  <2> QED
    BY <1>7, <1>t, <2>1, <2>2, <2>3, <2>4 DEF IInv, SetLock, cacheVars,
                                              IndexConsistent
<1>8. ASSUME NEW g \in Goroutine, EvictSample(g) PROVE IInv'
  <2>0. /\ mu = g /\ ev.n = Len(keys) /\ ev.left \in Nat /\ ev.left > 0
        /\ \A h \in Goroutine : h # g => pc[h] \notin {"evict", "insert"}
    BY <1>8, <1>t DEF EvictSample, LockInv, EvictionSafe, TypeOK, Frame
  <2> DEFINE n == Len(keys)
             e(idx) == entries[keys[idx]]
  <2>1. PICK idx \in 1 .. n :
         IF e(idx) # Absent /\ ev.now > e(idx).expiresAt
         THEN /\ EvictAt(idx, n)
              /\ ev' = [ev EXCEPT !.left = ev.left - 1, !.n = ev.n - 1,
                                  !.evicted = TRUE]
              /\ IF ev.n = 1 THEN goto(g, "insert") ELSE UNCHANGED pc
         ELSE /\ ev' = IF /\ e(idx) # Absent
                          /\ \/ ev.oldestIdx = 0
                             \/ e(idx).expiresAt < ev.oldestExpiry
                       THEN [ev EXCEPT !.left = ev.left - 1,
                                       !.oldestIdx = idx,
                                       !.oldestExpiry = e(idx).expiresAt]
                       ELSE [ev EXCEPT !.left = ev.left - 1]
              /\ UNCHANGED <<cacheVars, pc>>
    BY <1>8, <2>0 DEF EvictSample, AfterEvict, AfterExpired
  <2>2. e(idx) # Absent /\ e(idx) \in Entry
    <3>1. keys[idx] \in Key
      BY <1>t, ElementOfSeq DEF CacheType
    <3> QED
      BY <1>t, <3>1 DEF IndexConsistent, CacheType
  <2>3. UNCHANGED <<mu, clock, hits, misses, key, val, seen>>
    BY <1>8 DEF EvictSample
  <2>4. CASE ev.now > e(idx).expiresAt
    <3>1. /\ EvictAt(idx, n)
          /\ ev' = [ev EXCEPT !.left = ev.left - 1, !.n = ev.n - 1,
                              !.evicted = TRUE]
          /\ IF ev.n = 1 THEN goto(g, "insert") ELSE UNCHANGED pc
      BY <2>1, <2>2, <2>4
    <3>2. CacheType' /\ IndexConsistent' /\ Len(keys') = n - 1
      BY <1>t, <3>1, EvictAtConsistent
    <3>3. ev' \in Frame /\ ev'.n = n - 1 /\ ev'.evicted /\ n \in Nat /\ n >= 1
      <4>1. n \in Nat /\ n >= 1 /\ n - 1 \in Nat /\ ev.left - 1 \in Nat
        BY <1>t, <2>0
      <4>2. ev \in Frame
        BY <1>t DEF TypeOK
      <4> QED
        BY <2>0, <3>1, <4>1, <4>2 DEF Frame
    <3>4. TypeOK'
      BY <1>8, <1>t, <2>3, <3>1, <3>2, <3>3 DEF TypeOK, CacheType, goto
    <3>5. LockInv'
      BY <1>8, <1>t, <2>0, <2>3, <3>1 DEF TypeOK, LockInv, goto, EvictSample
    <3>6. RoomInv'
      BY <1>t, <3>2, <3>3 DEF RoomInv
    <3>7. EvictionSafe'
      BY <1>8, <1>t, <2>0, <3>1, <3>2, <3>3 DEF TypeOK, EvictionSafe, goto,
                                               EvictSample
    <3> QED
      BY <3>2, <3>4, <3>5, <3>6, <3>7 DEF IInv
  <2>5. CASE ~(ev.now > e(idx).expiresAt)
    <3>1. /\ ev' = IF \/ ev.oldestIdx = 0
                      \/ e(idx).expiresAt < ev.oldestExpiry
                   THEN [ev EXCEPT !.left = ev.left - 1,
                                   !.oldestIdx = idx,
                                   !.oldestExpiry = e(idx).expiresAt]
                   ELSE [ev EXCEPT !.left = ev.left - 1]
          /\ UNCHANGED <<entries, keys, keyIndex, pc>>
      BY <2>1, <2>2, <2>5 DEF cacheVars
    <3>2. e(idx).expiresAt \in Nat /\ idx \in Nat
      BY <1>t, <2>2 DEF Entry
    <3>a. ev \in Frame /\ ev.left - 1 \in Nat
      BY <1>t, <2>0 DEF TypeOK
    <3>b. /\ ev' \in Frame
          /\ ev'.n = ev.n /\ ev'.evicted = ev.evicted
          /\ ev'.left = ev.left - 1
          /\ \/ /\ ev'.oldestIdx = idx
                /\ ev'.oldestExpiry = e(idx).expiresAt
             \/ /\ ev'.oldestIdx = ev.oldestIdx /\ ev.oldestIdx # 0
                /\ ev'.oldestExpiry = ev.oldestExpiry
      <4>1. CASE ev.oldestIdx = 0 \/ e(idx).expiresAt < ev.oldestExpiry
        <5>1. ev' = [ev EXCEPT !.left = ev.left - 1, !.oldestIdx = idx,
                               !.oldestExpiry = e(idx).expiresAt]
          BY <3>1, <4>1
        <5> QED
          BY <3>2, <3>a, <5>1 DEF Frame
      <4>2. CASE ~(ev.oldestIdx = 0 \/ e(idx).expiresAt < ev.oldestExpiry)
        <5>1. ev' = [ev EXCEPT !.left = ev.left - 1]
          BY <3>1, <4>2
        <5> QED
          BY <3>a, <4>2, <5>1 DEF Frame
      <4> QED
        BY <4>1, <4>2
    <3>3. TypeOK'
      BY <1>t, <2>3, <3>1, <3>b DEF TypeOK
    <3>4. LockInv'
      BY <1>t, <2>3, <3>1 DEF LockInv
    <3>5. RoomInv'
      BY <1>t, <3>1, <3>b DEF RoomInv
    <3>6. EvictionSafe'
      <4> SUFFICES ASSUME NEW h \in Goroutine, pc'[h] = "evict"
                   PROVE  /\ ev'.n = Len(keys')
                          /\ ev'.left > 0 => ev'.n > 0
                          /\ ~ev'.evicted /\ ev'.oldestIdx > 0 =>
                                /\ ev'.oldestIdx <= ev'.n
                                /\ entries'[keys'[ev'.oldestIdx]].expiresAt
                                       = ev'.oldestExpiry
                          /\ ~ev'.evicted /\ ev'.left = 0 => ev'.oldestIdx > 0
        BY DEF EvictionSafe
      <4>1. pc[h] = "evict"
        BY <3>1
      <4>2. ev.n = Len(keys) /\ n > 0 /\ ev.oldestIdx \in Nat
        BY <1>t, <2>0, <3>a DEF Frame
      <4>3. CASE ev'.oldestIdx = idx /\ ev'.oldestExpiry = e(idx).expiresAt
        BY <3>1, <3>b, <4>2, <4>3
      <4>4. CASE /\ ev'.oldestIdx = ev.oldestIdx /\ ev.oldestIdx # 0
                 /\ ev'.oldestExpiry = ev.oldestExpiry
        BY <1>t, <3>1, <3>b, <4>1, <4>2, <4>4 DEF EvictionSafe
      <4> QED
        BY <3>b, <4>3, <4>4
    <3> QED
      BY <1>t, <3>1, <3>3, <3>4, <3>5, <3>6 DEF IInv, IndexConsistent
  <2> QED
    BY <2>4, <2>5
<1>9. ASSUME NEW g \in Goroutine, EvictOldest(g) PROVE IInv'
  <2>0. /\ mu = g /\ ev.n = Len(keys) /\ ev.left = 0 /\ pc[g] = "evict"
        /\ \A h \in Goroutine : h # g => pc[h] \notin {"evict", "insert"}
    BY <1>9, <1>t DEF EvictOldest, LockInv, EvictionSafe
  <2>1. CacheType' /\ IndexConsistent' /\ Len(keys') \in Nat /\ Len(keys') < MaxEntries
    <3>1. CASE ev.evicted
      BY <1>9, <1>t, <2>0, <3>1 DEF EvictOldest, cacheVars, CacheType,
                                    IndexConsistent, RoomInv
    <3>2. CASE ~ev.evicted
      <4>1. ev.oldestIdx > 0 /\ ev.oldestIdx <= ev.n /\ ev.oldestIdx \in Nat
        BY <1>t, <2>0, <3>2 DEF EvictionSafe, TypeOK, Frame
      <4>2. ev.oldestIdx \in 1 .. Len(keys)
        BY <1>t, <2>0, <4>1
      <4>3. EvictAt(ev.oldestIdx, Len(keys))
        BY <1>9, <1>t, <2>0, <3>2, <4>1, <4>2 DEF EvictOldest
      <4>4. CacheType' /\ IndexConsistent' /\ Len(keys') = Len(keys) - 1
        BY <1>t, <4>2, <4>3, EvictAtConsistent
      <4> QED
        BY <1>t, <4>2, <4>4 DEF RoomInv
    <3> QED
      BY <3>1, <3>2
  <2>2. TypeOK'
    BY <1>9, <1>t, <2>1 DEF TypeOK, CacheType, EvictOldest, goto
  <2>3. LockInv'
    BY <1>9, <1>t, <2>0 DEF TypeOK, EvictOldest, goto, LockInv
  <2>4. RoomInv'
    BY <1>9, <1>t, <2>0, <2>1 DEF RoomInv
  <2>5. EvictionSafe'
    BY <1>9, <1>t, <2>0 DEF TypeOK, EvictOldest, goto, EvictionSafe
  <2> QED
    BY <2>1, <2>2, <2>3, <2>4, <2>5 DEF IInv
<1>10. ASSUME NEW g \in Goroutine, Insert(g) PROVE IInv'
  <2>0. /\ mu = g /\ Len(keys) < MaxEntries
        /\ key[g] \in Key /\ val[g] \in Value
        /\ \A h \in Goroutine : h # g => pc[h] \notin {"evict", "insert"}
    BY <1>10, <1>t DEF Insert, LockInv, RoomInv
  <2> DEFINE e == Fresh(val[g])
  <2>1. e \in Entry
    BY <1>t, <2>0 DEF TypeOK, Time, Lifetime, Entry, Fresh
  <2>2. /\ entries' = [entries EXCEPT ![key[g]] = e]
        /\ IF entries[key[g]] = Absent
           THEN /\ keyIndex' = [keyIndex EXCEPT ![key[g]] = Len(keys) + 1]
                /\ keys' = Append(keys, key[g])
           ELSE UNCHANGED <<keys, keyIndex>>
    BY <1>10 DEF Insert
  <2>3. CacheType' /\ IndexConsistent' /\ Len(keys') <= Len(keys) + 1
    BY <1>t, <2>0, <2>1, <2>2, InsertConsistent
  <2>4. Len(keys') \in Nat
    BY <2>3, LenProperties DEF CacheType
  <2>5. TypeOK'
    BY <1>10, <1>t, <2>3 DEF TypeOK, CacheType, Insert, return, goto,
                             NoEviction, Frame
  <2>6. LockInv'
    BY <1>10, <1>t, <2>0 DEF TypeOK, Insert, return, goto, LockInv
  <2>7. RoomInv'
    BY <1>10, <1>t, <2>0, <2>3, <2>4 DEF TypeOK, Insert, return, goto, RoomInv
  <2>8. EvictionSafe'
    BY <1>10, <1>t, <2>0 DEF TypeOK, Insert, return, goto, EvictionSafe
  <2> QED
    BY <2>3, <2>5, <2>6, <2>7, <2>8 DEF IInv
<1>11. CASE UNCHANGED vars
  BY <1>11, <1>t DEF IInv, vars, TypeOK, IndexConsistent, LockInv, RoomInv,
                     EvictionSafe
<1> QED
  BY <1>1, <1>2, <1>3, <1>4, <1>5, <1>6, <1>7, <1>8, <1>9, <1>10, <1>11
     DEF Next, Call, Step

-----------------------------------------------------------------------------
(* The inductive invariant holds in every reachable state of the cache: the   *)
(* initial state has it and every step of get, set and eviction keeps it.     *)
THEOREM Inductive == Spec => []IInv
BY InitIInv, NextIInv, PTL DEF Spec

(* Every value a variable of the cache takes has the type the code gives it;  *)
(* in particular no removal leaves a hole in the key slice.                   *)
THEOREM TypeCorrect == Spec => []TypeOK
<1>1. IInv => TypeOK
  BY DEF IInv
<1> QED
  BY <1>1, Inductive, PTL

(* Map, key slice and index agree in every reachable state (attrcache.go,     *)
(* removeKey and the two swap-removes of evictIfNeeded), for any number of    *)
(* goroutines, keys and samples and even if the clock goes back.              *)
THEOREM IndexTheorem == Spec => []IndexConsistent
<1>1. IInv => IndexConsistent
  BY DEF IInv
<1> QED
  BY <1>1, Inductive, PTL

(* The slice never exceeds maxEntries, so the map does not either.            *)
LEMMA SizeLemma == IInv => SizeBound
<1> SUFFICES ASSUME IInv PROVE SizeBound
  OBVIOUS
<1>1. Cardinality(Present) = Len(keys)
  BY CountPresent DEF IInv, TypeOK, CacheType
<1> QED
  BY <1>1 DEF IInv, RoomInv, SizeBound

(* The cache never exceeds maxEntries (evictIfNeeded's promise that new       *)
(* entries can always be inserted).                                           *)
THEOREM SizeTheorem == Spec => []SizeBound
BY SizeLemma, Inductive, PTL

(* evictIfNeeded never calls rand.IntN(0) and never uses an index out of      *)
(* range or naming another entry than the one it remembered.                  *)
THEOREM EvictionTheorem == Spec => []EvictionSafe
<1>1. IInv => EvictionSafe
  BY DEF IInv
<1> QED
  BY <1>1, Inductive, PTL

-----------------------------------------------------------------------------
\* While the clock does not go back: an eviction's reading of it is not in the
\* future, and until the eviction has removed an entry the cache is full.
EvictInv == \A g \in Goroutine :
    pc[g] = "evict" => /\ ev.now <= clock
                       /\ ~ev.evicted => Len(keys) >= MaxEntries

(* An eviction starts on a full cache with the clock as it is then; from there *)
(* on the clock grows and the slice shrinks only with evicted set.             *)
LEMMA EvictStep ==
    ASSUME ~ClockSteps, IInv, EvictInv, [Next]_vars
    PROVE  EvictInv'
<1> USE BoundsAssumption
<1>1. /\ TypeOK /\ IndexConsistent /\ LockInv /\ Len(keys) \in Nat /\ CacheType
      /\ clock \in Nat /\ ev \in Frame /\ ev.now \in Nat /\ DOMAIN pc = Goroutine
  BY LenProperties DEF IInv, TypeOK, CacheType, Time, Frame
<1>2. CASE Tick
  BY <1>1, <1>2 DEF Tick, Time, EvictInv, cacheVars
<1>3. ASSUME NEW g \in Goroutine, GetCall(g) PROVE EvictInv'
  BY <1>1, <1>3 DEF GetCall, goto, cacheVars, EvictInv
<1>4. ASSUME NEW g \in Goroutine, GetLookup(g) PROVE EvictInv'
  <2>1. /\ UNCHANGED <<keys, clock, ev>>
        /\ \E l \in {"idle", "check"} : pc' = [pc EXCEPT ![g] = l]
    BY <1>4 DEF GetLookup, return, goto, cacheVars
  <2> QED
    BY <1>1, <2>1 DEF EvictInv
<1>5. ASSUME NEW g \in Goroutine, GetCheck(g) PROVE EvictInv'
  <2>1. /\ UNCHANGED <<keys, clock, ev>>
        /\ \E l \in {"idle", "relock"} : pc' = [pc EXCEPT ![g] = l]
    BY <1>5 DEF GetCheck, return, goto, cacheVars
  <2> QED
    BY <1>1, <2>1 DEF EvictInv
<1>6. ASSUME NEW g \in Goroutine, GetRelock(g) PROVE EvictInv'
  <2>1. \A h \in Goroutine : pc[h] # "evict"
    BY <1>1, <1>6, SentinelAssumption DEF GetRelock, LockInv
  <2>2. pc' = [pc EXCEPT ![g] = "idle"]
    BY <1>6 DEF GetRelock, return, goto
  <2> QED
    BY <1>1, <2>1, <2>2 DEF EvictInv
<1>7. ASSUME NEW g \in Goroutine, SetCall(g) PROVE EvictInv'
  BY <1>1, <1>7 DEF SetCall, goto, cacheVars, EvictInv
<1>8. ASSUME NEW g \in Goroutine, SetLock(g) PROVE EvictInv'
  <2>1. \A h \in Goroutine : pc[h] # "evict"
    BY <1>1, <1>8, SentinelAssumption DEF SetLock, LockInv
  <2>2. CASE Cardinality(Present) < MaxEntries
    <3>1. pc' = [pc EXCEPT ![g] = "insert"]
      BY <1>8, <2>2 DEF SetLock, goto
    <3> QED
      BY <1>1, <2>1, <3>1 DEF EvictInv
  <2>3. CASE ~(Cardinality(Present) < MaxEntries)
    <3>1. UNCHANGED <<keys, clock>> /\ ev'.now = clock
      BY <1>8, <2>3 DEF SetLock, cacheVars
    <3>2. Len(keys) >= MaxEntries
      BY <1>1, <2>3, CountPresent
    <3> QED
      BY <1>1, <3>1, <3>2 DEF EvictInv
  <2> QED
    BY <2>2, <2>3
<1>9. ASSUME NEW g \in Goroutine, EvictSample(g) PROVE EvictInv'
  <2>0. pc[g] = "evict" /\ clock' = clock
    BY <1>9 DEF EvictSample
  <2>1. ev.now <= clock /\ (~ev.evicted => Len(keys) >= MaxEntries)
    BY <2>0 DEF EvictInv
  <2>2. ev'.now = ev.now /\ (ev'.evicted \/ (ev'.evicted = ev.evicted /\ UNCHANGED keys))
    BY <1>1, <1>9 DEF EvictSample, AfterExpired, cacheVars, Frame
  <2> QED
    BY <2>0, <2>1, <2>2 DEF EvictInv
<1>10. ASSUME NEW g \in Goroutine, EvictOldest(g) PROVE EvictInv'
  <2>1. pc' = [pc EXCEPT ![g] = "insert"] /\ pc[g] = "evict"
    BY <1>10 DEF EvictOldest, goto
  <2>2. \A h \in Goroutine : h # g => pc[h] # "evict"
    BY <1>1, <2>1 DEF LockInv
  <2> QED
    BY <1>1, <2>1, <2>2 DEF EvictInv
<1>11. ASSUME NEW g \in Goroutine, Insert(g) PROVE EvictInv'
  <2>1. pc' = [pc EXCEPT ![g] = "idle"] /\ pc[g] = "insert"
    BY <1>11 DEF Insert, return, goto
  <2>2. \A h \in Goroutine : pc[h] # "evict"
    BY <1>1, <2>1 DEF LockInv
  <2> QED
    BY <1>1, <2>1, <2>2 DEF EvictInv
<1>12. CASE UNCHANGED vars
  BY <1>12 DEF vars, EvictInv
<1> QED
  BY <1>2, <1>3, <1>4, <1>5, <1>6, <1>7, <1>8, <1>9, <1>10, <1>11, <1>12
     DEF Next, Call, Step

(* The cardinality TTLMap speaks of is the cache's own. *)
LEMMA SameCardinality == \A S : Map!Cardinality(S) = Cardinality(S)
  BY DEF Map!Cardinality, Cardinality

(* Every step of the cache is one of the bounded TTL map or changes neither    *)
(* the map nor the clock: what get deletes has expired under the lock, what    *)
(* the sampling loop deletes has expired or the cache is full, and set stores  *)
(* with the lifetime of its kind.                                              *)
LEMMA MapStep ==
    ASSUME ~ClockSteps, IInv, EvictInv, IInv', [Next]_vars
    PROVE  [Map!Next]_<<entries, clock>>
<1> USE BoundsAssumption
<1>1. /\ TypeOK /\ IndexConsistent /\ LockInv /\ EvictionSafe /\ CacheType
      /\ Len(keys) \in Nat /\ clock \in Nat /\ keys \in [1 .. Len(keys) -> Key]
  BY LenProperties DEF IInv, TypeOK, CacheType, Time
<1>2. CASE Tick
  <2>1. clock' > clock /\ UNCHANGED entries
    BY <1>1, <1>2 DEF Tick, Time, cacheVars
  <2> QED
    BY <2>1 DEF Map!Next, Map!Advance
<1>3. ASSUME NEW k \in Key, entries[k] # Absent,
             clock > entries[k].expiresAt \/ Len(keys) >= MaxEntries,
             entries' = [entries EXCEPT ![k] = Absent], clock' = clock
      PROVE  Map!Next
  <2>1. Map!Expired(entries[k], clock) \/ Map!Full
    <3>1. Cardinality(Present) = Len(keys) /\ Map!Present = Present
      BY <1>1, CountPresent DEF Map!Present, Present
    <3> QED
      BY <1>3, <3>1, SameCardinality DEF Map!Expired, Map!Full
  <2> QED
    BY <1>3, <2>1 DEF Map!Next, Map!Drop
<1>4. CASE \E g \in Goroutine : \/ GetCall(g) \/ GetLookup(g) \/ GetCheck(g)
                                \/ SetCall(g) \/ SetLock(g)
  BY <1>4 DEF GetCall, GetLookup, GetCheck, SetCall, SetLock, cacheVars
<1>5. ASSUME NEW g \in Goroutine, GetRelock(g) PROVE [Map!Next]_<<entries, clock>>
  <2>1. key[g] \in Key /\ clock' = clock
    BY <1>1, <1>5 DEF GetRelock, LockInv
  <2>2. \/ UNCHANGED entries
        \/ /\ entries[key[g]] # Absent /\ clock > entries[key[g]].expiresAt
           /\ entries' = [entries EXCEPT ![key[g]] = Absent]
    BY <1>5 DEF GetRelock, cacheVars
  <2> QED
    BY <1>3, <2>1, <2>2
<1>6. ASSUME NEW g \in Goroutine, EvictSample(g) PROVE [Map!Next]_<<entries, clock>>
  <2>1. /\ clock' = clock /\ ev.n = Len(keys) /\ ev.now <= clock /\ ev.now \in Nat
    BY <1>1, <1>6 DEF EvictSample, EvictionSafe, EvictInv, TypeOK, Frame
  <2>2. PICK idx \in 1 .. Len(keys) :
          \/ UNCHANGED entries
          \/ /\ entries[keys[idx]] # Absent /\ ev.now > entries[keys[idx]].expiresAt
             /\ entries' = [entries EXCEPT ![keys[idx]] = Absent]
    BY <1>6, <2>1 DEF EvictSample, EvictAt, cacheVars
  <2>3. keys[idx] \in Key
    BY <1>1
  <2>4. entries[keys[idx]] # Absent => entries[keys[idx]].expiresAt \in Nat
    BY <1>1, <2>3 DEF CacheType, Entry
  <2> QED
    BY <1>1, <1>3, <2>1, <2>2, <2>3, <2>4
<1>7. ASSUME NEW g \in Goroutine, EvictOldest(g) PROVE [Map!Next]_<<entries, clock>>
  <2>1. pc[g] = "evict" /\ clock' = clock
    BY <1>7 DEF EvictOldest
  <2>2. CASE ~ev.evicted /\ ev.oldestIdx > 0 /\ ev.n > 0
    <3>1. entries' = [entries EXCEPT ![keys[ev.oldestIdx]] = Absent]
      BY <1>7, <2>2 DEF EvictOldest, EvictAt
    <3>2. ev.oldestIdx \in 1 .. Len(keys) /\ Len(keys) >= MaxEntries
      BY <1>1, <2>1, <2>2 DEF EvictionSafe, EvictInv, TypeOK, Frame
    <3>3. keys[ev.oldestIdx] \in Key /\ entries[keys[ev.oldestIdx]] # Absent
      BY <1>1, <3>2 DEF IndexConsistent
    <3> QED
      BY <1>3, <2>1, <3>1, <3>2, <3>3
  <2>3. CASE ~(~ev.evicted /\ ev.oldestIdx > 0 /\ ev.n > 0)
    BY <1>7, <2>1, <2>3 DEF EvictOldest, cacheVars
  <2> QED
    BY <2>2, <2>3
<1>8. ASSUME NEW g \in Goroutine, Insert(g) PROVE [Map!Next]_<<entries, clock>>
  <2>1. /\ key[g] \in Key /\ val[g] \in Value /\ clock' = clock
        /\ entries' = [entries EXCEPT ![key[g]] = Fresh(val[g])]
    BY <1>1, <1>8 DEF Insert, LockInv
  <2>2. Map!Fresh(val[g], clock) = Fresh(val[g]) /\ Map!Value = Value
    BY DEF Map!Fresh, Fresh, Map!Lifetime, Lifetime, Map!Value, Value
  <2>3. Cardinality(Present)' <= MaxEntries
    <3>1. SizeBound'
      BY SizeLemma, PTL
    <3> QED
      BY <3>1 DEF SizeBound
  <2>4. Map!Cardinality(Map!Present') <= MaxEntries
    <3>1. Map!Present' = Present'
      BY DEF Map!Present, Present
    <3> QED
      BY <2>3, <3>1, SameCardinality
  <2>5. Map!Put(key[g], val[g])
    BY <2>1, <2>2, <2>4 DEF Map!Put
  <2> QED
    BY <2>1, <2>2, <2>5 DEF Map!Next
<1>9. CASE UNCHANGED vars
  BY <1>9 DEF vars
<1> QED
  BY <1>2, <1>4, <1>5, <1>6, <1>7, <1>8, <1>9 DEF Next, Call, Step

(* A step of the TTL map keeps every entry within its lifetime: an entry is    *)
(* stored with exactly that much, and the clock only moves towards its expiry. *)
LEMMA LifetimeStep ==
    ASSUME IInv, LifetimeBounded, IInv', [Map!Next]_<<entries, clock>>
    PROVE  LifetimeBounded'
<1> USE BoundsAssumption
<1>1. /\ clock \in Nat /\ clock' \in Nat /\ entries \in [Key -> Entry \cup {Absent}]
  BY DEF IInv, TypeOK, Time
<1>2. \A k \in Present : /\ entries[k] \in Entry /\ entries[k].expiresAt \in Nat
                         /\ Lifetime(entries[k].attrs) \in Nat
  BY <1>1 DEF Present, Entry, Lifetime
<1>3. CASE UNCHANGED <<entries, clock>>
  BY <1>3 DEF LifetimeBounded, Present, Lifetime
<1>4. CASE Map!Advance
  <2>1. clock' > clock /\ entries' = entries
    BY <1>4 DEF Map!Advance
  <2>2. Present' = Present
    BY <2>1 DEF Present
  <2> QED
    BY <1>1, <1>2, <2>1, <2>2 DEF LifetimeBounded, Lifetime
<1>5. ASSUME NEW k \in Key, Map!Drop(k) PROVE LifetimeBounded'
  <2>1. entries' = [entries EXCEPT ![k] = Absent] /\ clock' = clock
    BY <1>5 DEF Map!Drop
  <2> QED
    BY <1>1, <2>1 DEF LifetimeBounded, Present, Lifetime
<1>6. ASSUME NEW k \in Key, NEW a \in Value, Map!Put(k, a) PROVE LifetimeBounded'
  <2>1. entries' = [entries EXCEPT ![k] = Fresh(a)] /\ clock' = clock
    BY <1>6 DEF Map!Put, Map!Fresh, Map!Lifetime, Fresh, Lifetime
  <2>2. /\ Fresh(a).attrs = a /\ Fresh(a).expiresAt = clock + Lifetime(a)
        /\ Lifetime(a) \in Nat
    BY DEF Fresh, Lifetime
  <2>3. ASSUME NEW j \in Present'
        PROVE  entries'[j].expiresAt <= clock' + Lifetime(entries'[j].attrs)
    <3>1. CASE j = k
      <4>1. entries'[j] = Fresh(a)
        BY <1>1, <2>1, <3>1
      <4> QED
        BY <1>1, <2>1, <2>2, <4>1
    <3>2. CASE j # k
      <4>1. entries'[j] = entries[j] /\ j \in Present
        BY <1>1, <2>1, <2>3, <3>2 DEF Present
      <4> QED
        BY <2>1, <4>1 DEF LifetimeBounded
    <3> QED
      BY <3>1, <3>2
  <2> QED
    BY <2>3 DEF LifetimeBounded, Lifetime
<1> QED
  BY <1>3, <1>4, <1>5, <1>6 DEF Map!Next, Map!Value, Value

(* A step of the TTL map is one of the readers' cache: time ages what is left, *)
(* a deletion of an expired entry shows nobody anything, and no entry has more *)
(* left than its lifetime, so a tick of any length is an aging the readers'    *)
(* cache allows.                                                               *)
LEMMA LiveStep ==
    ASSUME IInv, LifetimeBounded, IInv', [Map!Next]_<<entries, clock>>
    PROVE  [Readers!CacheNext]_View
<1> USE BoundsAssumption
<1>1. /\ clock \in Nat /\ clock' \in Nat
      /\ entries \in [Key -> Entry \cup {Absent}]
  BY DEF IInv, TypeOK, Time
<1>2. \A k \in Key : entries[k] # Absent =>
         /\ entries[k].attrs \in Value /\ entries[k].expiresAt \in Nat
         /\ entries[k].expiresAt <= clock + TTL + NegTTL
  BY <1>1 DEF LifetimeBounded, Present, Entry, Lifetime
<1>3. ASSUME NEW x \in Value, NEW y \in Nat PROVE [attrs |-> x, left |-> y] # Absent
  BY SentinelAssumption
<1> DEFINE V(e, t) == IF e = Absent \/ t > e.expiresAt THEN Absent
                      ELSE [attrs |-> e.attrs, left |-> e.expiresAt - t]
<1>4. View = [k \in Key |-> V(entries[k], clock)]
      /\ View' = [k \in Key |-> V(entries'[k], clock')]
  BY DEF View
<1>5. CASE UNCHANGED <<entries, clock>>
  BY <1>5 DEF View
<1>6. CASE Map!Advance
  <2>1. clock' > clock /\ entries' = entries
    BY <1>6 DEF Map!Advance
  <2>a. PICK now \in Nat : now = clock'
    BY <1>1
  <2>b. clock \in Nat /\ now \in Nat /\ now > clock
    BY <1>1, <2>1, <2>a
  <2> DEFINE d == IF now - clock <= TTL + NegTTL THEN now - clock ELSE TTL + NegTTL + 1
  <2>2. d \in 1 .. TTL + NegTTL + 1
    BY <2>b
  <2>3. ASSUME NEW k \in Key PROVE V(entries[k], now) = Readers!Aged(V(entries[k], clock), d)
    <3> DEFINE e == entries[k]
               t == e.expiresAt
    <3>1. CASE e = Absent \/ clock > t
      <4>1. V(e, clock) = Absent /\ Readers!Aged(Absent, d) = Absent
        BY <3>1 DEF Readers!Aged
      <4>2. e = Absent \/ now > t
        BY <1>2, <2>b, <3>1
      <4> QED
        BY <4>1, <4>2
    <3>2. CASE ~(e = Absent \/ clock > t)
      <4>1. /\ t \in Nat /\ t <= clock + TTL + NegTTL /\ t - clock \in Nat /\ e.attrs \in Value
        BY <1>1, <1>2, <3>2
      <4>2. PICK v : v = [attrs |-> e.attrs, left |-> t - clock]
        OBVIOUS
      <4>3. V(e, clock) = v /\ v # Absent /\ v.left = t - clock
        BY <1>3, <3>2, <4>1, <4>2
      <4>4. v.left < d <=> now > t
        BY <2>b, <4>1, <4>3
      <4>5. CASE now > t
        <5>1. Readers!Aged(v, d) = Absent
          BY <4>4, <4>5 DEF Readers!Aged
        <5> QED
          BY <4>3, <4>5, <5>1
      <4>6. CASE ~(now > t)
        <5>1. Readers!Aged(v, d) = [v EXCEPT !.left = v.left - d]
          BY <4>3, <4>4, <4>6, Zenon DEF Readers!Aged
        <5>2. v.left - d = t - now
          BY <2>b, <4>1, <4>3, <4>4, <4>6
        <5>3. V(e, now) = [attrs |-> e.attrs, left |-> t - now]
          BY <3>2, <4>6
        <5> HIDE DEF d, t
        <5>4. [v EXCEPT !.left = v.left - d] = [attrs |-> e.attrs, left |-> t - now]
          BY <4>2, <5>2
        <5> QED
          BY <4>3, <5>1, <5>3, <5>4
      <4> QED
        BY <4>5, <4>6
    <3> QED
      BY <3>1, <3>2
  <2> HIDE DEF V, d
  <2>4. View' = [k \in Key |-> Readers!Aged(View[k], d)]
    BY <1>4, <2>1, <2>a, <2>3
  <2> QED
    BY <2>2, <2>4 DEF Readers!CacheNext, Readers!Elapse
<1>7. ASSUME NEW k \in Key, Map!Drop(k) PROVE Readers!CacheNext
  <2>1. entries' = [entries EXCEPT ![k] = Absent] /\ clock' = clock
    BY <1>7 DEF Map!Drop
  <2>2. V(Absent, clock) = Absent
    OBVIOUS
  <2> HIDE DEF V
  <2>3. View' = [View EXCEPT ![k] = Absent]
    BY <1>1, <1>4, <2>1, <2>2
  <2> QED
    BY <2>3 DEF Readers!CacheNext, Readers!Lose
<1>8. ASSUME NEW k \in Key, NEW a \in Value, Map!Put(k, a) PROVE Readers!CacheNext
  <2>1. entries' = [entries EXCEPT ![k] = Fresh(a)] /\ clock' = clock
    BY <1>8 DEF Map!Put, Map!Fresh, Map!Lifetime, Fresh, Lifetime
  <2>2. V(Fresh(a), clock) = [attrs |-> a, left |-> Readers!Lifespan(a)]
    <3>1. /\ Fresh(a).attrs = a /\ Fresh(a).expiresAt = clock + Lifetime(a)
          /\ Lifetime(a) \in Nat /\ Readers!Lifespan(a) = Lifetime(a)
      BY DEF Fresh, Lifetime, Readers!Lifespan
    <3>2. Fresh(a) \in Entry
      BY <1>1, <3>1 DEF Fresh, Entry
    <3>3. Fresh(a) # Absent
      BY <3>2, SentinelAssumption
    <3>4. ~(clock > clock + Lifetime(a)) /\ clock + Lifetime(a) - clock = Lifetime(a)
      BY <1>1, <3>1
    <3>5. V(Fresh(a), clock)
             = [attrs |-> Fresh(a).attrs, left |-> Fresh(a).expiresAt - clock]
      BY <3>1, <3>3, <3>4, Zenon
    <3>6. Fresh(a).expiresAt - clock = Readers!Lifespan(a)
      BY <1>1, <3>1, <3>4
    <3> QED
      BY <3>1, <3>5, <3>6, Zenon
  <2> HIDE DEF V
  <2>3. View' = [View EXCEPT ![k] = [attrs |-> a, left |-> Readers!Lifespan(a)]]
    BY <1>1, <1>4, <2>1, <2>2
  <2> QED
    BY <2>3 DEF Readers!CacheNext, Readers!Put, Value
<1> QED
  BY <1>5, <1>6, <1>7, <1>8 DEF Map!Next, Map!Value, Value

-----------------------------------------------------------------------------
(* While the wall clock is not set back, what the expiry rests on holds in     *)
(* every reachable state.                                                      *)
LEMMA ClockInductive ==
    ASSUME ~ClockSteps
    PROVE  Spec => [](IInv /\ EvictInv /\ LifetimeBounded)
<1>1. Init => EvictInv /\ LifetimeBounded
  BY DEF Init, EvictInv, LifetimeBounded, Present
<1>2. IInv /\ EvictInv /\ IInv' /\ [Next]_vars => [Map!Next]_<<entries, clock>>
  BY MapStep
<1>3. IInv /\ EvictInv /\ [Next]_vars => EvictInv'
  BY EvictStep
<1>4. IInv /\ LifetimeBounded /\ IInv' /\ [Map!Next]_<<entries, clock>> => LifetimeBounded'
  BY LifetimeStep
<1> QED
  BY <1>1, <1>2, <1>3, <1>4, InitIInv, NextIInv, PTL DEF Spec

(* While the wall clock is not set back, no entry outlives its kind: a         *)
(* not-found entry is gone NegTTL after the present and a positive one TTL     *)
(* (set, setNotFound).                                                         *)
THEOREM LifetimeTheorem ==
    ASSUME ~ClockSteps
    PROVE  Spec => []LifetimeBounded
BY ClockInductive, PTL

(* While the wall clock is not set back, the cache implements the bounded TTL  *)
(* map: a live entry disappears only when the cache is full, whatever get, set *)
(* and eviction do between one another's critical sections.                    *)
THEOREM RefinesTTLMap ==
    ASSUME ~ClockSteps
    PROVE  Spec => ImplementsTTLMap
<1>1. Init => Map!Init
  BY DEF Init, Map!Init
<1>2. IInv /\ EvictInv /\ IInv' /\ [Next]_vars => [Map!Next]_<<entries, clock>>
  BY MapStep
<1> QED
  BY <1>1, <1>2, ClockInductive, PTL DEF Spec, ImplementsTTLMap, Map!Spec

(* While the wall clock is not set back, the cache implements what its readers *)
(* rely on: a value lasts for a fixed time from its last store and never       *)
(* longer, and no internal step brings an expired one back.                    *)
THEOREM RefinesLiveCache ==
    ASSUME ~ClockSteps
    PROVE  Spec => ImplementsLiveCache
<1>1. Init => Readers!CacheInit
  BY DEF Init, Readers!CacheInit, View
<1>2. IInv /\ EvictInv /\ IInv' /\ [Next]_vars => [Map!Next]_<<entries, clock>>
  BY MapStep
<1>3. IInv /\ LifetimeBounded /\ IInv' /\ [Map!Next]_<<entries, clock>>
         => [Readers!CacheNext]_View
  BY LiveStep
<1> QED
  BY <1>1, <1>2, <1>3, ClockInductive, PTL DEF Spec, ImplementsLiveCache, Readers!CacheSpec
=============================================================================
