---------------------------- MODULE GcsStatProofs ----------------------------
(* What Stat may cache, for any number of paths, goroutines and changes of the *)
(* bucket, and any lifetimes.                                                  *)
EXTENDS GcsStat, TLAPS

Label == {"idle", "lookup", "attrs", "probe", "cacheNotFound", "put", "translateError",
          "read", "readdir"}

TypeInv ==
    /\ cached \in [Key -> Kept \cup {Absent}]
    /\ bucket \in [Key -> Kind] /\ up \in BOOLEAN
    /\ pc \in [Goroutine -> Label]
    /\ path \in [Goroutine -> Key \cup {Absent}]
    /\ val \in [Goroutine -> Attrs \cup {Absent}]
    /\ held \in [Key -> SUBSET (Kind \cup {"gone"})]
    /\ unsure \in SUBSET Key

\* The history keeps what a path is, and that the bucket has gone.
HistoryInv ==
    /\ bucket[Root] = "dir"
    /\ \A p \in Key : bucket[p] \in held[p] /\ (~up => "gone" \in held[p])

\* The path was missing at some time, or is one of the directories that
\* NegativeConfirmed excepts.
Missed(p) == Missing(p) \/ (p \in unsure /\ "dir" \in held[p])

\* What a path has been if it was seen not to be an object.
NotObject(p) == Missing(p) \/ "dir" \in held[p]

\* What a goroutine at label l, with argument p and value v, relies on: what it
\* has in hand between GCS's answer and the cache write was true at some time.
Claim(l, p, v) ==
    /\ l # "idle" => p \in Key
    /\ l = "put" => v \in Attrs /\ v \in held[p]
    /\ l \in {"attrs", "probe", "cacheNotFound"} => p # Root
    /\ l = "probe" => NotObject(p)
    /\ l \in {"cacheNotFound", "translateError"} => p = Root \/ Missed(p)

CallInv == \A g \in Goroutine : Claim(pc[g], path[g], val[g])

\* What an entry of the cache relies on.
EntryOK(p, e) == e # Absent => IF e.attrs = NotFound THEN p = Root \/ Missed(p)
                                                     ELSE e.attrs \in held[p]

EntryInv == \A p \in Key : EntryOK(p, cached[p])

Inv == TypeInv /\ HistoryInv /\ CallInv /\ EntryInv

-----------------------------------------------------------------------------
(* The history only grows, so what was once missing stays so recorded. *)
LEMMA ClaimsStay ==
    ASSUME Inv, \A p \in Key : held[p] \subseteq held'[p], unsure \subseteq unsure'
    PROVE  /\ \A p \in Key : \A e : EntryOK(p, e) => EntryOK(p, e)'
           /\ \A l, p, v : Claim(l, p, v) => Claim(l, p, v)'
<1>1. ASSUME NEW p \in Key
      PROVE  (Missed(p) => Missed(p)') /\ (NotObject(p) => NotObject(p)')
  BY DEF Missed, NotObject, Missing
<1>2. ASSUME NEW p \in Key, NEW e, EntryOK(p, e) PROVE EntryOK(p, e)'
  BY <1>1, <1>2 DEF EntryOK
<1>3. ASSUME NEW l, NEW p, NEW v, Claim(l, p, v) PROVE Claim(l, p, v)'
  BY <1>1, <1>3 DEF Claim
<1> QED
  BY <1>2, <1>3

(* A path in doubt is recorded. *)
LEMMA DoubtStep ==
    ASSUME Inv, NEW p \in Key, p # Root => NotObject(p), Doubt(p), UNCHANGED world
    PROVE  unsure' \in SUBSET Key /\ unsure \subseteq unsure' /\ (p # Root => Missed(p)')
BY DEF Doubt, Missed, NotObject, Missing, Inv, TypeInv, world

(* What is in the bucket, or that it has gone, is part of the history. *)
LEMMA SeenNoObject ==
    ASSUME Inv, NEW p \in Key, ~(up /\ bucket[p] = "object")
    PROVE  NotObject(p)
BY DEF Inv, TypeInv, HistoryInv, NotObject, Missing, Kind

(* Time, eviction and other writers of the bucket: the cache holds less, the  *)
(* history more.                                                              *)
LEMMA WorldStep ==
    ASSUME Inv, TypeInv', HistoryInv', UNCHANGED <<calls, unsure>>,
           \A p \in Key : held[p] \subseteq held'[p],
           \A p \in Key : \/ cached'[p] = cached[p]
                          \/ cached'[p] = Absent
                          \/ cached[p] # Absent /\ cached'[p].attrs = cached[p].attrs
    PROVE  Inv'
<1>1. CallInv'
  <2> SUFFICES ASSUME NEW h \in Goroutine PROVE Claim(pc[h], path[h], val[h])'
    BY DEF CallInv
  <2>1. PICK l, p, v : l = pc[h] /\ p = path[h] /\ v = val[h]
    OBVIOUS
  <2>2. Claim(l, p, v)'
    BY <2>1, ClaimsStay DEF Inv, CallInv
  <2> QED
    BY <2>1, <2>2 DEF Claim, calls
<1>2. EntryInv'
  <2> SUFFICES ASSUME NEW p \in Key PROVE EntryOK(p, cached[p])'
    BY DEF EntryInv
  <2>1. PICK e : e = cached[p]
    OBVIOUS
  <2>2. EntryOK(p, e)'
    BY <2>1, ClaimsStay DEF Inv, EntryInv
  <2> QED
    BY <2>1, <2>2 DEF EntryOK
<1> QED
  BY <1>1, <1>2 DEF Inv

(* A step of one goroutine: it may store what it has in hand, and goes on     *)
(* with a new claim.                                                          *)
LEMMA GoroutineStep ==
    ASSUME Inv, UNCHANGED world, unsure' \in SUBSET Key, unsure \subseteq unsure',
           NEW g \in Goroutine,
           NEW l \in Label, pc' = [pc EXCEPT ![g] = l],
           NEW p \in Key \cup {Absent}, path' = [path EXCEPT ![g] = p],
           NEW v \in Attrs \cup {Absent}, val' = [val EXCEPT ![g] = v],
           Claim(l, p, v)',
           \/ cached' = cached
           \/ \E k \in Key, e \in Kept : EntryOK(k, e)' /\ cached' = [cached EXCEPT ![k] = e]
    PROVE  Inv'
<1>0. \A k \in Key : held[k] \subseteq held'[k]
  BY DEF world
<1>1. TypeInv'
  BY DEF Inv, TypeInv, world
<1>2. HistoryInv'
  BY DEF Inv, HistoryInv, world
<1>3. CallInv'
  <2> SUFFICES ASSUME NEW h \in Goroutine PROVE Claim(pc[h], path[h], val[h])'
    BY DEF CallInv
  <2>1. CASE h = g
    <3>1. pc'[h] = l /\ path'[h] = p /\ val'[h] = v
      BY <2>1 DEF Inv, TypeInv
    <3> QED
      BY <3>1 DEF Claim
  <2>2. CASE h # g
    <3>1. PICK m, q, w : /\ m = pc[h] /\ q = path[h] /\ w = val[h]
                         /\ pc'[h] = m /\ path'[h] = q /\ val'[h] = w
      BY <2>2 DEF Inv, TypeInv
    <3>2. Claim(m, q, w)'
      BY <1>0, <3>1, ClaimsStay DEF Inv, CallInv
    <3> QED
      BY <3>1, <3>2 DEF Claim
  <2> QED
    BY <2>1, <2>2
<1>4. EntryInv'
  <2> SUFFICES ASSUME NEW k \in Key PROVE EntryOK(k, cached[k])'
    BY DEF EntryInv
  <2>1. CASE cached'[k] = cached[k]
    <3>1. PICK e : e = cached[k]
      OBVIOUS
    <3>2. EntryOK(k, e)'
      BY <1>0, <3>1, ClaimsStay DEF Inv, EntryInv
    <3> QED
      BY <2>1, <3>1, <3>2 DEF EntryOK
  <2>2. CASE cached'[k] # cached[k]
    <3>1. PICK j \in Key, e \in Kept :
             EntryOK(j, e)' /\ cached' = [cached EXCEPT ![j] = e]
      BY <2>2
    <3>2. j = k /\ cached'[k] = e
      BY <2>2, <3>1 DEF Inv, TypeInv
    <3> QED
      BY <3>1, <3>2 DEF EntryOK
  <2> QED
    BY <2>1, <2>2
<1> QED
  BY <1>1, <1>2, <1>3, <1>4 DEF Inv

(* The initial state satisfies the invariant. *)
LEMMA InitInv == Init => Inv
<1> SUFFICES ASSUME Init PROVE Inv
  OBVIOUS
<1> USE StatAssumption
<1>1. up \in BOOLEAN
  BY Zenon DEF Init
<1>2. TypeInv
  BY <1>1 DEF Init, CacheInit, TypeInv, Kind, Label
<1>3. HistoryInv
  BY DEF Init, HistoryInv
<1>4. CallInv /\ EntryInv
  BY DEF Init, CacheInit, CallInv, Claim, EntryInv, EntryOK
<1> QED
  BY <1>2, <1>3, <1>4 DEF Inv

(* One step of Next keeps the invariant, one proof step per action. *)
LEMMA NextInv == Inv /\ [Next]_vars => Inv'
<1> SUFFICES ASSUME Inv, [Next]_vars PROVE Inv'
  OBVIOUS
<1> USE StatAssumption
<1>1. CASE UNCHANGED vars
  BY <1>1, WorldStep DEF vars, calls, Inv, TypeInv, HistoryInv
<1>2. CASE Tick
  <2>1. /\ \A p \in Key : cached'[p] = Aged(cached[p], 1)
        /\ cached' = [p \in Key |-> Aged(cached[p], 1)]
        /\ UNCHANGED <<bucket, up, changes, calls, held, unsure>>
    BY <1>2 DEF Tick, Elapse
  <2>2. \A p \in Key : /\ Aged(cached[p], 1) \in Kept \cup {Absent}
                       /\ \/ Aged(cached[p], 1) = Absent
                          \/ cached[p] # Absent /\ Aged(cached[p], 1).attrs = cached[p].attrs
    BY DEF Inv, TypeInv, Aged, Kept
  <2>3. TypeInv' /\ HistoryInv'
    BY <2>1, <2>2 DEF Inv, TypeInv, HistoryInv, calls
  <2> QED
    BY <2>1, <2>2, <2>3, WorldStep
<1>3. ASSUME NEW p \in Key, Change(p) PROVE Inv'
  <2>1. PICK x \in Kind : /\ bucket' = [bucket EXCEPT ![p] = x]
                          /\ held' = [held EXCEPT ![p] = @ \cup {x}]
    BY <1>3 DEF Change
  <2>2. p # Root /\ UNCHANGED <<cached, up, calls, unsure>>
    BY <1>3 DEF Change
  <2>3. \A q \in Key : /\ bucket'[q] = IF q = p THEN x ELSE bucket[q]
                       /\ held'[q] = IF q = p THEN held[q] \cup {x} ELSE held[q]
    BY <2>1 DEF Inv, TypeInv
  <2>4. TypeInv'
    BY <2>1, <2>2 DEF Inv, TypeInv, calls
  <2>5. HistoryInv'
    BY <2>2, <2>3 DEF Inv, HistoryInv
  <2> QED
    BY <2>2, <2>3, <2>4, <2>5, WorldStep
<1>4. CASE BucketGone
  <2>1. /\ up' = FALSE /\ held' = [p \in Key |-> held[p] \cup {"gone"}]
        /\ UNCHANGED <<cached, bucket, calls, unsure>>
    BY <1>4 DEF BucketGone
  <2>2. up' \in BOOLEAN
    BY <2>1, Zenon
  <2>3. TypeInv'
    BY <2>1, <2>2 DEF Inv, TypeInv, calls
  <2>4. HistoryInv'
    BY <2>1 DEF Inv, HistoryInv
  <2> QED
    BY <2>1, <2>3, <2>4, WorldStep
<1>5. ASSUME NEW p \in Key, Evict(p) PROVE Inv'
  <2>1. /\ cached' = [cached EXCEPT ![p] = Absent]
        /\ UNCHANGED <<bucket, up, changes, calls, held, unsure>>
    BY <1>5 DEF Evict, Lose
  <2>2. TypeInv' /\ HistoryInv'
    BY <2>1 DEF Inv, TypeInv, HistoryInv, calls
  <2>3. \A q \in Key : cached'[q] = cached[q] \/ cached'[q] = Absent
    BY <2>1 DEF Inv, TypeInv
  <2> QED
    BY <2>1, <2>2, <2>3, WorldStep
<1>6. ASSUME NEW g \in Goroutine, Call(g) \/ Step(g) PROVE Inv'
  <2>0. /\ path = [path EXCEPT ![g] = path[g]] /\ val = [val EXCEPT ![g] = val[g]]
        /\ path[g] \in Key \cup {Absent} /\ val[g] \in Attrs \cup {Absent}
        /\ Claim(pc[g], path[g], val[g])
    BY DEF Inv, TypeInv, CallInv
  <2>a. PICK p \in Key \cup {Absent}, v \in Attrs \cup {Absent} :
           /\ p = path[g] /\ v = val[g]
           /\ path = [path EXCEPT ![g] = p] /\ val = [val EXCEPT ![g] = v]
    BY <2>0
  <2>b. /\ Claim(pc[g], p, v) /\ (pc[g] # "idle" => p \in Key)
        /\ p \in Key => bucket[p] \in held[p] /\ (~up => "gone" \in held[p])
    BY <2>0, <2>a DEF Claim, Inv, HistoryInv
  <2>1. ASSUME NEW l \in Label, pc' = [pc EXCEPT ![g] = l], UNCHANGED <<path, val, cached, world>>,
               unsure' \in SUBSET Key, unsure \subseteq unsure', Claim(l, p, v)'
        PROVE  Inv'
    BY <2>1, <2>a, GoroutineStep
  <2>2. ASSUME return(g), UNCHANGED <<cached, world, unsure>> PROVE Inv'
    <3>1. Claim("idle", Absent, Absent)'
      BY DEF Claim
    <3> QED
      BY <2>2, <3>1, GoroutineStep DEF return, Label, Inv, TypeInv
  <2>3. ASSUME NEW a \in {"object", "dir"}, found(g, a), p \in Key, a \in held[p],
               UNCHANGED <<cached, world, unsure>>
        PROVE  Inv'
    <3>1. Claim("put", p, a)'
      BY <2>3 DEF Claim, world
    <3> QED
      BY <2>3, <2>a, <3>1, GoroutineStep DEF found, Label, Inv, TypeInv
  <2>4. ASSUME p \in Key, p # Root => Missed(p)', pc' = [pc EXCEPT ![g] = "translateError"],
               UNCHANGED <<path, val, cached, world>>, unsure' \in SUBSET Key, unsure \subseteq unsure'
        PROVE  Inv'
    BY <2>4, <2>1 DEF Claim, Label
  <2>5. CASE Call(g)
    <3>1. PICK o \in Ops, q \in Key :
             /\ path' = [path EXCEPT ![g] = q]
             /\ pc' = [pc EXCEPT ![g] = IF o = "stat" THEN "lookup" ELSE o]
      BY <2>5 DEF Call
    <3>2. UNCHANGED <<cached, val, world, unsure>>
      BY <2>5 DEF Call
    <3>3. PICK l \in {"lookup", "read", "readdir"} : l = IF o = "stat" THEN "lookup" ELSE o
      OBVIOUS
    <3>4. Claim(l, q, v)'
      BY DEF Claim
    <3>5. l \in Label /\ unsure' \in SUBSET Key /\ unsure \subseteq unsure'
      BY <3>2 DEF Label, Inv, TypeInv
    <3>6. /\ pc' = [pc EXCEPT ![g] = l] /\ val' = [val EXCEPT ![g] = v]
          /\ cached' = cached /\ UNCHANGED world
      BY <2>a, <3>1, <3>2, <3>3
    <3> QED
      BY <3>1, <3>4, <3>5, <3>6, GoroutineStep
  <2>6. CASE Lookup(g)
    <3>1. p \in Key /\ UNCHANGED <<cached, world, unsure>>
      BY <2>6, <2>b DEF Lookup
    <3>2. CASE Hit(g) /\ cached[path[g]].attrs = NotFound
      <4>1. p # Root => Missed(p)
        BY <2>a, <3>1, <3>2 DEF Hit, Inv, EntryInv, EntryOK
      <4>2. goto(g, "translateError")
        BY <2>6, <3>2 DEF Lookup, Hit
      <4> QED
        BY <2>4, <3>1, <4>1, <4>2 DEF goto, Missed, Missing, world, Inv, TypeInv
    <3>3. CASE Hit(g) /\ cached[path[g]].attrs # NotFound
      BY <2>2, <2>6, <3>1, <3>3 DEF Lookup
    <3>4. CASE ~Hit(g) /\ path[g] = Root
      BY <2>3, <2>6, <2>a, <2>b, <3>1, <3>4 DEF Lookup, Inv, HistoryInv
    <3>5. CASE ~Hit(g) /\ path[g] # Root
      <4>1. goto(g, "attrs")
        BY <2>6, <3>5 DEF Lookup
      <4>2. Claim("attrs", p, v)'
        BY <2>a, <3>1, <3>5 DEF Claim
      <4> QED
        BY <2>1, <3>1, <4>1, <4>2 DEF goto, Label, Inv, TypeInv
    <3> QED
      BY <3>2, <3>3, <3>4, <3>5
  <2>7. CASE AttrsAnswer(g)
    <3>1. p \in Key /\ p # Root /\ UNCHANGED <<cached, world>>
      BY <2>7, <2>b DEF AttrsAnswer, Claim
    <3>2. CASE BackendError(g) /\ UNCHANGED unsure
      BY <2>2, <3>1, <3>2 DEF BackendError
    <3>3. CASE up /\ bucket[path[g]] = "object" /\ found(g, "object") /\ UNCHANGED unsure
      BY <2>3, <2>a, <2>b, <3>1, <3>3
    <3>4. CASE ~(up /\ bucket[path[g]] = "object") /\ NoObject(g)
      <4>1. NotObject(p)
        BY <2>a, <3>1, <3>4, SeenNoObject
      <4>2. CASE p \in WithExt
        <5>1. goto(g, "translateError") /\ Doubt(p)
          BY <2>a, <3>4, <4>2 DEF NoObject
        <5>2. unsure' \in SUBSET Key /\ unsure \subseteq unsure' /\ (p # Root => Missed(p)')
          BY <3>1, <4>1, <5>1, DoubtStep
        <5> QED
          BY <2>4, <3>1, <5>1, <5>2 DEF goto
      <4>3. CASE p \notin WithExt
        <5>1. Claim("probe", p, v)'
          BY <3>1, <4>1 DEF Claim, NotObject, Missing, world
        <5> QED
          BY <2>1, <2>a, <3>1, <3>4, <4>3, <5>1 DEF NoObject, goto, Label, Inv, TypeInv
      <4> QED
        BY <4>2, <4>3
    <3> QED
      BY <2>7, <3>2, <3>3, <3>4 DEF AttrsAnswer
  <2>8. CASE ProbeAnswer(g)
    <3>1. p \in Key /\ p # Root /\ NotObject(p) /\ UNCHANGED <<cached, world>>
      BY <2>8, <2>b DEF ProbeAnswer, Claim
    <3>2. ASSUME Doubt(path[g])
          PROVE  unsure' \in SUBSET Key /\ unsure \subseteq unsure' /\ (p # Root => Missed(p)')
      BY <2>a, <3>1, <3>2, DoubtStep
    <3>3. CASE goto(g, "translateError") /\ Doubt(path[g])
      BY <2>4, <3>1, <3>2, <3>3 DEF goto
    <3>4. CASE Matches(path[g]) /\ found(g, "dir") /\ UNCHANGED unsure
      BY <2>3, <2>a, <2>b, <3>1, <3>4 DEF Matches
    <3>5. CASE up /\ ~Matches(path[g]) /\ goto(g, "cacheNotFound") /\ Doubt(path[g])
      <4>1. Claim("cacheNotFound", p, v)'
        BY <3>1, <3>2, <3>5 DEF Claim
      <4> QED
        BY <2>1, <3>1, <3>2, <3>5, <4>1 DEF goto, Label
    <3> QED
      BY <2>8, <3>3, <3>4, <3>5 DEF ProbeAnswer
  <2>9. ASSUME NEW l \in {"idle", "translateError"}, pc' = [pc EXCEPT ![g] = l],
               NEW q \in {p, Absent}, path' = [path EXCEPT ![g] = q],
               NEW w \in Attrs \cup {Absent}, val' = [val EXCEPT ![g] = w],
               l # "idle" => q = p, p \in Key, p = Root \/ Missed(p),
               Put(path[g], NotFound), UNCHANGED <<world, unsure>>
        PROVE  Inv'
    <3>1. PICK e \in Kept : e.attrs = NotFound /\ cached' = [cached EXCEPT ![p] = e]
      <4>1. [attrs |-> NotFound, left |-> Lifespan(NotFound)] \in Kept
        BY DEF Kept, Lifespan
      <4> QED
        BY <2>9, <2>a, <4>1 DEF Put
    <3>2. EntryOK(p, e)' /\ Claim(l, q, w)'
      BY <2>9, <3>1 DEF EntryOK, Missed, Missing, Claim, world
    <3>3. /\ l \in Label /\ q \in Key \cup {Absent}
          /\ unsure' \in SUBSET Key /\ unsure \subseteq unsure'
      BY <2>9 DEF Label, Inv, TypeInv
    <3> QED
      BY <2>9, <3>1, <3>2, <3>3, GoroutineStep
  <2>10. CASE cacheNotFound(g)
    BY <2>9, <2>10, <2>a, <2>b DEF cacheNotFound, goto, Claim
  <2>11. CASE translateError(g)
    BY <2>9, <2>11, <2>b DEF translateError, return, Claim
  <2>12. CASE SetAttrs(g)
    <3>1. p \in Key /\ v \in Attrs /\ v \in held[p] /\ UNCHANGED <<world, unsure>>
      BY <2>12, <2>b DEF SetAttrs, Claim
    <3>2. PICK e \in Kept : e.attrs = v /\ cached' = [cached EXCEPT ![p] = e]
      <4>1. [attrs |-> v, left |-> Lifespan(v)] \in Kept
        BY <3>1 DEF Kept, Lifespan
      <4> QED
        BY <2>12, <2>a, <4>1 DEF SetAttrs, Put
    <3>3. EntryOK(p, e)' /\ Claim("idle", Absent, Absent)'
      BY <3>1, <3>2 DEF EntryOK, Claim, world
    <3> QED
      BY <2>12, <3>1, <3>2, <3>3, GoroutineStep DEF SetAttrs, return, Label, Inv, TypeInv
  <2>13. CASE ReadAnswer(g)
    <3>1. p \in Key /\ UNCHANGED <<cached, world>>
      BY <2>13, <2>b DEF ReadAnswer
    <3>2. CASE return(g) /\ UNCHANGED unsure
      BY <2>2, <3>1, <3>2
    <3>3. CASE /\ ~(up /\ bucket[path[g]] = "object")
               /\ goto(g, "translateError") /\ Doubt(path[g])
      <4>1. unsure' \in SUBSET Key /\ unsure \subseteq unsure' /\ (p # Root => Missed(p)')
        BY <2>a, <3>1, <3>3, SeenNoObject, DoubtStep
      <4> QED
        BY <2>4, <3>1, <3>3, <4>1 DEF goto
    <3> QED
      BY <2>13, <3>2, <3>3 DEF ReadAnswer, BackendError
  <2>14. CASE ReadDirAnswer(g)
    <3>1. p \in Key /\ UNCHANGED <<cached, world, unsure>>
      BY <2>14, <2>b DEF ReadDirAnswer
    <3>2. CASE return(g)
      BY <2>2, <3>1, <3>2
    <3>3. CASE ~up /\ goto(g, "translateError")
      <4>1. Missed(p)
        BY <2>b, <3>1, <3>3 DEF Missed, Missing
      <4> QED
        BY <2>4, <3>1, <3>3, <4>1 DEF goto, Missed, Missing, world, Inv, TypeInv
    <3> QED
      BY <2>14, <3>2, <3>3 DEF ReadDirAnswer, BackendError
  <2> QED
    BY <1>6, <2>5, <2>6, <2>7, <2>8, <2>10, <2>11, <2>12, <2>13, <2>14 DEF Step
<1> QED
  BY <1>1, <1>2, <1>3, <1>4, <1>5, <1>6 DEF Next

-----------------------------------------------------------------------------
(* Stat caches no kind that the path never had, however its calls and the     *)
(* changes of the bucket interleave.                                          *)
THEOREM PositiveTheorem == Spec => []PositiveConfirmed
<1>1. Inv => PositiveConfirmed
  BY DEF Inv, EntryInv, EntryOK, PositiveConfirmed, Positive
<1> QED
  BY InitInv, NextInv, <1>1, PTL DEF Spec

(* A path is cached as "not found" only if it was missing at some time, or it *)
(* was a directory of which one of four answers was mistaken for absence: a   *)
(* failed probe, no probe because of an extension, a probe after it became an *)
(* object, a Read.  Other errors of GCS are never taken for a missing path.   *)
THEOREM NegativeTheorem == Spec => []NegativeConfirmed
<1>1. Inv => NegativeConfirmed
  BY DEF Inv, EntryInv, EntryOK, NegativeConfirmed, Negative, Missed
<1> QED
  BY InitInv, NextInv, <1>1, PTL DEF Spec
=============================================================================
