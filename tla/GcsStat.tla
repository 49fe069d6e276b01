------------------------------- MODULE GcsStat -------------------------------
(* pkg/gcs/fs/gcsfs.go: Stat of a gcsFile, and the error paths of Read and    *)
(* ReadDir that share translateError with it, as request goroutines run them  *)
(* against one attribute cache and one bucket.  Other programs change the     *)
(* bucket at any time, every GCS call may fail with a transient error, and    *)
(* the cache is written some time after GCS has answered.                     *)
(*                                                                            *)
(* A path stands for its cache key: fullPath is the mount's prefix joined     *)
(* with the name, which is one to one.  Root is the mount's root (name "").   *)
(* The cache is on (with cache_ttl off there is none and nothing to get       *)
(* wrong here).                                                               *)
EXTENDS LiveCache

CONSTANTS
    Root,        \* the path whose name is ""
    WithExt,     \* paths with a file extension, never probed as directories
    Goroutine,
    Ops,         \* the operations callers use: "stat", "read", "readdir"
    MaxChanges   \* bound: changes other programs make to the bucket

ASSUME StatAssumption ==
    /\ Attrs = {"object", "dir"}
    /\ NotFound \notin Attrs
    /\ Absent \notin Kept \cup Key
    /\ TTL \in Nat /\ NegTTL \in Nat
    /\ Root \in Key /\ WithExt \subseteq Key \ {Root}
    /\ Ops \subseteq {"stat", "read", "readdir"}
    /\ MaxChanges \in Nat

VARIABLES
    bucket,   \* what GCS holds at each path: "object", "dir" (a prefix), "none"
    up,       \* FALSE while the bucket does not exist
    changes,  \* bound: changes so far
    pc,       \* where each goroutine is
    path,     \* its argument
    val,      \* the attributes Stat is about to cache and return
    held,     \* history: what each path has been since the start, "gone" included
    unsure    \* history: paths that were reported missing and never were

calls == <<pc, path, val>>
vars == <<cached, bucket, up, changes, calls, held, unsure>>

Kind == {"object", "dir", "none"}

\* The root is a prefix of whatever the mount serves.
Init == /\ CacheInit
        /\ bucket \in {b \in [Key -> Kind] : b[Root] = "dir"}
        /\ up = TRUE
        /\ changes = 0
        /\ pc = [g \in Goroutine |-> "idle"]
        /\ path = [g \in Goroutine |-> Absent]
        /\ val = [g \in Goroutine |-> Absent]
        /\ held = [p \in Key |-> {bucket[p]}]
        /\ unsure = {}

-----------------------------------------------------------------------------
\* The environment (external): time, other writers of the bucket, eviction.

Tick == /\ Elapse(1)
        /\ UNCHANGED <<bucket, up, changes, calls, held, unsure>>

Change(p) == /\ p # Root
             /\ changes < MaxChanges
             /\ changes' = changes + 1
             /\ \E x \in Kind : /\ bucket' = [bucket EXCEPT ![p] = x]
                                /\ held' = [held EXCEPT ![p] = @ \cup {x}]
             /\ UNCHANGED <<cached, up, calls, unsure>>

BucketGone == /\ up
              /\ changes < MaxChanges
              /\ changes' = changes + 1
              /\ up' = FALSE
              /\ held' = [p \in Key |-> held[p] \cup {"gone"}]
              /\ UNCHANGED <<cached, bucket, calls, unsure>>

Evict(p) == /\ cached[p] # Absent
            /\ Lose(p)
            /\ UNCHANGED <<bucket, up, changes, calls, held, unsure>>

-----------------------------------------------------------------------------
goto(g, label) == /\ pc' = [pc EXCEPT ![g] = label]
                  /\ UNCHANGED <<path, val>>

return(g) == /\ pc' = [pc EXCEPT ![g] = "idle"]
             /\ path' = [path EXCEPT ![g] = Absent]
             /\ val' = [val EXCEPT ![g] = Absent]

found(g, a) == /\ pc' = [pc EXCEPT ![g] = "put"]
               /\ val' = [val EXCEPT ![g] = a]
               /\ UNCHANGED path

world == <<bucket, up, changes, held>>

\* p was missing at some time, or its bucket was
Missing(p) == held[p] \cap {"none", "gone"} # {}

\* p is about to be reported missing on evidence that is none
Doubt(p) == unsure' = IF p = Root \/ Missing(p) THEN unsure ELSE unsure \cup {p}

Call(g) == /\ pc[g] = "idle"
           /\ \E o \in Ops, p \in Key :
                /\ path' = [path EXCEPT ![g] = p]
                /\ pc' = [pc EXCEPT ![g] = IF o = "stat" THEN "lookup" ELSE o]
           /\ UNCHANGED <<cached, val, world, unsure>>

-----------------------------------------------------------------------------
\* Stat

Hit(g) == cached[path[g]] # Absent

\* A mutant of Lookup: a hit renews the entry.
LookupSliding(g) ==
    /\ pc[g] = "lookup"
    /\ IF Hit(g) THEN /\ Put(path[g], cached[path[g]].attrs)
                      /\ IF cached[path[g]].attrs = NotFound
                         THEN goto(g, "translateError") ELSE return(g)
       ELSE /\ IF path[g] = Root THEN found(g, "dir") ELSE goto(g, "attrs")
            /\ UNCHANGED cached
    /\ UNCHANGED <<world, unsure>>

Lookup(g) ==
    /\ pc[g] = "lookup"
    /\ CASE Hit(g) /\ cached[path[g]].attrs = NotFound -> goto(g, "translateError")
         [] Hit(g) /\ cached[path[g]].attrs # NotFound -> return(g)
         [] ~Hit(g) /\ path[g] = Root -> found(g, "dir")
         [] ~Hit(g) /\ path[g] # Root -> goto(g, "attrs")
    /\ UNCHANGED <<cached, world, unsure>>

\* After a definite "no such object": only names without an extension are
\* probed as directories.
NoObject(g) == IF path[g] \in WithExt THEN goto(g, "translateError") /\ Doubt(path[g])
                                      ELSE goto(g, "probe") /\ UNCHANGED unsure

\* A mutant of BackendError: any error counts as a missing object.
BackendErrorAsMissing(g) == goto(g, "translateError")

\* A backend error is reported to the caller and leaves the cache alone.
BackendError(g) == return(g)

AttrsAnswer(g) ==
    /\ pc[g] = "attrs"
    /\ \/ BackendError(g) /\ UNCHANGED unsure
       \/ up /\ bucket[path[g]] = "object" /\ found(g, "object") /\ UNCHANGED unsure
       \/ ~(up /\ bucket[path[g]] = "object") /\ NoObject(g)
    /\ UNCHANGED <<cached, world>>

\* A mutant of Matches: the prefix lacks its slash, so the object itself matches.
MatchesWithoutSlash(p) == up /\ bucket[p] \in {"dir", "object"}

\* Objects with Prefix path + "/": only a directory has one.
Matches(p) == up /\ bucket[p] = "dir"

\* The probe's own failure (timeout, network, no bucket) also ends in
\* translateError(ErrObjectNotExist).  A directory that became an object since
\* Attrs was asked has no entries either.
ProbeAnswer(g) ==
    /\ pc[g] = "probe"
    /\ \/ goto(g, "translateError") /\ Doubt(path[g])
       \/ Matches(path[g]) /\ found(g, "dir") /\ UNCHANGED unsure
       \/ up /\ ~Matches(path[g]) /\ goto(g, "cacheNotFound") /\ Doubt(path[g])
    /\ UNCHANGED <<cached, world>>

cacheNotFound(g) == /\ pc[g] = "cacheNotFound"
                    /\ Put(path[g], NotFound)
                    /\ goto(g, "translateError")
                    /\ UNCHANGED <<world, unsure>>

SetAttrs(g) == /\ pc[g] = "put"
               /\ Put(path[g], val[g])
               /\ return(g)
               /\ UNCHANGED <<world, unsure>>

\* translateError of ErrObjectNotExist or ErrBucketNotExist
translateError(g) == /\ pc[g] = "translateError"
                     /\ Put(path[g], NotFound)
                     /\ return(g)
                     /\ UNCHANGED <<world, unsure>>

-----------------------------------------------------------------------------
\* Read opens a range reader; ReadDir lists the prefix.  Neither consults the
\* cache, and both report a missing object or bucket through translateError.
\* Read of the root asks for the object named by the mount's prefix; on a mount
\* without a prefix the client refuses the empty name, a BackendError.

ReadAnswer(g) ==
    /\ pc[g] = "read"
    /\ \/ BackendError(g) /\ UNCHANGED unsure
       \/ up /\ bucket[path[g]] = "object" /\ return(g) /\ UNCHANGED unsure
       \/ ~(up /\ bucket[path[g]] = "object") /\ goto(g, "translateError") /\ Doubt(path[g])
    /\ UNCHANGED <<cached, world>>

ReadDirAnswer(g) ==
    /\ pc[g] = "readdir"
    /\ \/ BackendError(g)
       \/ up /\ return(g)
       \/ ~up /\ goto(g, "translateError")
    /\ UNCHANGED <<cached, world, unsure>>

-----------------------------------------------------------------------------
Step(g) == \/ Lookup(g) \/ AttrsAnswer(g) \/ ProbeAnswer(g)
           \/ cacheNotFound(g) \/ SetAttrs(g) \/ translateError(g)
           \/ ReadAnswer(g) \/ ReadDirAnswer(g)

Next == \/ Tick \/ BucketGone
        \/ \E p \in Key : Change(p) \/ Evict(p)
        \/ \E g \in Goroutine : Call(g) \/ Step(g)

\* Time passes (the ticker goroutine) and a call that has begun goes on: GCS
\* calls end in an answer or in opTimeout's error.
Spec == /\ Init /\ [][Next]_vars
        /\ WF_vars(Tick)
        /\ \A g \in Goroutine : WF_vars(Step(g))

-----------------------------------------------------------------------------
Positive(p) == cached[p] # Absent /\ cached[p].attrs # NotFound
Negative(p) == cached[p] # Absent /\ cached[p].attrs = NotFound

(* A cached object or directory was really there at some time: however the    *)
(* Attrs call and the directory probe of one Stat straddle changes of the     *)
(* bucket, Stat caches no kind that the path never had.                       *)
PositiveConfirmed == \A p \in Key : Positive(p) => cached[p].attrs \in held[p]

(* A cached "not found" means that the path was really missing at some time:  *)
(* transient errors of any operation, on any goroutine, are not cached.  Four *)
(* answers are cached although the path was there, each about a directory     *)
(* ("unsure" records these and no others): the probe for it failed; it was    *)
(* not probed because its name has an extension; it became an object between  *)
(* Attrs and the probe; somebody tried to Read it.                            *)
NegativeConfirmed ==
    \A p \in Key \ {Root} :
        Negative(p) => Missing(p) \/ (p \in unsure /\ "dir" \in held[p])

(* An object or directory that has been deleted for good is noticed: its      *)
(* attributes leave the cache for ever, however often they are asked for,     *)
(* because hits do not renew them, and no goroutine brings them back later.   *)
DeletionNoticed ==
    \A p \in Key \ {Root} :
        (<>[](bucket[p] = "none")) => <>[](~Positive(p))

(* What the configuration guide says of negative entries: they expire after   *)
(* their shorter lifetime, so a path that now exists for good is not          *)
(* answered "not found" for ever.                                             *)
NegativeExpires ==
    \A p \in Key \ {Root} :
        (<>[](bucket[p] = "object" /\ up)) => []<>(~Negative(p))
=============================================================================
