-------------------------------- MODULE Mount --------------------------------
(* pkg/gcs/fs/module.go: the caddy.fs.gcs module over config reloads.  Each   *)
(* config owns some mounts (GCSFS values).  Caddy provisions the mounts of a  *)
(* new config while the old one still serves, then cleans up the old one's;   *)
(* when a mount fails to provision, the new config's mounts are cleaned up    *)
(* instead.  Clients are shared through a pool that counts references.        *)
(*                                                                            *)
(* caddy.UsagePool and the load/stop protocol are external; a pool operation  *)
(* is atomic.                                                                 *)
EXTENDS Integers, FiniteSets

CONSTANTS
    Config,      \* config loads, in no particular order
    Member,      \* Member[c]: the mounts of config c
    Client,      \* GCS clients that may be created (bound)
    Written,     \* the filesystem blocks users write
    Emulator,    \* STORAGE_EMULATOR_HOST is set
    Unset, None

AllMounts == UNION {Member[c] : c \in Config}

\* A block: credentials, whether there is a bucket name once placeholders and
\* the environment have been consulted, cache_ttl and cache_max_entries.
Block == [bucket : BOOLEAN, credentialsConfig : STRING, credentialsFile : STRING,
          serviceAccount : STRING, ttl : Int \cup {Unset},
          entries : Int \cup {Unset}]

ASSUME MountAssumption ==
    /\ \A c, d \in Config : c # d => Member[c] \cap Member[d] = {}
    /\ Written \subseteq Block
    /\ Emulator \in BOOLEAN
    /\ None \notin Client \cup [refs : Nat, client : Client]
    /\ Unset \notin Int

VARIABLES
    phase,     \* Config -> "new", "loading", "running", "stopping", "stopped"
    block,     \* mount -> what the user wrote for it
    state,     \* mount -> "unborn", "provisioned", "failed", "cleaned"
    held,      \* mount -> its client, None unless provisioned
    cache,     \* mount -> ttl (0: no cache) and maxEntries, or None
    pool,      \* pool key -> [refs, client], None when not in the pool
    open       \* clients created and not closed

vars == <<phase, block, state, held, cache, pool, open>>

-----------------------------------------------------------------------------
\* From the Caddyfile to the module Caddy provisions: the block is parsed, the
\* adapter encodes the module as JSON (omitempty drops a zero), and the JSON is
\* decoded into a new module (a missing field is zero, unexported fields are
\* not encoded).

\* cache_max_entries has to be positive.
Parses(w) == w.entries = Unset \/ w.entries > 0

OrZero(x) == IF x = Unset THEN 0 ELSE x
OmitEmpty(x) == IF x = 0 THEN Unset ELSE x

UnmarshalCaddyfile(w) ==
    [CacheTTL |-> OrZero(w.ttl), cacheTTLSet |-> w.ttl # Unset,
     CacheMaxEntries |-> OrZero(w.entries), cacheMaxEntriesSet |-> w.entries # Unset]

ToJSON(f) == [cache_ttl |-> OmitEmpty(f.CacheTTL),
              cache_max_entries |-> OmitEmpty(f.CacheMaxEntries)]

FromJSON(j) ==
    [CacheTTL |-> OrZero(j.cache_ttl), cacheTTLSet |-> FALSE,
     CacheMaxEntries |-> OrZero(j.cache_max_entries), cacheMaxEntriesSet |-> FALSE]

Loaded(w) == FromJSON(ToJSON(UnmarshalCaddyfile(w)))

DefaultTTL == 300
DefaultMaxEntries == 10000

\* A mutant of CacheTTL: the default is left out.
CacheTTLWithoutDefault(w) == Loaded(w).CacheTTL

\* the ttl Provision gives the cache; 0 means that there is no cache
CacheTTL(w) ==
    LET f == Loaded(w)
        ttl == IF ~f.cacheTTLSet /\ f.CacheTTL = 0 THEN DefaultTTL ELSE f.CacheTTL
    IN IF ttl > 0 THEN ttl ELSE 0

MaxEntries(w) ==
    LET f == Loaded(w) IN
    IF ~f.cacheMaxEntriesSet /\ f.CacheMaxEntries = 0 THEN DefaultMaxEntries
                                                    ELSE f.CacheMaxEntries

\* A mutant of clientPoolKey: every block has a client of its own.
PoolKeyPerBlock(w) == <<"block", w>>

clientPoolKey(w) ==
    CASE Emulator -> <<"emulator">>
      [] ~Emulator /\ w.credentialsConfig # "" -> <<"wif", w.credentialsConfig>>
      [] ~Emulator /\ w.credentialsConfig = "" /\ w.credentialsFile # ""
            -> <<"sa", w.credentialsFile>>
      [] OTHER -> <<"adc", w.serviceAccount>>

PoolKey == {clientPoolKey(w) : w \in Written}

-----------------------------------------------------------------------------
TypeOK == /\ phase \in [Config -> {"new", "loading", "running", "stopping", "stopped"}]
          /\ block \in [AllMounts -> Written \cup {None}]
          /\ state \in [AllMounts -> {"unborn", "provisioned", "failed", "cleaned"}]
          /\ held \in [AllMounts -> Client \cup {None}]
          /\ cache \in [AllMounts -> [ttl : Nat, entries : Nat \ {0}] \cup {None}]
          /\ pool \in [PoolKey -> [refs : Nat \ {0}, client : Client] \cup {None}]
          /\ open \subseteq Client

Init == /\ phase = [c \in Config |-> "new"]
        /\ block = [m \in AllMounts |-> None]
        /\ state = [m \in AllMounts |-> "unborn"]
        /\ held = [m \in AllMounts |-> None]
        /\ cache = [m \in AllMounts |-> None]
        /\ pool = [k \in PoolKey |-> None]
        /\ open = {}

Used == open \cup {held[m] : m \in AllMounts}

\* The pool (external): gcsClients.LoadOrNew and gcsClients.Delete

LoadOrNew(k, m) ==
    IF pool[k] # None
    THEN /\ pool' = [pool EXCEPT ![k].refs = @ + 1]
         /\ held' = [held EXCEPT ![m] = pool[k].client]
         /\ UNCHANGED open
    ELSE \E c \in Client \ Used :
         /\ pool' = [pool EXCEPT ![k] = [refs |-> 1, client |-> c]]
         /\ held' = [held EXCEPT ![m] = c]
         /\ open' = open \cup {c}

Delete(k) ==
    IF pool[k] = None THEN UNCHANGED <<pool, open>>
    ELSE IF pool[k].refs > 1
    THEN pool' = [pool EXCEPT ![k].refs = @ - 1] /\ UNCHANGED open
    ELSE pool' = [pool EXCEPT ![k] = None] /\ open' = open \ {pool[k].client}

-----------------------------------------------------------------------------
\* Caddy (external) loads one config at a time; stopping ones may linger.
Load(c) == /\ phase[c] = "new"
           /\ \A d \in Config : phase[d] # "loading"
           /\ phase' = [phase EXCEPT ![c] = "loading"]
           /\ \E b \in [Member[c] -> {w \in Written : Parses(w)}] :
                block' = [m \in AllMounts |-> IF m \in Member[c] THEN b[m] ELSE block[m]]
           /\ UNCHANGED <<state, held, cache, pool, open>>

\* Provision succeeds: a pooled client, then the cache, then the filesystem.
Provision(c, m) ==
    /\ phase[c] = "loading" /\ m \in Member[c] /\ state[m] = "unborn"
    /\ \A x \in Member[c] : state[x] # "failed"
    /\ block[m].bucket
    /\ LoadOrNew(clientPoolKey(block[m]), m)
    /\ cache' = [cache EXCEPT ![m] = [ttl |-> CacheTTL(block[m]),
                                   entries |-> MaxEntries(block[m])]]
    /\ state' = [state EXCEPT ![m] = "provisioned"]
    /\ UNCHANGED <<phase, block>>

\* Provision returns an error: no bucket name, or no client could be built (then
\* the pool keeps nothing).  Caddy calls Cleanup on the half-built mount, which
\* has neither a pool key nor a client.
ProvisionFails(c, m) ==
    /\ phase[c] = "loading" /\ m \in Member[c] /\ state[m] = "unborn"
    /\ \A x \in Member[c] : state[x] # "failed"
    /\ ~block[m].bucket \/ pool[clientPoolKey(block[m])] = None
    /\ state' = [state EXCEPT ![m] = "failed"]
    /\ UNCHANGED <<phase, block, held, cache, pool, open>>

\* All mounts are ready: the new config runs and the old one, if any, stops.
Activate(c) ==
    /\ phase[c] = "loading"
    /\ \A m \in Member[c] : state[m] = "provisioned"
    /\ phase' = [d \in Config |-> IF d = c THEN "running"
                                  ELSE IF phase[d] = "running" THEN "stopping"
                                  ELSE phase[d]]
    /\ UNCHANGED <<block, state, held, cache, pool, open>>

\* A mount failed: the config that was being loaded is dropped.
Abort(c) ==
    /\ phase[c] = "loading"
    /\ \E m \in Member[c] : state[m] = "failed"
    /\ phase' = [phase EXCEPT ![c] = "stopping"]
    /\ UNCHANGED <<block, state, held, cache, pool, open>>

\* A mutant of Cleanup: the client is closed whoever else holds it.
CleanupClosesClient(m) == /\ open' = open \ {held[m]}
                          /\ UNCHANGED pool

\* A mutant of Cleanup: the reference is not given back.
CleanupForgets(m) == UNCHANGED <<pool, open>>

\* Cleanup gives the pooled reference back; the last one closes the client.
Cleanup(m) == Delete(clientPoolKey(block[m]))

Stop(c, m) == /\ phase[c] = "stopping" /\ m \in Member[c]
              /\ state[m] = "provisioned"
              /\ Cleanup(m)
              /\ state' = [state EXCEPT ![m] = "cleaned"]
              /\ held' = [held EXCEPT ![m] = None]
              /\ UNCHANGED <<phase, block, cache>>

Stopped(c) == /\ phase[c] = "stopping"
              /\ \A m \in Member[c] : state[m] # "provisioned"
              /\ phase' = [phase EXCEPT ![c] = "stopped"]
              /\ UNCHANGED <<block, state, held, cache, pool, open>>

Next == \E c \in Config :
            \/ Load(c) \/ Activate(c) \/ Abort(c) \/ Stopped(c)
            \/ \E m \in Member[c] : Provision(c, m) \/ ProvisionFails(c, m) \/ Stop(c, m)

Spec == Init /\ [][Next]_vars

-----------------------------------------------------------------------------
Ready(m) == state[m] = "provisioned"

(* No mount that has been provisioned and not cleaned up holds a closed       *)
(* client, whatever order reloads, failed loads and late cleanups come in:    *)
(* the client is closed only with its last reference.                         *)
ReadyClientOpen == \A m \in AllMounts : Ready(m) => held[m] \in open

(* No client outlives its users: an open client is held by some mount, so     *)
(* reloads and failed loads leak no connections.                              *)
NoClientLeak == \A c \in open : \E m \in AllMounts : Ready(m) /\ held[m] = c

(* Mounts with the same credentials share one client, across configs too, as  *)
(* clientPoolKey's comment says, and a client is shared by no others - except *)
(* that next to a credentials file or config the account to impersonate does  *)
(* not count: such mounts get the client of whichever was provisioned first.  *)
SameCredentialsShare ==
    \A m1, m2 \in AllMounts : Ready(m1) /\ Ready(m2) =>
        LET v == block[m1]
            w == block[m2]
            source == /\ v.credentialsConfig = w.credentialsConfig
                      /\ v.credentialsConfig = "" => v.credentialsFile = w.credentialsFile
            account == v.serviceAccount = w.serviceAccount
        IN /\ source /\ account => held[m1] = held[m2]
           /\ held[m1] = held[m2] /\ ~Emulator =>
                /\ source
                /\ account \/ v.credentialsConfig # "" \/ v.credentialsFile # ""

(* What becomes of cache_ttl and cache_max_entries on their way from the      *)
(* Caddyfile through JSON to Provision: a positive ttl is used, and a mount   *)
(* is without an attribute cache just when its block says a negative one.  A  *)
(* 0 gets the default, as if nothing were written.  The cache has room for as *)
(* many entries as the block says, and always for one.                        *)
CacheAsConfigured ==
    \A m \in AllMounts : Ready(m) =>
        LET w == block[m]
            made == cache[m]
        IN /\ made.ttl = 0 <=> (w.ttl # Unset /\ w.ttl < 0)
           /\ w.ttl \in {Unset, 0} => made.ttl = DefaultTTL
           /\ w.ttl # Unset /\ w.ttl > 0 => made.ttl = w.ttl
           /\ made.entries = IF w.entries = Unset THEN DefaultMaxEntries ELSE w.entries
           /\ made.entries > 0
=============================================================================
