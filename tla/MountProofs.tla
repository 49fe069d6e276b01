----------------------------- MODULE MountProofs -----------------------------
(* The pool's reference counts, for any number of configs, mounts, clients and *)
(* filesystem blocks: a client is open just as long as a mount uses it.        *)
EXTENDS Mount, FiniteSetTheorems, TLAPS

\* The mounts whose reference the pool counts under key k.
Users(k) == {m \in AllMounts : Ready(m) /\ clientPoolKey(block[m]) = k}

\* A mount is not provisioned before its config is loaded, and from then on it
\* has a block that parses.
BlockInv ==
    \A c \in Config : \A m \in Member[c] :
        /\ phase[c] = "new" => state[m] = "unborn"
        /\ phase[c] # "new" => block[m] \in Written /\ Parses(block[m])

\* A key is in the pool just while it has users; they are counted, and they all
\* hold the pooled client, which is open.
Counted(k) ==
    /\ IsFiniteSet(Users(k))
    /\ pool[k] = None => Users(k) = {}
    /\ pool[k] # None => /\ pool[k].refs = Cardinality(Users(k))
                         /\ pool[k].client \in open
                         /\ \A m \in Users(k) : held[m] = pool[k].client

PoolInv == \A k \in PoolKey : Counted(k)

\* Each open client is the pool's, under one key only.
ClientInv ==
    /\ \A k1, k2 \in PoolKey :
          pool[k1] # None /\ pool[k2] # None /\ pool[k1].client = pool[k2].client => k1 = k2
    /\ \A c \in open : \E k \in PoolKey : pool[k] # None /\ pool[k].client = c

\* A mount keeps the cache Provision made from its block.
CacheInv ==
    \A m \in AllMounts : Ready(m) =>
        cache[m] = [ttl |-> CacheTTL(block[m]), entries |-> MaxEntries(block[m])]

Inv == TypeOK /\ BlockInv /\ PoolInv /\ ClientInv /\ CacheInv

-----------------------------------------------------------------------------
(* What becomes of a block's cache settings: the conversions of the Caddyfile *)
(* adapter and of JSON lose a written 0, and nothing else.                    *)
LEMMA CacheSettings ==
    ASSUME NEW w \in Written, Parses(w)
    PROVE  /\ CacheTTL(w) \in Nat /\ MaxEntries(w) \in Nat \ {0}
           /\ CacheTTL(w) = 0 <=> (w.ttl # Unset /\ w.ttl < 0)
           /\ w.ttl \in {Unset, 0} => CacheTTL(w) = DefaultTTL
           /\ w.ttl # Unset /\ w.ttl > 0 => CacheTTL(w) = w.ttl
           /\ MaxEntries(w) = IF w.entries = Unset THEN DefaultMaxEntries ELSE w.entries
<1>1. /\ w.ttl \in Int \cup {Unset} /\ w.entries \in Int \cup {Unset}
      /\ Unset \notin Int
  BY MountAssumption DEF Block
<1>2. Loaded(w) = [CacheTTL |-> OrZero(w.ttl), cacheTTLSet |-> FALSE,
                   CacheMaxEntries |-> OrZero(w.entries), cacheMaxEntriesSet |-> FALSE]
  BY <1>1 DEF Loaded, FromJSON, ToJSON, UnmarshalCaddyfile, OrZero, OmitEmpty
<1>3. CacheTTL(w) = LET t == IF OrZero(w.ttl) = 0 THEN DefaultTTL ELSE OrZero(w.ttl)
                    IN IF t > 0 THEN t ELSE 0
  BY <1>2 DEF CacheTTL
<1>4. MaxEntries(w) = IF OrZero(w.entries) = 0 THEN DefaultMaxEntries ELSE OrZero(w.entries)
  BY <1>2 DEF MaxEntries
<1> QED
  BY <1>1, <1>3, <1>4 DEF OrZero, DefaultTTL, DefaultMaxEntries, Parses

(* Two blocks share a pool key just when they name the same credentials; the  *)
(* account to impersonate counts only where no file or config is named.       *)
LEMMA KeysAgree ==
    ASSUME NEW v, NEW w, ~Emulator
    PROVE  clientPoolKey(v) = clientPoolKey(w) <=>
              /\ v.credentialsConfig = w.credentialsConfig
              /\ v.credentialsConfig = "" => v.credentialsFile = w.credentialsFile
              /\ \/ v.serviceAccount = w.serviceAccount
                 \/ v.credentialsConfig # "" \/ v.credentialsFile # ""
  BY DEF clientPoolKey

(* A mount that is provisioned has a block that parses and is a user of its   *)
(* pool key.                                                                  *)
LEMMA ReadyMount ==
    ASSUME BlockInv, NEW m \in AllMounts, Ready(m)
    PROVE  /\ block[m] \in Written /\ Parses(block[m])
           /\ clientPoolKey(block[m]) \in PoolKey
           /\ m \in Users(clientPoolKey(block[m]))
<1>1. PICK c \in Config : m \in Member[c]
  BY DEF AllMounts
<1>2. block[m] \in Written /\ Parses(block[m])
  BY <1>1 DEF BlockInv, Ready
<1> QED
  BY <1>2 DEF PoolKey, Users

(* The initial state satisfies the invariant. *)
LEMMA InitInv == Init => Inv
<1> SUFFICES ASSUME Init PROVE Inv
  OBVIOUS
<1>1. TypeOK
  BY DEF Init, TypeOK
<1>2. BlockInv /\ ClientInv /\ CacheInv
  BY DEF Init, BlockInv, ClientInv, CacheInv, Ready, AllMounts
<1>3. \A k \in PoolKey : Users(k) = {}
  BY DEF Init, Users, Ready
<1>4. PoolInv
  BY <1>3, FS_EmptySet DEF Init, PoolInv, Counted
<1> QED
  BY <1>1, <1>2, <1>4 DEF Inv

(* Steps that neither touch the pool nor make or unmake a ready mount, and    *)
(* leave the blocks of ready mounts alone.                                    *)
LEMMA QuietStep ==
    ASSUME Inv, TypeOK', BlockInv', UNCHANGED <<held, cache, pool, open>>,
           \A m \in AllMounts : Ready(m)' <=> Ready(m),
           \A m \in AllMounts : Ready(m) => block'[m] = block[m]
    PROVE  Inv'
<1>1. \A k : Users(k)' = Users(k)
  BY DEF Users
<1>2. PoolInv'
  BY <1>1 DEF Inv, PoolInv, Counted
<1>3. ClientInv'
  BY DEF Inv, ClientInv
<1>4. CacheInv'
  BY DEF Inv, CacheInv
<1> QED
  BY <1>2, <1>3, <1>4 DEF Inv

(* Provision takes one reference: a new one to the pooled client, or the      *)
(* first one to a client nobody uses.                                         *)
LEMMA ProvisionStep ==
    ASSUME Inv, NEW c \in Config, NEW m \in Member[c], Provision(c, m)
    PROVE  Inv'
<1>0. /\ m \in AllMounts /\ block[m] \in Written /\ Parses(block[m])
      /\ state[m] = "unborn"
  BY DEF Inv, BlockInv, Provision, AllMounts
<1>1. PICK k \in PoolKey : k = clientPoolKey(block[m])
  BY <1>0 DEF PoolKey
<1> USE <1>0
<1>2. \A x \in AllMounts : /\ state'[x] = IF x = m THEN "provisioned" ELSE state[x]
                           /\ Ready(x)' <=> Ready(x) \/ x = m
                           /\ block'[x] = block[x]
  BY <1>1 DEF Provision, Inv, TypeOK, Ready
<1>3. /\ Users(k)' = Users(k) \cup {m} /\ m \notin Users(k)
      /\ \A j \in PoolKey : j # k => Users(j)' = Users(j)
  BY <1>1, <1>2 DEF Users, Ready
<1>4. /\ IsFiniteSet(Users(k)) /\ IsFiniteSet(Users(k)')
      /\ Cardinality(Users(k)) \in Nat
      /\ Cardinality(Users(k)') = Cardinality(Users(k)) + 1
  BY <1>1, <1>3, FS_AddElement, FS_CardinalityType DEF Inv, PoolInv, Counted
<1>5. /\ Cardinality({m}) = 1
      /\ pool[k] \in [refs : Nat \ {0}, client : Client] \cup {None}
  BY FS_Singleton DEF Inv, TypeOK
<1>6. CacheInv' /\ cache' \in [AllMounts -> [ttl : Nat, entries : Nat \ {0}] \cup {None}]
  <2>1. /\ cache' = [cache EXCEPT ![m] = [ttl |-> CacheTTL(block[m]),
                                         entries |-> MaxEntries(block[m])]]
        /\ cache \in [AllMounts -> [ttl : Nat, entries : Nat \ {0}] \cup {None}]
    BY DEF Provision, Inv, TypeOK
  <2>2. CacheInv'
    BY <1>1, <1>2, <2>1 DEF Inv, CacheInv
  <2> QED
    BY <1>1, <2>1, <2>2, CacheSettings
<1>7. BlockInv' /\ phase' = phase /\ block' = block
      /\ state' \in [AllMounts -> {"unborn", "provisioned", "failed", "cleaned"}]
  <2>1. phase' = phase /\ block' = block /\ phase[c] = "loading"
    BY DEF Provision
  <2>2. \A d \in Config : phase[d] = "new" => m \notin Member[d]
    BY <2>1, MountAssumption
  <2>3. BlockInv'
    BY <1>2, <2>1, <2>2 DEF Inv, BlockInv, AllMounts
  <2> QED
    BY <1>1, <2>1, <2>3 DEF Provision, Inv, TypeOK
<1>8. CASE pool[k] # None
  <2>1. /\ pool' = [pool EXCEPT ![k].refs = @ + 1]
        /\ held' = [held EXCEPT ![m] = pool[k].client]
        /\ open' = open
    BY <1>1, <1>8 DEF Provision, LoadOrNew
  <2>2. /\ pool'[k] # None /\ pool'[k] \in [refs : Nat \ {0}, client : Client]
        /\ pool'[k].refs = pool[k].refs + 1 /\ pool'[k].client = pool[k].client
        /\ \A j \in PoolKey : j # k => pool'[j] = pool[j]
    BY <1>1, <1>5, <1>8, <2>1, MountAssumption DEF Inv, TypeOK
  <2>3. TypeOK'
    BY <1>1, <1>5, <1>6, <1>7, <1>8, <2>1, <2>2 DEF Inv, TypeOK
  <2>4. \A x \in AllMounts : held'[x] = IF x = m THEN pool[k].client ELSE held[x]
    BY <2>1 DEF Inv, TypeOK
  <2>5. PoolInv'
    <3>1. Counted(k)'
      <4>1. \A x \in Users(k)' : held'[x] = pool[k].client
        BY <1>1, <1>3, <1>8, <2>4 DEF Inv, PoolInv, Counted, Users
      <4> QED
        BY <1>1, <1>3, <1>4, <1>8, <2>1, <2>2, <4>1 DEF Inv, PoolInv, Counted
    <3>2. ASSUME NEW j \in PoolKey, j # k PROVE Counted(j)'
      <4>1. \A x \in Users(j) : x # m /\ x \in AllMounts
        BY <1>1, <3>2 DEF Users
      <4>2. pool'[j] = pool[j] /\ Users(j)' = Users(j) /\ open' = open
        BY <1>3, <2>1, <2>2, <3>2
      <4> QED
        BY <2>4, <4>1, <4>2 DEF Inv, PoolInv, Counted
    <3> QED
      BY <3>1, <3>2 DEF PoolInv
  <2>6. ClientInv'
    BY <1>1, <1>8, <2>1, <2>2 DEF Inv, ClientInv
  <2> QED
    BY <1>6, <1>7, <2>3, <2>5, <2>6 DEF Inv
<1>9. CASE pool[k] = None
  <2>1. PICK a \in Client \ Used :
                /\ pool' = [pool EXCEPT ![k] = [refs |-> 1, client |-> a]]
                /\ held' = [held EXCEPT ![m] = a]
                /\ open' = open \cup {a}
    BY <1>1, <1>9 DEF Provision, LoadOrNew
  <2>2. /\ pool'[k] = [refs |-> 1, client |-> a] /\ pool'[k] # None
        /\ \A j \in PoolKey : j # k => pool'[j] = pool[j]
    BY <1>1, <2>1, MountAssumption DEF Inv, TypeOK
  <2>3. TypeOK'
    BY <1>1, <1>6, <1>7, <2>1 DEF Inv, TypeOK
  <2>4. \A x \in AllMounts : held'[x] = IF x = m THEN a ELSE held[x]
    BY <2>1 DEF Inv, TypeOK
  <2>5. Users(k) = {} /\ Users(k)' = {m}
    BY <1>1, <1>3, <1>9 DEF Inv, PoolInv, Counted
  <2>6. PoolInv'
    <3>1. Counted(k)'
      BY <1>1, <1>4, <1>5, <2>1, <2>2, <2>4, <2>5 DEF Counted
    <3>2. ASSUME NEW j \in PoolKey, j # k PROVE Counted(j)'
      <4>1. \A x \in Users(j) : x # m /\ x \in AllMounts
        BY <1>1, <3>2 DEF Users
      <4>2. pool'[j] = pool[j] /\ Users(j)' = Users(j) /\ open \subseteq open'
        BY <1>3, <2>1, <2>2, <3>2
      <4> QED
        BY <2>4, <4>1, <4>2 DEF Inv, PoolInv, Counted
    <3> QED
      BY <3>1, <3>2 DEF PoolInv
  <2>7. \A j \in PoolKey : pool[j] # None => pool[j].client # a
    BY <2>1 DEF Inv, PoolInv, Counted, Used
  <2>8. ClientInv'
    <3>1. pool'[k].client = a
      BY <2>2
    <3> QED
      BY <1>1, <1>9, <2>1, <2>2, <2>7, <3>1 DEF Inv, ClientInv
  <2> QED
    BY <1>6, <1>7, <2>3, <2>6, <2>8 DEF Inv
<1> QED
  BY <1>8, <1>9

(* Cleanup gives one reference back: the client stays open for the users that *)
(* are left, and is closed when there are none.                               *)
LEMMA StopStep ==
    ASSUME Inv, NEW c \in Config, NEW m \in Member[c], Stop(c, m)
    PROVE  Inv'
<1>0. m \in AllMounts /\ Ready(m)
  BY DEF Stop, Ready, AllMounts
<1>1. PICK k \in PoolKey : k = clientPoolKey(block[m]) /\ m \in Users(k)
  BY <1>0, ReadyMount DEF Inv
<1>2. \A x \in AllMounts : /\ state'[x] = IF x = m THEN "cleaned" ELSE state[x]
                           /\ held'[x] = IF x = m THEN None ELSE held[x]
                           /\ Ready(x)' <=> Ready(x) /\ x # m
                           /\ block'[x] = block[x]
  BY <1>0 DEF Stop, Inv, TypeOK, Ready
<1>3. /\ Users(k)' = Users(k) \ {m}
      /\ \A j \in PoolKey : j # k => Users(j)' = Users(j)
  BY <1>0, <1>1, <1>2 DEF Users
<1>4. /\ IsFiniteSet(Users(k)) /\ IsFiniteSet(Users(k)')
      /\ Cardinality(Users(k)) \in Nat /\ Cardinality(Users(k)') \in Nat
      /\ Cardinality(Users(k)') = Cardinality(Users(k)) - 1
      /\ Cardinality(Users(k)') = 0 <=> Users(k)' = {}
  BY <1>1, <1>3, FS_RemoveElement, FS_CardinalityType, FS_EmptySet DEF Inv, PoolInv, Counted
<1>5. /\ pool[k] # None /\ pool[k] \in [refs : Nat \ {0}, client : Client]
      /\ pool[k].refs = Cardinality(Users(k)) /\ pool[k].client \in open
      /\ \A x \in Users(k) : held[x] = pool[k].client
  BY <1>1 DEF Inv, PoolInv, Counted, TypeOK
<1>6. CacheInv' /\ BlockInv'
  <2>1. phase' = phase /\ block' = block /\ cache' = cache /\ phase[c] = "stopping"
    BY DEF Stop
  <2>2. \A d \in Config : phase[d] = "new" => m \notin Member[d]
    BY <2>1, MountAssumption
  <2>3. BlockInv'
    BY <1>2, <2>1, <2>2 DEF Inv, BlockInv, AllMounts
  <2>4. CacheInv'
    BY <1>2, <2>1 DEF Inv, CacheInv
  <2> QED
    BY <2>3, <2>4
<1>7. ASSUME NEW j \in PoolKey, j # k, pool'[j] = pool[j], open \ {pool[k].client} \subseteq open'
      PROVE  Counted(j)'
  <2>1. \A x \in Users(j) : x # m /\ x \in AllMounts
    BY <1>1, <1>7 DEF Users
  <2>2. pool[j] # None => pool[j].client \in open'
    BY <1>1, <1>5, <1>7 DEF Inv, PoolInv, Counted, ClientInv
  <2> QED
    BY <1>2, <1>3, <1>7, <2>1, <2>2 DEF Inv, PoolInv, Counted
<1>8. CASE pool[k].refs > 1
  <2>1. pool' = [pool EXCEPT ![k].refs = @ - 1] /\ open' = open
    BY <1>1, <1>5, <1>8 DEF Stop, Cleanup, Delete
  <2>2. /\ pool'[k] # None /\ pool'[k] \in [refs : Nat \ {0}, client : Client]
        /\ pool'[k].refs = pool[k].refs - 1 /\ pool'[k].client = pool[k].client
        /\ \A j \in PoolKey : j # k => pool'[j] = pool[j]
    BY <1>1, <1>5, <1>8, <2>1, MountAssumption DEF Inv, TypeOK
  <2>3. TypeOK'
    BY <1>0, <2>1, <2>2 DEF Stop, Inv, TypeOK
  <2>4. Counted(k)'
    <3>1. \A x \in Users(k)' : held'[x] = pool[k].client
      BY <1>2, <1>3, <1>5 DEF Users
    <3> QED
      BY <1>4, <1>5, <2>1, <2>2, <3>1 DEF Counted
  <2>5. PoolInv'
    BY <1>7, <2>1, <2>2, <2>4 DEF PoolInv
  <2>6. ClientInv'
    BY <1>1, <1>5, <2>1, <2>2 DEF Inv, ClientInv
  <2> QED
    BY <1>6, <2>3, <2>5, <2>6 DEF Inv
<1>9. CASE ~(pool[k].refs > 1)
  <2>1. pool' = [pool EXCEPT ![k] = None] /\ open' = open \ {pool[k].client}
    BY <1>1, <1>5, <1>9 DEF Stop, Cleanup, Delete
  <2>2. pool'[k] = None /\ \A j \in PoolKey : j # k => pool'[j] = pool[j]
    BY <1>1, <2>1 DEF Inv, TypeOK
  <2>3. TypeOK'
    BY <1>0, <2>1 DEF Stop, Inv, TypeOK
  <2>4. Counted(k)'
    BY <1>4, <1>5, <1>9, <2>2 DEF Counted
  <2>5. PoolInv'
    BY <1>7, <2>1, <2>2, <2>4 DEF PoolInv
  <2>6. ClientInv'
    BY <1>1, <1>5, <2>1, <2>2 DEF Inv, ClientInv
  <2> QED
    BY <1>6, <2>3, <2>5, <2>6 DEF Inv
<1> QED
  BY <1>8, <1>9

(* One step of Next keeps the invariant, one proof step per action. *)
LEMMA NextInv == Inv /\ [Next]_vars => Inv'
<1> SUFFICES ASSUME Inv, [Next]_vars PROVE Inv'
  OBVIOUS
<1>1. CASE UNCHANGED vars
  <2>1. TypeOK' /\ BlockInv'
    BY <1>1 DEF vars, Inv, TypeOK, BlockInv
  <2> QED
    BY <1>1, <2>1, QuietStep DEF vars, Ready
<1>2. ASSUME NEW c \in Config, Load(c) PROVE Inv'
  <2>1. PICK b \in [Member[c] -> {w \in Written : Parses(w)}] :
           block' = [m \in AllMounts |-> IF m \in Member[c] THEN b[m] ELSE block[m]]
    BY <1>2 DEF Load
  <2>2. /\ phase[c] = "new" /\ phase' = [phase EXCEPT ![c] = "loading"]
        /\ UNCHANGED <<state, held, cache, pool, open>>
    BY <1>2 DEF Load
  <2>3. \A m \in Member[c] : m \in AllMounts /\ ~Ready(m)
    BY <2>2 DEF Inv, BlockInv, Ready, AllMounts
  <2>4. TypeOK'
    BY <2>1, <2>2 DEF Inv, TypeOK
  <2>5. BlockInv'
    <3> SUFFICES ASSUME NEW d \in Config, NEW m \in Member[d]
                 PROVE  /\ phase'[d] = "new" => state'[m] = "unborn"
                        /\ phase'[d] # "new" => block'[m] \in Written /\ Parses(block'[m])
      BY DEF BlockInv
    <3>1. CASE d = c
      BY <2>1, <2>2, <2>3, <3>1 DEF Inv, TypeOK
    <3>2. CASE d # c
      <4>1. m \notin Member[c] /\ m \in AllMounts
        BY <3>2, MountAssumption DEF AllMounts
      <4>2. block'[m] = block[m] /\ phase'[d] = phase[d]
        BY <2>1, <2>2, <3>2, <4>1 DEF Inv, TypeOK
      <4> QED
        BY <2>2, <4>2 DEF Inv, BlockInv
    <3> QED
      BY <3>1, <3>2
  <2>6. \A m \in AllMounts : Ready(m) => block'[m] = block[m]
    BY <2>1, <2>3
  <2> QED
    BY <2>2, <2>4, <2>5, <2>6, QuietStep DEF Ready
<1>3. ASSUME NEW c \in Config, Activate(c) \/ Abort(c) \/ Stopped(c) PROVE Inv'
  <2>1. /\ UNCHANGED <<block, state, held, cache, pool, open>>
        /\ phase' \in [Config -> {"new", "loading", "running", "stopping", "stopped"}]
        /\ \A d \in Config : phase'[d] = "new" <=> phase[d] = "new"
    BY <1>3 DEF Activate, Abort, Stopped, Inv, TypeOK
  <2>2. TypeOK' /\ BlockInv'
    BY <2>1 DEF Inv, TypeOK, BlockInv
  <2> QED
    BY <2>1, <2>2, QuietStep DEF Ready
<1>4. ASSUME NEW c \in Config, NEW m \in Member[c], ProvisionFails(c, m) PROVE Inv'
  <2>1. /\ m \in AllMounts /\ phase[c] = "loading" /\ state[m] = "unborn"
        /\ state' = [state EXCEPT ![m] = "failed"]
        /\ UNCHANGED <<phase, block, held, cache, pool, open>>
    BY <1>4 DEF ProvisionFails, AllMounts
  <2>2. \A d \in Config : phase[d] = "new" => m \notin Member[d]
    BY <2>1, MountAssumption
  <2>3. /\ \A x \in AllMounts : state'[x] = IF x = m THEN "failed" ELSE state[x]
        /\ TypeOK'
    BY <2>1 DEF Inv, TypeOK
  <2>4. BlockInv'
    BY <2>1, <2>2, <2>3 DEF Inv, BlockInv, AllMounts
  <2> QED
    BY <2>1, <2>3, <2>4, QuietStep DEF Ready
<1> QED
  BY <1>1, <1>2, <1>3, <1>4, ProvisionStep, StopStep DEF Next

-----------------------------------------------------------------------------
(* The invariant holds throughout; the variables keep their types. *)
THEOREM TypeCorrect == Spec => []TypeOK
<1>1. Inv => TypeOK
  BY DEF Inv
<1> QED
  BY InitInv, NextInv, <1>1, PTL DEF Spec

(* Whatever reloads, failed loads and late cleanups do to the pool, a mount   *)
(* that is ready never holds a closed client.                                 *)
THEOREM ClientsOpen == Spec => []ReadyClientOpen
<1>1. Inv => ReadyClientOpen
  BY ReadyMount DEF Inv, ReadyClientOpen, PoolInv, Counted
<1> QED
  BY InitInv, NextInv, <1>1, PTL DEF Spec

(* No client is left open without a mount that uses it. *)
THEOREM NoLeak == Spec => []NoClientLeak
<1>1. Inv => NoClientLeak
  <2> SUFFICES ASSUME Inv, NEW a \in open
               PROVE  \E m \in AllMounts : Ready(m) /\ held[m] = a
    BY DEF NoClientLeak
  <2>1. PICK k \in PoolKey : pool[k] # None /\ pool[k].client = a
    BY DEF Inv, ClientInv
  <2>2. Cardinality(Users(k)) # 0 /\ IsFiniteSet(Users(k))
    BY <2>1 DEF Inv, TypeOK, PoolInv, Counted
  <2>3. PICK m \in Users(k) : TRUE
    BY <2>2, FS_EmptySet
  <2> QED
    BY <2>1, <2>3 DEF Inv, PoolInv, Counted, Users
<1> QED
  BY InitInv, NextInv, <1>1, PTL DEF Spec

(* Mounts share a client just when the credentials the pool key is made of    *)
(* agree.                                                                     *)
THEOREM Sharing == Spec => []SameCredentialsShare
<1>1. Inv => SameCredentialsShare
  <2> SUFFICES ASSUME Inv, NEW m1 \in AllMounts, NEW m2 \in AllMounts, Ready(m1), Ready(m2)
               PROVE  LET v == block[m1]
                          w == block[m2]
                          source == /\ v.credentialsConfig = w.credentialsConfig
                                    /\ v.credentialsConfig = "" =>
                                          v.credentialsFile = w.credentialsFile
                          account == v.serviceAccount = w.serviceAccount
                      IN /\ source /\ account => held[m1] = held[m2]
                         /\ held[m1] = held[m2] /\ ~Emulator =>
                              /\ source
                              /\ \/ account \/ v.credentialsConfig # ""
                                 \/ v.credentialsFile # ""
    BY DEF SameCredentialsShare
  <2> DEFINE v == block[m1]
             w == block[m2]
  <2>1. /\ clientPoolKey(v) \in PoolKey /\ m1 \in Users(clientPoolKey(v))
        /\ clientPoolKey(w) \in PoolKey /\ m2 \in Users(clientPoolKey(w))
    BY ReadyMount DEF Inv
  <2>2. held[m1] = held[m2] <=> clientPoolKey(v) = clientPoolKey(w)
    BY <2>1 DEF Inv, PoolInv, Counted, ClientInv
  <2>3. CASE Emulator
    <3>1. clientPoolKey(v) = clientPoolKey(w)
      BY <2>3 DEF clientPoolKey
    <3> QED
      BY <2>2, <2>3, <3>1
  <2>4. CASE ~Emulator
    BY <2>2, <2>4, KeysAgree
  <2> QED
    BY <2>3, <2>4
<1> QED
  BY InitInv, NextInv, <1>1, PTL DEF Spec

(* Every mount has the cache its block asks for. *)
THEOREM CacheTheorem == Spec => []CacheAsConfigured
<1>1. Inv => CacheAsConfigured
  <2> SUFFICES ASSUME Inv, NEW m \in AllMounts, Ready(m)
               PROVE  LET w == block[m]
                          made == cache[m]
                      IN /\ made.ttl = 0 <=> (w.ttl # Unset /\ w.ttl < 0)
                         /\ w.ttl \in {Unset, 0} => made.ttl = DefaultTTL
                         /\ w.ttl # Unset /\ w.ttl > 0 => made.ttl = w.ttl
                         /\ made.entries = IF w.entries = Unset THEN DefaultMaxEntries
                                                                ELSE w.entries
                         /\ made.entries > 0
    BY DEF CacheAsConfigured
  <2>1. block[m] \in Written /\ Parses(block[m])
    BY ReadyMount DEF Inv
  <2>2. cache[m] = [ttl |-> CacheTTL(block[m]), entries |-> MaxEntries(block[m])]
    BY DEF Inv, CacheInv
  <2>3. cache[m].ttl = CacheTTL(block[m]) /\ cache[m].entries = MaxEntries(block[m])
    BY <2>2
  <2> QED
    BY <2>1, <2>3, CacheSettings
<1> QED
  BY InitInv, NextInv, <1>1, PTL DEF Spec
=============================================================================
