# TLA+ models of caddy-fs-gcs

caddy-fs-gcs is a set of Caddy modules that serve files from a Google Cloud
Storage bucket. This directory holds TLA+ models of the parts of it that keep
state, TLC runs over small instances, and TLAPS proofs. `PROJECT.json` maps every definition to
the source lines it models and lists the runs, the hazards they are for, the
mutants that show the properties have teeth, the findings and the theorems.

## The system

| Part | State | Operations | Meets |
|---|---|---|---|
| Attribute cache, `pkg/gcs/fs/attrcache.go` | map, key slice, key index under one RWMutex; two counters; a process-wide clock | `get`, `set`, `setNotFound`, eviction inside both stores, a ticker goroutine | called by `Stat` and `translateError` from every request goroutine |
| Stat and negative caching, `pkg/gcs/fs/gcsfs.go` | none of its own; the cache and the bucket | `Stat`, `translateError`, error paths of `Read` and `ReadDir` | GCS (two calls per Stat), the cache |
| File handle, `pkg/gcs/fs/gcsfs.go` | range reader, position, size, sniff buffer | `Read`, `Seek`, `Close` | GCS readers; driven by `http.ServeContent` |
| Filesystem module, `pkg/gcs/fs/module.go` | the mount's client, cache and pool key; a process-wide client pool | `UnmarshalCaddyfile`, `Provision`, `Cleanup` | Caddy's config loads, `caddy.UsagePool` |
| Health handler, `pkg/observability/health` | registered checkers, composite checker, startup flag under an RWMutex | `Provision`, `AddHealthChecker`, six endpoints, GCS and composite checkers | GCS; probed concurrently by Kubernetes |
| Metrics, `pkg/observability/metrics/metrics.go` | OTel instruments and provider behind a `sync.Once`; a pool of response writers | `Init`, `Shutdown`, `Record*`, the `gcs_metrics` middleware | Provision of two handlers; the mounts' callbacks read the instruments without a lock |
| Prometheus endpoint, `prometheus_endpoint.go` | start time, an atomic counter | `Provision`, four read-only endpoints | promhttp |
| Tracing, `pkg/observability/tracing` | tracer, provider and `initialized` under one mutex; OTel's global provider | `Init`, `Shutdown`, `GetTracer`, `StartSpan` | OTel and its collector |
| Validation, `pkg/validation` | registry of rules, last result, each under an RWMutex | `RegisterRule`, `ValidateField`, `ValidateConfig`, four endpoints | clients that post configurations |
| Error pages, logger, plugin, main | none | embedded files, formatting, registration | |

What is hard here: the cache's check-then-act under two locks and its three
structures kept in step by hand; Stat's two GCS calls with a bucket that
changes between them and a cache written after both; a file handle in which
buffer, reader and position have to agree after any sequence of calls; pooled
clients over overlapping configs; probes that race with each other, with
registration and with outages; instruments that are assigned one by one while
others read them; pooled writers that carry one request's fields into the next;
a tracer that is rebuilt while spans are started without the lock. `PROJECT.json` lists each of these as a hazard
at its line, with the properties aimed at it.

## Modules

| Module | Models | Uses |
|---|---|---|
| `TTLMap` | abstract: a bounded map with expiry, entries leave it only expired or when it is full | |
| `LiveCache` | abstract: the cache as readers see it, with relative time | |
| `AttrCache` | `attrcache.go`, by lock section and clock reading | refines `TTLMap` and `LiveCache` |
| `GcsStat` | Stat, Read and ReadDir of `gcsfs.go` against cache and bucket | extends `LiveCache` |
| `ReadSeeker` | abstract: io.ReadSeeker | |
| `GcsFile` | Read, Seek, Close of `gcsFile` | refines `ReadSeeker` |
| `ServeContent` | a GET request: net/http's calls on a `gcsFile` | extends `GcsFile` |
| `Mount` | `module.go` over config reloads, with the client pool | |
| `Health` | `health_endpoint.go` and `health.go` | |
| `Metrics` | `metrics.go`: Init and Shutdown, recording, the middleware | |
| `Tracing` | `tracing.go` | |
| `Validation` | `config.go` and `validation_endpoint.go` | |
| `MC*` | constants for TLC | |
| `AttrCacheProofs`, `GcsStatProofs`, `MountProofs`, `HealthProofs`, `MetricsProofs`, `TracingProofs`, `ValidationProofs` | theorems | extend the module they are named after |
| `GcsFileProofs` | theorems about the handle and the GET | extends `ServeContent` |

**AttrCache.** `entries`, `keys` and `keyIndex` are the Go fields; an absent key
is `Absent` or 0. `mu` is the holder of the write lock; the read section of
`get` is one map read and so one step. `pc` is where a goroutine is. `get` is
`GetCall`, `GetLookup` (read-locked), `GetCheck` (clock), `GetRelock` (the second
critical section); `set` and `setNotFound` are `SetCall`, `SetLock`, one
`EvictSample` per loop iteration with any random index, `EvictOldest`, `Insert`.
`ev` is the frame of `evictIfNeeded`. The clock moves between any two steps;
with `ClockSteps` it may also go back, because `sharedClock` holds wall-clock
time. The atomic counters cannot be wrong on their own, and bound the gets.

**GcsStat.** The cache is `LiveCache`'s, which `AttrCache` is shown to implement.
Each GCS call is a step, may fail, and sees the bucket as it is then; the write to
the cache is another step. `translateError` is a step of its own because it
stores a negative entry. `held` remembers what each path has been, and `unsure`
which paths were reported missing although they never had been. The bucket
itself may disappear. Paths with an extension are not probed as directories.

**GcsFile.** A byte is an offset and a generation. `from`, `n` and `gen` record what
the last operation delivered. Reads may be short; with `Faults` a stream may also
break off while the sniff buffer is filled or a seek skips ahead. The size
`SeekEnd` takes from Stat may be that of any generation, because Stat may answer
from the cache.

**ServeContent** drives the same actions in net/http's order: if the content type is
not known from the name or set by the caller (`guess`), `io.ReadFull` of the first
bytes, whose error net/http ignores, and a rewind; then `sizeFunc`'s Seek to the end
and back; the Seek to the range; the copy. Ranges run to the end of the object, but
the copy may stop anywhere, as it does for a shorter range or a client that is
gone. Multipart ranges are not modelled.

**Mount.** Caddy's part is external: a config is loaded while the old one runs,
its mounts are provisioned one by one, then it replaces the old one, whose mounts are
cleaned up at any later time, or it is dropped when a mount fails. The
Caddyfile path is modelled as it is: the parsed module is encoded as JSON by the
adapter and decoded into a fresh module. `(*gcsFS).Sub` never fails, so
Provision's error return after it is dead code and is not modelled.

**Health.** A request reads the flag, reads the composite (without the lock),
asks GCS one call at a time and, for `/startup`, sets the flag; everything else
runs in between. A response is its HTTP code. `since`, `knew`, `passed`,
`verified`, `atProvision` and `announced` are history variables.

**Metrics.** `Init` is a step for the exporter and one per instrument, under
`metricsMu`; a failed exporter ends the process, because the `Once` is replaced inside
its own `Do`. The recording helpers are a table: the instrument each tests and
those it uses. Mounts call the ones for GCS at any time, also while the first
`Init` assigns the instruments; as that is a data race, any of the
assignments may then not have reached the reader, and a panic owed to that alone
is marked `"race"`. Requests of a config that serves cannot meet an `Init` that
assigns (`NoRacyInit`), so `RecordHTTPRequest` is one step. The writer's `status` and
`size` are what the code keeps; `wire` and `sent` are what net/http really sent.
`Shutdown` is for tests (its comment) and called while nothing serves.

**Tracing.** `initMu` covers the slow parts of `Init` and `Shutdown`, so each is two
steps, the second at any later time and possibly failing. A tracer is the
provider it came from. `otel.Tracer` is OTel's global provider, which `Shutdown`
leaves pointing at the stopped one.

**Validation.** A text is the set of facts the rules ask of it, and a value has Go's
type. `ValidateConfig` takes the fields one by one in any order, looking up the rule
each time; `rules` may change in between. Nothing in the repository registers a
rule after `Provision`, so `RegisterRule` is a generalisation for programs that embed
the validator. The code looks a rule up twice per field, but uses the
first answer only for a missing field and the second only for one that is there, so a
field is one step. `ValidateField` changes nothing, and `VerdictExplained` judges it on
all values in every state without calls. Storing the result, answering, and reading
the status are separate steps.

## Runs

Passing runs:

- `attr_structure` (2 goroutines, clock in both directions): `TypeOK`,
  `IndexConsistent`, `SizeBound`, `EvictionSafe`. The cache is smaller than the
  key set, so every store beyond the bound evicts; sampling is with replacement
  and may miss a key, so eviction meets expired, live and mixed samples.
- `attr_contract` (2 goroutines, 2 keys, forward clock): `LifetimeBounded`,
  refinement of `TTLMap` and `LiveCache`, and `CallsReturn`. Strong fairness of each
  goroutine's steps: a blocked `sync.RWMutex` caller is admitted in the end (waiting
  writers block new readers; mutexes hand over in starvation mode). Nobody has
  to call, and the clock need not move.
- `stat` (root, a file, a directory; 2 goroutines; one change of the bucket):
  `PositiveConfirmed`, `NegativeConfirmed`, `DeletionNoticed`. Weak fairness of
  the clock (a ticker) and of calls in progress (they end in an answer or in
  `opTimeout`). One change is enough for an answer to be stale when it is cached.
- `file` (sniff size 2, skip threshold 3, object sizes 0, 1, 3 and 6): `InStep`,
  `ImplementsReadSeeker` for callers that seek to valid offsets.
- `serve_get`: `ReadersPerGet`, `BodyOneGeneration`, `BodyContiguous`, with the
  object overwritten and streams breaking off at any moment. The objects are shorter
  than, as long as and longer than the buffer, and the ranges begin within and behind it.
- `mount_reload` (three loads, the second with two mounts; six blocks):
  `ReadyClientOpen`, `NoClientLeak`, `SameCredentialsShare`, `CacheAsConfigured`.
  Deadlock checking is off because the loads are finite.
- `health_probes` (2 requests, 2 checkers, one failing call at a time):
  `StartupVerified`, `HealthyMeansChecked`, `NoRelapse`, `StartupCompletes`. Weak
  fairness of requests and of Caddy bringing the handler up; strong fairness of
  startup probes, which stands for a kubelet that keeps probing.

- `metrics` (3 loads, 2 providers, 2 requests, 2 pooled writers, bodies of one
  unit): `ServesComplete`, `RecordNilSafe`, `RecordedTruth`, `NoRacyInit`. Three loads
  are a failed one, one that runs and a reload; two providers are one before and
  one after a `Shutdown`. Deadlock checking is off because a failed exporter ends the
  process and the loads are finite.
- `tracing` (3 goroutines, 2 providers): `NoProviderLost`, `SpansReachProvider`,
  `CallsReturn`. Strong fairness of each goroutine's
  steps, as for the cache: a `sync.Mutex` is handed to a waiter that has starved, and
  a construction or a flush ends, if only with its context's error.
- `validation` (2 goroutines; 6 fields, 17 texts; one rule registered; two results
  stored): `VerdictExplained`, `StatusNotStale`, `LastFromAllowed`. One goroutine
  makes the long calls, validations field by field, and the other the short ones, which may
  come between any two of its steps. `Meaning` in `MCValidation` writes down, value
  by value, what the words of each rule's Description cover; where the code does
  something else the value is listed in `Lenient` or `Strict`. The module also evaluates
  `RulesMeant`, the premise of the theorem `Explanation`.

Several runs also check the module's type invariant. The number
of keys, files and requests is the smallest at which two actors can meet on one
item and a second item exists to be confused with it.

Runs that show a disagreement between code and text (each is a finding):

- `negative_expiry`: every hit on a negative entry stores it again through
  `translateError`, so a path asked for often enough stays "not found" for ever.
  It needs only the fairness of `stat`.
- `failed_seek`: a Seek to before the start fails but moves the position to 0
  without the buffer and the reader; the next Read returns other bytes.

Other disagreements are exceptions written into a passing property, which fails
without them:

- `NegativeConfirmed` (`unsure`): four answers are cached as "not found" although the path
  was there, always a directory: its probe failed, it was not probed because of an
  extension, it became an object between Attrs and the probe, or somebody read it as a
  file. The comment above the first forbids it: `translateError` stores the entry `Stat`
  took care not to store.
- `ReadersPerGet`, `BodyOneGeneration` (`Resumed`): the sniff buffer is to save a second GCS
  reader, and does not. The rewind after the sniff leaves it unread, so the Seek to the
  end that follows closes the reader, and an object longer than the buffer needs another
  one behind it; a body that begins in the buffer and goes on behind it may then be of
  two generations. This takes no fault and, for the second reader, no overwrite.
- `CacheAsConfigured`: `cache_ttl 0` in a Caddyfile does not disable the cache.
- `StartupVerified` (`atProvision`): a checker registered after Provision is never
  asked by `/startup`. Only tests call `AddHealthChecker`, and a handler built by Caddy
  cannot have a checker before Provision, so a shipped `/startup` never
  contacts GCS.
- `SameCredentialsShare`: `service_account` next to credentials does not count.
- `ServesComplete`, `RecordNilSafe` (`failed`, `stuck`): an instrument that cannot be
  created leaves a package that calls itself initialised and panics on requests; a
  provider that cannot be shut down stays. In `RecordNilSafe` the data race is
  excepted too.
- `RecordedTruth` (`neat`): errors are recorded as 500 whatever their code; an
  informational or repeated status, a failed write, and an error after a bare
  Flush or an empty copy are recorded as something the client did not get.
- `VerdictExplained` (`Lenient`, `Strict`): rules let through values their Description
  excludes (`"80abc"` as a port, any string as an optional integer) and report values it
  covers (blank strings, negative durations).

## Proofs

TLAPS checks every invariant, action property and refinement the passing runs
check, for all values of the constants; the liveness properties stay with TLC
(below). Each proof
module states an inductive invariant (checked by TLC on the run's instance before it
was proved), has one lemma per action, and derives the theorems from it.
The assumptions are those of the model: types of the constants, and that the
stand-ins for Go's nil (`Absent`, `None`, `Nil`, `NoReader`, `Unset`) are none of the
values they stand beside.

**AttrCacheProofs**, for all keys, goroutines, `MaxEntries`, sample sizes and lifetimes.
With a clock that may go back: `TypeCorrect`, `IndexTheorem`, `SizeTheorem`,
`EvictionTheorem`. The inductive invariant is
`TypeOK /\ IndexConsistent /\ LockInv /\ RoomInv /\ EvictionSafe`. `LockInv` says that
only the lock's holder is past `Lock`; `RoomInv` that there is room for one more
entry whenever a store is about to insert and as soon as an eviction has removed
something, which `SizeBound` needs and does not itself imply; `EvictionSafe` needs
`IndexConsistent`, since the remembered position is meaningful only while
positions name keys. With a clock that only goes forward (`~ClockSteps`; a clock set
back does lengthen lives): `LifetimeTheorem`, `RefinesTTLMap` and `RefinesLiveCache`.
They add `EvictInv`: an eviction's reading of the clock is not in the future, so what it
takes for expired is, and the cache is full until it has removed an entry.

**GcsStatProofs**, for all paths, goroutines, changes of the bucket and lifetimes:
`PositiveTheorem`, `NegativeTheorem`. The properties are about the cache, but a cache
write is as true as what the goroutine carries to it. The invariant therefore
says, for each point of a call (`Claim`), what its answer from GCS established: the
path has had this kind, or has been missing, or is one of the directories `unsure`
records; that no other path is recorded follows from what Attrs has seen when the
probe is made. It stays true because the history only grows.

**GcsFileProofs**, for every sniff size, threshold, set of sizes and number of
generations. The handle, if no caller seeks to before the start (`~BadSeeks`;
`failed_seek` shows that this is needed): `TypeCorrect`, `HandleInStep`, and
`Refinement` to io.ReadSeeker. `TypeOK /\ InStep` is inductive; the
refinement follows because within the buffer its cursor is the position and
outside it an open reader is. The GET, whose seeks are never negative: `ReadersOpened`,
`OneGeneration`, `Contiguous`. The invariant (`SInv`) says, phase by phase, how many readers
have been opened by then and when one is open (`OpenInv`: a second one is
opened only behind the buffer of a guess, and then stays), that what was sent came from the
reader that is open, which is also the buffer's, unless the body begins in the buffer of a
guess (`BodyInv`; `Kept` names that case, where the buffer alone must suffice). The
properties' exceptions are where just these parts fail.

**MountProofs**, for all configs, mounts, clients and blocks that parse: `TypeCorrect`,
`ClientsOpen`, `NoLeak`, `Sharing`, `CacheTheorem`. The heart is `PoolInv`: a pool
entry's reference count is the number of provisioned mounts with its key, all of which
hold its client, which is open. `Sharing` and `CacheTheorem` rest on lemmas about
the pool key and about the way of a block through Caddyfile, JSON and Provision.

**HealthProofs**, for all checkers, requests and failing calls: `TypeCorrect`, `Startup`,
`Checked`, `Monotone`. What a request has still to ask and what has passed
together cover the checkers it has to answer for (`CoverInv`); a probe that arrived
after an announcement meets the flag set (`FlagInv`).

**MetricsProofs**, for all requests, writers, loads and providers: `Complete`, `NilSafe`,
`Truth`, `NoRace`. Unless one has failed, the instruments are made in order, so a helper
meets a prefix of them (`InstrumentInv`); a request in progress has a writer of its own
(`WriterInv`), which knows the status and the bytes of a neat response (`NeatInv`).

**TracingProofs**, for all goroutines and providers: `TypeCorrect`, `ProviderKept`,
`SpansKept`. `Protocol` adds that the goroutine
between the two steps of an `Init` or a `Shutdown` holds `initMu`, that what it
decided on taking the lock still holds, and that provider numbers are fresh.

**ValidationProofs**, for all goroutines, requests, texts, registrations and numbers of
results: `NotStale`, `Allowed`, `Explanation`. `LastInv` says that the last result has
the highest number and nobody was told of a higher one; `RequestInv` what has
been decided of a request at each point, and that one whose body does not decode gets
no further; `Checked` that each field looked at was judged
by the rules of a registry in force since the call began. `Explanation` has the premise
`RulesMeant`, that `Meaning` is what the default rules do but for the values
`Lenient` and `Strict` list: a statement about constants, which TLC evaluates on the instance.

Only model-checked: what has to happen in the end (`CallsReturn` of `AttrCache` and
`Tracing`, `DeletionNoticed`, `StartupCompletes`), since liveness under
fairness is out of the prover's reach.

## Not modelled, and what was seen on the way

- The Prometheus endpoint beyond `Provision`: its handlers print a counter and
  the start time and call promhttp. `MaxRequestsInFlight` is given to a handler built
  for each request, so the limit never applies.
- Of validation, the other tables of rule names and the functions that only read the
  registry. The deadline of a validation is looked at once, after the body
  has been read, which itself is not bounded by it; "live" validation checks the
  same things as the plain one.
- After `Init` with exporter "none", `Shutdown` returns early and the package stays
  initialized, so no later `Init` does anything, although "Shutdown gracefully shuts down
  the tracer" (`tracing.go:128`) and the package's test expects `initialized` to be false
  after it (for a real exporter). `Tracing` models it; a property would only restate the
  early return.
- Error pages, logger, plugin registration, main: no state.
- Response writers that are hijacked: the connection leaves the middleware.
- `ReadDir`'s iterator and batching, path joining, events.
- On a mount with a prefix, a Read of the root asks GCS for the object named by the
  prefix; the answer "not found" is cached under the root's key, and Stat of
  the root then reports a missing root for a while.
- Provision's dead branch after `Sub` clears the pool key but not the client; were
  it taken, the Cleanup that follows would close the shared client.
- Configurations written as JSON, where `cache_max_entries` is not checked for being
  negative; a Caddyfile is refused, and `CacheAsConfigured` shows that its caches have
  room for at least one entry, which is what `AttrCache` assumes.

## Plan

Done: all modules of the table above, and the proof of every safety property and
refinement the passing runs check.

1. `ReadDir` with its iterator in `GcsFile`; the cache switched off in `GcsStat`.
2. Proofs: that the states from which `CallsReturn` could fail to make progress do
   not arise (the lock's holder always has a step), as safety statements beside the
   liveness runs.
