# A TLA+ verification of Forge for Deno

Forge (`src/`) is a TypeScript library for Deno services: a runtime for the
Goforge WebAssembly component, cryptography in software, in PKCS#11 tokens and
in cloud key services, configuration, logging, HTTP and gRPC, security
middlewares, background jobs and workers.  This directory models its parts,
checks them with TLC and proves with TLAPS, for every value of the constants, all
the safety properties that TLC finds to hold.

JavaScript decides the grain of every model.  A handler runs to completion, so
one synchronous stretch of code is one action, with every call it makes.  An
`await` ends the action; what is awaited settles in another one, and anything
else may run in between.  There are no data races, but there is every
interleaving of continuations, aborts, timers and settlements.

## Inventory

| Component | State it keeps | Operations | Talks to | What is hard | Correct means | Module |
|---|---|---|---|---|---|---|
| WASM instance pool (`wasm/runtime.ts`, class `InstancePool`) | entries, busy flags, FIFO of waiters, count of creations, close state | acquire, release, abort of a waiter, create/close settle, close | factory, runtime | creations racing aborts, failures and the close; who pumps the queue | bounded, exclusive, FIFO, no lost wake-up, empty when closed | `InstancePool` |
| WASM runtime (`wasm/runtime.ts`) | lifecycle state, load promise, active calls, background work | preload, invoke (pool or native adapter), retry, abort, health, close | pool, adapters, bundle | abort against a settled answer, late answers after the abort, shutdown order | no instance leaked or reused after a cancel, attempts bounded, calls and close settle | `WasmRuntime` |
| Bundle and factory (`wasm/{manifest,component,wasi}.ts`) | what was verified, the caches of glue and modules | verify, create, instantiate, close | files, runtime | files replaced while they are verified and between instances | only verified bytes run | `Bundle` |
| Adapter registry (`wasm/adapters.ts`, `native.ts`) | adapters by name, the ledger of qualified objects, closed flag | qualify, record, register, unregister, resolve, close | runtime | an await per vector, copies that share an array with an adapter that may change, replaced registrations, failing closes | only what vectors covered is routed; each adapter is closed | `NativeAdapters` |
| Portable operations and codec (`wasm/{native,codec}.ts`) | none | eight operations on payloads | adapters | limits at their edges, order of checks | round trips | `Portable` |
| PKCS#11 sessions (`encrypt/pkcs11/session.ts`) | pool of sessions, waiters, cached login, drain | withSession (acquire, login, release), releaseModule | token | cached login against a token that restarts, drain against calls under way | counted, exclusive, capacity reaches waiters, stale login recovers | `SessionPool` |
| PKCS#11 module registry (same file) | loads and slot resolutions as promises, by path and selector | acquireModule, resolveSlot, releaseModule | FFI | failed promises cached or dropped while others share them, finalize under others | what is registered is initialised; calls share one slot state | `ModuleRegistry` |
| PKCS#11 provider (`repository.ts`, `keys.ts`, `uri.ts`, `config.ts`) | keys on the token | generate, rotate, deactivate, sign, ECDH, find | sessions, FFI | several token calls, each may fail or be outlived by an abort | a reference means one key, rotation is all or nothing, derived secrets are destroyed | `Pkcs11Provider` |
| PKCS#11 binding (`ffi.ts`) | the operation active on a session | find, transform, verify, attributes | library | failure between start and end, batches, changes by other processes | sessions left idle, results are the token's | `Cryptoki` |
| Software crypto (`encrypt/local`) | none | envelopes, signatures | Web Crypto | a parameter bound on one side only | opens only as sealed | `LocalCrypto` |
| Cloud KMS (`encrypt/common`, adapters) | lazily made client | get, rotate, deactivate, cipher | services | creation raced for and failing | one client serves all | `CloudKms` |
| Configuration (`tools/utilities/{config,ini,values}.ts`) | current configuration, the process environment | loadEnv | files, environment | layers, types, concurrent loads that export | loading again gives the same settings | `Config` |
| Logger (`logger/{builder,sanitizer}`) | attributes, level, test mode | with, log | sinks | nesting, JSON in strings, headers | nothing sensitive written | `Logging` |
| File sink of the logger (`logger/sink/file.ts`) | active flag, cached size, last name; the active file and the backups on disk | write, rotate, prune, compress | file system, clock, tee | compression in the background overlaps rotations and pruning; each file operation may fail | no line lost, size and retention bounds kept | `FileSink` |
| HTTP and gRPC servers, security, spans (`config/server`, `security/`, `telemetry/grpc.ts`) | routes, middleware, claims by request, the verifier's key | register, listen, request, shutdown | handlers | requests interleaved at every await, error paths through the chain | own claims only; log, trace and client told alike | `Services` |
| Worker loop (`tools/workers/workers.ts`) | limit, mode, queue, active count, running | addTask, setWorkersLimit, run, stop, restart, reset | tasks | limits changed and loops reset under tasks in flight | FIFO, nothing lost, within the limit, work-conserving | `Workers` |
| Job scheduler (`tools/jobs/jobs.ts`, `tools/utilities/mode.ts`) | registry of schedulers, controls, timers, execution guard | register, start, stop, pause, resume, restart, stopAllJobs | timers, callbacks | callback outliving its timeout; restart and registration orders | no overlap, no leaked timer, jobs keep running | `Jobs` |
| Tools (`cmd/`, `tools/check_*`, `research/`, `benchmarks/`, `examples/`) | none | - | - | - | - | not modelled: scripts, reports and examples |

How the modules fit together:

* `WasmRuntime` EXTENDS `InstancePool`, and every one of its steps is proved to
  be a step of the pool or to leave it alone.
* `Lending` is the abstract specification of a pool: a resource is lent to at
  most one borrower, and a borrower has at most one.  `InstancePool` and
  `SessionPool` both implement it (`Lender == INSTANCE Lending WITH ...`,
  properties `LendsInstances` and `LendsSessions`).
* `Guest` composes `Bundle`, `NativeAdapters` and `Portable`, the two targets of
  an invocation; they meet in `Route`, which needs a verified bundle.
* `Pkcs11` puts the provider and the binding side by side, `Platform` the five
  parts of a service process that share no state.  Neither side of such a
  composition writes the other's variables or reads them, so a state property of
  one holds in every interleaving if it holds while the others stutter.  Each
  behaviour therefore follows one part, chosen in `Init` (`layer`, `part`), which
  gives the sum of their state spaces in place of the product.  For the parts of
  `Platform` the argument is itself proved (`PartsOfTheProcess`, below).
* `withSession` (SessionPool) starts where the slot is resolved, which is where
  `ModuleRegistry` ends.  Jobs may add tasks to the worker loop only from a
  callback, which is just another caller of `addTask`; `Tools` therefore puts the
  worker loop and the schedulers side by side in the same way (`tool`).

## Modules

### InstancePool

`entries`, `busy`, `waiters`, `creating`, `closed`, `finalizing` are the private
fields of the class; `lease` and `retiring` are the `InstanceLease` objects in
the callers' hands; `draining`, `late` and `closePromise` are the promises that
the close is made of.  `Pump` and `MaybeFinishClose` are the two private methods
every handler ends in, written as operators on the values the handler has
assigned before the call.  `#creating` is a set of identities so that the
instances that exist can be counted; its size is the code's counter.  Which idle
entry `find` returns is left open.  `AbortEveryWaiter` is one abort of a signal
that all waiters follow (the runtime's shutdown signal): the listeners run one
after the other with no continuation in between.

### WasmRuntime

Extends the pool by `invoke`, `preload` and `close`.  An invocation has a front
(`pc`, the async function) and a back (`background`, the promise that
`#trackBackground` keeps): after an abort the front returns while the back waits
for the guest and then discards the instance.  `raceWithSignal` is modelled by
its microtasks: an abort may come after the promise has settled and before the
race has seen it (`Rejectable`), or after that (`Due`).  Operations, payloads
and codecs are left out: a dispatch ends as "ok", "transient" (what
`#isSafeTransient` accepts) or "failed".  `InvokeInvalid` is a call whose
`timeoutMs` or `deadline` makes `resolveDeadline` throw; it is bounded by
`MaxInvalid`.

### SessionPool

One slot: `withSession` from the resolved slot to the release, the login the
calls share, `releaseModule` and its drain.  The token is external: it knows
sessions from `openSession` to `closeSession`, forgets the login with the last
session, may refuse sessions and logins, and may restart (`MaxRestarts`).  Its
handles are not issued again while this process still holds them.  Idle sessions
are a set, because nothing depends on the order `pop` takes them in.  The last
close of a drain, the wake-up after it and the reset of the login are one
action: their continuations are queued ahead of those of any call that could
see a state in between.  `wasted` is history: the wake-ups that went to a waiter
whose signal had aborted, and from there to nobody.  Other pools on the same
token, and `C_Finalize`, are in `ModuleRegistry`.

### Workers, Jobs, Tools

All exported functions of the module and the settlement of a task.  A task is its
place in the order of `addTask`.  `limit` takes the values callers give,
verbatim, 0 and negative ones included.  `settled` and `dropped` are history.

Control objects are the jobs; `Controls` bounds the registrations, since a
control is never reused.  An interval or cron tick that finds nothing to do
changes nothing and is left out.  `phase` is where `#execute` is: racing its
callback against the timeout, or, after the timeout, still guarding the callback
until it settles.  `muted` is a history variable: jobs registered on a started
instance in test mode, which the code registers without a timer.

### FileSink

`active`, `currentSize` and `lastRotationTime` are the fields of the sink's
state; `log` is the active file (the lines in it, its size, its time of change)
and `backups` the files `listBackups` would list, each with the time in its
name, plain or compressed.  A call of the sink is synchronous and one action,
with the rotation, the pruning and the append it makes.  `jobs` are the calls of
`compressBackup`, one stage per awaited file operation; their temporary files
have names that are not listed and are left out.  The file system and the clock
are external: up to `MaxFaults` operations fail, wherever the code makes one,
and the clock advances up to `MaxTime`.  Rotation switched off is a `MaxSize`
that is never reached.  A process may end at any time and the next one builds
the sink from what is on disk, once the clock has passed every name given out.
`expired` is history: the lines that retention removed.

### Lending

One variable, `loan`, from borrowers to what they hold.  `Lend`, `Return` and
`HandOver` (a resource goes straight from one borrower to another, as a release
that pumps the queue does).  It stands for no code of its own; the refinement
mappings are the `Lender` instances in the two pools.

### ModuleRegistry

`registry` maps a path to the index of its entry, `entries` and `states` are the
promises and slot states ever made.  A load goes through the binding's steps
(load, initialise, list the slots, read the mechanisms), each of which may fail.
The library is external: one for all paths, initialised or not.  `clobbered` and
`overlapped` are history: a failed load that removed a newer entry, and a
finalize under another live entry.

### Pkcs11Provider, Cryptoki, Pkcs11

The provider's state is the token's objects; a call holds a session while it
runs (`MaxSessions`) and takes one step per token call it awaits.  Every token
call may be refused, and an abort may send the caller home with the rest still
to run.  Objects have class, label, id, kind, size and the usages enabled; key
bytes are left out.  The text of an attribute that was never fetched is as many
zero bytes (`Zeroed`; its lengths are not told apart), and `read` says of a call
whether its description of a key was fetched.  A signature is what was done to its input (`form`), so that
hashing twice or not at all is seen.  `Cryptoki` models each method of
`FfiModule` by the C functions it calls on one session, each of which may fail
but `C_FindObjectsFinal`, whose code `ffi.ts:605` does not look at; the token's
contents may change at the hands of other processes (`MaxChanges`).

### Bundle, NativeAdapters, Portable, Guest

Contents of files are model values and equal to their digests: two contents with
one digest do not occur.  `Deploy` replaces a file at any time.

An adapter is an object with a name, an array of operations (a set: duplicates
are refused at registration), the flag `parityQualified`, and a function, of
which the model keeps the operations whose vectors it reproduces (`faithful`).
`createNativeGoforgeAdapter` makes frozen ones; those the application writes
itself (`Declare`) claim what they like, and the application may replace what
their array, their function or their flag holds at any time (`ChangeOperations`,
`ChangeInvoke`, `ChangeFlag`; names stay as they are).  `qualifyNativeAdapter` is a run
with an await per vector: `BeginQualify`, any number of `RunVector`, each of
which asks the function the adapter has by then, and `EndQualify`, which compares
the operations claimed by then with those covered and records a copy.  The copy
is frozen, but `Object.freeze({ ...adapter })` is shallow: its array and function
are those of its `origin` (`Claims`, `Reproduces`).  `vouched` is history: the
adapters for which the application itself vouches, because it called
`recordParityQualification`, or changed what a run or a copy rests on.

The portable operations are functions from payloads to responses with the checks
in the order of the code; byte strings are lengths with an origin, texts sequences
over the classes of characters the code distinguishes.

### Config

A load is a sequence of stages, one per awaited file.  Values carry their type;
texts are the ones in the model's files.  `env` is the process environment that
all loads share.

### Services

A handler wrapped by `reduceRight` is a stack machine: the middleware still to
enter, the ones whose continuation is pending, the response or exception on its
way out.  HTTP and gRPC differ in their chains and in what a refusal is.  A
logger may write an entry, leave it out, throw instead of writing it, or write it
and then throw, as a file sink does whose `tee` fails; a line carries whether its
logger threw after it.  Errors are told apart as far as `grpcErrorCode` and
`toServiceError` do: a `GrpcError`, another error with a number for its code, and
any other.

### CloudKms, LocalCrypto, Logging

`CloudKms` is the base class of the cloud repositories: the single flight of
`#resolveApi`, the requests of each operation, failures and aborts.
`LocalCrypto` is written over an algebraic Web Crypto: a box opens only under
the key, nonce and additional data it was sealed with.  Texts are sequences of
characters on their way to bytes and back: `TextEncoder` replaces lone surrogates
(`bytesOf`) and `TextDecoder` drops a byte order mark at the beginning (`textOf`);
signatures are made of bytes.  In `Logging`
an attribute value is a tree, kept as the function from its paths to the labels of
their ends.  `#redact` and `omitIgnoredHeadersValue` walk a value from its root;
the model says what such a walk does at each path, from the depth of the path and
from what is above it (`Walked`, `Redacted`, `Searched`, `Ignored`), which is what
the recursion passes down, and `Grown` and `Below` put trees together and take them
apart.  Objects are told apart as the code does: plain ones, instances of a class,
which `omitIgnoredHeaders` does not search and the sanitizer walks, and `Headers`,
whose values are texts that may hold JSON.

## Runs

| Run | Bounds | Shows |
|---|---|---|
| `WasmRuntime_safety` | 3 calls (one native, one retried), size 1, 4 instances, 2 attempts, 1 invalid call | leases have owners and one at a time, FIFO, no lost wake-up, shutdown order, quiet when closed, cancelled instances discarded |
| `WasmRuntime_live` | 2 calls, size 1, 2 attempts | an aborted call returns whatever its guest does; with guests that answer, calls return and close() settles |
| `WasmRuntime_leak` | 2 calls, size 1 | a violation, below |
| `SessionPool` | 3 users (one may abort), size 2, 1 call each, 1 restart | counting, lending, capacity reaches waiters but for the wasted wake-ups, operations logged in, a stale login recovers, calls return |
| `SessionPool_wakeup` | 3 users, size 1 | a violation, below |
| `ModuleRegistry` | 3 calls, 1 release, 2 paths, 2 selectors | registered means initialised, calls share their slot state |
| `Pkcs11` | 3 calls on 2 sessions, 8 operations, a token with an RSA key without public object and an EC key; 4 objects in batches of 2, 2 attributes, 2 changes | references, rotation, derived secrets; sessions left idle, results as the token gave them |
| `Tools` | 5 tasks, limits -1 to 3, default 2; 2 schedulers, 2 ids, 2 registrations | no task lost or run twice, queued tasks run; executions do not overlap, only live jobs run, armed jobs run again and again |
| `FileSink` | lines of size 1 and 3, limit 2, 1 backup, age 2, 4 lines, 4 ticks, 1 failure | no line lost, retention exact |
| `Guest` | 2 instances, 4 manifests, 3 contents, 1 deployment; 2 adapters, 2 names, 2 operations and a foreign one; lengths at every limit, texts of up to 4 characters | only verified code, only what vectors covered, every adapter closed, round trips |
| `Platform` | 2 loads over a tree of files; 2 requests; 3 KMS calls; 3 keys and 2 envelopes over texts that change on the way; 1 line of nested attributes | loads of a directory agree, own claims, told alike, one client, opens only as sealed, nothing sensitive written |
| `Platform_environment` | the same | a violation, below |

Why the bounds are enough to be of use: every pool size is exceeded by its
callers, so calls queue; the instances exceed the pool size by one for each call
that may be discarding one, so discards overlap creations; two attempts meet a
retry; one restart is what a cached login can miss; a line larger than the limit,
two rotations under one compression and a failure in any of its stages fit into
four lines; two registrations meet a job stopped and registered again, or two jobs
of one scheduler; two adapters are an original and its copy; four objects are two
full batches; three calls on two sessions meet a rotation beside a generation
under the same label; one deployment hits each file at each moment.  Calls,
instances, paths and adapters that nothing distinguishes are symmetric; no run
with a liveness property uses symmetry.
The theorems below do not depend on bounds.

In `Guest` bundle and adapters step in any interleaving, but neither writes what the
other reads, except that routing needs a verified bundle.  `MCGuest` therefore lets
the adapters move in one state of the bundle only (`BundleRests`), and the objects
only while their registry is open, since nothing is registered or routed once it is
not: `MCSpec` reaches every state of the adapters next to a bundle that would let
them act.  The theorems are about `GuestSpec`, with every interleaving.
`CHECK_DEADLOCK FALSE` is set where the calls are bounded or a closed pool has
nothing left to do.

### Disagreements between code and documentation

Three are runs whose single property states what the quoted line says, and which
TLC refutes; the lines are in `PROJECT.json`.

* `CloseCompletes` (run `WasmRuntime_leak`): an invalid deadline is counted as
  an active call and never uncounted; `close()` then waits for ever.
* `WakeupsReachWaiters` (`SessionPool_wakeup`): a woken waiter whose signal has
  aborted passes its wake-up to nobody.
* `ProcessEnvironmentWins` (`Platform_environment`): `config.ts:9-18` and the
  README of the repository (438-445) put the process environment last, after the
  files of `env.files`, "each source overriding the previous"; a test is called
  "process environment variables override every file" (`config_test.ts:192`, without
  an `env.files`).  `applyEnvOverrides` takes `overlay.get(name) ?? readEnv(name)`
  (`config.ts:239`): a variable in a `.env` file wins over the one the process was
  started with, as the comments at `config.ts:102` and `:198` say.

Others, met while modelling; the models behave as the code does:

* A response that arrived just before `close()` sets the runtime's state back to
  "ready" (`runtime.ts:235`), and `health()` reports it.
* A rotation between the two last steps of a compression may prune the compressed
  file, and the compression then removes the plain one as well, so that fewer
  than the newest `maxBackups` are left (`file.ts:321`).
* A scheduler that was destroyed and is used again is not in the registry, so
  `stopAllJobs` does not reach it (`jobs.ts:153`).
* A token that does not report `CKA_MODULUS_BITS` on private keys has its RSA
  keys rotated to the default size (`repository.ts:1102`).
* One token reached by label and by slot id has two slot states, hence two pools,
  which the comment at `session.ts:24` does not expect.
* `manifest.ts:214` says the full shape of the metadata is validated; the code
  looks at its type.
* `base64.decode` drops a leading U+FEFF, so the text does not round-trip.
* Retries need a transient failure that `#isSafeTransient` accepts, and
  `deadline_exceeded` is not among them.
* A rejected import of the glue stays cached (`component.ts:110`).
* `values.ts:29` says an overlay never changes the type of a value; a text that
  is no number, or a quoted one, does.
* `APP_NAME` in a `.env` file selects another `<app>.ini` only for the next load
  (`config.ts:247`), and what a load exported stays when it fails later.
* `HttpServer.use` after `listen` has no effect (`server.ts:132`).
* A logger that throws while it logs a success loses the response and logs an
  error (`logger/middlewares/http.ts:141`).  If it had written its line by then (a
  file sink appends and then calls its `tee`, `file.ts:133-134`), the request has
  two lines, one of which calls it a success, where `http.ts:130` promises "one
  structured line per request"; likewise in `grpc.ts:33`.  `ToldAlike` excepts
  exactly the lines after which the logger threw.
* The span of a call that failed with an error that is no `GrpcError` has the code
  UNKNOWN, or a number the error has for a code (`telemetry/grpc.ts:142-147`); its
  client is told INTERNAL (`interceptors.ts:47`).  `ToldAlike` excepts these.
* The sanitizer leaves values nested 32 deep or more as they are, and JSON in a
  value of a `Headers` object that is nested in other attributes
  (`sanitizer.ts:79-86`), though `sanitizer.ts:7-9` and `60-62` say that strings that
  hold JSON are sanitized.
* Ignored headers are written where they are in an instance of a class:
  `omitIgnoredHeaders` passes it over (`builder.ts:278`, `isRecord`) and the
  sanitizer walks it like a plain object.
* `getAttributes` looks at no return code (`ffi.ts:634`, `667`); the comment at 630
  says the length -1 is what marks a failure.  When the second call fails as a
  whole, zeroed bytes are reported as present.  Zero is `CKK_RSA`, so that
  `rotateKey`, documented to generate "an equivalent key" (`repository.ts:694`), makes
  an RSA pair of the default size for any key, and may disable the old one; `getKey`
  returns a reference with a label and id of zeros.
* `native.ts:11-19` says that an implementation that drifts cannot be registered,
  and 115-117 that adapters are frozen; the copy that qualification records is
  frozen but for its array of operations, which stays the one of the adapter it was
  made of, and an operation added there is routed without a vector
  (`adapters.ts:132`).
* The in-process provider gives a text back without a U+FEFF it began with, and
  with U+FFFD for lone surrogates (`utilities.ts:17`, `38`, `43`).

Limits the code has and no document denies: a
discarded instance leaves `#entries` before its close() has settled, so its
successor may exist beside it; a creation that ends after the close is uncounted
before its close() is awaited; sessions may open while a drain closes others one
by one; a session in use during `releaseModule` returns to a pool that nothing
drains any more; a rotation that fails late, or is aborted, leaves its new key on
the token and no caller with its reference; a waiter for a session may starve
under an endless stream of newcomers; a job that is stopped and registered again
under its id may run beside its former callback; the one-second timer of a cron
job is not corrected for drift, so that a second may see no tick or two (the model
leaves open whether a tick matches); a job registered in test mode on a started
scheduler is never armed.

## Fairness

Safety runs use none.  Liveness assumes weak fairness of: continuations whose
promise has settled (the event loop runs them), the host's own promises (reads,
the factory, close(), the token, the PIN), an armed timer, and, only where the
run says so, the guest and the callbacks.  `WasmRuntime_live` assumes only the
host's; the guests' is a premise of `EveryCallReturns` and `CloseCompletes`
(`GuestFairness => ...`), and `AbortedCallReturns` does without it: an aborted
call must return whatever the guest does.  `EveryCallReturns` of `SessionPool`
is stated for behaviours that waste no wake-up.  The other modules have no
liveness property: `FileSink`, `Portable` and `LocalCrypto` wait for nothing, and
in the rest each call waits only for the file, token or service it has asked.
No strong fairness is used: nothing in the event loop justifies it.

## Proofs

Eight modules hold proofs: `WasmRuntimeProofs` (the
pool and the runtime over it), `SessionPoolProofs`, `Pkcs11Proofs` (registry,
binding and provider), `GuestProofs` (bundle, adapters and native operations),
`WorkersProofs`, `JobsProofs`, `FileSinkProofs` and `PlatformProofs`
(configuration, cloud KMS, in-process crypto, servers and logger).  They also
prove what no run checks any more because the theorem says more (types,
`Capacity`, `LeaseExclusive`, `ClosedPoolIsEmpty`, `PoolRefined`,
`AttemptsBounded`, `QueueIsNewest`, `WorkConserving`, `StartsWithinBounds`,
`TimersBelongToJobs`, `StartedMeansArmed`, `ActiveWithinLimit`).  The theorems hold for all values of
the constants that the named assumptions allow, and TLC evaluates these on every
run:

* pools, registry, workers, jobs and sink: finite sets of calls and instances, a
  positive pool size, enough identities, bounds that are naturals;
* `BundleAssumption`: a manifest is made of artifacts with digests;
* `LimitAssumption`: the limits are naturals, a tag fits the limit of binary data,
  and every length of an AES key is long enough for an HMAC key, as in the code
  (16 bytes against 512 KiB; 16, 24 and 32 against 16);
* `ProviderAssumption`: what the token held before has one handle each, its
  `CKA_ID` tells its keys apart, and a random id is nobody's before it is made
  (the collision of random ids is left out);
* `CryptokiAssumption`: finitely many objects and a batch that is not empty;
* `ConfigAssumption`: the directories a load visits are described, and a `.env`
  file assigns texts;
* `CryptoAssumption`: texts and additional data are sequences of characters, and a
  failure is none;
* `KmsAssumption`: "undefined" is no number and no result;
* `LoggingAssumption`: the sanitizer's limit is not 0 and the attributes are trees;
* `ServicesAssumption`: chains are made of the middleware modelled, credentials
  are of the kinds modelled, and handlers are told apart by their names.

* **Pool.**  `Capacity` alone is not inductive: a grant must find an idle entry
  that nobody holds and a creation an identity nobody uses.  `PoolInv` adds that
  the waiters are distinct and hold no lease, that the busy entries are exactly
  the leased ones, that the sets of instances are disjoint where they must be,
  and what the close has reached.  `PumpKeepsSlots` carries the argument: from
  any slots that satisfy the invariant except that somebody may wait beside a
  free place, the pump ends in slots that satisfy all of it.  For the two action
  properties `StepOutcome` says what any handler does: at most one call gets a
  lease and at most one gives one up (`PumpGrantsNone`, `PumpGrantsOne`: with the
  limit in force a pump has one place to fill, or none), and a waiter leaves the
  queue from its head or takes nobody's turn.  `LendsInstances` (each step is a
  loan, a return, a handover or none) and `FifoGrant` follow, and through
  `RuntimeRefinesPool` they hold of the runtime.
* **Runtime.**  `RuntimeRefinesPool` shows each step to be a pool step or to
  leave the pool alone, so `PoolInv` is inherited.  `RuntimeInv` relates the
  calls to the pool (which `pc` may have a lease, a waiter, a back), the counter
  `activeCalls` to the calls under way, and `closer` to what must be over by
  then.  The counter is at least, not exactly, the number of calls under way:
  an invalid call leaks one.
* **Workers.**  The invariant is the conjunction of the four state properties;
  `PumpEffect` shows that the pump restores them from any queue of newest
  tasks.
* **Jobs.**  Three independent inductive invariants: `ExecInv` (guard and
  callback), `RegInv` (controls, timers, registration) and `BookInv` (the rest
  of the type).
* **File sink.**  `NoLineLost` is not inductive: a compression removes the plain
  backup long after it has read it.  `NamesInv` says that every name on disk or
  in a job is older than the next one given out, so that a rename never hits an
  existing file, and that files of one name have the same lines; `JobsInv` that a
  job holds the lines of its backup and removes it only when they are in the
  compressed file or have expired.  `DiskKept` is then shown of each action: no
  line leaves the disk but for retention.  `ActiveWithinLimit` needs that an
  empty file has no lines; `RetentionExact` is a count in `PruneCount`.

* **Session pool.**  `CoreInv` ties the places of the calls to the sessions they
  hold, each at most once, and counts: open sessions are the idle, held and
  refused ones.  `CapacityReachesWaiters` is a count of its own over it, in which
  each wasted wake-up pays for one.  `LoginInv` adds who owns a login in flight,
  what the token knows of the pool's sessions, and what is true until the token
  restarts; `DrainEffect` describes one step of the drain for both.
* **Module registry.**  `RegistryInv`: an entry is registered, or failed, or was
  taken by a release or removed by a failed load of its path; a slot state that
  has not failed is the one its entry has for the selector, so a selector's
  promise is replaced only after it failed.
* **Binding.**  `CryptokiInv`: the operation active on a session is that of the
  method under way, and a search has returned a prefix of what it wants while the
  cursor has the rest.
* **Provider.**  `ProviderInv` says of each call what its place tells of its
  operation, which key its reference names, and what its `finally` blocks still
  owe; of each object, whose it is.  `FreshOK` (nobody has the handles of a key
  before it is generated) and `OwnsIsUnique` (an id is the key of one owner) give
  `ReferenceMeansOneKey`; `SecretsOK` (a secret is among those its call has yet
  to destroy) gives `DerivedSecretsContained`; `RotationsOK` and `KindsOK` (a rotation that
  has read its key's attributes has the key's kind) give `RotationAllOrNothing`.
* **Bundle and adapters.**  `BundleInv`: the verifier has compared a prefix of the
  descriptors and has the rest before it, and both caches are filled only from
  bytes whose digests the trusted manifest has.  `AdapterInv`: what is in the
  ledger, and for which nobody but the vectors vouches, is a copy that agrees with
  the portable core on all it claims; a run that nobody has interfered with has covered
  operations its adapter does reproduce; a copy goes back to an object that is no copy,
  so that what changes for it changes there (`MakeStep`, `ChangeStep`); and `close` owes
  the adapters it has released and those still before it.
* **Native operations.**  `OperationsFitTogether` has no state to carry: it follows
  each operation from its payload to its response, and then the next from there,
  in three theorems that hold for all lengths and texts.  `CiphertextLimitsFit`:
  what AES-GCM accepted is within each limit that the decryption, the hash and the
  HMAC check, since `PlaintextLimit` leaves room for the tag.  `EncodingsInvert`:
  what Base64 encoding accepted is decoded to itself.  `NormalFormsAreFixed`: each
  rewriting of `Normalize` establishes its own form (`TrimTrims`,
  `CollapseCollapses`, `LowercaseLowers`), keeps the forms of the earlier ones,
  leaves a text of its form as it is (`TrimKeeps`, ...) and makes no text longer, in
  characters or bytes (`NarrowerText`, an injection into the wider positions of the
  old text).  `CollapseWhitespace` keeps positions and counts them off in order
  (`Nth`); `NthCounts` gets from cardinalities what an induction over the text would
  give.
* **Configuration.**  `ConfigInv` says of every load what its stage makes of the
  files of its directory and of the environment it has met, and that two loads which
  met environments that differ only in what their own `.env` files assign, `APP_NAME`
  apart, hold the same: their overlay decides these keys.
* **Cloud KMS.**  `KmsInv`: at most one attempt is under way and none once there is
  a client, an attempt that succeeded made the client, and every call that has a
  client has that one.
* **In-process crypto.**  `CryptoInv`: keys have identities of their own, and what
  was made is one of the things that can be made (`Makings`) with them, from
  whatever bytes its text has.
  `AesOpens` shows that the nonce and the ciphertext are found where they were
  put, `OwnCurve` that a public key imports on its own curve first, `EcdhOpens`
  that two exchanges agree only for the same key.
* **Servers.**  `ChainKeepsDeclared` shows that the chain composed from nested
  groups keeps the middleware of each: `Scope` is a recursive function, whose
  existence (`AccumulationExists`) and effect (`ScopeCovers`) are shown for the
  smallest number of groups that would fail.  `ClaimsOK` then says that a request
  has no claims but its own and that, until it has them, an authentication it must
  pass is still ahead.  `LinesOK` says that after the outermost logger is left its
  last line says how the request ends and each earlier one is a line it threw after,
  and `SpanOK` that nothing changes the outcome after the telemetry interceptor.

* **Logger.**  A walk thins a tree: `Thinned` says that some of its paths are left,
  with all that is above them, that a `Headers` object may have become a record and
  that a label may have been replaced where nothing is below.  `ThinnedTree` shows
  that a thinned tree carries an ignored header only where the tree itself did, so
  that what `omitIgnoredHeaders` has removed (`OmitThins`) does not come back when
  the entry is built (`EntryCarriesNone`, over `IgnoredBelow`: moving a tree to
  another key changes nothing, unless the key is "headers") and when `Redact` turns
  `Headers` into records (`RedactThins`).  `LoggingInv` then carries the lines and
  what loggers have inherited over any number of calls.

The five parts are proved from specifications of their own (`ConfigSpec`,
`KmsSpec`, `CryptoSpec`, `ServicesSpec`, `LoggingSpec`).  `ProcessSpec` lets
them step in any interleaving.  `PartsOfTheProcess` shows it to be a behaviour of
each, which is why `Platform` may follow one part at a time (`PlatformIsAProcess`),
and `ProcessKeepsItsPromises` that all their invariants hold in it side by side.

Only model-checked: the liveness properties, since fairness is beyond the prover.
Every safety invariant and every action property that a passing run checks is also
a theorem.  The library's induction theorems cannot be used here; where a fact would
need one, the model is written so that it does not (`Nth` in `Portable`, paths in
`Logging`), or the smallest counterexample is refuted (`Scope`).

## Not modelled

Byte layouts and formats (struct layouts of the FFI, DER, the syntax of URIs,
traceparent headers, the formatter of log lines), cryptographic primitives, the
translation of requests for the cloud SDKs, HTTP and gRPC clients, the issue of
tokens and cookies, the operating system's files and sockets, the telemetry SDK,
command-line tools.  They are pure, or external, or a single call; where a
modelled part depends on them it sees their outcomes, failures included.
