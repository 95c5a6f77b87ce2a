# TLA+ models of the versitygw multi-tenant gateway

This directory holds the formal models of the multi-tenant extension of
versitygw in `src/`. It contains TLA+ modules, TLC configurations that
model-check them on small instances, and TLAPS proofs that hold for every
instance.

## The system

- **Dynamic backend registry** (`src/backend/dynamic_backend.go`,
  `DynamicBackendManager`). This is the per-tenant map from user to backend
  object.
  - `GetUserBackend` looks the user up under a read lock (`dm.mu.RLock`).
    On a hit it calls `updateLastAccessed`, which takes the write lock. On a
    miss it calls `createUserBackend`.
  - `createUserBackend` takes the write lock and looks again (double-checked
    construction). It then reads the tenant's storage configuration from the
    auth manager, creating a default one with `createDefaultUserConfig` when
    there is none. It records a `pending` entry in `dm.userConfigs`.
  - `createBackendByType` mounts CephFS, NFS or Lustre with `mount(8)` under a
    timeout, records `dm.mountPoints`, and builds a POSIX backend on the mount
    point. Posix and MinIO backends need no mount; RustFS and unknown types
    always fail.
  - On success the handle is registered and the status becomes `ready`. On
    failure the status becomes `error`.
  - `UnmountUserBackend` runs `umount`, then `umount -f`, under one timeout.
    It forgets the handle and the mount point only when one of the two
    succeeds.
- **Auth manager** (`src/auth/multi_tenant.go`). It keeps an unsynchronised
  map of tenant storage configurations, written by `CreateUserNamespace` and
  `SetUserStorageConfig` and deleted by `DeleteUserNamespace`. It also holds
  the quota check and the path-isolation helpers.
- **IAM service** (`src/cmd/versitygw/multitenant.go`). `CreateAccount`
  creates the base account, then the user's configuration from a template,
  then the namespace. `DeleteUserAccount` deletes the namespace and the
  account.
- **Lustre enhanced backend** (`src/backend/lustre_enhanced.go`): the stripe
  planner, parallel stripe reads and writes, and `lfs` wrappers.
- **Configuration manager** (`src/config/multitenant.go`): the configuration
  files, with an unsynchronised in-memory cache of user configurations.

The registry, the auth manager and the IAM service interact through two
things:
- the auth manager's configuration map, which IAM calls write and
  `createUserBackend` reads;
- the kernel mount table, which the registry changes and which survives
  everything the registry forgets.

## Modules

| Module | What it is |
|---|---|
| `DynamicBackend.tla` | The registry, the auth manager's configuration map and the IAM account operations, composed in one specification. |
| `MCDynamicBackend.tla` | The TLC instantiation: the template set of `createDefaultConfig`, a template set with rustfs, and the symmetry sets. |
| `NamespaceRegistry.tla` | The abstract registry contract of spec §4.1: one construction per tenant at a time, begun only without a handle, a handle registered only by a completed construction, removed only by a release. Modelled from the spec; `DynamicBackend` is shown to implement it. |
| `DynamicBackendProofs.tla` | TLAPS proofs about `DynamicBackend`. |
| `StripedRead.tla` | `parallelReadStripes` of the Lustre backend: the calling goroutine, the `calculateStripeChunks` loop, the chunk goroutines behind the semaphore, and `ReadAt` with its outcomes. |
| `StripePlan.tla` | The abstract stripe planner: a read's chunks in closed form, planned in one step. |
| `MCStripedRead.tla` | Instantiates `StripePlan` under a refinement mapping and states the read's properties. |
| `StripedReadProofs.tla` | TLAPS proofs that the chunk plan tiles the range and that `parallelReadStripes` refines `StripePlan`. |
| `TenantRecords.tla` | The configuration manager, the IAM calls that use it, the auth manager's storage records with quota and used space, the quota guard, and gateway start and crash. |
| `MCTenantRecords.tla` | The symmetry sets for TLC. |
| `TenantRecordsProofs.tla` | TLAPS proofs of type correctness and that the configuration cache agrees with the files. |

### State of `DynamicBackend`

| Variable | Code |
|---|---|
| `storageCfg` | the auth manager's `userConfigs`, abstracted to each user's backend type |
| `accounts` | IAM accounts |
| `userBackends` | `dm.userBackends`: a handle number per user, or `NoHandle` |
| `userConfigs` | `dm.userConfigs`: a record of status and backend type per user |
| `mountPoints` | the users with a `dm.mountPoints` entry |
| `osMounted` | the kernel's mount table: users whose filesystem is mounted |
| `lock` | the writer holding `dm.mu` |
| `pc`, `arg` | where each goroutine is in a `GetUserBackend` call, and for which user |
| `waited` | history: in its current call, a goroutine waited on `dm.mu` while a construction for its user failed (cleared when `GetUserBackend` starts a new call) |

### Actions of `DynamicBackend`

| Action | Code |
|---|---|
| `GetUserBackend` | the read-locked lookup; the model only lets a user with an account call it, standing for the authentication in front of the registry (lines 121-140 themselves have no such check) |
| `UpdateLastAccessed` | `updateLastAccessed` |
| `AcquireWriteLock` | `dm.mu.Lock()` in `createUserBackend` |
| `CreateUserBackend` | the second lookup, the storage configuration or its default, and the pending entry |
| `ExecuteMount` | `mountCephFS`/`mountNFS`/`mountLustre`, `executeMount` and the `mountPoints` record |
| `ConstructBackend` | `createBackendByType`'s constructor, and the registration or the error status |
| `UnmountUserBackend` | the whole of `UnmountUserBackend`, atomic under the write lock |
| `CreateAccount`, `DeleteUserAccount` | the IAM service operations |

Each success or error return of the code is a disjunct of its action:
- a mount that succeeds, fails, or times out after it took effect;
- an unmount of an untracked user, an unmount that succeeds, one where both
  umounts fail, and one where an umount times out after it took effect.

The kernel refuses (EBUSY) a second mount on a mount point that already has
one. The handle numbers count modulo `MaxHandles`, which is enough to tell a
new object from an old one.

### Constants

| Constant | Meaning |
|---|---|
| `Users`, `Procs` | tenants and request goroutines (model values, symmetric) |
| `AccountBackend` | the backend type `CreateAccount` takes from the global defaults |
| `DefaultBackend` | the type `createDefaultUserConfig` writes |
| `Templates` | the templates of the configuration manager |
| `MultiTenantEnabled` | the auth manager's `Enabled` flag |
| `LateTimeouts` | whether a killed mount or umount may have taken effect |
| `MaxHandles` | the bound on handle numbers |

### `StripedRead`

| Variable | Code |
|---|---|
| `req` | the arguments `offset`, `size` and the stripe count and size of `stripeInfo` |
| `pc` | where the calling goroutine is |
| `cur`, `rem`, `chunks` | `currentOffset`, `remaining` and `chunks` of `calculateStripeChunks` |
| `g` | each chunk goroutine: blocked on `sem`, reading, or finished (`wg.Done`) |
| `results`, `errs` | the `results` and `errors` slices |
| `ret` | the returned slice and error |

A byte of the file is its position, so a returned buffer says exactly which
bytes were read, and where. `ReadAt` may return every byte; a short read with
`io.EOF` past `FileLen`; or, with `IOFaults`, an error after any prefix.

| Action | Code |
|---|---|
| `ParallelReadStripes` | lines 353-361: the direct read for `StripeCount <= 1`, or the start of the loop |
| `StripeChunkStep`, `CalculateStripeChunksDone` | one loop iteration (431-450); the exit, and the allocation of `results` and `errors` |
| `SpawnChunkReader`, `StartWait` | `wg.Add(1); go func` for each chunk, then `wg.Wait()` |
| `AcquireSlot`, `ReadChunk` | `sem <- struct{}{}` with capacity `min(NumCPU, StripeCount)`; `ReadAt`, the stores by index, `<-sem` and `wg.Done()` |
| `Assemble` | the error scan (the first error in chunk order, with a nil slice) or the concatenation |
| `NextCall` | the caller's next read |

`MCStripedRead` maps the detailed state onto `StripePlan`. A read is
`planned` once the loop has exited, and `plan` is then `chunks`. The closed
form `DecomposeRange` lists one chunk per stripe-size block that the range
touches: block `b` contributes `[max(off, b*ss), min(off+len, (b+1)*ss))`
with stripe `b % sc`. The walk of the code must arrive at exactly this
sequence.

### `TenantRecords`

| Variable | Code |
|---|---|
| `up` | the gateway process is running |
| `globalFile`, `templates` | `multitenant.json` exists; `cm.backendTemplates` |
| `file`, `cache` | `users/<access>.json` and `cm.userConfigs`, each abstracted to the backend type or `None` |
| `accounts` | base IAM accounts |
| `ns` | the auth manager's `userConfigs`: type, `Quota`, `UsedSpace`, the record's identity, and (history) the bytes written under it |
| `wpc`, `wsize`, `wread`, `wptr` | each writer: its step, its size, and the `UsedSpace` and record that `UpdateUsedSpace` read |
| `restarts` | crashes so far |

| Action | Code |
|---|---|
| `Start` | `runMultiTenant`: a new `ConfigManager` and `LoadGlobalConfig` (with a missing file it saves the default and loads no template), and an empty auth manager |
| `Crash` | an environment event with no code of its own: the process dies; files and accounts stay |
| `CreateAccount` | `CreateUserConfig`, `SaveUserConfig` and `CreateUserNamespace`, with each early return |
| `GetUserAccount` | `LoadUserConfig` (cache, or file then cached), or a new posix configuration saved; then `UpdateUserStatus`, which loads and saves again |
| `DeleteUserAccount` | `DeleteUserNamespace`, `DeleteUserConfig` (a failed `Remove` keeps the cache entry), then the account |
| `CreateDefaultUserConfig` | `createDefaultUserConfig` of the registry: a record with `Quota` 0 |
| `CheckQuota` | `CheckQuota` passing; its guard also keeps the bytes stored within the model bound `MaxStored`, which is not in the code |
| `WriteObject` | the object write between check and update (spec §4.3; the code has no caller of the guard) |
| `UpdateUsedSpaceRead`, `UpdateUsedSpaceWrite` | `UpdateUsedSpace`, split at `config.UsedSpace += delta`, through the pointer read first |

The actions use five helpers, each translating one `ConfigManager` or auth
manager function:
- `SaveUserConfig`. With `FileFaults` the file write can fail, and then
  neither the file nor the cache changes.
- `LoadUserConfig`: the cache, else the file.
- `CreateUserConfig`: its template check.
- `DeleteUserConfig`. A failed `Remove` keeps both the file and the cache.
- `DeleteUserNamespace`.

`LoadUserConfig` caches what it reads from the file before `UpdateUserStatus`
saves it. So in `GetUserAccount`, a failed save still leaves the
configuration cached.

## Runs

The `DynamicBackend` runs use `MCDynamicBackend` and check deadlock; a
goroutine can always start another call. The `StripedRead` runs check
deadlock too: the caller can always issue another read.

| Run | Expect | Checks | Shows |
|---|---|---|---|
| `core` | pass | `MountTableAgrees`, `HandleBacked`, `RegistryRefinement` | With 2 tenants (cephfs accounts, posix default), 2 goroutines and truthful mount results: the mount table agrees with the kernel, every registered cephfs handle sits on a live mount, and the registry implements `NamespaceRegistry` (one construction per tenant at a time, so a registered handle is never replaced by another). |
| `liveness` | pass | `CallsReturn` | Every call returns under the fairness below, with late timeouts allowed. |
| `misconfigured` | pass | `TypeOK` | With a rustfs account template and an invalid default type (`gpfs`), failing default creation never produces a malformed entry. |
| `release_keeps_handle` | violation | `ReleaseRemovesHandle` | Spec §4.2: teardown removes the handle and the mount record regardless. For a tenant with a recorded mount, the code returns on umount failure before the clean-up. (The posix branch at line 421 changes no state, so no step property can see it.) |
| `waiter_retries` | violation | `WaitersShareOutcome` | Spec §4.1/§8: a failed construction's error goes to all waiters with no retry. A waiter on `dm.mu` mounts and constructs again. |
| `delete_keeps_backend` | violation | `DeletedUserHasNoBackend` | Deleting an account leaves the tenant's backend and mount registered. A racing construction even recreates a default configuration. |
| `late_mount_leak` | violation | `MountTableAgrees` | A mount killed by its timeout after taking effect is never recorded, so it is never unmounted and blocks every remount. |
| `striped_read` | pass | `ChunksTileRange`, `ReadResultCorrect`, `PlanRefinement`, `ReadReturns` | For every request of the bounds and every goroutine order and `ReadAt` outcome, four things hold. The plan tiles the range, each chunk within one block and tagged with its stripe. The code's loop implements `StripePlan`. A successful striped read returns the file's bytes in order, and a read past the end is an error. Every call returns. |
| `tenant_records` | pass | `CacheCoherent`, `UsedWithinRaceBound` | Through crashes, failed writes and removes, the cache never disagrees with the file. Two writers racing through `CheckQuota` leave `UsedSpace` within one in-flight object of the quota. |
| `quota_overshoot` | violation | `StoredWithinQuota` | Spec §4.3 bounds the overshoot by the sizes in flight. The unsynchronised `UsedSpace += delta` loses updates, so the bytes stored go past that bound. |
| `restart_forgets_quota` | violation | `RecordMatchesConfig` | Spec §3/§6: the record comes from the tenant's configuration. After a restart, `createDefaultUserConfig` gives a tenant an unlimited default record. |

Every property of a passing run has a mutant in `PROJECT.json`: a plausible
bug in the mapped code that TLC then reports. The mutants are:
- writing `mountPoints` before `mount`;
- skipping the mount for a mounted type;
- dropping the second lookup;
- an error path without `Unlock`;
- ignoring `createDefaultUserConfig`'s error;
- a chunk size that ignores the offset within the block, or is not capped
  by the remaining length;
- results stored in completion order, or a failed chunk goroutine that
  skips `wg.Done()`;
- caching a user configuration before `WriteFile`;
- a quota check that leaves out the incoming size.

### Bounds

Two tenants and two goroutines are enough for the interesting cases:
- two goroutines racing the double-checked construction for one tenant;
- an unmount of one tenant during another tenant's mount;
- a delete during a construction.

Three handle numbers let a replacement be told apart from the original.

The liveness run uses one tenant, because two make the fair-cycle search
take more than ten minutes. Its interleavings are per tenant anyway: the lock
is global, and every path through it is exercised by one tenant and two
goroutines.

The misconfigured run uses three of each so that failures of several
tenants interleave.

The `StripedRead` runs use a file of 5 bytes. Reads have offsets 0, 1 and 3
and sizes 0, 2 and 4, stripe sizes are 1 and 2, stripe counts 1 to 3, and
there are two CPUs. This instance covers:
- an empty read;
- reads that start inside a block and end inside another;
- reads that cross the end of the file;
- up to four chunks competing for a semaphore of two;
- every `ReadAt` failure after every prefix.

The `TenantRecords` runs use one tenant, since tenants share nothing but the
process. The passing run and the overshoot run have two writers, which is
the smallest race on `UsedSpace`. The other bounds are:
- quota 2 with sizes 1 and 2, so a single write can reach the quota or
  overshoot it;
- one crash and three storage records, enough for a restart after an
  account exists and for the default record that follows;
- `MaxStored` 4, which caps the bytes under a record with no quota.

Writers are symmetric, since no property names one. No `TenantRecords`
state deadlocks: while the gateway runs, `DeleteUserAccount` is always
enabled.

### Fairness

- `AcquireWriteLock` and `UpdateLastAccessed` take `dm.mu`. They are
  enabled only while no writer holds it, so they get strong fairness. Go's
  `sync.RWMutex` justifies this: starvation mode hands the lock to
  long-waiting goroutines, and a blocked writer keeps new readers out.
- The steps taken while holding the lock (`CreateUserBackend`,
  `ExecuteMount`, `ConstructBackend`) get weak fairness. Each one finishes:
  the mount commands run under a context timeout.
- IAM calls and unmounts are not required to happen.
- `StripedRead` assumes weak fairness of its whole next-state relation. A
  goroutine that is runnable is eventually scheduled by the Go runtime. A
  goroutine blocked on `sem` waits for a running one to finish its
  `ReadAt`, which returns because the file is local. Under this fairness,
  `ReadReturns` shows that `wg.Wait()` is always released.
- `TenantRecords` states only safety and assumes no fairness.

## Proofs

### `DynamicBackendProofs.tla`

The proofs rest on two named assumptions, `ConstantsAssumption` and
`NoConfigAssumption`. They say that the flags are Booleans and
`MaxHandles ≥ 1`, and that the sentinels `NoProc`, `NoHandle` and
`NoConfig` are not real values.

- **`TypeCorrect`**: `Spec => []TypeOK`. The proof has one step per action
  (`TypeOKStep`) and uses two lemmas about `WithStatus`: it keeps the entry
  set and the backend types.
- **`RegistryInvariant`**: under `~LateTimeouts`, `Spec => []IInv`.
  - `IInv` is `TypeOK`, `MountTableAgrees` and `HandleBacked`, strengthened
    by three conjuncts:
    - `LockDiscipline`: `dm.mu` is held exactly by the goroutine inside
      `createUserBackend`;
    - `MountPending`: a goroutine about to mount has an entry of a mounted
      type;
    - `ConstructReady`: a goroutine about to construct has its entry, and
      its mount when the type needs one.
  - `HandleBacked` alone is not inductive. The step that registers a handle
    needs `ConstructReady` to know that the mount exists. `UnmountUserBackend`
    needs `LockDiscipline` to know that no construction for the user is in
    flight.
  - `IInv` was first checked by TLC as an invariant of the `core` instance,
    with the same 833,046 states as that run.
  - Two lemmas carry the proof. `LockFreeStep` covers the steps taken without
    the lock. `FailConstructionKeeps` covers the error paths that release
    it.
- **`MountTableAgreement`** and **`HandlesAreBacked`**: `MountTableAgrees`
  and `HandleBacked` hold for every instance with truthful mount results.
  The `late_mount_leak` run shows why the assumption is needed.
- **`RegistryRefines`**: `Spec => RegistryRefinement`, i.e. `DynamicBackend`
  implements the abstract `NamespaceRegistry`. It holds whatever mount and
  umount report, late timeouts included. Since the contract registers a
  handle only for a tenant without one, it also shows that no registered
  handle is ever replaced by another.
  - The refinement mapping keeps `userBackends` as the abstract `backend`.
    The abstract `constructing` is `Constructing`: the tenants of the
    goroutines at the mount or construct step of `createUserBackend`.
  - The invariant `HInv` is `TypeOK`, `LockDiscipline` and `CheckedAbsent`:
    a goroutine about to mount or construct holds `dm.mu` and its user has
    no handle. `CheckedAbsent` gives `BeginConstruction` its guard.
  - Under `HInv`, `LockDiscipline` lets at most the lock holder be at those
    steps. So `Constructing` is empty or the holder's one tenant
    (`ConstructingOfSingle`, `ConstructingNow`, `ConstructingNext`).
  - The step lemma `RegistryStep` maps every concrete step:
    - a re-check that finds no handle maps to `BeginConstruction`;
      `CheckedAbsent` gives its guard;
    - a failed mount or constructor maps to `FailConstruction`;
    - a successful construction maps to `CompleteConstruction` with the
      new handle;
    - `UnmountUserBackend` maps to `Release`, or to a stutter on the error
      paths that return before the clean-up. The lock it takes gives
      `u \notin constructing`;
    - every other step is a stutter of the abstract variables.
  - TLC checks the same refinement as a property of the `core` run. The
    mutant that drops the re-check under `dm.mu` breaks it.

### `StripedReadProofs.tla`

**`ChunkPlanTiles`**: `Spec => []ChunksTileRange`, for every file length,
offset, size, stripe size and stripe count that `StripedReadAssumption`
allows. The assumption requires naturals and stripe sizes above zero.
- `ChunksTileRange` speaks only of finished plans, so it is not inductive
  alone. `PlanInv` adds the loop invariant of `calculateStripeChunks`:
  - while planning, `currentOffset + remaining = offset + size`;
  - the chunks so far tile `[offset, currentOffset)` (`ChunkTiles`).
- The loop step `StripeChunkStepInv` rests on the lemma `SameBlock`. A
  chunk that starts at `c` and is at most `ss - c % ss` long ends in the
  block where it starts.
- Every other action leaves the plan alone.

**`PlanRefines`**: `Spec => PlanRefinement`. `parallelReadStripes`
implements the abstract `StripePlan` under the refinement mapping of
`MCStripedRead`, for every offset, size, stripe size and stripe count.
- The plan in progress is a prefix of the closed form `DecomposeRange`.
  `RefInv` adds this to `PlanInv` as `PlanPrefix`: after `k` loop
  iterations the chunks are the first `k` entries of `DecomposeRange`, and
  `currentOffset` is where entry `k+1` starts.
- The prefix is proved with the loop, one iteration at a time. It is not
  induction over data, so the prover can do it:
  - `DecomposeShapeLemma` gives the closed form: its length is
    `last - first + 1`, and entry `j` is block `first + j - 1` cut to the
    range (`BlockChunk`).
  - `NextChunk` shows that one iteration of `calculateStripeChunks`
    produces exactly `BlockChunk` of the current block.
  - `NextChunk` rests on the division lemmas `DivMod`, `DivUnique` and
    `DivLower`.
- `PlanStep` maps every step to a step of `StripePlan` or a stutter.
  - The last loop iteration maps to `Decompose`.
  - Starting a read maps to `NewRequest`.
  - Every other action leaves the mapped variables alone.
- `RefInvInit` and `ParallelReadStripesPrefix` cover the start of the loop.

### `TenantRecordsProofs.tla`

**`TypeCorrect`**: `Spec => []TypeOK`, for any tenants, writers, templates,
quota and object sizes. `TenantRecordsAssumption` requires that `Sizes` has
a largest element. That makes `MaxSize`, the size an idle writer resets to,
an object size (`MaxSizeType`).
- The writers' four steps are covered by `WriterStepType`.
- `RecordUpdateType` shows that updating `used` or `stored` keeps a storage
  record.

**`CacheCoherence`**: `Spec => []CacheCoherent`, for any tenants, writers,
templates, crashes and file faults.
- The inductive invariant `CacheInv` adds the types of the templates, the
  files and the cache.
- Lemma `SaveKeepsCoherent` covers `SaveUserConfig`, which is used by
  `CreateAccount` and `GetUserAccount`. The file is written first, and a
  failed write changes nothing.
- Starts and crashes are covered too: a start empties the cache, and a
  crash keeps both the cache and the files.

### What only TLC checks

Several kinds of result stay with TLC only:
- liveness (`CallsReturn`), because the prover does not handle fairness or
  ENABLED;
- liveness of reads (`ReadReturns`), for the same reason;
- `ReadResultCorrect`, which is about sequences built by the recursive
  `Concat`. A proof would be induction over data, and `MCStripedRead`
  reaches a RECURSIVE operator;
- `UsedWithinRaceBound`. Its inductive form bounds `UsedSpace` by the sum
  of the sizes the other writers have in flight, and a sum over a set of
  writers is induction over data.
  - The bound needs `MaxSize <= Quota`.
  - When an object may be larger than the quota, TLC finds a violation in
    four steps: a writer passes `CheckQuota` against the quota-0 default
    record; the account is deleted and re-created with a quota of 1; the
    writer then writes 2 bytes.
  - That is a stale check against a replaced record, not the race of
    spec.md 4.3. The run uses sizes within the quota;
- the violations, which are counterexamples.

## Not modelled

- **Path isolation** (`GetUserBasePath`, `ValidateUserAccess`, `isSubPath`,
  `createUserStorageDirectory`). These are stateless string computations.
  Their hazards (an unvalidated user ID, the `..` prefix test) depend on
  path syntax, which a model over abstract names would not show faithfully.
- **Striping parameters** (`calculateOptimalStriping`,
  `getLargeFileThreshold`). They are read once from configuration and keep
  no state. In the model, the stripe size and count are inputs of a read.
- **`lfs` wrappers and the pool manager** (`getFileStripeInfo`,
  `ensureDirectoryStriping`, `SetLustreFileStriping`, `LustrePoolManager`).
  These are pure I/O.
- **`PutObject`, `GetObject` and the `ParallelReader` / `ParallelWriter`
  wrappers**. They delegate to the base backend.
- **The CLI wiring and the backend factory**. Apart from the start-up, which
  is the `Start` action of `TenantRecords`, there is nothing here: the
  factory is unimplemented.
- **The documentation**.
- **A gateway restart in `DynamicBackend`**, which would forget the
  registry while kernel mounts remain. This is recorded as a hazard.
  `TenantRecords` models the restart of the auth records.
- **Use of a handle after `GetUserBackend` has returned**. This is recorded
  as a hazard.
- **64-bit wrap-around of `UsedSpace + additionalSize`**. It needs values
  near 2^63.
- **The fresh-install bug of `LoadGlobalConfig`**. It loads no template, so
  accounts cannot be created until a restart. The model includes it in
  `Start`, but no run states it as a property.

The auth manager's map and the configuration cache are unsynchronised Go
maps, and concurrent writes to them are a runtime fault. The models take
each map access as atomic, and the race is recorded as a hazard.
`TenantRecords` goes further: each IAM call, with every `LoadUserConfig`
and `SaveUserConfig` inside it, is one atomic step. So two saves of one
user, or a load racing a save, never interleave between the file access
and the cache write (`config/multitenant.go` 215-229 and 251-256), and
`CacheCoherent` says nothing about those interleavings. It covers a save
or remove that fails between the two.
