---------------------------- MODULE TenantRecords ----------------------------
(***************************************************************************)
(* The tenant records of the multi-tenant gateway and the operations that  *)
(* keep them:                                                              *)
(*  - the configuration manager of src/config/multitenant.go: the global   *)
(*    configuration file, the backend templates it loads, the user         *)
(*    configuration files and their in-memory cache;                       *)
(*  - the IAM calls of src/cmd/versitygw/multitenant.go that create, read  *)
(*    and delete them;                                                     *)
(*  - the auth manager's storage records (src/auth/multi_tenant.go), which *)
(*    live in memory only, with their quota and used space, and the quota  *)
(*    guard CheckQuota / UpdateUsedSpace;                                  *)
(*  - the registry's default record (createDefaultUserConfig in            *)
(*    src/backend/dynamic_backend.go) for a tenant that has none;          *)
(*  - gateway start (runMultiTenant) and crash.                            *)
(* A configuration is abstracted to its backend type: status is always     *)
(* "active" and UsedStorage is never changed by any caller.  The writers   *)
(* that use the quota guard follow spec.md 4.3: check, write, then         *)
(* account; the code has no caller of CheckQuota or UpdateUsedSpace.      *)
(***************************************************************************)
EXTENDS Integers, FiniteSets

CONSTANTS
    Users,          \* access keys (model values)
    Writers,        \* concurrent PUT requests per tenant (model values)
    TemplateNames,  \* the backends of multitenant.json, loaded as templates
    AccountType,    \* Defaults.BackendType of the global configuration
    RegistryDefault,\* the registry's DefaultBackend (defaultBackendType)
    Quota,          \* Defaults.StorageQuota
    Sizes,          \* object sizes a writer puts
    FileFaults,     \* whether WriteFile and Remove of a user file may fail
    MaxRestarts,    \* bound on gateway crashes
    MaxRecords,     \* bound on storage records created
    MaxStored,      \* bound on the bytes written under one record
    None            \* an absent map entry or file (a model value)

ASSUME TenantRecordsAssumption ==
    /\ Quota \in Nat /\ Sizes \subseteq Nat \ {0}
    /\ \E s \in Sizes : \A t \in Sizes : t <= s
    /\ IsFiniteSet(Writers) /\ FileFaults \in BOOLEAN
    /\ MaxRestarts \in Nat /\ MaxRecords \in Nat /\ MaxStored \in Nat
    /\ None \notin TemplateNames \cup {RegistryDefault}

MaxSize == CHOOSE s \in Sizes : \A t \in Sizes : t <= s

Maxi(a, b) == IF a >= b THEN a ELSE b

\* A storage record of the auth manager: backend type, quota, used space,
\* its identity (the pointer the map holds) and, as history, the bytes
\* written while it was the tenant's record.
NsRecord == [type : TemplateNames \cup {RegistryDefault}, quota : Nat,
             used : Nat, id : Nat, stored : Nat]

ASSUME NoneAssumption == None \notin NsRecord

VARIABLES
    up,             \* the gateway process is running
    globalFile,     \* multitenant.json exists
    templates,      \* cm.backendTemplates: the template names loaded
    accounts,       \* base IAM accounts (persisted)
    file,           \* users/<access>.json: the backend type saved, or None
    cache,          \* cm.userConfigs: the backend type cached, or None
    ns,             \* the auth manager's userConfigs: a record, or None
    nextId,         \* identity of the next storage record
    wpc,            \* wpc[u][w]: where writer w of tenant u is
    wsize,          \* the size it is writing
    wread,          \* UpdateUsedSpace: the used space it read, and from
    wptr,           \*   which record
    restarts        \* crashes so far

vars == <<up, globalFile, templates, accounts, file, cache, ns, nextId,
          wpc, wsize, wread, wptr, restarts>>

writerVars == <<wpc, wsize, wread, wptr>>

WriterStates == {"idle", "checked", "written", "updating"}

TypeOK ==
    /\ up \in BOOLEAN /\ globalFile \in BOOLEAN
    /\ templates \subseteq TemplateNames
    /\ accounts \subseteq Users
    /\ file \in [Users -> TemplateNames \cup {None}]
    /\ cache \in [Users -> TemplateNames \cup {None}]
    /\ ns \in [Users -> NsRecord \cup {None}]
    /\ nextId \in Nat
    /\ wpc \in [Users -> [Writers -> WriterStates]]
    /\ wsize \in [Users -> [Writers -> Sizes]]
    /\ wread \in [Users -> [Writers -> Nat]]
    /\ wptr \in [Users -> [Writers -> Nat]]
    /\ restarts \in Nat

IdleWriters == [u \in Users |-> [w \in Writers |-> "idle"]]

\* A fresh installation, or one whose multitenant.json already exists.
Init ==
    /\ up = FALSE
    /\ globalFile \in BOOLEAN
    /\ templates = {}
    /\ accounts = {}
    /\ file = [u \in Users |-> None]
    /\ cache = [u \in Users |-> None]
    /\ ns = [u \in Users |-> None]
    /\ nextId = 0
    /\ wpc = IdleWriters
    /\ wsize = [u \in Users |-> [w \in Writers |-> MaxSize]]
    /\ wread = [u \in Users |-> [w \in Writers |-> 0]]
    /\ wptr = [u \in Users |-> [w \in Writers |-> 0]]
    /\ restarts = 0

\* A new storage record for u (CreateUserNamespace, SetUserStorageConfig).
NewRecord(type, quota) ==
    [type |-> type, quota |-> quota, used |-> 0, id |-> nextId, stored |-> 0]

-----------------------------------------------------------------------------
(* Gateway start and crash.                                                *)

\* runMultiTenant: a new ConfigManager and LoadGlobalConfig, a new auth
\* manager with no records.  A missing multitenant.json is replaced by
\* createDefaultConfig and saved, but no template is loaded from it; an
\* existing one is parsed and its backends become the templates.  A failed
\* SaveGlobalConfig aborts the start and changes nothing.
Start ==
    /\ ~up
    /\ up' = TRUE
    /\ \/ globalFile /\ templates' = TemplateNames
       \/ ~globalFile /\ templates' = {}
    /\ globalFile' = TRUE
    /\ cache' = [u \in Users |-> None]
    /\ ns' = [u \in Users |-> None]
    /\ UNCHANGED <<accounts, file, nextId, writerVars, restarts>>

\* The process dies: memory is lost, files and accounts remain, and the
\* requests in flight are gone.
Crash ==
    /\ up
    /\ restarts < MaxRestarts
    /\ up' = FALSE
    /\ restarts' = restarts + 1
    /\ wpc' = IdleWriters
    /\ wsize' = [u \in Users |-> [w \in Writers |-> MaxSize]]
    /\ wread' = [u \in Users |-> [w \in Writers |-> 0]]
    /\ wptr' = [u \in Users |-> [w \in Writers |-> 0]]
    /\ UNCHANGED <<globalFile, templates, accounts, file, cache, ns, nextId>>

-----------------------------------------------------------------------------
(* Configuration manager helpers.                                          *)

\* LoadUserConfig: the cached configuration, else the one in the user's
\* file (which it then caches), else None for "user config not found".
LoadUserConfig(u) == IF cache[u] # None THEN cache[u] ELSE file[u]

\* CreateUserConfig succeeds only for a backend type that is a loaded
\* template (the global configuration is always loaded once started).
CreateUserConfig(t) == t \in templates

\* DeleteUserConfig: os.Remove of the file, then the cache entry is
\* dropped; a Remove failing other than with NotExist returns first.
DeleteUserConfig(u) ==
    \/ /\ file' = [file EXCEPT ![u] = None]
       /\ cache' = [cache EXCEPT ![u] = None]
    \/ /\ FileFaults /\ file[u] # None
       /\ UNCHANGED <<file, cache>>

\* DeleteUserNamespace: UnmountUserStorage only clears a flag the model
\* does not keep; the record is then deleted.
DeleteUserNamespace(u) == ns' = [ns EXCEPT ![u] = None]

-----------------------------------------------------------------------------
(* IAM calls, each atomic.                                                 *)

\* CreateAccount: the base account, then CreateUserConfig from the default
\* backend template, SaveUserConfig (WriteFile, then the cache), then
\* CreateUserNamespace with Quota = StorageQuota and UsedSpace = 0, which
\* replaces any record the tenant had.  Each failure returns at once and
\* leaves the base account created.
CreateAccount(u) ==
    /\ up
    /\ u \notin accounts
    /\ accounts' = accounts \cup {u}
    /\ \/ /\ ~CreateUserConfig(AccountType)
          /\ UNCHANGED <<file, cache, ns, nextId>>
       \/ /\ CreateUserConfig(AccountType)
          /\ FileFaults
          /\ UNCHANGED <<file, cache, ns, nextId>>
       \/ /\ CreateUserConfig(AccountType)
          /\ nextId < MaxRecords
          /\ file' = [file EXCEPT ![u] = AccountType]
          /\ cache' = [cache EXCEPT ![u] = AccountType]
          /\ ns' = [ns EXCEPT ![u] = NewRecord(AccountType, Quota)]
          /\ nextId' = nextId + 1
    /\ UNCHANGED <<up, globalFile, templates, writerVars, restarts>>

\* Mutant: the cache is updated before WriteFile, which may then fail.
SaveUserConfigCachesFirst(u, t) ==
    \/ /\ file' = [file EXCEPT ![u] = t]
       /\ cache' = [cache EXCEPT ![u] = t]
    \/ FileFaults /\ cache' = [cache EXCEPT ![u] = t] /\ UNCHANGED file

\* SaveUserConfig of a configuration of type t: the file is written, and
\* only then the cache; a failed write changes neither.
SaveUserConfig(u, t) ==
    \/ /\ file' = [file EXCEPT ![u] = t]
       /\ cache' = [cache EXCEPT ![u] = t]
    \/ FileFaults /\ UNCHANGED <<file, cache>>

\* GetUserAccount of an existing account: LoadUserConfig, which caches
\* what it finds in the file, then UpdateUserStatus saves it; a failed
\* WriteFile leaves the file and the copy cached by the load.  With no
\* configuration, CreateUserConfig of "posix" (if it fails, return) and
\* SaveUserConfig; UpdateUserStatus then loads and saves the same again,
\* or fails to load.  Every failure is only logged.
GetUserAccount(u) ==
    /\ up
    /\ u \in accounts
    /\ \/ /\ LoadUserConfig(u) # None
          /\ cache' = [cache EXCEPT ![u] = LoadUserConfig(u)]
          /\ \/ file' = [file EXCEPT ![u] = LoadUserConfig(u)]
             \/ FileFaults /\ UNCHANGED file
       \/ /\ LoadUserConfig(u) = None
          /\ ~CreateUserConfig("posix")
          /\ UNCHANGED <<file, cache>>
       \/ /\ LoadUserConfig(u) = None
          /\ CreateUserConfig("posix")
          /\ SaveUserConfig(u, "posix")
    /\ UNCHANGED <<up, globalFile, templates, accounts, ns, nextId,
                   writerVars, restarts>>

\* DeleteUserAccount: DeleteUserNamespace (UnmountUserStorage, then the
\* record is removed), DeleteUserConfig (os.Remove; the cache entry is
\* dropped unless Remove fails with an error other than NotExist), then the
\* base account.  Failures of the first two are only logged.
DeleteUserAccount(u) ==
    /\ up
    /\ DeleteUserNamespace(u)
    /\ DeleteUserConfig(u)
    /\ accounts' = accounts \ {u}
    /\ UNCHANGED <<up, globalFile, templates, nextId, writerVars, restarts>>

\* createUserBackend for a tenant without a storage record:
\* createDefaultUserConfig stores one of the registry's default type with
\* Quota 0 and UsedSpace 0.
CreateDefaultUserConfig(u) ==
    /\ up
    /\ u \in accounts
    /\ ns[u] = None
    /\ nextId < MaxRecords
    /\ ns' = [ns EXCEPT ![u] = NewRecord(RegistryDefault, 0)]
    /\ nextId' = nextId + 1
    /\ UNCHANGED <<up, globalFile, templates, accounts, file, cache,
                   writerVars, restarts>>

-----------------------------------------------------------------------------
(* Writers using the quota guard (spec.md 4.3).                            *)

\* Mutant: the incoming size is left out of the comparison.
CheckQuotaIgnoresSize(u, w, s) ==
    /\ up
    /\ u \in accounts
    /\ wpc[u][w] = "idle"
    /\ ns[u] # None
    /\ ns[u].quota = 0 \/ ns[u].used <= ns[u].quota
    /\ ns[u].stored + s <= MaxStored
    /\ wpc' = [wpc EXCEPT ![u][w] = "checked"]
    /\ wsize' = [wsize EXCEPT ![u][w] = s]
    /\ UNCHANGED <<up, globalFile, templates, accounts, file, cache, ns,
                   nextId, wread, wptr, restarts>>

\* CheckQuota(u, s) succeeds: the tenant has a record and either no quota
\* or UsedSpace + s <= Quota.
CheckQuota(u, w, s) ==
    /\ up
    /\ u \in accounts
    /\ wpc[u][w] = "idle"
    /\ ns[u] # None
    /\ ns[u].quota = 0 \/ ns[u].used + s <= ns[u].quota
    /\ ns[u].stored + s <= MaxStored
    /\ wpc' = [wpc EXCEPT ![u][w] = "checked"]
    /\ wsize' = [wsize EXCEPT ![u][w] = s]
    /\ UNCHANGED <<up, globalFile, templates, accounts, file, cache, ns,
                   nextId, wread, wptr, restarts>>

\* The object is written; the bytes count against the tenant's current
\* record.
WriteObject(u, w) ==
    /\ wpc[u][w] = "checked"
    /\ ns' = IF ns[u] = None THEN ns
             ELSE [ns EXCEPT ![u].stored = @ + wsize[u][w]]
    /\ wpc' = [wpc EXCEPT ![u][w] = "written"]
    /\ UNCHANGED <<up, globalFile, templates, accounts, file, cache, nextId,
                   wsize, wread, wptr, restarts>>

\* UpdateUsedSpace(u, +s), first half: GetUserStorageConfig and the read
\* of config.UsedSpace; without a record it returns the error.
UpdateUsedSpaceRead(u, w) ==
    /\ wpc[u][w] = "written"
    /\ \/ /\ ns[u] # None
          /\ wpc' = [wpc EXCEPT ![u][w] = "updating"]
          /\ wread' = [wread EXCEPT ![u][w] = ns[u].used]
          /\ wptr' = [wptr EXCEPT ![u][w] = ns[u].id]
          /\ UNCHANGED wsize
       \/ /\ ns[u] = None
          /\ wpc' = [wpc EXCEPT ![u][w] = "idle"]
          /\ wsize' = [wsize EXCEPT ![u][w] = MaxSize]
          /\ UNCHANGED <<wread, wptr>>
    /\ UNCHANGED <<up, globalFile, templates, accounts, file, cache, ns,
                   nextId, restarts>>

\* Second half: config.UsedSpace = read + delta, clamped at 0, written
\* through the pointer read before, which no longer reaches the map if the
\* record has been replaced.
UpdateUsedSpaceWrite(u, w) ==
    /\ wpc[u][w] = "updating"
    /\ ns' = IF ns[u] # None /\ ns[u].id = wptr[u][w]
             THEN [ns EXCEPT ![u].used = Maxi(0, wread[u][w] + wsize[u][w])]
             ELSE ns
    /\ wpc' = [wpc EXCEPT ![u][w] = "idle"]
    /\ wsize' = [wsize EXCEPT ![u][w] = MaxSize]
    /\ wread' = [wread EXCEPT ![u][w] = 0]
    /\ wptr' = [wptr EXCEPT ![u][w] = 0]
    /\ UNCHANGED <<up, globalFile, templates, accounts, file, cache, nextId,
                   restarts>>

-----------------------------------------------------------------------------
Next ==
    \/ Start
    \/ Crash
    \/ \E u \in Users :
          \/ CreateAccount(u)
          \/ GetUserAccount(u)
          \/ DeleteUserAccount(u)
          \/ CreateDefaultUserConfig(u)
          \/ \E w \in Writers :
                \/ \E s \in Sizes : CheckQuota(u, w, s)
                \/ WriteObject(u, w)
                \/ UpdateUsedSpaceRead(u, w)
                \/ UpdateUsedSpaceWrite(u, w)

Spec == Init /\ [][Next]_vars

-----------------------------------------------------------------------------
(* Properties.                                                             *)

\* The configuration manager's cache never disagrees with the files: a
\* cached user configuration is the one saved on disk, through failed
\* writes, failed removes, deletes and re-creations (SaveUserConfig caches
\* only after WriteFile succeeds; DeleteUserConfig drops the entry only
\* when the file is gone).
CacheCoherent ==
    \A u \in Users : cache[u] # None => cache[u] = file[u]

\* The accepted race of spec.md 4.3: writers of one tenant that pass
\* CheckQuota together can push UsedSpace past the quota, but by less than
\* what the other writers have in flight, however CheckQuota and the two
\* halves of UpdateUsedSpace interleave.
UsedWithinRaceBound ==
    \A u \in Users :
        ns[u] # None /\ ns[u].quota > 0 =>
            ns[u].used <= ns[u].quota + (Cardinality(Writers) - 1) * MaxSize

\* The bytes actually written under a storage record with a quota exceed
\* the quota by at most what the other writers have in flight (spec.md
\* 4.3: concurrent writers overshoot by at most the sum of their in-flight
\* sizes).
StoredWithinQuota ==
    \A u \in Users :
        ns[u] # None /\ ns[u].quota > 0 =>
            ns[u].stored <= ns[u].quota + (Cardinality(Writers) - 1) * MaxSize

\* A tenant that has a saved configuration and a storage record has the
\* record the configuration describes: its backend type and the default
\* quota (spec.md 3 and 6: the storage record comes from the tenant
\* configuration provider).
RecordMatchesConfig ==
    \A u \in accounts :
        ns[u] # None /\ file[u] # None =>
            ns[u].type = file[u] /\ ns[u].quota = Quota

=============================================================================
