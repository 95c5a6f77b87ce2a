--------------------------- MODULE DynamicBackend ---------------------------
(***************************************************************************)
(* The namespace registry and backend lifecycle manager of the gateway     *)
(* (backend.DynamicBackendManager in src/backend/dynamic_backend.go),      *)
(* together with the per-user storage configuration map it reads and      *)
(* writes (auth.DefaultMultiTenantManager.userConfigs) and the two IAM     *)
(* operations that write that map (MultiTenantIAMService.CreateAccount and *)
(* DeleteUserAccount in src/cmd/versitygw/multitenant.go).                 *)
(*                                                                         *)
(* Request goroutines (Procs) call GetUserBackend and UnmountUserBackend.  *)
(* dm.mu is a sync.RWMutex: the fast path reads under RLock and releases   *)
(* it at once, so it is one atomic step enabled while no writer holds the  *)
(* lock; createUserBackend holds the write lock across the whole mount and *)
(* construction, modelled as the variable lock.  The kernel mount table is *)
(* the variable osMounted; mount(8)/umount(8) are external programs whose  *)
(* outcome is a nondeterministic choice.                                   *)
(***************************************************************************)
EXTENDS Naturals

CONSTANTS
    Users,              \* user (tenant) ids, i.e. access keys
    Procs,              \* request-handling goroutines
    AccountBackend,     \* globalConfig.Defaults.BackendType, used by CreateAccount
    DefaultBackend,     \* baseConfig.DefaultBackend (--default-backend)
    Templates,          \* names of the backend templates in multitenant.json
    MultiTenantEnabled, \* auth MultiTenantConfig.Enabled
    LateTimeouts,       \* a command killed by its timeout may already have taken effect
    MaxHandles,         \* backend objects are numbered modulo MaxHandles
    NoProc, NoHandle, NoConfig

ASSUME ConstantsAssumption ==
    /\ MultiTenantEnabled \in BOOLEAN
    /\ LateTimeouts \in BOOLEAN
    /\ MaxHandles \in Nat \ {0}
    /\ NoProc \notin Procs
    /\ NoHandle \notin Nat

\* The names SetUserStorageConfig accepts (auth/multi_tenant.go:131).
ValidBackendTypes == {"posix", "cephfs", "nfs", "lustre", "minio", "rustfs"}

\* The types createBackendByType mounts with mount(8) before building a
\* POSIX backend on the mount point.
MountedTypes == {"cephfs", "nfs", "lustre"}

\* The types createBackendByType can build; rustfs and unknown names fail.
BuildableTypes == {"posix", "cephfs", "nfs", "lustre", "minio"}

\* Every backend type a storage configuration can name.
ConfigTypes == ValidBackendTypes \cup Templates \cup {AccountBackend, DefaultBackend}

Statuses == {"pending", "ready", "error", "unmounting", "unmounted"}

HandleIds == 0 .. (MaxHandles - 1)

ProcStates == {"idle", "touch", "lockWait", "recheck", "mount", "construct"}

\* The absent entry is neither a backend type nor a dm.userConfigs record.
ASSUME NoConfigAssumption ==
    /\ NoConfig \notin ConfigTypes
    /\ NoConfig \notin [status : Statuses, backendType : ConfigTypes]

VARIABLES
    storageCfg,    \* auth manager userConfigs: user -> BackendType, or NoConfig
    accounts,      \* users with an IAM account
    userBackends,  \* dm.userBackends: user -> backend object, or NoHandle
    userConfigs,   \* dm.userConfigs: user -> [status, backendType], or NoConfig
    mountPoints,   \* users with an entry in dm.mountPoints
    osMounted,     \* users whose mount point has a filesystem mounted on it
    lock,          \* goroutine holding dm.mu for writing, or NoProc
    nextHandle,    \* number of the next backend object built
    pc,            \* where each goroutine is in its call
    arg,           \* the user the goroutine's call is for
    waited         \* history: in its current call, the goroutine waited
                   \* for the lock while a construction for its user failed

vars == <<storageCfg, accounts, userBackends, userConfigs, mountPoints,
          osMounted, lock, nextHandle, pc, arg, waited>>

TypeOK ==
    /\ storageCfg \in [Users -> ConfigTypes \cup {NoConfig}]
    /\ accounts \subseteq Users
    /\ userBackends \in [Users -> HandleIds \cup {NoHandle}]
    /\ userConfigs \in [Users -> [status : Statuses, backendType : ConfigTypes]
                                  \cup {NoConfig}]
    /\ mountPoints \subseteq Users
    /\ osMounted \subseteq Users
    /\ lock \in Procs \cup {NoProc}
    /\ nextHandle \in HandleIds
    /\ pc \in [Procs -> ProcStates]
    /\ arg \in [Procs -> Users]
    /\ waited \in [Procs -> BOOLEAN]

Init ==
    /\ storageCfg = [u \in Users |-> NoConfig]
    /\ accounts = {}
    /\ userBackends = [u \in Users |-> NoHandle]
    /\ userConfigs = [u \in Users |-> NoConfig]
    /\ mountPoints = {}
    /\ osMounted = {}
    /\ lock = NoProc
    /\ nextHandle = 0
    /\ pc = [p \in Procs |-> "idle"]
    /\ arg \in [Procs -> Users]
    /\ waited = [p \in Procs |-> FALSE]

-----------------------------------------------------------------------------
(* Helpers.                                                                *)

\* createDefaultUserConfig succeeds: GetUserBasePath needs multi-tenant mode
\* and SetUserStorageConfig validates the default type.
DefaultConfigOK == MultiTenantEnabled /\ DefaultBackend \in ValidBackendTypes

\* The status field of dm.userConfigs[u] set to s, when u has an entry.
WithStatus(u, s) ==
    IF userConfigs[u] = NoConfig THEN userConfigs
    ELSE [userConfigs EXCEPT ![u].status = s]

\* The deferred dm.mu.Unlock() and the return of the call.
Release(p) ==
    /\ lock' = NoProc
    /\ pc' = [pc EXCEPT ![p] = "idle"]

\* Mutation: the error path returns without dm.mu.Unlock() (no defer).
FailConstructionKeepsLock(p) ==
    /\ userConfigs' = WithStatus(arg[p], "error")
    /\ pc' = [pc EXCEPT ![p] = "idle"]
    /\ UNCHANGED lock
    /\ waited' = [q \in Procs |->
                    /\ q # p
                    /\ waited[q] \/ (pc[q] = "lockWait" /\ arg[q] = arg[p])]

\* A failed construction: the status becomes error, the call returns the
\* error; goroutines waiting for the lock for the same user are recorded.
FailConstruction(p) ==
    /\ userConfigs' = WithStatus(arg[p], "error")
    /\ Release(p)
    /\ waited' = [q \in Procs |->
                    /\ q # p
                    /\ waited[q] \/ (pc[q] = "lockWait" /\ arg[q] = arg[p])]

-----------------------------------------------------------------------------
(* Registry operations.                                                    *)

\* GetUserBackend: the lookup under RLock.  A hit goes on to
\* updateLastAccessed, a miss to createUserBackend.  Only an authenticated
\* user, one with an account, reaches the backend.  A new call starts
\* with no waited record.
GetUserBackend(p, u) ==
    /\ pc[p] = "idle"
    /\ lock = NoProc
    /\ u \in accounts
    /\ arg' = [arg EXCEPT ![p] = u]
    /\ pc' = [pc EXCEPT ![p] = IF userBackends[u] # NoHandle THEN "touch"
                                                           ELSE "lockWait"]
    /\ waited' = [waited EXCEPT ![p] = FALSE]
    /\ UNCHANGED <<storageCfg, accounts, userBackends, userConfigs,
                   mountPoints, osMounted, lock, nextHandle>>

\* updateLastAccessed takes dm.mu for writing; then the handle read under
\* RLock is returned, whatever happened to it since.
UpdateLastAccessed(p) ==
    /\ pc[p] = "touch"
    /\ lock = NoProc
    /\ pc' = [pc EXCEPT ![p] = "idle"]
    /\ UNCHANGED <<storageCfg, accounts, userBackends, userConfigs,
                   mountPoints, osMounted, lock, nextHandle, arg, waited>>

\* createUserBackend: dm.mu.Lock().
AcquireWriteLock(p) ==
    /\ pc[p] = "lockWait"
    /\ lock = NoProc
    /\ lock' = p
    /\ pc' = [pc EXCEPT ![p] = "recheck"]
    /\ UNCHANGED <<storageCfg, accounts, userBackends, userConfigs,
                   mountPoints, osMounted, nextHandle, arg, waited>>

\* Mutation: no second lookup under the write lock (single-checked).
CreateUserBackendNoRecheck(p) ==
    LET u == arg[p]
        t == IF storageCfg[u] = NoConfig THEN DefaultBackend ELSE storageCfg[u]
    IN
    /\ pc[p] = "recheck"
    /\ \/ /\ storageCfg[u] = NoConfig
          /\ ~DefaultConfigOK
          /\ Release(p)
          /\ UNCHANGED <<storageCfg, userConfigs>>
       \/ /\ storageCfg[u] # NoConfig \/ DefaultConfigOK
          /\ storageCfg' = [storageCfg EXCEPT ![u] = t]
          /\ userConfigs' = [userConfigs EXCEPT
                               ![u] = [status |-> "pending", backendType |-> t]]
          /\ pc' = [pc EXCEPT ![p] = IF t \in MountedTypes THEN "mount"
                                                         ELSE "construct"]
          /\ UNCHANGED lock
    /\ UNCHANGED <<accounts, userBackends, mountPoints, osMounted, nextHandle,
                   arg, waited>>

\* Mutation: every type goes straight to the backend constructor, as if
\* the type switch fell through to createPosixBackend.
CreateUserBackendNoMount(p) ==
    LET u == arg[p]
        t == IF storageCfg[u] = NoConfig THEN DefaultBackend ELSE storageCfg[u]
    IN
    /\ pc[p] = "recheck"
    /\ \/ /\ userBackends[u] # NoHandle
          /\ Release(p)
          /\ UNCHANGED <<storageCfg, userConfigs>>
       \/ /\ userBackends[u] = NoHandle
          /\ storageCfg[u] # NoConfig \/ DefaultConfigOK
          /\ storageCfg' = [storageCfg EXCEPT ![u] = t]
          /\ userConfigs' = [userConfigs EXCEPT
                               ![u] = [status |-> "pending", backendType |-> t]]
          /\ pc' = [pc EXCEPT ![p] = "construct"]
          /\ UNCHANGED lock
    /\ UNCHANGED <<accounts, userBackends, mountPoints, osMounted, nextHandle,
                   arg, waited>>

\* Mutation: the error of createDefaultUserConfig is dropped and the
\* configuration read back (nil) is used.
CreateUserBackendIgnoringDefaultError(p) ==
    LET u == arg[p]
        t == IF storageCfg[u] = NoConfig /\ DefaultConfigOK THEN DefaultBackend
             ELSE storageCfg[u]
    IN
    /\ pc[p] = "recheck"
    /\ \/ /\ userBackends[u] # NoHandle
          /\ Release(p)
          /\ UNCHANGED <<storageCfg, userConfigs>>
       \/ /\ userBackends[u] = NoHandle
          /\ userConfigs' = [userConfigs EXCEPT
                               ![u] = [status |-> "pending", backendType |-> t]]
          /\ pc' = [pc EXCEPT ![p] = IF t \in MountedTypes THEN "mount"
                                                         ELSE "construct"]
          /\ UNCHANGED <<storageCfg, lock>>
    /\ UNCHANGED <<accounts, userBackends, mountPoints, osMounted, nextHandle,
                   arg, waited>>

\* createUserBackend under the write lock, up to createBackendByType: the
\* second lookup, the storage configuration (a default one is created when
\* missing) and the new dm.userConfigs entry in status pending.
CreateUserBackend(p) ==
    LET u == arg[p]
        t == IF storageCfg[u] = NoConfig THEN DefaultBackend ELSE storageCfg[u]
    IN
    /\ pc[p] = "recheck"
    /\ \/ /\ userBackends[u] # NoHandle
          /\ Release(p)
          /\ UNCHANGED <<storageCfg, userConfigs>>
       \/ /\ userBackends[u] = NoHandle
          /\ storageCfg[u] = NoConfig
          /\ ~DefaultConfigOK
          /\ Release(p)
          /\ UNCHANGED <<storageCfg, userConfigs>>
       \/ /\ userBackends[u] = NoHandle
          /\ storageCfg[u] # NoConfig \/ DefaultConfigOK
          /\ storageCfg' = [storageCfg EXCEPT ![u] = t]
          /\ userConfigs' = [userConfigs EXCEPT
                               ![u] = [status |-> "pending", backendType |-> t]]
          /\ pc' = [pc EXCEPT ![p] = IF t \in MountedTypes THEN "mount"
                                                         ELSE "construct"]
          /\ UNCHANGED lock
    /\ UNCHANGED <<accounts, userBackends, mountPoints, osMounted, nextHandle,
                   arg, waited>>

\* Mutation: dm.mountPoints is written before mount(8) runs.
ExecuteMountRecordsFirst(p) ==
    LET u == arg[p] IN
    /\ pc[p] = "mount"
    /\ mountPoints' = mountPoints \cup {u}
    /\ \/ /\ u \notin osMounted
          /\ osMounted' = osMounted \cup {u}
          /\ pc' = [pc EXCEPT ![p] = "construct"]
          /\ UNCHANGED <<userConfigs, lock, waited>>
       \/ /\ FailConstruction(p)
          /\ UNCHANGED osMounted
    /\ UNCHANGED <<storageCfg, accounts, userBackends, nextHandle, arg>>

\* mountCephFS/mountNFS/mountLustre and executeMount, then the record in
\* dm.mountPoints.  The kernel refuses (EBUSY) to mount the same source
\* again on a mount point where it is already mounted.
ExecuteMount(p) ==
    LET u == arg[p] IN
    /\ pc[p] = "mount"
    /\ \/ /\ u \notin osMounted
          /\ osMounted' = osMounted \cup {u}
          /\ mountPoints' = mountPoints \cup {u}
          /\ pc' = [pc EXCEPT ![p] = "construct"]
          /\ UNCHANGED <<userConfigs, lock, waited>>
       \/ /\ FailConstruction(p)
          /\ UNCHANGED <<osMounted, mountPoints>>
       \/ /\ LateTimeouts
          /\ u \notin osMounted
          /\ osMounted' = osMounted \cup {u}
          /\ FailConstruction(p)
          /\ UNCHANGED mountPoints
    /\ UNCHANGED <<storageCfg, accounts, userBackends, nextHandle, arg>>

\* createBackendByType builds the backend object (posix.New, the Lustre
\* wrapper, s3proxy.New), which may fail; rustfs and unknown types always
\* fail.  On success the object is registered and the status is ready.
ConstructBackend(p) ==
    LET u == arg[p] IN
    /\ pc[p] = "construct"
    /\ \/ /\ userConfigs[u].backendType \in BuildableTypes
          /\ userBackends' = [userBackends EXCEPT ![u] = nextHandle]
          /\ nextHandle' = (nextHandle + 1) % MaxHandles
          /\ userConfigs' = WithStatus(u, "ready")
          /\ Release(p)
          /\ UNCHANGED waited
       \/ /\ FailConstruction(p)
          /\ UNCHANGED <<userBackends, nextHandle>>
    /\ UNCHANGED <<storageCfg, accounts, mountPoints, osMounted, arg>>

\* UnmountUserBackend, whole under the write lock: a user without a
\* dm.mountPoints entry is left alone; otherwise umount, then umount -f;
\* only when one of them succeeds are the handle and the mount point
\* forgotten.
UnmountUserBackend(p, u) ==
    /\ pc[p] = "idle"
    /\ lock = NoProc
    /\ \/ /\ u \notin mountPoints
          /\ UNCHANGED <<userBackends, userConfigs, mountPoints, osMounted>>
       \/ /\ u \in mountPoints
          /\ u \in osMounted
          /\ osMounted' = osMounted \ {u}
          /\ userBackends' = [userBackends EXCEPT ![u] = NoHandle]
          /\ mountPoints' = mountPoints \ {u}
          /\ userConfigs' = WithStatus(u, "unmounted")
       \/ /\ u \in mountPoints
          /\ userConfigs' = WithStatus(u, "unmounting")
          /\ UNCHANGED <<userBackends, mountPoints, osMounted>>
       \/ /\ LateTimeouts
          /\ u \in mountPoints
          /\ u \in osMounted
          /\ osMounted' = osMounted \ {u}
          /\ userConfigs' = WithStatus(u, "unmounting")
          /\ UNCHANGED <<userBackends, mountPoints>>
    /\ UNCHANGED <<storageCfg, accounts, lock, nextHandle, pc, arg, waited>>

-----------------------------------------------------------------------------
(* IAM operations that write the auth manager's map (no lock taken).       *)

\* CreateAccount: the base account, then CreateUserConfig (the template
\* must exist), SaveUserConfig (may fail) and CreateUserNamespace (needs
\* multi-tenant mode), which overwrites the user's storage configuration.
CreateAccount(u) ==
    /\ u \notin accounts
    /\ accounts' = accounts \cup {u}
    /\ \/ /\ AccountBackend \in Templates
          /\ MultiTenantEnabled
          /\ storageCfg' = [storageCfg EXCEPT ![u] = AccountBackend]
       \/ UNCHANGED storageCfg
    /\ UNCHANGED <<userBackends, userConfigs, mountPoints, osMounted, lock,
                   nextHandle, pc, arg, waited>>

\* DeleteUserAccount: DeleteUserNamespace drops the storage configuration
\* (its UnmountUserStorage only clears a flag of the auth manager), the
\* config file is removed and the base account deleted.
DeleteUserAccount(u) ==
    /\ storageCfg' = [storageCfg EXCEPT ![u] = NoConfig]
    /\ accounts' = accounts \ {u}
    /\ UNCHANGED <<userBackends, userConfigs, mountPoints, osMounted, lock,
                   nextHandle, pc, arg, waited>>

-----------------------------------------------------------------------------
Next ==
    \/ \E p \in Procs :
          \/ \E u \in Users : GetUserBackend(p, u) \/ UnmountUserBackend(p, u)
          \/ UpdateLastAccessed(p)
          \/ AcquireWriteLock(p)
          \/ CreateUserBackend(p)
          \/ ExecuteMount(p)
          \/ ConstructBackend(p)
    \/ \E u \in Users : CreateAccount(u) \/ DeleteUserAccount(u)

\* Go's sync.RWMutex hands the lock over to waiters that have waited long
\* (starvation mode) and lets blocked readers in before the next writer,
\* so a goroutine waiting for dm.mu eventually gets it: strong fairness.
\* The steps taken while holding the lock always complete (the mount and
\* unmount commands run under a timeout): weak fairness.
Fairness ==
    \A p \in Procs :
        /\ SF_vars(AcquireWriteLock(p))
        /\ SF_vars(UpdateLastAccessed(p))
        /\ WF_vars(CreateUserBackend(p))
        /\ WF_vars(ExecuteMount(p))
        /\ WF_vars(ConstructBackend(p))

Spec == Init /\ [][Next]_vars /\ Fairness

-----------------------------------------------------------------------------
(* Properties.                                                             *)

\* The registry's record of mounts agrees with the kernel: a user has a
\* dm.mountPoints entry exactly when its filesystem is mounted.  A mount
\* the registry does not know of is never unmounted by UnmountUserBackend
\* and makes every later mount attempt fail (EBUSY); a record without a
\* mount hands out a backend rooted in the bare mount-point directory.
MountTableAgrees == mountPoints = osMounted

\* A registered backend object of a mounted type (cephfs, nfs, lustre) sits
\* on a mount the registry tracks and the kernel has: GetUserBackend never
\* hands out a POSIX backend over an unmounted directory.
HandleBacked ==
    \A u \in Users :
        userBackends[u] # NoHandle =>
            /\ userConfigs[u] # NoConfig
            /\ userConfigs[u].backendType \in MountedTypes =>
                   u \in mountPoints \cap osMounted

\* The refinement mapping onto the registry's contract: a tenant is under
\* construction while a goroutine of createUserBackend is mounting or
\* building its backend.
Constructing == {arg[p] : p \in {q \in Procs : pc[q] \in {"mount", "construct"}}}

Registry == INSTANCE NamespaceRegistry
                WITH Handles <- HandleIds, backend <- userBackends,
                     constructing <- Constructing

\* Spec 4.1: the registry implements its contract.  At most one
\* construction per tenant is in flight, it starts only when the double
\* check under dm.mu found no handle, a handle is registered only by a
\* construction that completes, and UnmountUserBackend clears one only
\* when no construction for the tenant is running.
RegistryRefinement == Registry!Spec

\* Every GetUserBackend call returns: the lock discipline of dm.mu lets
\* every waiter through and every path out of createUserBackend unlocks.
CallsReturn == \A p \in Procs : pc[p] # "idle" ~> pc[p] = "idle"

\* Spec 4.2: teardown removes the backend object and the mount-point record
\* "regardless" of whether the OS-level unmount failed.  For a tenant with
\* a recorded mount point, UnmountUserBackend returns the umount -f error
\* before that clean-up, leaving the handle and the record in place.
ReleaseRemovesHandle ==
    [][\A p \in Procs, u \in Users :
         UnmountUserBackend(p, u) /\ u \in mountPoints =>
             userBackends'[u] = NoHandle /\ u \notin mountPoints']_vars

\* Spec 4.1 and 8: when a construction fails, the error goes to every
\* caller that was waiting for it and the registry does not retry; no
\* goroutine that waited on a failed construction for its user starts a
\* mount or construction of its own in the same call.
WaitersShareOutcome ==
    \A p \in Procs : pc[p] \in {"mount", "construct"} => ~waited[p]

\* Spec 3: a tenant's namespace is removed with a forced unmount first; a
\* user whose account (and storage configuration) was deleted keeps no
\* registered backend object.
DeletedUserHasNoBackend ==
    \A u \in Users : u \notin accounts => userBackends[u] = NoHandle

=============================================================================
