------------------------ MODULE DynamicBackendProofs ------------------------
(***************************************************************************)
(* Proofs about the registry of DynamicBackend, for every set of users and *)
(* goroutines and every configuration: the state stays well-typed, and, as *)
(* long as mount and umount report their outcome truthfully, the          *)
(* registry's mount-point records agree with the kernel's mount table and  *)
(* every registered backend of a mounted type sits on a live mount.        *)
(***************************************************************************)
EXTENDS DynamicBackend, TLAPS

USE ConstantsAssumption, NoConfigAssumption

\* The record type of dm.userConfigs entries.
UserConfigRec == [status : Statuses, backendType : ConfigTypes]

\* Setting a status keeps dm.userConfigs well-typed.
LEMMA WithStatusType ==
    ASSUME TypeOK, NEW u \in Users, NEW s \in Statuses
    PROVE  WithStatus(u, s) \in [Users -> UserConfigRec \cup {NoConfig}]
BY DEF TypeOK, WithStatus, UserConfigRec

\* Setting a status creates and removes no entry and keeps every backend type.
LEMMA WithStatusKeeps ==
    ASSUME TypeOK, NEW u \in Users, NEW s \in Statuses, NEW v \in Users
    PROVE  /\ WithStatus(u, s)[v] = NoConfig <=> userConfigs[v] = NoConfig
           /\ userConfigs[v] # NoConfig =>
                  WithStatus(u, s)[v].backendType = userConfigs[v].backendType
BY DEF TypeOK, WithStatus

\* The waited history stays a Boolean function after a failed construction.
LEMMA FailConstructionType ==
    ASSUME TypeOK, NEW p \in Procs, FailConstruction(p)
    PROVE  /\ userConfigs' \in [Users -> UserConfigRec \cup {NoConfig}]
           /\ lock' \in Procs \cup {NoProc}
           /\ pc' \in [Procs -> ProcStates]
           /\ waited' \in [Procs -> BOOLEAN]
<1>1. userConfigs' \in [Users -> UserConfigRec \cup {NoConfig}]
  <2>1. arg[p] \in Users /\ "error" \in Statuses
    BY DEF TypeOK, Statuses
  <2>2. QED
    BY <2>1, WithStatusType DEF FailConstruction
<1>2. QED
  BY <1>1 DEF FailConstruction, Release, TypeOK, ProcStates

\* Every registry, IAM and unmount step keeps the state well-typed.
LEMMA TypeOKStep == TypeOK /\ [Next]_vars => TypeOK'
<1>2. TypeOK /\ [Next]_vars => TypeOK'
  <2> SUFFICES ASSUME TypeOK, [Next]_vars PROVE TypeOK'
    OBVIOUS
  <2>1. ASSUME NEW p \in Procs, NEW u \in Users, GetUserBackend(p, u)
        PROVE  TypeOK'
    BY <2>1 DEF GetUserBackend, TypeOK, ProcStates
  <2>2. ASSUME NEW p \in Procs, NEW u \in Users, UnmountUserBackend(p, u)
        PROVE  TypeOK'
    <3>1. userConfigs' \in [Users -> UserConfigRec \cup {NoConfig}]
      <4>1. WithStatus(u, "unmounted") \in [Users -> UserConfigRec \cup {NoConfig}]
        BY WithStatusType DEF Statuses
      <4>2. WithStatus(u, "unmounting") \in [Users -> UserConfigRec \cup {NoConfig}]
        BY WithStatusType DEF Statuses
      <4>3. QED
        BY <2>2, <4>1, <4>2 DEF UnmountUserBackend, TypeOK, UserConfigRec
    <3>2. QED
      BY <2>2, <3>1 DEF UnmountUserBackend, TypeOK, UserConfigRec
  <2>3. ASSUME NEW p \in Procs, UpdateLastAccessed(p) PROVE TypeOK'
    BY <2>3 DEF UpdateLastAccessed, TypeOK, ProcStates
  <2>4. ASSUME NEW p \in Procs, AcquireWriteLock(p) PROVE TypeOK'
    BY <2>4 DEF AcquireWriteLock, TypeOK, ProcStates
  <2>5. ASSUME NEW p \in Procs, CreateUserBackend(p) PROVE TypeOK'
    <3> DEFINE u == arg[p]
               t == IF storageCfg[u] = NoConfig THEN DefaultBackend
                    ELSE storageCfg[u]
    <3>1. u \in Users /\ t \in ConfigTypes
      BY DEF TypeOK, ConfigTypes
    <3>2. [status |-> "pending", backendType |-> t] \in UserConfigRec
      BY <3>1 DEF UserConfigRec, Statuses
    <3>3. QED
      BY <2>5, <3>1, <3>2 DEF CreateUserBackend, Release, TypeOK, ProcStates,
         UserConfigRec
  <2>6. ASSUME NEW p \in Procs, ExecuteMount(p) PROVE TypeOK'
    BY <2>6, FailConstructionType DEF ExecuteMount, TypeOK, ProcStates, UserConfigRec
  <2>7. ASSUME NEW p \in Procs, ConstructBackend(p) PROVE TypeOK'
    <3>1. CASE /\ userConfigs[arg[p]].backendType \in BuildableTypes
               /\ userBackends' = [userBackends EXCEPT ![arg[p]] = nextHandle]
               /\ nextHandle' = (nextHandle + 1) % MaxHandles
               /\ userConfigs' = WithStatus(arg[p], "ready")
               /\ Release(p)
               /\ UNCHANGED waited
      <4>1. nextHandle' \in HandleIds
        BY <3>1 DEF TypeOK, HandleIds
      <4>2. userConfigs' \in [Users -> UserConfigRec \cup {NoConfig}]
        BY <3>1, WithStatusType DEF Statuses, TypeOK
      <4>3. QED
        BY <2>7, <3>1, <4>1, <4>2 DEF ConstructBackend, Release, TypeOK,
           ProcStates, UserConfigRec
    <3>2. CASE FailConstruction(p) /\ UNCHANGED <<userBackends, nextHandle>>
      BY <2>7, <3>2, FailConstructionType DEF ConstructBackend, TypeOK, UserConfigRec
    <3>3. QED
      BY <2>7, <3>1, <3>2 DEF ConstructBackend
  <2>8. ASSUME NEW u \in Users, CreateAccount(u) PROVE TypeOK'
    BY <2>8 DEF CreateAccount, TypeOK, ConfigTypes
  <2>9. ASSUME NEW u \in Users, DeleteUserAccount(u) PROVE TypeOK'
    BY <2>9 DEF DeleteUserAccount, TypeOK
  <2>10. CASE UNCHANGED vars
    BY <2>10 DEF vars, TypeOK
  <2>11. QED
    BY <2>1, <2>2, <2>3, <2>4, <2>5, <2>6, <2>7, <2>8, <2>9, <2>10 DEF Next
<1>3. QED
  BY <1>2

\* TypeOK is an invariant of the registry: every user's entries, the lock
\* and every goroutine's call stay within their types.
THEOREM TypeCorrect == Spec => []TypeOK
<1>1. Init => TypeOK
  BY DEF Init, TypeOK, HandleIds, ProcStates
<1>2. QED
  BY <1>1, TypeOKStep, PTL DEF Spec

-----------------------------------------------------------------------------
(* The mount table and the registered backends, when mount and umount     *)
(* report their outcome truthfully.                                        *)

\* dm.mu is held for writing exactly by the goroutine between Lock() and
\* the deferred Unlock() of createUserBackend.
LockDiscipline ==
    \A p \in Procs : lock = p <=> pc[p] \in {"recheck", "mount", "construct"}

\* A goroutine about to mount has a pending entry of a mounted type.
MountPending ==
    \A p \in Procs : pc[p] = "mount" =>
        /\ userConfigs[arg[p]] # NoConfig
        /\ userConfigs[arg[p]].backendType \in MountedTypes

\* A goroutine about to build the backend object has an entry, and a mount
\* when its type needs one.
ConstructReady ==
    \A p \in Procs : pc[p] = "construct" =>
        /\ userConfigs[arg[p]] # NoConfig
        /\ userConfigs[arg[p]].backendType \in MountedTypes =>
               arg[p] \in osMounted

\* The inductive strengthening of MountTableAgrees and HandleBacked.
IInv ==
    /\ TypeOK
    /\ MountTableAgrees
    /\ LockDiscipline
    /\ MountPending
    /\ ConstructReady
    /\ HandleBacked

\* The conjuncts that do not mention a goroutine in the critical section
\* are kept by every step that leaves the registry maps and mounts alone.
LEMMA LockFreeStep ==
    ASSUME IInv, TypeOK', lock = NoProc,
           NEW p \in Procs,
           pc'[p] \in {"idle", "touch", "lockWait", "recheck"},
           \A q \in Procs \ {p} : pc'[q] = pc[q] /\ arg'[q] = arg[q],
           lock' \in {NoProc, p},
           lock' = p <=> pc'[p] = "recheck",
           UNCHANGED <<userBackends, userConfigs, mountPoints, osMounted>>
    PROVE  IInv'
<1>1. \A q \in Procs : pc[q] \notin {"recheck", "mount", "construct"}
  BY ConstantsAssumption DEF IInv, LockDiscipline
<1>2. LockDiscipline'
  BY <1>1, ConstantsAssumption DEF LockDiscipline
<1>3. MountPending' /\ ConstructReady'
  BY <1>1 DEF MountPending, ConstructReady
<1>4. MountTableAgrees' /\ HandleBacked'
  BY DEF IInv, MountTableAgrees, HandleBacked
<1>5. QED
  BY <1>2, <1>3, <1>4 DEF IInv

\* Releasing dm.mu after a failed mount or construction keeps IInv: the
\* entry's status changes, nothing else of the registry does.
LEMMA FailConstructionKeeps ==
    ASSUME IInv, TypeOK', NEW p \in Procs, lock = p, FailConstruction(p),
           UNCHANGED <<userBackends, mountPoints, osMounted, arg>>
    PROVE  IInv'
<1>1. \A q \in Procs \ {p} : pc[q] \notin {"recheck", "mount", "construct"}
  BY DEF IInv, LockDiscipline
<1>2. LockDiscipline'
  BY <1>1, ConstantsAssumption DEF FailConstruction, Release, LockDiscipline,
     IInv, TypeOK
<1>3. MountPending' /\ ConstructReady'
  BY <1>1 DEF FailConstruction, Release, MountPending, ConstructReady, IInv,
     TypeOK
<1>4. HandleBacked'
  <2> SUFFICES ASSUME NEW v \in Users, userBackends'[v] # NoHandle
               PROVE  /\ userConfigs'[v] # NoConfig
                      /\ userConfigs'[v].backendType \in MountedTypes =>
                             v \in mountPoints' \cap osMounted'
    BY DEF HandleBacked
  <2>1. arg[p] \in Users /\ "error" \in Statuses
    BY DEF IInv, TypeOK, Statuses
  <2>2. /\ userConfigs'[v] = NoConfig <=> userConfigs[v] = NoConfig
        /\ userConfigs[v] # NoConfig =>
               userConfigs'[v].backendType = userConfigs[v].backendType
    BY <2>1, WithStatusKeeps DEF IInv, FailConstruction
  <2>3. QED
    BY <2>2 DEF IInv, HandleBacked
<1>5. QED
  BY <1>2, <1>3, <1>4 DEF IInv, MountTableAgrees

\* With truthful mount and umount results (no late timeouts), IInv is an
\* invariant of the registry.
THEOREM RegistryInvariant ==
    ASSUME ~LateTimeouts
    PROVE  Spec => []IInv
<1>1. Init => IInv
  BY ConstantsAssumption
     DEF Init, IInv, TypeOK, HandleIds, ProcStates, MountTableAgrees,
         LockDiscipline, MountPending, ConstructReady, HandleBacked
<1>2. IInv /\ [Next]_vars => IInv'
  <2> SUFFICES ASSUME IInv, [Next]_vars PROVE IInv'
    OBVIOUS
  <2>0. TypeOK'
    BY TypeOKStep DEF IInv
  <2>1. ASSUME NEW p \in Procs, NEW u \in Users, GetUserBackend(p, u)
        PROVE  IInv'
    <3>1. pc'[p] \in {"touch", "lockWait"} /\ lock = NoProc /\ lock' = NoProc
      BY <2>1 DEF GetUserBackend, IInv, TypeOK
    <3>2. \A q \in Procs \ {p} : pc'[q] = pc[q] /\ arg'[q] = arg[q]
      BY <2>1 DEF GetUserBackend, IInv, TypeOK
    <3>3. QED
      BY <2>0, <2>1, <3>1, <3>2, LockFreeStep DEF GetUserBackend
  <2>2. ASSUME NEW p \in Procs, NEW u \in Users, UnmountUserBackend(p, u)
        PROVE  IInv'
    <3>1. \A q \in Procs : pc[q] \notin {"recheck", "mount", "construct"}
      BY <2>2, ConstantsAssumption DEF UnmountUserBackend, IInv, LockDiscipline
    <3>2. LockDiscipline' /\ MountPending' /\ ConstructReady'
      BY <2>2, <3>1 DEF UnmountUserBackend, LockDiscipline, MountPending,
         ConstructReady
    <3>3. "unmounted" \in Statuses /\ "unmounting" \in Statuses
      BY DEF Statuses
    <3>4. CASE u \notin mountPoints
               /\ UNCHANGED <<userBackends, userConfigs, mountPoints, osMounted>>
      BY <2>0, <3>2, <3>4 DEF IInv, MountTableAgrees, HandleBacked
    <3>5. CASE /\ u \in mountPoints
               /\ u \in osMounted
               /\ osMounted' = osMounted \ {u}
               /\ userBackends' = [userBackends EXCEPT ![u] = NoHandle]
               /\ mountPoints' = mountPoints \ {u}
               /\ userConfigs' = WithStatus(u, "unmounted")
      <4>1. MountTableAgrees'
        BY <3>5 DEF IInv, MountTableAgrees
      <4>2. HandleBacked'
        <5> SUFFICES ASSUME NEW v \in Users, userBackends'[v] # NoHandle
                     PROVE  /\ userConfigs'[v] # NoConfig
                            /\ userConfigs'[v].backendType \in MountedTypes =>
                                   v \in mountPoints' \cap osMounted'
          BY DEF HandleBacked
        <5>1. v # u /\ userBackends[v] # NoHandle
          BY <3>5 DEF IInv, TypeOK
        <5>2. /\ userConfigs'[v] = NoConfig <=> userConfigs[v] = NoConfig
              /\ userConfigs[v] # NoConfig =>
                     userConfigs'[v].backendType = userConfigs[v].backendType
          BY <3>3, <3>5, WithStatusKeeps DEF IInv
        <5>3. QED
          BY <3>5, <5>1, <5>2 DEF IInv, HandleBacked
      <4>3. QED
        BY <2>0, <3>2, <4>1, <4>2 DEF IInv
    <3>6. CASE /\ u \in mountPoints
               /\ userConfigs' = WithStatus(u, "unmounting")
               /\ UNCHANGED <<userBackends, mountPoints, osMounted>>
      <4>1. HandleBacked'
        <5> SUFFICES ASSUME NEW v \in Users, userBackends'[v] # NoHandle
                     PROVE  /\ userConfigs'[v] # NoConfig
                            /\ userConfigs'[v].backendType \in MountedTypes =>
                                   v \in mountPoints' \cap osMounted'
          BY DEF HandleBacked
        <5>1. /\ userConfigs'[v] = NoConfig <=> userConfigs[v] = NoConfig
              /\ userConfigs[v] # NoConfig =>
                     userConfigs'[v].backendType = userConfigs[v].backendType
          BY <3>3, <3>6, WithStatusKeeps DEF IInv
        <5>2. QED
          BY <3>6, <5>1 DEF IInv, HandleBacked
      <4>2. QED
        BY <2>0, <3>2, <3>6, <4>1 DEF IInv, MountTableAgrees
    <3>7. QED
      BY <2>2, <3>4, <3>5, <3>6 DEF UnmountUserBackend
  <2>3. ASSUME NEW p \in Procs, UpdateLastAccessed(p) PROVE IInv'
    <3>1. pc'[p] = "idle" /\ lock = NoProc /\ lock' = NoProc
      BY <2>3 DEF UpdateLastAccessed, IInv, TypeOK
    <3>2. \A q \in Procs \ {p} : pc'[q] = pc[q] /\ arg'[q] = arg[q]
      BY <2>3 DEF UpdateLastAccessed, IInv, TypeOK
    <3>3. QED
      BY <2>0, <2>3, <3>1, <3>2, LockFreeStep DEF UpdateLastAccessed
  <2>4. ASSUME NEW p \in Procs, AcquireWriteLock(p) PROVE IInv'
    <3>1. pc'[p] = "recheck" /\ lock = NoProc /\ lock' = p
      BY <2>4 DEF AcquireWriteLock, IInv, TypeOK
    <3>2. \A q \in Procs \ {p} : pc'[q] = pc[q] /\ arg'[q] = arg[q]
      BY <2>4 DEF AcquireWriteLock, IInv, TypeOK
    <3>3. QED
      BY <2>0, <2>4, <3>1, <3>2, LockFreeStep DEF AcquireWriteLock
  <2>5. ASSUME NEW p \in Procs, CreateUserBackend(p) PROVE IInv'
    <3> DEFINE u == arg[p]
               t == IF storageCfg[u] = NoConfig THEN DefaultBackend
                    ELSE storageCfg[u]
    <3>1. lock = p /\ u \in Users
      BY <2>5 DEF CreateUserBackend, IInv, LockDiscipline, TypeOK
    <3>2. \A q \in Procs \ {p} : pc[q] \notin {"recheck", "mount", "construct"}
      BY <3>1 DEF IInv, LockDiscipline
    <3>3. CASE Release(p) /\ UNCHANGED <<storageCfg, userConfigs>>
      <4>1. LockDiscipline'
        BY <2>5, <3>2, <3>3, ConstantsAssumption
           DEF Release, LockDiscipline, IInv, TypeOK
      <4>2. MountPending' /\ ConstructReady'
        BY <2>5, <3>2, <3>3 DEF CreateUserBackend, Release, MountPending,
           ConstructReady, IInv, TypeOK
      <4>3. QED
        BY <2>0, <2>5, <3>3, <4>1, <4>2 DEF CreateUserBackend, IInv,
           MountTableAgrees, HandleBacked
    <3>4. CASE /\ userBackends[u] = NoHandle
               /\ storageCfg' = [storageCfg EXCEPT ![u] = t]
               /\ userConfigs' = [userConfigs EXCEPT
                                    ![u] = [status |-> "pending", backendType |-> t]]
               /\ pc' = [pc EXCEPT ![p] = IF t \in MountedTypes THEN "mount"
                                                              ELSE "construct"]
               /\ UNCHANGED lock
      <4>1. LockDiscipline'
        BY <2>5, <3>1, <3>2, <3>4 DEF CreateUserBackend, LockDiscipline, IInv,
           TypeOK
      <4>2. MountPending' /\ ConstructReady'
        <5>1. /\ [status |-> "pending", backendType |-> t] # NoConfig
              /\ userConfigs'[u] = [status |-> "pending", backendType |-> t]
          <6>1. t \in ConfigTypes /\ "pending" \in Statuses
            BY <3>1 DEF IInv, TypeOK, ConfigTypes, Statuses
          <6>. QED
            BY <3>1, <3>4, <6>1, NoConfigAssumption DEF IInv, TypeOK
        <5>2. arg' = arg /\ pc'[p] = IF t \in MountedTypes THEN "mount" ELSE "construct"
          BY <2>5, <3>4 DEF CreateUserBackend, IInv, TypeOK
        <5>3. \A q \in Procs \ {p} : pc'[q] = pc[q]
          BY <3>4 DEF IInv, TypeOK
        <5>. QED
          BY <3>2, <5>1, <5>2, <5>3 DEF MountPending, ConstructReady
      <4>3. HandleBacked'
        BY <2>5, <3>1, <3>4 DEF CreateUserBackend, HandleBacked, IInv, TypeOK
      <4>4. QED
        BY <2>0, <2>5, <4>1, <4>2, <4>3 DEF CreateUserBackend, IInv, MountTableAgrees
    <3>5. QED
      BY <2>5, <3>3, <3>4 DEF CreateUserBackend
  <2>6. ASSUME NEW p \in Procs, ExecuteMount(p) PROVE IInv'
    <3> DEFINE u == arg[p]
    <3>1. lock = p /\ u \in Users
      BY <2>6 DEF ExecuteMount, IInv, LockDiscipline, TypeOK
    <3>2. \A q \in Procs \ {p} : pc[q] \notin {"recheck", "mount", "construct"}
      BY <3>1 DEF IInv, LockDiscipline
    <3>3. CASE /\ u \notin osMounted
               /\ osMounted' = osMounted \cup {u}
               /\ mountPoints' = mountPoints \cup {u}
               /\ pc' = [pc EXCEPT ![p] = "construct"]
               /\ UNCHANGED <<userConfigs, lock, waited>>
      <4>1. LockDiscipline'
        BY <2>6, <3>1, <3>2, <3>3 DEF LockDiscipline, IInv, TypeOK
      <4>2. MountPending' /\ ConstructReady'
        BY <2>6, <3>2, <3>3 DEF ExecuteMount, MountPending, ConstructReady,
           IInv, TypeOK
      <4>3. MountTableAgrees' /\ HandleBacked'
        BY <2>6, <3>3 DEF ExecuteMount, MountTableAgrees, HandleBacked, IInv
      <4>4. QED
        BY <2>0, <4>1, <4>2, <4>3 DEF IInv
    <3>4. CASE FailConstruction(p) /\ UNCHANGED <<osMounted, mountPoints>>
      BY <2>0, <2>6, <3>1, <3>4, FailConstructionKeeps DEF ExecuteMount
    <3>5. QED
      BY <2>6, <3>3, <3>4 DEF ExecuteMount
  <2>7. ASSUME NEW p \in Procs, ConstructBackend(p) PROVE IInv'
    <3> DEFINE u == arg[p]
    <3>1. lock = p /\ u \in Users
      BY <2>7 DEF ConstructBackend, IInv, LockDiscipline, TypeOK
    <3>2. \A q \in Procs \ {p} : pc[q] \notin {"recheck", "mount", "construct"}
      BY <3>1 DEF IInv, LockDiscipline
    <3>3. CASE /\ userConfigs[u].backendType \in BuildableTypes
               /\ userBackends' = [userBackends EXCEPT ![u] = nextHandle]
               /\ nextHandle' = (nextHandle + 1) % MaxHandles
               /\ userConfigs' = WithStatus(u, "ready")
               /\ Release(p)
               /\ UNCHANGED waited
      <4>1. LockDiscipline'
        BY <2>7, <3>2, <3>3, ConstantsAssumption
           DEF Release, LockDiscipline, IInv, TypeOK
      <4>2. MountPending' /\ ConstructReady'
        BY <2>7, <3>2, <3>3 DEF ConstructBackend, Release, MountPending,
           ConstructReady, IInv, TypeOK
      <4>3. HandleBacked'
        <5> SUFFICES ASSUME NEW v \in Users, userBackends'[v] # NoHandle
                     PROVE  /\ userConfigs'[v] # NoConfig
                            /\ userConfigs'[v].backendType \in MountedTypes =>
                                   v \in mountPoints' \cap osMounted'
          BY DEF HandleBacked
        <5>1. /\ userConfigs'[v] = NoConfig <=> userConfigs[v] = NoConfig
              /\ userConfigs[v] # NoConfig =>
                     userConfigs'[v].backendType = userConfigs[v].backendType
          <6>1. "ready" \in Statuses
            BY DEF Statuses
          <6>2. QED
            BY <3>1, <3>3, <6>1, WithStatusKeeps DEF IInv
        <5>2. CASE v = u
          <6>1. /\ userConfigs[u] # NoConfig
                /\ userConfigs[u].backendType \in MountedTypes => u \in osMounted
            BY <2>7 DEF ConstructBackend, ConstructReady, IInv
          <6>2. QED
            BY <2>7, <5>1, <5>2, <6>1 DEF ConstructBackend, IInv,
               MountTableAgrees
        <5>3. CASE v # u
          BY <2>7, <3>3, <5>1, <5>3 DEF ConstructBackend, IInv, HandleBacked,
             TypeOK
        <5>4. QED
          BY <5>2, <5>3
      <4>4. QED
        BY <2>0, <2>7, <4>1, <4>2, <4>3 DEF ConstructBackend, IInv, MountTableAgrees
    <3>4. CASE FailConstruction(p) /\ UNCHANGED <<userBackends, nextHandle>>
      BY <2>0, <2>7, <3>1, <3>4, FailConstructionKeeps DEF ConstructBackend
    <3>5. QED
      BY <2>7, <3>3, <3>4 DEF ConstructBackend
  <2>8. ASSUME NEW u \in Users, CreateAccount(u) \/ DeleteUserAccount(u)
        PROVE  IInv'
    BY <2>0, <2>8
       DEF CreateAccount, DeleteUserAccount, IInv, MountTableAgrees,
           LockDiscipline, MountPending, ConstructReady, HandleBacked
  <2>10. CASE UNCHANGED vars
    BY <2>10
       DEF vars, IInv, TypeOK, MountTableAgrees, LockDiscipline, MountPending,
           ConstructReady, HandleBacked
  <2>11. QED
    BY <2>1, <2>2, <2>3, <2>4, <2>5, <2>6, <2>7, <2>8, <2>10 DEF Next
<1>3. QED
  BY <1>1, <1>2, PTL DEF Spec

\* With truthful mount results, dm.mountPoints always agrees with the
\* kernel's mount table (UnmountUserBackend and executeMount).
THEOREM MountTableAgreement ==
    ASSUME ~LateTimeouts
    PROVE  Spec => []MountTableAgrees
<1>1. IInv => MountTableAgrees
  BY DEF IInv
<1>2. QED
  BY RegistryInvariant, <1>1, PTL

\* With truthful mount results, GetUserBackend never hands out a backend
\* of a mounted type whose mount is gone (createUserBackend, ExecuteMount,
\* UnmountUserBackend).
THEOREM HandlesAreBacked ==
    ASSUME ~LateTimeouts
    PROVE  Spec => []HandleBacked
<1>1. IInv => HandleBacked
  BY DEF IInv
<1>2. QED
  BY RegistryInvariant, <1>1, PTL

-----------------------------------------------------------------------------
(* Backend objects are never replaced.                                     *)

\* The double check of createUserBackend: a goroutine that has passed the
\* second lookup holds dm.mu and its user still has no backend object.
CheckedAbsent ==
    \A p \in Procs : pc[p] \in {"mount", "construct"} =>
        /\ lock = p
        /\ userBackends[arg[p]] = NoHandle

\* The inductive invariant behind RegistryRefines; unlike IInv it needs
\* no assumption on the mount results.
HInv == TypeOK /\ LockDiscipline /\ CheckedAbsent


\* A step outside the critical section, possibly entering it.
LEMMA HInvLockFree ==
    ASSUME HInv, TypeOK', lock = NoProc,
           NEW p \in Procs,
           pc'[p] \in {"idle", "touch", "lockWait", "recheck"},
           \A q \in Procs \ {p} : pc'[q] = pc[q],
           lock' \in {NoProc, p},
           lock' = p <=> pc'[p] = "recheck"
    PROVE  HInv'
<1>1. \A q \in Procs : pc[q] \notin {"recheck", "mount", "construct"}
  BY ConstantsAssumption DEF HInv, LockDiscipline
<1>2. LockDiscipline'
  BY <1>1, ConstantsAssumption DEF LockDiscipline
<1>3. CheckedAbsent'
  BY <1>1 DEF CheckedAbsent
<1>. QED
  BY <1>2, <1>3 DEF HInv

\* The deferred Unlock(): the holder returns and the lock is free.
LEMMA HInvRelease ==
    ASSUME HInv, TypeOK', NEW p \in Procs, lock = p,
           lock' = NoProc, pc'[p] = "idle",
           \A q \in Procs \ {p} : pc'[q] = pc[q]
    PROVE  HInv'
<1>1. \A q \in Procs \ {p} : pc[q] \notin {"recheck", "mount", "construct"}
  BY DEF HInv, LockDiscipline
<1>2. LockDiscipline'
  BY <1>1, ConstantsAssumption DEF LockDiscipline
<1>3. CheckedAbsent'
  BY <1>1 DEF CheckedAbsent
<1>. QED
  BY <1>2, <1>3 DEF HInv

\* The holder moves on to mount or construct, its user still without a
\* backend object.
LEMMA HInvHold ==
    ASSUME HInv, TypeOK', NEW p \in Procs, lock = p, lock' = p,
           pc'[p] \in {"mount", "construct"},
           \A q \in Procs \ {p} : pc'[q] = pc[q],
           arg' = arg,
           userBackends'[arg[p]] = NoHandle
    PROVE  HInv'
<1>1. \A q \in Procs \ {p} : pc[q] \notin {"recheck", "mount", "construct"}
  BY DEF HInv, LockDiscipline
<1>2. LockDiscipline'
  BY <1>1 DEF LockDiscipline
<1>3. CheckedAbsent'
  BY <1>1 DEF CheckedAbsent
<1>. QED
  BY <1>2, <1>3 DEF HInv

\* Every step keeps HInv, whatever the mount commands report.
LEMMA HInvStep == HInv /\ [Next]_vars => HInv'
<1> SUFFICES ASSUME HInv, [Next]_vars PROVE HInv'
  OBVIOUS
<1>0. TypeOK'
  BY TypeOKStep DEF HInv
<1>1. ASSUME NEW p \in Procs, NEW u \in Users, GetUserBackend(p, u)
      PROVE  HInv'
  BY <1>0, <1>1, HInvLockFree DEF GetUserBackend, HInv, TypeOK
<1>2. ASSUME NEW p \in Procs, NEW u \in Users, UnmountUserBackend(p, u)
      PROVE  HInv'
  <2>1. \A q \in Procs : pc[q] \notin {"recheck", "mount", "construct"}
    BY <1>2, ConstantsAssumption DEF UnmountUserBackend, HInv, LockDiscipline
  <2>. QED
    BY <1>0, <1>2, <2>1 DEF UnmountUserBackend, HInv, LockDiscipline,
       CheckedAbsent
<1>3. ASSUME NEW p \in Procs, UpdateLastAccessed(p) PROVE HInv'
  BY <1>0, <1>3, HInvLockFree DEF UpdateLastAccessed, HInv, TypeOK
<1>4. ASSUME NEW p \in Procs, AcquireWriteLock(p) PROVE HInv'
  BY <1>0, <1>4, HInvLockFree DEF AcquireWriteLock, HInv, TypeOK
<1>5. ASSUME NEW p \in Procs, CreateUserBackend(p) PROVE HInv'
  <2>1. lock = p
    BY <1>5 DEF CreateUserBackend, HInv, LockDiscipline
  <2>2. CASE Release(p)
    BY <1>0, <2>1, <2>2, HInvRelease DEF Release, HInv, TypeOK
  <2>3. CASE ~Release(p)
    <3>1. /\ userBackends[arg[p]] = NoHandle
          /\ pc'[p] \in {"mount", "construct"}
          /\ \A q \in Procs \ {p} : pc'[q] = pc[q]
          /\ UNCHANGED <<lock, arg, userBackends>>
      BY <1>5, <2>1, <2>3 DEF CreateUserBackend, Release, HInv, TypeOK
    <3>. QED
      BY <1>0, <2>1, <3>1, HInvHold
  <2>. QED
    BY <2>2, <2>3
<1>6. ASSUME NEW p \in Procs, ExecuteMount(p) PROVE HInv'
  <2>1. lock = p /\ userBackends[arg[p]] = NoHandle
    BY <1>6 DEF ExecuteMount, HInv, LockDiscipline, CheckedAbsent
  <2>2. CASE FailConstruction(p)
    BY <1>0, <1>6, <2>1, <2>2, HInvRelease DEF FailConstruction, Release,
       HInv, TypeOK
  <2>3. CASE ~FailConstruction(p)
    <3>1. /\ pc'[p] = "construct"
          /\ \A q \in Procs \ {p} : pc'[q] = pc[q]
          /\ UNCHANGED <<lock, arg, userBackends>>
      BY <1>6, <2>3 DEF ExecuteMount, HInv, TypeOK
    <3>. QED
      BY <1>0, <2>1, <3>1, HInvHold
  <2>. QED
    BY <2>2, <2>3
<1>7. ASSUME NEW p \in Procs, ConstructBackend(p) PROVE HInv'
  <2>1. lock = p
    BY <1>7 DEF ConstructBackend, HInv, LockDiscipline
  <2>. QED
    BY <1>0, <1>7, <2>1, HInvRelease DEF ConstructBackend, FailConstruction,
       Release, HInv, TypeOK
<1>8. ASSUME NEW u \in Users, CreateAccount(u) \/ DeleteUserAccount(u)
      PROVE  HInv'
  BY <1>0, <1>8 DEF CreateAccount, DeleteUserAccount, HInv, LockDiscipline,
     CheckedAbsent
<1>9. CASE UNCHANGED vars
  BY <1>9 DEF vars, HInv, TypeOK, LockDiscipline, CheckedAbsent
<1>. QED
  BY <1>1, <1>2, <1>3, <1>4, <1>5, <1>6, <1>7, <1>8, <1>9 DEF Next

-----------------------------------------------------------------------------
(* The registry implements its contract (NamespaceRegistry).               *)

\* The tenants under construction for a given goroutine state.
ConstructingOf(pcv, argv) ==
    {argv[p] : p \in {q \in Procs : pcv[q] \in {"mount", "construct"}}}

\* When only the lock holder can be mounting or constructing, the tenants
\* under construction are the lock holder's tenant or none.
LEMMA ConstructingOfSingle ==
    ASSUME NEW pcv, NEW argv, NEW lk,
           \A p \in Procs : pcv[p] \in {"mount", "construct"} => lk = p
    PROVE  ConstructingOf(pcv, argv) =
               IF lk \in Procs /\ pcv[lk] \in {"mount", "construct"}
               THEN {argv[lk]} ELSE {}
BY DEF ConstructingOf

\* Under HInv, at most the goroutine holding dm.mu is constructing.
LEMMA ConstructingNow ==
    ASSUME HInv
    PROVE  Constructing = IF lock \in Procs /\ pc[lock] \in {"mount", "construct"}
                          THEN {arg[lock]} ELSE {}
<1>1. \A p \in Procs : pc[p] \in {"mount", "construct"} => lock = p
  BY DEF HInv, CheckedAbsent
<1>2. Constructing = ConstructingOf(pc, arg)
  BY DEF Constructing, ConstructingOf
<1>. QED
  BY <1>1, <1>2, ConstructingOfSingle

\* The same after a step that keeps HInv.
LEMMA ConstructingNext ==
    ASSUME HInv'
    PROVE  Constructing' = IF lock' \in Procs /\ pc'[lock'] \in {"mount", "construct"}
                           THEN {arg'[lock']} ELSE {}
<1>1. \A p \in Procs : pc'[p] \in {"mount", "construct"} => lock' = p
  BY DEF HInv, CheckedAbsent
<1>2. Constructing' = ConstructingOf(pc', arg')
  BY DEF Constructing, ConstructingOf
<1>. QED
  BY <1>1, <1>2, ConstructingOfSingle

\* Every step of the registry is a step of its contract or leaves the
\* handles and the constructions in flight alone.
LEMMA RegistryStep ==
    HInv /\ HInv' /\ [Next]_vars =>
        [Registry!Next]_<<userBackends, Constructing>>
<1> SUFFICES ASSUME HInv, HInv', [Next]_vars
             PROVE  [Registry!Next]_<<userBackends, Constructing>>
  OBVIOUS
<1>0. /\ Constructing = IF lock \in Procs /\ pc[lock] \in {"mount", "construct"}
                        THEN {arg[lock]} ELSE {}
      /\ Constructing' = IF lock' \in Procs /\ pc'[lock'] \in {"mount", "construct"}
                         THEN {arg'[lock']} ELSE {}
      /\ NoProc \notin Procs
  BY ConstructingNow, ConstructingNext, ConstantsAssumption
<1>1. ASSUME NEW p \in Procs,
             \/ \E u \in Users : GetUserBackend(p, u)
             \/ UpdateLastAccessed(p)
             \/ AcquireWriteLock(p)
      PROVE  UNCHANGED <<userBackends, Constructing>>
  <2>1. /\ lock = NoProc /\ UNCHANGED userBackends
        /\ (lock' = NoProc \/ (lock' = p /\ pc'[p] = "recheck"))
    BY <1>1 DEF GetUserBackend, UpdateLastAccessed, AcquireWriteLock, HInv,
       TypeOK
  <2>. QED
    BY <1>0, <2>1
<1>2. ASSUME NEW p \in Procs, CreateUserBackend(p)
      PROVE  [Registry!Next]_<<userBackends, Constructing>>
  <2>1. lock = p /\ pc[p] = "recheck" /\ Constructing = {}
    BY <1>0, <1>2 DEF CreateUserBackend, HInv, LockDiscipline
  <2>2. \/ lock' = NoProc /\ UNCHANGED userBackends
        \/ /\ userBackends[arg[p]] = NoHandle
           /\ lock' = p /\ pc'[p] \in {"mount", "construct"}
           /\ UNCHANGED <<arg, userBackends>>
    <3>1. UNCHANGED <<arg, userBackends>>
      BY <1>2 DEF CreateUserBackend
    <3>2. CASE \/ userBackends[arg[p]] # NoHandle
               \/ storageCfg[arg[p]] = NoConfig /\ ~DefaultConfigOK
      <4>1. Release(p)
        BY <1>2, <3>2 DEF CreateUserBackend
      <4>. QED
        BY <3>1, <4>1 DEF Release
    <3>3. CASE /\ userBackends[arg[p]] = NoHandle
               /\ storageCfg[arg[p]] # NoConfig \/ DefaultConfigOK
      <4>1. /\ lock' = lock
            /\ pc' = [pc EXCEPT ![p] =
                        IF (IF storageCfg[arg[p]] = NoConfig THEN DefaultBackend
                            ELSE storageCfg[arg[p]]) \in MountedTypes
                        THEN "mount" ELSE "construct"]
        BY <1>2, <3>3 DEF CreateUserBackend, Release
      <4>. QED
        BY <2>1, <3>1, <3>3, <4>1 DEF HInv, TypeOK
    <3>. QED
      BY <3>2, <3>3
  <2>3. CASE lock' = NoProc /\ UNCHANGED userBackends
    BY <1>0, <2>1, <2>3
  <2>4. CASE /\ userBackends[arg[p]] = NoHandle
             /\ lock' = p /\ pc'[p] \in {"mount", "construct"}
             /\ UNCHANGED <<arg, userBackends>>
    <3>1. Constructing' = {arg[p]}
      BY <1>0, <2>4
    <3>2. Registry!BeginConstruction(arg[p])
      BY <2>1, <2>4, <3>1 DEF Registry!BeginConstruction
    <3>. QED
      BY <3>2 DEF Registry!Next, HInv, TypeOK
  <2>. QED
    BY <2>2, <2>3, <2>4
<1>3. ASSUME NEW p \in Procs, ExecuteMount(p) \/ ConstructBackend(p)
      PROVE  [Registry!Next]_<<userBackends, Constructing>>
  <2>1. lock = p /\ pc[p] \in {"mount", "construct"} /\ Constructing = {arg[p]}
    BY <1>0, <1>3 DEF ExecuteMount, ConstructBackend, HInv, CheckedAbsent
  <2>2. \/ lock' = NoProc /\ UNCHANGED userBackends
        \/ lock' = p /\ pc'[p] = "construct" /\ UNCHANGED <<arg, userBackends>>
        \/ /\ lock' = NoProc
           /\ userBackends' = [userBackends EXCEPT ![arg[p]] = nextHandle]
    <3>1. CASE ExecuteMount(p)
      <4>1. UNCHANGED userBackends
        BY <3>1 DEF ExecuteMount
      <4>2. CASE FailConstruction(p)
        BY <4>1, <4>2 DEF FailConstruction, Release
      <4>3. CASE ~FailConstruction(p)
        <5>1. pc' = [pc EXCEPT ![p] = "construct"] /\ UNCHANGED <<lock, arg>>
          BY <3>1, <4>3 DEF ExecuteMount
        <5>. QED
          BY <4>1, <5>1, <2>1 DEF HInv, TypeOK
      <4>. QED
        BY <4>2, <4>3
    <3>2. CASE ConstructBackend(p)
      <4>1. CASE FailConstruction(p) /\ UNCHANGED userBackends
        BY <4>1 DEF FailConstruction, Release
      <4>2. CASE ~(FailConstruction(p) /\ UNCHANGED userBackends)
        BY <3>2, <4>2 DEF ConstructBackend, Release
      <4>. QED
        BY <4>1, <4>2
    <3>. QED
      BY <1>3, <3>1, <3>2
  <2>3. CASE lock' = NoProc /\ UNCHANGED userBackends
    <3>1. Registry!FailConstruction(arg[p])
      BY <1>0, <2>1, <2>3 DEF Registry!FailConstruction
    <3>. QED
      BY <3>1 DEF Registry!Next, HInv, TypeOK
  <2>4. CASE lock' = p /\ pc'[p] = "construct" /\ UNCHANGED <<arg, userBackends>>
    BY <1>0, <2>1, <2>4
  <2>5. CASE /\ lock' = NoProc
             /\ userBackends' = [userBackends EXCEPT ![arg[p]] = nextHandle]
    <3>1. Registry!CompleteConstruction(arg[p], nextHandle)
      BY <1>0, <2>1, <2>5 DEF Registry!CompleteConstruction
    <3>. QED
      BY <3>1 DEF Registry!Next, HInv, TypeOK, HandleIds
  <2>. QED
    BY <2>2, <2>3, <2>4, <2>5
<1>4. ASSUME NEW p \in Procs, NEW u \in Users, UnmountUserBackend(p, u)
      PROVE  [Registry!Next]_<<userBackends, Constructing>>
  <2>1. lock = NoProc /\ lock' = NoProc /\ Constructing = {} /\ Constructing' = {}
    BY <1>0, <1>4 DEF UnmountUserBackend
  <2>2. \/ userBackends' = userBackends
        \/ userBackends' = [userBackends EXCEPT ![u] = NoHandle]
    BY <1>4 DEF UnmountUserBackend
  <2>3. CASE userBackends' = [userBackends EXCEPT ![u] = NoHandle]
    <3>1. Registry!Release(u)
      BY <2>1, <2>3 DEF Registry!Release
    <3>. QED
      BY <3>1 DEF Registry!Next
  <2>. QED
    BY <2>1, <2>2, <2>3
<1>5. ASSUME NEW u \in Users, CreateAccount(u) \/ DeleteUserAccount(u)
      PROVE  UNCHANGED <<userBackends, Constructing>>
  BY <1>5 DEF CreateAccount, DeleteUserAccount, Constructing
<1>6. CASE UNCHANGED vars
  BY <1>6 DEF vars, Constructing
<1>. QED
  BY <1>1, <1>2, <1>3, <1>4, <1>5, <1>6 DEF Next

\* The double-checked construction of createUserBackend implements the
\* registry's contract (spec.md 4.1): for every set of tenants and
\* goroutines and whatever mount and umount report, at most one
\* construction per tenant is in flight, it starts only for a tenant the
\* second lookup under dm.mu found without a handle, a handle is
\* registered only when a construction completes, and UnmountUserBackend
\* removes one only while no construction is running.
THEOREM RegistryRefines == Spec => RegistryRefinement
<1>1. Init => HInv
  BY ConstantsAssumption
     DEF Init, HInv, TypeOK, HandleIds, ProcStates, LockDiscipline,
         CheckedAbsent
<1>2. Init => Registry!Init
  BY DEF Init, Registry!Init, Constructing
<1>3. HInv /\ [Next]_vars => HInv'
  BY HInvStep
<1>4. HInv /\ HInv' /\ [Next]_vars =>
        [Registry!Next]_<<userBackends, Constructing>>
  BY RegistryStep
<1>. QED
  BY <1>1, <1>2, <1>3, <1>4, PTL DEF Spec, RegistryRefinement, Registry!Spec,
     Registry!regVars

=============================================================================
