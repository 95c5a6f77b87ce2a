------------------------- MODULE TenantRecordsProofs -------------------------
(***************************************************************************)
(* TLAPS proofs about TenantRecords: the configuration manager's cache     *)
(* agrees with the user configuration files, for any number of tenants,    *)
(* writers, templates, crashes and file faults.                            *)
(***************************************************************************)
EXTENDS TenantRecords, TLAPS

\* The part of the state the cache and the files live in.
FilesTypeOK ==
    /\ templates \subseteq TemplateNames
    /\ file \in [Users -> TemplateNames \cup {None}]
    /\ cache \in [Users -> TemplateNames \cup {None}]

\* The invariant proved: the types, and the cache agrees with the files.
CacheInv == FilesTypeOK /\ CacheCoherent

\* The assumptions on the constants the proofs use throughout (the one
\* about the largest object size is cited where it is needed).
LEMMA ConstantFacts ==
    /\ Quota \in Nat
    /\ FileFaults \in BOOLEAN
    /\ MaxRestarts \in Nat /\ MaxRecords \in Nat /\ MaxStored \in Nat
    /\ None \notin TemplateNames \cup {RegistryDefault}
BY TenantRecordsAssumption

USE ConstantFacts

\* SaveUserConfig of a template type keeps the cache equal to the files.
LEMMA SaveKeepsCoherent ==
    ASSUME CacheInv, NEW u \in Users, NEW t \in TemplateNames,
           SaveUserConfig(u, t), UNCHANGED templates
    PROVE  CacheInv'
BY DEF SaveUserConfig, CacheInv, FilesTypeOK, CacheCoherent

LEMMA CacheInvInit == Init => CacheInv
BY DEF Init, CacheInv, FilesTypeOK, CacheCoherent

\* Every step keeps the cache equal to the files: a start empties the
\* cache, a save writes the file before the cache and a failed one writes
\* neither, and a delete drops both or, when Remove fails, neither.
LEMMA CacheInvStep == CacheInv /\ [Next]_vars => CacheInv'
<1> SUFFICES ASSUME CacheInv, [Next]_vars PROVE CacheInv'
  OBVIOUS
<1>1. CASE Start
  BY <1>1 DEF Start, CacheInv, FilesTypeOK, CacheCoherent
<1>2. CASE Crash
  BY <1>2 DEF Crash, CacheInv, FilesTypeOK, CacheCoherent
<1>3. ASSUME NEW u \in Users, CreateAccount(u) PROVE CacheInv'
  <2>1. UNCHANGED templates
    BY <1>3 DEF CreateAccount
  <2>2. CASE /\ AccountType \in TemplateNames
             /\ file' = [file EXCEPT ![u] = AccountType]
             /\ cache' = [cache EXCEPT ![u] = AccountType]
    BY <2>1, <2>2 DEF CacheInv, FilesTypeOK, CacheCoherent
  <2>3. CASE UNCHANGED <<file, cache>>
    BY <2>1, <2>3 DEF CacheInv, FilesTypeOK, CacheCoherent
  <2>. QED
    BY <1>3, <2>2, <2>3 DEF CreateAccount, CreateUserConfig, CacheInv,
       FilesTypeOK
<1>4. ASSUME NEW u \in Users, GetUserAccount(u) PROVE CacheInv'
  <2>1. UNCHANGED templates
    BY <1>4 DEF GetUserAccount
  <2>2. CASE /\ LoadUserConfig(u) # None
             /\ cache' = [cache EXCEPT ![u] = LoadUserConfig(u)]
             /\ file' \in {[file EXCEPT ![u] = LoadUserConfig(u)], file}
    <3>1. LoadUserConfig(u) \in TemplateNames
      BY <2>2 DEF LoadUserConfig, CacheInv, FilesTypeOK
    <3>2. cache[u] # None => LoadUserConfig(u) = file[u]
      BY DEF LoadUserConfig, CacheInv, CacheCoherent
    <3>. QED
      BY <3>1, <3>2, <2>1, <2>2 DEF LoadUserConfig, CacheInv, FilesTypeOK,
         CacheCoherent
  <2>3. CASE CreateUserConfig("posix") /\ SaveUserConfig(u, "posix")
    <3>1. "posix" \in TemplateNames
      BY <2>3 DEF CreateUserConfig, CacheInv, FilesTypeOK
    <3>. QED
      BY <3>1, <2>1, <2>3, SaveKeepsCoherent
  <2>4. CASE UNCHANGED <<file, cache>>
    BY <2>1, <2>4 DEF CacheInv, FilesTypeOK, CacheCoherent
  <2>. QED
    BY <1>4, <2>2, <2>3, <2>4 DEF GetUserAccount
<1>5. ASSUME NEW u \in Users, DeleteUserAccount(u) PROVE CacheInv'
  BY <1>5 DEF DeleteUserAccount, DeleteUserNamespace, DeleteUserConfig,
     CacheInv, FilesTypeOK, CacheCoherent
<1>6. ASSUME NEW u \in Users, CreateDefaultUserConfig(u) PROVE CacheInv'
  BY <1>6 DEF CreateDefaultUserConfig, CacheInv, FilesTypeOK, CacheCoherent
<1>7. ASSUME NEW u \in Users, NEW w \in Writers,
             \/ \E s \in Sizes : CheckQuota(u, w, s)
             \/ WriteObject(u, w)
             \/ UpdateUsedSpaceRead(u, w)
             \/ UpdateUsedSpaceWrite(u, w)
      PROVE CacheInv'
  BY <1>7 DEF CheckQuota, WriteObject, UpdateUsedSpaceRead,
     UpdateUsedSpaceWrite, CacheInv, FilesTypeOK, CacheCoherent
<1>8. CASE UNCHANGED vars
  BY <1>8 DEF vars, CacheInv, FilesTypeOK, CacheCoherent
<1>. QED
  BY <1>1, <1>2, <1>3, <1>4, <1>5, <1>6, <1>7, <1>8 DEF Next

\* The configuration manager never serves a cached user configuration that
\* differs from the one on disk, whatever the order of IAM calls, crashes,
\* failed writes and failed removes.
THEOREM CacheCoherence == Spec => []CacheCoherent
<1>1. Init => CacheInv
  BY CacheInvInit
<1>2. CacheInv /\ [Next]_vars => CacheInv'
  BY CacheInvStep
<1>3. CacheInv => CacheCoherent
  BY DEF CacheInv
<1>. QED
  BY <1>1, <1>2, <1>3, PTL DEF Spec

-----------------------------------------------------------------------------
(* Type correctness.                                                       *)

\* Object sizes are positive numbers.
LEMMA SizesNat == ASSUME NEW s \in Sizes PROVE s \in Nat /\ s > 0
BY TenantRecordsAssumption

\* The largest object size is an object size.
LEMMA MaxSizeType == MaxSize \in Sizes /\ MaxSize \in Nat \ {0}
<1>1. MaxSize \in Sizes
  BY TenantRecordsAssumption, Zenon DEF MaxSize
<1>. QED
  BY <1>1, SizesNat

\* Changing one counter of a storage record to a natural number leaves a
\* storage record.
LEMMA RecordUpdateType ==
    ASSUME NEW r \in NsRecord, NEW n \in Nat
    PROVE  /\ [r EXCEPT !.stored = n] \in NsRecord
           /\ [r EXCEPT !.used = n] \in NsRecord
BY Zenon DEF NsRecord
\* A new storage record is a storage record.
LEMMA NewRecordType ==
    ASSUME nextId \in Nat, NEW t \in TemplateNames \cup {RegistryDefault},
           NEW qu \in Nat
    PROVE  NewRecord(t, qu) \in NsRecord
BY DEF NewRecord, NsRecord

\* Resetting every writer of every tenant to idle keeps the writer state
\* well-typed.
LEMMA IdleWritersType ==
    /\ IdleWriters \in [Users -> [Writers -> WriterStates]]
    /\ [u \in Users |-> [w \in Writers |-> MaxSize]] \in [Users -> [Writers -> Sizes]]
    /\ [u \in Users |-> [w \in Writers |-> 0]] \in [Users -> [Writers -> Nat]]
BY MaxSizeType DEF IdleWriters, WriterStates

\* A step that leaves the gateway's files, accounts and counters alone
\* keeps the types when it keeps those of the records and the writers.
LEMMA WriterFrameType ==
    ASSUME TypeOK,
           UNCHANGED <<up, globalFile, templates, accounts, file, cache,
                       nextId, restarts>>,
           ns' \in [Users -> NsRecord \cup {None}],
           wpc' \in [Users -> [Writers -> WriterStates]],
           wsize' \in [Users -> [Writers -> Sizes]],
           wread' \in [Users -> [Writers -> Nat]],
           wptr' \in [Users -> [Writers -> Nat]]
    PROVE  TypeOK'
BY DEF TypeOK

\* The steps of one writer keep the types: a check records an object size,
\* a write adds it to the bytes stored, and UpdateUsedSpace stores a
\* non-negative used space and the identity of the record it read.
LEMMA WriterStepType ==
    ASSUME TypeOK, NEW u \in Users, NEW w \in Writers,
           \/ \E s \in Sizes : CheckQuota(u, w, s)
           \/ WriteObject(u, w)
           \/ UpdateUsedSpaceRead(u, w)
           \/ UpdateUsedSpaceWrite(u, w)
    PROVE  TypeOK'
<1>1. MaxSize \in Sizes
  BY MaxSizeType
<1>2. CASE \E s \in Sizes : CheckQuota(u, w, s)
  BY <1>2 DEF CheckQuota, TypeOK, WriterStates
<1>3. CASE WriteObject(u, w)
  <2>1. ns' \in [Users -> NsRecord \cup {None}]
    <3>1. CASE ns[u] = None
      BY <1>3, <3>1 DEF WriteObject, TypeOK
    <3>2. CASE ns[u] # None
      <4>0. wsize[u][w] \in Sizes
        BY DEF TypeOK
      <4>1. ns[u] \in NsRecord /\ ns[u].stored + wsize[u][w] \in Nat
        BY <3>2, <4>0, SizesNat DEF TypeOK, NsRecord
      <4>2. [ns[u] EXCEPT !.stored = ns[u].stored + wsize[u][w]] \in NsRecord
        BY <4>1, RecordUpdateType
      <4>3. ns' = [ns EXCEPT ![u] = [ns[u] EXCEPT !.stored = ns[u].stored + wsize[u][w]]]
        BY <1>3, <3>2, Zenon DEF WriteObject
      <4>4. \E r \in NsRecord : ns' = [ns EXCEPT ![u] = r]
        BY <4>2, <4>3, Zenon
      <4>. QED
        BY <4>4 DEF TypeOK
    <3>. QED
      BY <3>1, <3>2
  <2>. QED
    BY <1>3, <2>1 DEF WriteObject, TypeOK, WriterStates
<1>4. CASE UpdateUsedSpaceRead(u, w)
  <2>1. UNCHANGED <<up, globalFile, templates, accounts, file, cache, ns,
                    nextId, restarts>>
    BY <1>4 DEF UpdateUsedSpaceRead
  <2>2. CASE ns[u] # None
    <3>1. ns[u].used \in Nat /\ ns[u].id \in Nat
      BY <2>2 DEF TypeOK, NsRecord
    <3>2. /\ wpc' = [wpc EXCEPT ![u][w] = "updating"]
          /\ wread' = [wread EXCEPT ![u][w] = ns[u].used]
          /\ wptr' = [wptr EXCEPT ![u][w] = ns[u].id]
          /\ wsize' = wsize
      BY <1>4, <2>2, Zenon DEF UpdateUsedSpaceRead
    <3>3. wpc' \in [Users -> [Writers -> WriterStates]]
      BY <3>2 DEF TypeOK, WriterStates
    <3>4. wread' \in [Users -> [Writers -> Nat]] /\ wptr' \in [Users -> [Writers -> Nat]]
      BY <3>1, <3>2 DEF TypeOK
    <3>. QED
      BY <2>1, <3>2, <3>3, <3>4, WriterFrameType DEF TypeOK
  <2>3. CASE ns[u] = None
    <3>1. /\ wpc' = [wpc EXCEPT ![u][w] = "idle"]
          /\ wsize' = [wsize EXCEPT ![u][w] = MaxSize]
          /\ wread' = wread /\ wptr' = wptr
      BY <1>4, <2>3, Zenon DEF UpdateUsedSpaceRead
    <3>2. wpc' \in [Users -> [Writers -> WriterStates]]
      BY <3>1 DEF TypeOK, WriterStates
    <3>3. wsize' \in [Users -> [Writers -> Sizes]]
      BY <1>1, <3>1 DEF TypeOK
    <3>. QED
      BY <2>1, <3>1, <3>2, <3>3, WriterFrameType DEF TypeOK
  <2>. QED
    BY <2>2, <2>3
<1>5. CASE UpdateUsedSpaceWrite(u, w)
  <2>1. ns' \in [Users -> NsRecord \cup {None}]
    <3>1. CASE ns[u] # None /\ ns[u].id = wptr[u][w]
      <4>0. wread[u][w] \in Nat /\ wsize[u][w] \in Nat
        <5>1. wsize[u][w] \in Sizes /\ wread[u][w] \in Nat
          BY DEF TypeOK
        <5>. QED
          BY <5>1, SizesNat
      <4>1. ns[u] \in NsRecord /\ Maxi(0, wread[u][w] + wsize[u][w]) \in Nat
        BY <3>1, <4>0 DEF TypeOK, Maxi
      <4>2. [ns[u] EXCEPT !.used = Maxi(0, wread[u][w] + wsize[u][w])] \in NsRecord
        BY <4>1, RecordUpdateType
      <4>3. ns' = [ns EXCEPT ![u] = [ns[u] EXCEPT !.used = Maxi(0, wread[u][w] + wsize[u][w])]]
        BY <1>5, <3>1, Zenon DEF UpdateUsedSpaceWrite
      <4>4. \E r \in NsRecord : ns' = [ns EXCEPT ![u] = r]
        BY <4>2, <4>3, Zenon
      <4>. QED
        BY <4>4 DEF TypeOK
    <3>2. CASE ~(ns[u] # None /\ ns[u].id = wptr[u][w])
      BY <1>5, <3>2 DEF UpdateUsedSpaceWrite, TypeOK
    <3>. QED
      BY <3>1, <3>2
  <2>. QED
    BY <1>1, <1>5, <2>1 DEF UpdateUsedSpaceWrite, TypeOK, WriterStates
<1>. QED
  BY <1>2, <1>3, <1>4, <1>5

\* Every step keeps every variable within its type.
LEMMA TypeOKStep == TypeOK /\ [Next]_vars => TypeOK'
<1> SUFFICES ASSUME TypeOK, [Next]_vars PROVE TypeOK'
  OBVIOUS
<1>1. CASE Start
  BY <1>1 DEF Start, TypeOK, writerVars
<1>2. CASE Crash
  <2>1. /\ wpc' \in [Users -> [Writers -> WriterStates]]
        /\ wsize' \in [Users -> [Writers -> Sizes]]
        /\ wread' \in [Users -> [Writers -> Nat]]
        /\ wptr' \in [Users -> [Writers -> Nat]]
    BY <1>2, IdleWritersType DEF Crash
  <2>2. restarts' \in Nat
    BY <1>2 DEF Crash, TypeOK
  <2>3. UNCHANGED <<globalFile, templates, accounts, file, cache, ns, nextId>>
    BY <1>2 DEF Crash
  <2>. QED
    BY <1>2, <2>1, <2>2, <2>3 DEF Crash, TypeOK
<1>3. ASSUME NEW u \in Users, CreateAccount(u) PROVE TypeOK'
  <2>1. /\ UNCHANGED <<up, globalFile, templates, writerVars, restarts>>
        /\ accounts' = accounts \cup {u}
    BY <1>3 DEF CreateAccount
  <2>2. \/ UNCHANGED <<file, cache, ns, nextId>>
        \/ /\ AccountType \in templates
           /\ file' = [file EXCEPT ![u] = AccountType]
           /\ cache' = [cache EXCEPT ![u] = AccountType]
           /\ ns' = [ns EXCEPT ![u] = NewRecord(AccountType, Quota)]
           /\ nextId' = nextId + 1
    BY <1>3, Zenon DEF CreateAccount, CreateUserConfig
  <2>3. AccountType \in templates => NewRecord(AccountType, Quota) \in NsRecord
    BY NewRecordType DEF TypeOK
  <2>4. /\ file' \in [Users -> TemplateNames \cup {None}]
        /\ cache' \in [Users -> TemplateNames \cup {None}]
        /\ ns' \in [Users -> NsRecord \cup {None}]
        /\ nextId' \in Nat
    <3>1. CASE UNCHANGED <<file, cache, ns, nextId>>
      BY <3>1 DEF TypeOK
    <3>2. CASE AccountType \in templates
                /\ file' = [file EXCEPT ![u] = AccountType]
                /\ cache' = [cache EXCEPT ![u] = AccountType]
                /\ ns' = [ns EXCEPT ![u] = NewRecord(AccountType, Quota)]
                /\ nextId' = nextId + 1
      <4>1. AccountType \in TemplateNames /\ NewRecord(AccountType, Quota) \in NsRecord
        BY <2>3, <3>2 DEF TypeOK
      <4>. QED
        BY <3>2, <4>1 DEF TypeOK
    <3>. QED
      BY <2>2, <3>1, <3>2
  <2>. QED
    BY <2>1, <2>4 DEF TypeOK, writerVars
<1>4. ASSUME NEW u \in Users, GetUserAccount(u) PROVE TypeOK'
  <2>1. UNCHANGED <<up, globalFile, templates, accounts, ns, nextId,
                    writerVars, restarts>>
    BY <1>4 DEF GetUserAccount
  <2>2. LoadUserConfig(u) # None => LoadUserConfig(u) \in TemplateNames
    BY DEF LoadUserConfig, TypeOK
  <2>3. CreateUserConfig("posix") => "posix" \in TemplateNames
    BY DEF CreateUserConfig, TypeOK
  <2>4. \/ UNCHANGED <<file, cache>>
        \/ \E t \in TemplateNames :
              /\ cache' = [cache EXCEPT ![u] = t]
              /\ file' \in {file, [file EXCEPT ![u] = t]}
    BY <1>4, <2>2, <2>3, Zenon DEF GetUserAccount, SaveUserConfig
  <2>5. /\ file' \in [Users -> TemplateNames \cup {None}]
        /\ cache' \in [Users -> TemplateNames \cup {None}]
    BY <2>4 DEF TypeOK
  <2>. QED
    BY <2>1, <2>5 DEF TypeOK, writerVars
<1>5. ASSUME NEW u \in Users, DeleteUserAccount(u) PROVE TypeOK'
  BY <1>5 DEF DeleteUserAccount, DeleteUserNamespace, DeleteUserConfig, TypeOK, writerVars
<1>6. ASSUME NEW u \in Users, CreateDefaultUserConfig(u) PROVE TypeOK'
  <2>1. NewRecord(RegistryDefault, 0) \in NsRecord
    BY NewRecordType DEF TypeOK
  <2>. QED
    BY <1>6, <2>1 DEF CreateDefaultUserConfig, TypeOK, writerVars
<1>7. ASSUME NEW u \in Users, NEW w \in Writers,
             \/ \E s \in Sizes : CheckQuota(u, w, s)
             \/ WriteObject(u, w)
             \/ UpdateUsedSpaceRead(u, w)
             \/ UpdateUsedSpaceWrite(u, w)
      PROVE TypeOK'
  BY <1>7, WriterStepType
<1>8. CASE UNCHANGED vars
  BY <1>8 DEF vars, TypeOK
<1>. QED
  BY <1>1, <1>2, <1>3, <1>4, <1>5, <1>6, <1>7, <1>8 DEF Next

\* Type correctness of the tenant records: for any tenants, writers,
\* templates and bounds, the files, the cache, the storage records with
\* their quota, used space and stored bytes, and every writer's state stay
\* within their types.
THEOREM TypeCorrect == Spec => []TypeOK
<1>1. Init => TypeOK
  <2> SUFFICES ASSUME Init PROVE TypeOK
    OBVIOUS
  <2>1. /\ wpc \in [Users -> [Writers -> WriterStates]]
        /\ wsize \in [Users -> [Writers -> Sizes]]
        /\ wread \in [Users -> [Writers -> Nat]]
        /\ wptr \in [Users -> [Writers -> Nat]]
    BY IdleWritersType DEF Init
  <2>2. ns \in [Users -> NsRecord \cup {None}]
    BY DEF Init
  <2>. QED
    BY <2>1, <2>2 DEF Init, TypeOK
<1>. QED
  BY <1>1, TypeOKStep, PTL DEF Spec

=============================================================================
