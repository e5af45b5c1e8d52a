-------------------------- MODULE CompilationCache --------------------------
(***************************************************************************)
(* The compilation cache of TorchTPU (csrc/common/compilation_cache.cc):   *)
(* tier 1 is the in-memory table of executable futures, tier 2 a directory *)
(* of files shared by the processes of a host and guarded by one flock per *)
(* key, tier 3 a remote directory.  Dispatch threads call GetOrCompile,    *)
(* which hands out a future and enqueues a task on the compilation pool;   *)
(* the task, or a backup task it schedules, fulfils the promise.           *)
(*                                                                         *)
(* A promise stands for one CacheEntry: a key that is evicted and asked    *)
(* for again gets a new promise.  Every critical section of cache_mutex_   *)
(* is one step; file reads, file writes, compilations, flock and           *)
(* future::get are steps of their own.                                     *)
(***************************************************************************)
EXTENDS Naturals, FiniteSets

CONSTANTS
    Callers,        \* threads that call GetOrCompile
    Evictors,       \* threads that call EvictAll
    Destructor,     \* the thread that runs ~CompilationCache
    Keys,           \* compilation cache keys
    Promises,       \* identities of cache entries, one per insertion
    None,           \* no key, or no promise
    Peer,           \* another process of the host
    Requests,       \* arguments GetOrCompile may be given
    Compatible,     \* <<middle key, key>>: the entry's bounds accept the shapes
    AdapterKey,     \* key of the pad or slice kernel of <<kernel, key, middle>>
    AllowModes,     \* arguments of SetAllowCacheMode
    CacheOnlyModes, \* arguments of SetCacheOnlyMode
    UsesTier2, UsesTier3, UsesBackup,
    HasPeer,        \* another process shares the tier-2 directory
    MayShutDown,    \* ShutDown and Restart may be called
    NumThreads,     \* size of compilation_pool_
    NumBackup,      \* size of backup_compilation_pool_
    MaxRequests     \* bound: calls of GetOrCompile in a behaviour

ASSUME NoneAssumption ==
    /\ None \notin Keys /\ None \notin Promises
    /\ Peer \notin Promises /\ Peer # None
ASSUME RequestAssumption ==
    Requests \subseteq [key: Keys, middle: Keys \cup {None}, adapters: BOOLEAN]
ASSUME AdapterAssumption ==
    AdapterKey \in [{"pad", "slice"} \X Keys \X Keys -> Keys]
ASSUME ModeAssumption ==
    /\ AllowModes \subseteq BOOLEAN
    /\ CacheOnlyModes \subseteq BOOLEAN
ASSUME TierAssumption ==
    /\ {UsesTier2, UsesTier3, UsesBackup, HasPeer, MayShutDown} \subseteq BOOLEAN
    /\ UsesBackup => UsesTier3
    /\ UsesTier3 => UsesTier2
ASSUME BoundAssumption ==
    /\ NumThreads \in Nat /\ NumBackup \in Nat /\ MaxRequests \in Nat
ASSUME DestructorAssumption == Destructor \notin Evictors

VARIABLES
    cache,      \* executable_cache_: key -> promise of its entry, or None
    dyn,        \* bounded_dynamic_cache_: middle keys of its entries
    promise,    \* state of each promise
    keyOf,      \* the key a promise was inserted under
    allow,      \* allow_cache_mode_
    cacheOnly,  \* cache_only_mode_
    crashed,    \* an ABSL_CHECK failed
    call,       \* each caller's activation of GetOrCompile
    requests,   \* number of GetOrCompile calls made
    abandoned,  \* history: entries whose creator returned before compiling
    task,       \* program counter of the task enqueued for a promise
    tier,       \* where that task found the executable
    waitOn,     \* the promise whose future that task reads
    backup,     \* program counter of that task's backup compilation
    flock,      \* holder of the tier-2 lock file of each key
    tier2,      \* tier-2 file of each key
    tier3,      \* tier-3 file of each key
    peer,       \* progress of the other process on each key
    evict,      \* each evictor's activation of EvictAll
    phase,      \* life of the singleton
    restarting, \* the destructor runs on behalf of Restart
    torn        \* history: an EvictAll cleared dyn while one of its keys was cached

tier1Vars == <<cache, dyn, promise, keyOf, crashed>>
modeVars == <<allow, cacheOnly>>
callVars == <<call, requests, abandoned>>
taskVars == <<task, tier, waitOn, backup>>
fileVars == <<flock, tier2, tier3, peer>>
lifeVars == <<evict, phase, restarting, torn>>
vars == <<tier1Vars, modeVars, callVars, taskVars, fileVars, lifeVars>>

Results == {"ok", "error"}
FileStates == {"absent", "unreadable", "valid"}
HoldingPCs == {"check2", "hit2", "tier3", "tier3read", "tier3hit", "compile2",
               "read", "wait", "write2", "release", "unlock"}
TaskPCs == {"none", "queued", "check1", "hit1", "flock", "compile1", "write3",
            "done"} \cup HoldingPCs
CallPCs == {"idle", "pad", "padModule", "slice", "sliceModule", "module"}

IdleCall == [pc |-> "idle", key |-> None, meta |-> None, outer |-> None,
             inner |-> None]
IdleEvict == [pc |-> "idle", keys |-> {}, old |-> {}]

Ready(p) == promise[p] \in Results
Running == {p \in Promises : task[p] \notin {"none", "queued", "done"}}
BackupRunning == {p \in Promises : backup[p] = "compile"}

TypeOK ==
    /\ cache \in [Keys -> Promises \cup {None}]
    /\ dyn \subseteq Keys
    /\ promise \in [Promises -> {"none", "unset"} \cup Results]
    /\ keyOf \in [Promises -> Keys \cup {None}]
    /\ allow \in BOOLEAN /\ cacheOnly \in BOOLEAN /\ crashed \in BOOLEAN
    /\ call \in [Callers -> [pc: CallPCs, key: Keys \cup {None},
                             meta: Keys \cup {None},
                             outer: Promises \cup {None},
                             inner: Promises \cup {None}]]
    /\ requests \in Nat
    /\ abandoned \subseteq Promises
    /\ task \in [Promises -> TaskPCs]
    /\ tier \in [Promises -> {"unknown", "tier1", "tier3"}]
    /\ waitOn \in [Promises -> Promises \cup {None}]
    /\ backup \in [Promises -> {"none", "queued", "compile", "done"}]
    /\ flock \in [Keys -> Promises \cup {None, Peer}]
    /\ tier2 \in [Keys -> FileStates] /\ tier3 \in [Keys -> FileStates]
    /\ peer \in [Keys -> {"idle", "locked", "unlocked", "done"}]
    /\ evict \in [Evictors \cup {Destructor} ->
                    [pc: {"idle", "pass", "clear"}, keys: SUBSET Keys,
                     old: SUBSET Promises]]
    /\ phase \in {"up", "drainPrimary", "drainBackup", "evict", "down"}
    /\ restarting \in BOOLEAN /\ torn \in BOOLEAN

\* A fresh singleton; the files are whatever earlier processes left behind.
Init ==
    /\ cache = [k \in Keys |-> None]
    /\ dyn = {}
    /\ promise = [p \in Promises |-> "none"]
    /\ keyOf = [p \in Promises |-> None]
    /\ allow = TRUE /\ cacheOnly = FALSE /\ crashed = FALSE
    /\ call = [c \in Callers |-> IdleCall]
    /\ requests = 0
    /\ abandoned = {}
    /\ task = [p \in Promises |-> "none"]
    /\ tier = [p \in Promises |-> "unknown"]
    /\ waitOn = [p \in Promises |-> None]
    /\ backup = [p \in Promises |-> "none"]
    /\ flock = [k \in Keys |-> None]
    /\ tier2 \in [Keys -> IF UsesTier2 THEN FileStates ELSE {"absent"}]
    /\ tier3 \in [Keys -> IF UsesTier3 THEN FileStates ELSE {"absent"}]
    /\ peer = [k \in Keys |-> "idle"]
    /\ evict = [e \in Evictors \cup {Destructor} |-> IdleEvict]
    /\ phase = "up" /\ restarting = FALSE /\ torn = FALSE

-----------------------------------------------------------------------------
(* Tier 1: lookup and insertion, under cache_mutex_. *)

\* TrySetExecutablePromise: the first value wins.
TrySetExecutablePromise(p, v) ==
    promise' = IF promise[p] = "unset" THEN [promise EXCEPT ![p] = v]
               ELSE promise

Found(k, m) == [kind |-> "hit", key |-> k, meta |-> m, dynamic |-> FALSE]
Created(k, m, d) == [kind |-> "create", key |-> k, meta |-> m, dynamic |-> d]
Refused == [kind |-> "error", key |-> None, meta |-> None, dynamic |-> FALSE]

\* The static lookup a dynamic hit makes on the middle key.
GetOrCreateMiddle(m) ==
    IF cache[m] # None THEN Found(m, m)
    ELSE IF cacheOnly THEN Refused
    ELSE Created(m, m, FALSE)

\* Fault: the dynamic lookup is left out.
GetOrCreateStaticOnly(r) ==
    IF cache[r.key] # None THEN {Found(r.key, None)}
    ELSE IF ~allow THEN {Created(r.key, None, FALSE)}
    ELSE IF cacheOnly THEN {Refused}
    ELSE IF r.middle # None THEN {Created(r.middle, r.middle, TRUE)}
    ELSE {Created(r.key, None, FALSE)}

\* The outcomes of GetOrCreateCacheEntry for the request r.  The order of a
\* bounded_dynamic_cache_ vector is abstracted: any compatible entry may be
\* the first one.
GetOrCreateCacheEntry(r) ==
    LET accepting == {m \in dyn : <<m, r.key>> \in Compatible} IN
    IF cache[r.key] # None THEN {Found(r.key, None)}
    ELSE IF ~allow THEN {Created(r.key, None, FALSE)}
    ELSE IF accepting # {} THEN {GetOrCreateMiddle(m) : m \in accepting}
    ELSE IF cacheOnly THEN {Refused}
    ELSE IF r.middle # None THEN {Created(r.middle, r.middle, TRUE)}
    ELSE {Created(r.key, None, FALSE)}

FreshPromise == CHOOSE p \in Promises : promise[p] = "none"

\* AddStaticCacheEntry, and AddBoundedDynamicCacheEntry when the outcome is
\* dynamic.  Inserting a key that is present fails an ABSL_CHECK.
AddCacheEntry(o) ==
    /\ dyn' = IF o.dynamic THEN dyn \cup {o.key} ELSE dyn
    /\ IF cache[o.key] # None
       THEN crashed' = TRUE /\ UNCHANGED <<cache, promise, keyOf>>
       ELSE /\ \E p \in Promises : promise[p] = "none"
            /\ cache' = [cache EXCEPT ![o.key] = FreshPromise]
            /\ promise' = [promise EXCEPT ![FreshPromise] = "unset"]
            /\ keyOf' = [keyOf EXCEPT ![FreshPromise] = o.key]
            /\ crashed' = crashed

\* IsExecutableReady.
IsExecutableReady(k) == cache[k] # None /\ Ready(cache[k])

\* SetExecutable: a key that is missing or already ready is left alone; with
\* caching disabled the entry is dropped once its promise is set.
SetExecutable(k, v) ==
    IF cache[k] = None \/ IsExecutableReady(k)
    THEN UNCHANGED <<promise, cache>>
    ELSE /\ TrySetExecutablePromise(cache[k], v)
         /\ cache' = IF allow THEN cache ELSE [cache EXCEPT ![k] = None]

-----------------------------------------------------------------------------
(* GetOrCompile, run by a dispatch thread. *)

\* EnqueueCompilation: the task waits for a thread of compilation_pool_.
EnqueueCompilation(p) == task' = [task EXCEPT ![p] = "queued"]

\* The critical section of GetOrCompile.  With shape dynamism metadata the
\* adapter kernels come next, before the entry that was just created is
\* compiled; without it a hit returns at once.
GetOrCompile(c, r) ==
    /\ phase = "up" /\ call[c].pc = "idle" /\ requests < MaxRequests
    /\ requests' = requests + 1
    /\ \E o \in GetOrCreateCacheEntry(r) :
          LET created == o.kind = "create"
              adapt == o.meta # None /\ r.adapters IN
          /\ IF created THEN AddCacheEntry(o) ELSE UNCHANGED tier1Vars
          /\ call' = IF adapt \/ created
                     THEN [call EXCEPT ![c] =
                             [pc |-> IF adapt THEN "pad" ELSE "module",
                              key |-> r.key, meta |-> o.meta,
                              outer |-> IF created THEN cache'[o.key] ELSE None,
                              inner |-> None]]
                     ELSE call
    /\ UNCHANGED <<modeVars, abandoned, taskVars, fileVars, lifeVars>>

\* Where CreateDynamicKernelAdapter continues once a kernel is available: a
\* slicing kernel is needed only if padding changed a layout.
AfterAdapter(pc, outer) ==
    LET return == IF outer # None THEN "module" ELSE "idle" IN
    IF pc \in {"pad", "padModule"} THEN {"slice", return} ELSE {return}

Proceed(c) ==
    \E next \in AfterAdapter(call[c].pc, call[c].outer) :
        call' = [call EXCEPT ![c] = IF next = "idle" THEN IdleCall
                                    ELSE [@ EXCEPT !.pc = next, !.inner = None]]

\* CreateDynamicKernelAdapter failed: GetOrCompile returns its error, and
\* whatever entry it had created stays as it is.
ReturnAdapterError(c) ==
    /\ call' = [call EXCEPT ![c] = IdleCall]
    /\ abandoned' = abandoned \cup ({call[c].outer} \ {None})

\* The nested GetOrCompile of CreatePaddingKernel or CreateSlicingKernel: its
\* critical section.
AdapterLookup(c) ==
    /\ call[c].pc \in {"pad", "slice"}
    /\ \E o \in GetOrCreateCacheEntry(
                  [key |-> AdapterKey[<<call[c].pc, call[c].key, call[c].meta>>],
                   middle |-> None, adapters |-> TRUE]) :
          \/ /\ o.kind = "error"
             /\ ReturnAdapterError(c)
             /\ UNCHANGED tier1Vars
          \/ /\ o.kind = "hit"
             /\ Proceed(c)
             /\ UNCHANGED <<tier1Vars, abandoned>>
          \/ /\ o.kind = "create"
             /\ AddCacheEntry(o)
             /\ call' = [call EXCEPT ![c].pc = IF @ = "pad" THEN "padModule"
                                               ELSE "sliceModule",
                                     ![c].inner = cache'[o.key]]
             /\ UNCHANGED abandoned
    /\ UNCHANGED <<modeVars, requests, taskVars, fileVars, lifeVars>>

\* Fault: a module that cannot be built is forgotten.
AdapterModuleForgets(c) ==
    /\ call[c].pc \in {"padModule", "sliceModule"}
    /\ \/ EnqueueCompilation(call[c].inner) /\ Proceed(c) /\ UNCHANGED abandoned
       \/ ReturnAdapterError(c) /\ UNCHANGED task
    /\ UNCHANGED <<tier1Vars, modeVars, requests, tier, waitOn, backup, fileVars,
                   lifeVars>>

\* ... and its ContextedModule::Make, which may fail.
AdapterModule(c) ==
    /\ call[c].pc \in {"padModule", "sliceModule"}
    /\ \/ /\ EnqueueCompilation(call[c].inner)
          /\ Proceed(c)
          /\ UNCHANGED <<promise, abandoned>>
       \/ /\ TrySetExecutablePromise(call[c].inner, "error")
          /\ ReturnAdapterError(c)
          /\ UNCHANGED task
    /\ UNCHANGED <<cache, dyn, keyOf, crashed, modeVars, requests, tier, waitOn,
                   backup, fileVars, lifeVars>>

\* ContextedModule::Make of the request itself, then EnqueueCompilation.
BuildModule(c) ==
    /\ call[c].pc = "module"
    /\ \/ EnqueueCompilation(call[c].outer) /\ UNCHANGED promise
       \/ TrySetExecutablePromise(call[c].outer, "error") /\ UNCHANGED task
    /\ call' = [call EXCEPT ![c] = IdleCall]
    /\ UNCHANGED <<cache, dyn, keyOf, crashed, modeVars, requests, abandoned,
                   tier, waitOn, backup, fileVars, lifeVars>>

CallStep(c) == AdapterLookup(c) \/ AdapterModule(c) \/ BuildModule(c)

-----------------------------------------------------------------------------
(* GetFromTier2OrCompile and GetFromTier3OrCompile, on compilation_pool_. *)

Goto(p, pc) == task' = [task EXCEPT ![p] = pc]

\* A pool thread takes the task; ShouldUseTier2Cache.
StartTask(p) ==
    /\ task[p] = "queued" /\ Cardinality(Running) < NumThreads
    /\ Goto(p, IF allow /\ UsesTier2 THEN "check1" ELSE "compile1")
    /\ UNCHANGED <<tier1Vars, modeVars, callVars, tier, waitOn, backup, fileVars,
                   lifeVars>>

\* Fault: the second check, under the lock, is left out.
CheckTier2Once(p) ==
    /\ \/ /\ task[p] = "check1"
          /\ Goto(p, IF tier2[keyOf[p]] = "valid" THEN "hit1" ELSE "flock")
       \/ task[p] = "check2" /\ Goto(p, "tier3")
    /\ UNCHANGED <<tier1Vars, modeVars, callVars, tier, waitOn, backup, fileVars,
                   lifeVars>>

\* GetFromTier2Cache, without the lock and again with it.
CheckTier2(p) ==
    /\ \/ /\ task[p] = "check1"
          /\ Goto(p, IF tier2[keyOf[p]] = "valid" THEN "hit1" ELSE "flock")
       \/ /\ task[p] = "check2"
          /\ Goto(p, IF tier2[keyOf[p]] = "valid" THEN "hit2" ELSE "tier3")
    /\ UNCHANGED <<tier1Vars, modeVars, callVars, tier, waitOn, backup, fileVars,
                   lifeVars>>

\* The executable of a tier-2 or tier-3 file goes to tier 1.
StoreHit(p) ==
    /\ task[p] \in {"hit1", "hit2", "tier3hit"}
    /\ SetExecutable(keyOf[p], "ok")
    /\ Goto(p, CASE task[p] = "hit1" -> "done"
                 [] task[p] = "hit2" -> "unlock"
                 [] task[p] = "tier3hit" -> "read")
    /\ UNCHANGED <<dyn, keyOf, crashed, modeVars, callVars, tier, waitOn, backup,
                   fileVars, lifeVars>>

\* Tier2CacheEntryLock: flock(LOCK_EX) on a descriptor of its own.
AcquireFlock(p) ==
    /\ task[p] = "flock" /\ flock[keyOf[p]] = None
    /\ flock' = [flock EXCEPT ![keyOf[p]] = p]
    /\ Goto(p, "check2")
    /\ UNCHANGED <<tier1Vars, modeVars, callVars, tier, waitOn, backup, tier2,
                   tier3, peer, lifeVars>>

\* The backup compilation is scheduled before tier 3 is read.
ScheduleBackup(p) ==
    /\ task[p] = "tier3"
    /\ backup' = IF UsesBackup THEN [backup EXCEPT ![p] = "queued"] ELSE backup
    /\ tier' = IF UsesTier3 THEN tier ELSE [tier EXCEPT ![p] = "tier1"]
    /\ Goto(p, IF UsesTier3 THEN "tier3read" ELSE "compile2")
    /\ UNCHANGED <<tier1Vars, modeVars, callVars, waitOn, fileVars, lifeVars>>

\* GetFromTier3Cache; after a miss the backup task, if any, does the compiling.
ReadTier3(p) ==
    LET hit == tier3[keyOf[p]] = "valid" IN
    /\ task[p] = "tier3read"
    /\ tier' = [tier EXCEPT ![p] = IF hit THEN "tier3" ELSE "tier1"]
    /\ Goto(p, IF hit THEN "tier3hit" ELSE IF UsesBackup THEN "read"
               ELSE "compile2")
    /\ UNCHANGED <<tier1Vars, modeVars, callVars, waitOn, backup, fileVars,
                   lifeVars>>

\* Compile, without tier 2 (compile1) or holding the lock (compile2).
Compile(p) ==
    /\ task[p] \in {"compile1", "compile2"}
    /\ \E v \in Results : SetExecutable(keyOf[p], v)
    /\ Goto(p, IF task[p] = "compile1" THEN "done" ELSE "read")
    /\ UNCHANGED <<dyn, keyOf, crashed, modeVars, callVars, tier, waitOn, backup,
                   fileVars, lifeVars>>

\* The key is looked up again to find the future to write to tier 2.
ReadTier1(p) ==
    /\ task[p] = "read"
    /\ waitOn' = [waitOn EXCEPT ![p] = cache[keyOf[p]]]
    /\ Goto(p, IF cache[keyOf[p]] = None THEN "unlock" ELSE "wait")
    /\ UNCHANGED <<tier1Vars, modeVars, callVars, tier, backup, fileVars, lifeVars>>

\* f.get() returns once the promise is set.
WaitForFuture(p) ==
    /\ task[p] = "wait" /\ Ready(waitOn[p])
    /\ Goto(p, IF promise[waitOn[p]] = "ok" THEN "write2" ELSE "unlock")
    /\ UNCHANGED <<tier1Vars, modeVars, callVars, tier, waitOn, backup, fileVars,
                   lifeVars>>

\* AtomicWriteToCacheFile: the rename succeeds, or serialization fails and
\* nothing happens, or writing fails and the final file is deleted as well.
AtomicWriteOutcomes(old) == {"valid", old, "absent"}

WriteTier2(p) ==
    /\ task[p] = "write2"
    /\ \E new \in AtomicWriteOutcomes(tier2[keyOf[p]]) :
          tier2' = [tier2 EXCEPT ![keyOf[p]] = new]
    /\ Goto(p, "release")
    /\ UNCHANGED <<tier1Vars, modeVars, callVars, tier, waitOn, backup, flock,
                   tier3, peer, lifeVars>>

\* lock.Release() after the write, or the destructor of the lock on return.
ReleaseFlock(p) ==
    /\ task[p] \in {"release", "unlock"}
    /\ flock' = [flock EXCEPT ![keyOf[p]] = None]
    /\ Goto(p, IF task[p] = "release" /\ tier[p] = "tier1" /\ UsesTier3
               THEN "write3" ELSE "done")
    /\ UNCHANGED <<tier1Vars, modeVars, callVars, tier, waitOn, backup, tier2,
                   tier3, peer, lifeVars>>

WriteTier3(p) ==
    /\ task[p] = "write3"
    /\ \E new \in AtomicWriteOutcomes(tier3[keyOf[p]]) :
          tier3' = [tier3 EXCEPT ![keyOf[p]] = new]
    /\ Goto(p, "done")
    /\ UNCHANGED <<tier1Vars, modeVars, callVars, tier, waitOn, backup, flock,
                   tier2, peer, lifeVars>>

TaskStep(p) ==
    \/ StartTask(p) \/ CheckTier2(p) \/ StoreHit(p) \/ AcquireFlock(p)
    \/ ScheduleBackup(p) \/ ReadTier3(p) \/ Compile(p) \/ ReadTier1(p)
    \/ WaitForFuture(p) \/ WriteTier2(p) \/ ReleaseFlock(p) \/ WriteTier3(p)

\* Fault: the backup is skipped as soon as the key is in the table.
StartBackupIfMissing(p) ==
    /\ backup[p] = "queued" /\ Cardinality(BackupRunning) < NumBackup
    /\ backup' = [backup EXCEPT ![p] = IF cache[keyOf[p]] # None THEN "done"
                                       ELSE "compile"]
    /\ UNCHANGED <<tier1Vars, modeVars, callVars, task, tier, waitOn, fileVars,
                   lifeVars>>

\* The backup task: skipped if the executable is ready by now.
StartBackup(p) ==
    /\ backup[p] = "queued" /\ Cardinality(BackupRunning) < NumBackup
    /\ backup' = [backup EXCEPT ![p] = IF IsExecutableReady(keyOf[p]) THEN "done"
                                       ELSE "compile"]
    /\ UNCHANGED <<tier1Vars, modeVars, callVars, task, tier, waitOn, fileVars,
                   lifeVars>>

BackupCompile(p) ==
    /\ backup[p] = "compile"
    /\ \E v \in Results : SetExecutable(keyOf[p], v)
    /\ backup' = [backup EXCEPT ![p] = "done"]
    /\ UNCHANGED <<dyn, keyOf, crashed, modeVars, callVars, task, tier, waitOn,
                   fileVars, lifeVars>>

BackupStep(p) == StartBackup(p) \/ BackupCompile(p)

-----------------------------------------------------------------------------
(* Modes, eviction, shutdown, and the other process. *)

SetAllowCacheMode(b) ==
    /\ phase = "up" /\ allow' = b
    /\ UNCHANGED <<tier1Vars, cacheOnly, callVars, taskVars, fileVars, lifeVars>>

\* SetCacheOnlyMode, also reached through SetOptions.
SetCacheOnlyMode(b) ==
    /\ phase = "up" /\ cacheOnly' = b
    /\ UNCHANGED <<tier1Vars, allow, callVars, taskVars, fileVars, lifeVars>>

\* Fault: keys without an entry are in the snapshot too.
EvictSnapshotAll(e) ==
    /\ evict[e].pc = "idle"
    /\ IF e = Destructor THEN phase = "evict" ELSE phase = "up"
    /\ evict' = [evict EXCEPT ![e] = [pc |-> "pass", keys |-> Keys,
                                      old |-> {cache[k] : k \in Keys}]]
    /\ UNCHANGED <<tier1Vars, modeVars, callVars, taskVars, fileVars, phase,
                   restarting, torn>>

\* EvictAll first takes a snapshot of the keys.
EvictSnapshot(e) ==
    LET keys == {k \in Keys : cache[k] # None} IN
    /\ evict[e].pc = "idle"
    /\ IF e = Destructor THEN phase = "evict" ELSE phase = "up"
    /\ evict' = [evict EXCEPT ![e] =
                    [pc |-> IF keys = {} THEN "clear" ELSE "pass",
                     keys |-> keys, old |-> {cache[k] : k \in keys}]]
    /\ UNCHANGED <<tier1Vars, modeVars, callVars, taskVars, fileVars, phase,
                   restarting, torn>>

\* Fault: entries are dropped whether or not they are ready.
EvictPassPending(e) ==
    /\ evict[e].pc = "pass"
    /\ cache' = [k \in Keys |-> IF k \in evict[e].keys THEN None ELSE cache[k]]
    /\ evict' = [evict EXCEPT ![e].keys = {}, ![e].pc = "clear"]
    /\ UNCHANGED <<dyn, promise, keyOf, crashed, modeVars, callVars, taskVars,
                   fileVars, phase, restarting, torn>>

\* Fault: one iteration, in-flight compilations are not waited for.
EvictPassOnce(e) ==
    LET left == {k \in evict[e].keys : cache[k] # None /\ ~Ready(cache[k])} IN
    /\ evict[e].pc = "pass"
    /\ cache' = [k \in Keys |-> IF k \in evict[e].keys \ left THEN None
                                ELSE cache[k]]
    /\ evict' = [evict EXCEPT ![e].keys = {}, ![e].pc = "clear"]
    /\ UNCHANGED <<dyn, promise, keyOf, crashed, modeVars, callVars, taskVars,
                   fileVars, phase, restarting, torn>>

\* Fault: a key that has no entry any more is waited for.
EvictPassKeepsMissing(e) ==
    LET left == {k \in evict[e].keys : ~IsExecutableReady(k)} IN
    /\ evict[e].pc = "pass"
    /\ cache' = [k \in Keys |-> IF k \in evict[e].keys \ left THEN None
                                ELSE cache[k]]
    /\ evict' = [evict EXCEPT ![e].keys = left,
                              ![e].pc = IF left = {} THEN "clear" ELSE "pass"]
    /\ UNCHANGED <<dyn, promise, keyOf, crashed, modeVars, callVars, taskVars,
                   fileVars, phase, restarting, torn>>

\* One iteration of its busy-wait loop drops the snapshot's ready entries and
\* forgets the keys others dropped.
EvictPass(e) ==
    LET left == {k \in evict[e].keys : cache[k] # None /\ ~Ready(cache[k])} IN
    /\ evict[e].pc = "pass"
    /\ cache' = [k \in Keys |-> IF k \in evict[e].keys \ left THEN None
                                ELSE cache[k]]
    /\ evict' = [evict EXCEPT ![e].keys = left,
                              ![e].pc = IF left = {} THEN "clear" ELSE "pass"]
    /\ UNCHANGED <<dyn, promise, keyOf, crashed, modeVars, callVars, taskVars,
                   fileVars, phase, restarting, torn>>

\* Then bounded_dynamic_cache_ is cleared, in a critical section of its own.
\* For the destructor this ends the instance; Restart has a new one ready.
EvictClear(e) ==
    LET ends == e = Destructor IN
    /\ evict[e].pc = "clear"
    /\ dyn' = {}
    /\ torn' = (torn \/ \E m \in dyn : cache[m] # None)
    /\ evict' = [evict EXCEPT ![e] = IdleEvict]
    /\ phase' = IF ~ends THEN phase ELSE IF restarting THEN "up" ELSE "down"
    /\ allow' = IF ends THEN TRUE ELSE allow
    /\ cacheOnly' = IF ends THEN FALSE ELSE cacheOnly
    /\ UNCHANGED <<cache, promise, keyOf, crashed, callVars, taskVars, fileVars,
                   restarting>>

EvictStep(e) == EvictPass(e) \/ EvictClear(e)

\* Fault: the backup pool is reset first.
ShutDownBackupFirst ==
    /\ MayShutDown /\ phase = "up"
    /\ \A c \in Callers : call[c].pc = "idle"
    /\ \A e \in Evictors : evict[e].pc = "idle"
    /\ phase' = "drainBackup"
    /\ restarting' \in BOOLEAN
    /\ UNCHANGED <<tier1Vars, modeVars, callVars, taskVars, fileVars, evict,
                   torn>>

\* ShutDown and Restart destroy the instance.  That nobody is inside a call is
\* an assumption about their callers: the code does not wait for calls, and one
\* that is under way would go on in a destroyed instance.
ShutDown ==
    /\ MayShutDown /\ phase = "up"
    /\ \A c \in Callers : call[c].pc = "idle"
    /\ \A e \in Evictors : evict[e].pc = "idle"
    /\ phase' = "drainPrimary"
    /\ restarting' \in BOOLEAN
    /\ UNCHANGED <<tier1Vars, modeVars, callVars, taskVars, fileVars, evict,
                   torn>>

\* compilation_pool_.reset() returns when its tasks have run.
ResetCompilationPool ==
    /\ phase = "drainPrimary"
    /\ \A p \in Promises : task[p] \in {"none", "done"}
    /\ phase' = "drainBackup"
    /\ UNCHANGED <<tier1Vars, modeVars, callVars, taskVars, fileVars, evict,
                   restarting, torn>>

\* backup_compilation_pool_.reset(), then EvictAll.
ResetBackupPool ==
    /\ phase = "drainBackup"
    /\ \A p \in Promises : backup[p] \in {"none", "done"}
    /\ phase' = "evict"
    /\ UNCHANGED <<tier1Vars, modeVars, callVars, taskVars, fileVars, evict,
                   restarting, torn>>

DestructorStep ==
    ResetCompilationPool \/ ResetBackupPool \/ EvictSnapshot(Destructor)

\* Another process of the host runs the same code on the same key: it takes the
\* lock file, ...
PeerLock(k) ==
    /\ HasPeer /\ UsesTier2 /\ peer[k] = "idle" /\ flock[k] = None
    /\ peer' = [peer EXCEPT ![k] = "locked"]
    /\ flock' = [flock EXCEPT ![k] = Peer]
    /\ UNCHANGED <<tier1Vars, modeVars, callVars, taskVars, tier2, tier3, lifeVars>>

\* ... leaves a file it can load alone and otherwise tries to write one, ...
PeerUnlock(k) ==
    /\ peer[k] = "locked"
    /\ flock' = [flock EXCEPT ![k] = None]
    /\ IF tier2[k] = "valid"
       THEN /\ peer' = [peer EXCEPT ![k] = "done"]
            /\ UNCHANGED tier2
       ELSE /\ peer' = [peer EXCEPT ![k] = "unlocked"]
            /\ \E new \in AtomicWriteOutcomes(tier2[k]) :
                  tier2' = [tier2 EXCEPT ![k] = new]
    /\ UNCHANGED <<tier1Vars, modeVars, callVars, taskVars, tier3, lifeVars>>

\* ... and writes tier 3 without it, unless it had found the executable there.
PeerWriteTier3(k) ==
    /\ UsesTier3 /\ peer[k] = "unlocked"
    /\ peer' = [peer EXCEPT ![k] = "done"]
    /\ \E new \in AtomicWriteOutcomes(tier3[k]) : tier3' = [tier3 EXCEPT ![k] = new]
    /\ UNCHANGED <<tier1Vars, modeVars, callVars, taskVars, flock, tier2, lifeVars>>

\* The instance is gone and the process makes no further calls.
Terminated == phase = "down" /\ UNCHANGED vars

Next ==
    \/ /\ ~crashed
       /\ \/ \E c \in Callers, r \in Requests : GetOrCompile(c, r)
          \/ \E c \in Callers : CallStep(c)
          \/ \E p \in Promises : TaskStep(p) \/ BackupStep(p)
          \/ \E b \in AllowModes : SetAllowCacheMode(b)
          \/ \E b \in CacheOnlyModes : SetCacheOnlyMode(b)
          \/ \E e \in Evictors : EvictSnapshot(e)
          \/ \E e \in Evictors \cup {Destructor} : EvictStep(e)
          \/ ShutDown \/ DestructorStep \/ Terminated
          \/ \E k \in Keys : PeerLock(k) \/ PeerUnlock(k) \/ PeerWriteTier3(k)
    \/ crashed /\ UNCHANGED vars

Spec == Init /\ [][Next]_vars

\* Threads that have work keep running: a call of GetOrCompile or EvictAll
\* that began goes on, the pools run their tasks, XLA compilations and file
\* operations return, and the other process gives the lock file back.  New
\* calls and mode changes need not happen.
Fairness ==
    /\ \A c \in Callers : WF_vars(~crashed /\ CallStep(c))
    /\ \A p \in Promises : WF_vars(~crashed /\ TaskStep(p))
    /\ \A p \in Promises : WF_vars(~crashed /\ BackupStep(p))
    /\ \A e \in Evictors \cup {Destructor} : WF_vars(~crashed /\ EvictStep(e))
    /\ WF_vars(~crashed /\ DestructorStep)
    /\ \A k \in Keys : WF_vars(~crashed /\ PeerUnlock(k))

FairSpec == Spec /\ Fairness

-----------------------------------------------------------------------------
(* Properties. *)

\* Somebody is still going to set p: the call that created it has not got to
\* its module, its task has not got past compiling, or a backup is due.
HasSetter(p) ==
    \/ \E c \in Callers : p \in {call[c].outer, call[c].inner}
    \/ task[p] \in {"queued", "check1", "hit1", "flock", "check2", "hit2",
                    "tier3", "tier3read", "tier3hit", "compile1", "compile2"}
    \/ backup[p] \in {"queued", "compile"}

\* No handed-out future is orphaned: a promise that is not set has somebody
\* who will set it, whatever evictions, mode switches, tier-3 hits and backup
\* compilations happen in between.  The one exception is an entry whose
\* creator failed while it built the adapter kernels (GetOrCompile's early
\* return before the needs_compilation branch).
PendingHasSetter ==
    \A p \in Promises : promise[p] = "unset" => HasSetter(p) \/ p \in abandoned

\* A pending entry is never dropped from executable_cache_: SetExecutable
\* finds it under its key, so the promise its task sets is the one handed out.
PendingIsCached ==
    \A p \in Promises : promise[p] = "unset" => cache[keyOf[p]] = p

\* When EvictAll has finished its loop no entry of its snapshot is cached any
\* more, not even under a key that was asked for again meanwhile.
EvictedEntriesGone ==
    \A e \in Evictors \cup {Destructor} :
        evict[e].pc = "clear" => \A p \in evict[e].old : cache[keyOf[p]] # p

\* The order in which ~CompilationCache resets its members: once the backup
\* pool may be gone no task can schedule on it, and an instance that is gone
\* left no future unset.
DestroyedInOrder ==
    /\ phase \in {"drainBackup", "evict", "down"} =>
          \A p \in Promises : task[p] \in {"none", "done"}
    /\ phase = "down" => \A p \in Promises : promise[p] # "unset"

\* A tier-2 file other processes can load is never replaced by an unloadable
\* one or deleted, although AtomicWriteToCacheFile deletes the final file when
\* it fails: the second check under the lock comes before every write.
ValidTier2NeverLost ==
    [][\A k \in Keys : tier2[k] = "valid" => tier2'[k] = "valid"]_vars

\* The cache implements the table of futures its users rely on.
Futures == INSTANCE ExecutableFutures WITH table <- cache, future <- promise

ImplementsFutures == Futures!Spec

\* Insertions find no entry under their key (the ABSL_CHECK "Key already exists
\* in static cache"), except after an EvictAll whose two critical sections were
\* torn apart: a key of bounded_dynamic_cache_ was inserted again between the
\* pass that dropped it and the clear, and is cached without being listed.
NoCheckFails == crashed => torn

\* Every future that was handed out becomes ready.
FuturesSettle ==
    \A p \in Promises : (promise[p] = "unset") ~> (promise[p] \in Results)

\* EvictAll waits for compilations in flight and for nothing else, such as a
\* key that somebody else has dropped: it returns once nothing is in flight any
\* more.  Until then it need not.  It looks its keys up again in each pass, and
\* with caching disabled and requests that never end each pass may find a new
\* entry that is not ready; an abandoned entry never is.
EvictAllReturns ==
    <>[](\A p \in Promises : promise[p] # "unset") =>
        \A e \in Evictors : (evict[e].pc # "idle") ~> (evict[e].pc = "idle" \/ crashed)

\* A shutdown or restart that began completes.
ShutDownCompletes == (phase = "drainPrimary") ~> (phase \in {"down", "up"})
=============================================================================
