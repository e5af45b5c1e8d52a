----------------------- MODULE CompilationCacheProofs -----------------------
(***************************************************************************)
(* Proofs about CompilationCache, for every set of callers, evictors, keys *)
(* and requests, every pool size and every combination of tiers and modes. *)
(***************************************************************************)
EXTENDS CompilationCache, TLAPS

RequestType == [key: Keys, middle: Keys \cup {None}, adapters: BOOLEAN]

\* The outcomes of a lookup are well formed.
LEMMA LookupOutcomes ==
    ASSUME TypeOK, NEW r \in RequestType, NEW o \in GetOrCreateCacheEntry(r)
    PROVE  /\ o.kind \in {"hit", "create", "error"}
           /\ o.kind = "create" => o.key \in Keys
           /\ o.meta \in Keys \cup {None}
           /\ o.dynamic \in BOOLEAN
<1> DEFINE Outcome == [kind: {"hit", "error"}, key: Keys \cup {None},
                       meta: Keys \cup {None}, dynamic: BOOLEAN]
                      \cup [kind: {"create"}, key: Keys,
                            meta: Keys \cup {None}, dynamic: BOOLEAN]
<1>1. \A k \in Keys, m \in Keys \cup {None} :
         /\ Found(k, m) \in Outcome
         /\ \A d \in BOOLEAN : Created(k, m, d) \in Outcome
  BY DEF Found, Created
<1>2. Refused \in Outcome
  BY DEF Refused
<1>3. \A m \in Keys : GetOrCreateMiddle(m) \in Outcome
  BY <1>1, <1>2 DEF GetOrCreateMiddle
<1>4. GetOrCreateCacheEntry(r) \subseteq Outcome
  <2> r.key \in Keys /\ r.middle \in Keys \cup {None} /\ dyn \subseteq Keys
    BY DEF RequestType, TypeOK
  <2> HIDE DEF Outcome
  <2> QED BY <1>1, <1>2, <1>3 DEF GetOrCreateCacheEntry
<1> QED BY <1>4

\* A fresh promise is one no entry has used.
LEMMA FreshIsFresh ==
    ASSUME \E p \in Promises : promise[p] = "none"
    PROVE  FreshPromise \in Promises /\ promise[FreshPromise] = "none"
BY DEF FreshPromise

TableTyped ==
    /\ cache \in [Keys -> Promises \cup {None}]
    /\ dyn \subseteq Keys
    /\ promise \in [Promises -> {"none", "unset"} \cup Results]
    /\ keyOf \in [Promises -> Keys \cup {None}]
    /\ crashed \in BOOLEAN

CallTyped ==
    call \in [Callers -> [pc: CallPCs, key: Keys \cup {None},
                          meta: Keys \cup {None}, outer: Promises \cup {None},
                          inner: Promises \cup {None}]]

\* What names a promise names one that was inserted under a key.
TableRefs ==
    /\ \A k \in Keys : cache[k] # None =>
          promise[cache[k]] # "none" /\ keyOf[cache[k]] = k
    /\ \A p \in Promises : promise[p] # "none" => keyOf[p] \in Keys

CallRefs ==
    \A c \in Callers :
        /\ call[c].outer # None => promise[call[c].outer] # "none"
        /\ call[c].inner # None => promise[call[c].inner] # "none"
        /\ call[c].pc = "idle" => call[c].outer = None
        /\ call[c].pc = "module" => call[c].outer # None
        /\ call[c].pc \in {"padModule", "sliceModule"} <=> call[c].inner # None
        /\ call[c].pc \in {"pad", "slice", "padModule", "sliceModule"} =>
              call[c].key \in Keys /\ call[c].meta \in Keys

TaskRefs ==
    \A p \in Promises :
        task[p] # "none" \/ backup[p] # "none" => promise[p] # "none"

Refs == TableRefs /\ CallRefs /\ TaskRefs

\* Inserting an entry keeps tier 1 well formed, forgets no promise, and
\* leaves an entry under the key.
LEMMA AddKeeps ==
    ASSUME TableTyped, TableRefs, NEW o, o.key \in Keys, AddCacheEntry(o)
    PROVE  /\ TableTyped' /\ TableRefs'
           /\ \A p \in Promises : promise[p] # "none" => promise'[p] = promise[p]
           /\ cache'[o.key] \in Promises /\ promise'[cache'[o.key]] # "none"
<1>0. dyn' \subseteq Keys
  BY DEF TableTyped, AddCacheEntry
<1>1. CASE cache[o.key] # None
  <2>1. UNCHANGED <<cache, promise, keyOf>> /\ crashed' = TRUE
    BY <1>1 DEF AddCacheEntry
  <2> QED BY <1>0, <1>1, <2>1 DEF TableTyped, TableRefs
<1>2. CASE cache[o.key] = None
  <2>1. PICK p \in Promises :
          /\ promise[p] = "none"
          /\ cache' = [cache EXCEPT ![o.key] = p]
          /\ promise' = [promise EXCEPT ![p] = "unset"]
          /\ keyOf' = [keyOf EXCEPT ![p] = o.key]
          /\ crashed' = crashed
    BY <1>2, FreshIsFresh DEF AddCacheEntry
  <2>2. TableTyped'
    BY <1>0, <2>1 DEF TableTyped
  <2>3. TableRefs'
    BY <2>1, <2>2, NoneAssumption DEF TableTyped, TableRefs
  <2> QED BY <2>1, <2>2, <2>3 DEF TableTyped
<1> QED BY <1>1, <1>2

\* So does setting an executable.
LEMMA SetKeeps ==
    ASSUME TableTyped, TableRefs, NEW k \in Keys, NEW v \in Results,
           SetExecutable(k, v)
    PROVE  /\ cache' \in [Keys -> Promises \cup {None}]
           /\ promise' \in [Promises -> {"none", "unset"} \cup Results]
           /\ \A p \in Promises : promise[p] # "none" => promise'[p] # "none"
           /\ keyOf' = keyOf => TableRefs'
<1>1. CASE cache[k] = None \/ IsExecutableReady(k)
  BY <1>1 DEF TableTyped, TableRefs, SetExecutable
<1>2. CASE ~(cache[k] = None \/ IsExecutableReady(k))
  <2>1. /\ cache[k] \in Promises /\ promise[cache[k]] = "unset"
        /\ promise' = [promise EXCEPT ![cache[k]] = v]
        /\ cache' = IF allow THEN cache ELSE [cache EXCEPT ![k] = None]
    BY <1>2 DEF TableTyped, TableRefs, SetExecutable, TrySetExecutablePromise,
                IsExecutableReady, Ready
  <2>2. /\ cache' \in [Keys -> Promises \cup {None}]
        /\ \A j \in Keys : cache'[j] # None => cache'[j] = cache[j]
    BY <2>1 DEF TableTyped
  <2>3. /\ promise' \in [Promises -> {"none", "unset"} \cup Results]
        /\ \A p \in Promises : promise'[p] = "none" <=> promise[p] = "none"
    BY <2>1 DEF TableTyped, Results
  <2>4. keyOf' = keyOf => TableRefs'
    BY <2>2, <2>3 DEF TableTyped, TableRefs
  <2> QED BY <2>2, <2>3, <2>4
<1> QED BY <1>1, <1>2

\* And so does failing a promise directly.
LEMMA TrySetKeeps ==
    ASSUME TableTyped, TableRefs, NEW p \in Promises,
           TrySetExecutablePromise(p, "error")
    PROVE  /\ promise' \in [Promises -> {"none", "unset"} \cup Results]
           /\ \A q \in Promises : promise[q] # "none" => promise'[q] # "none"
           /\ keyOf' = keyOf /\ cache' = cache => TableRefs'
BY DEF TableTyped, TableRefs, TrySetExecutablePromise, Results

\* Leaving a nested call keeps a caller's activation well formed.
LEMMA ProceedKeeps ==
    ASSUME CallTyped, CallRefs, NEW c \in Callers, Proceed(c),
           \A p \in Promises : promise[p] # "none" => promise'[p] # "none",
           call[c].pc \in {"pad", "slice", "padModule", "sliceModule"}
    PROVE  CallTyped' /\ CallRefs'
<1>1. PICK next \in AfterAdapter(call[c].pc, call[c].outer) :
        call' = [call EXCEPT ![c] = IF next = "idle" THEN IdleCall
                                    ELSE [@ EXCEPT !.pc = next, !.inner = None]]
  BY DEF Proceed
<1>2. /\ next \in {"slice", "module", "idle"}
      /\ next = "module" => call[c].outer # None
  BY DEF AfterAdapter
<1>3. CallTyped'
  BY <1>1, <1>2 DEF CallTyped, CallPCs, IdleCall
<1> QED BY <1>1, <1>2, <1>3 DEF CallTyped, CallRefs, IdleCall

LEMMA ErrorKeeps ==
    ASSUME CallTyped, CallRefs, NEW c \in Callers, ReturnAdapterError(c),
           abandoned \subseteq Promises,
           \A p \in Promises : promise[p] # "none" => promise'[p] # "none"
    PROVE  CallTyped' /\ CallRefs' /\ abandoned' \subseteq Promises
<1>1. CallTyped'
  BY DEF ReturnAdapterError, CallTyped, IdleCall, CallPCs
<1> QED BY <1>1 DEF ReturnAdapterError, CallTyped, CallRefs, IdleCall

\* Every variable stays in its type, and whatever names a promise names one
\* that was inserted under a key: neither an eviction nor a late task can make
\* a caller, a task or the table refer to an entry that never existed.
THEOREM TypeCorrect == Spec => [](TypeOK /\ Refs)
<1>1. Init => TypeOK /\ Refs
  <2> SUFFICES ASSUME Init PROVE TypeOK /\ Refs
    OBVIOUS
  <2>1. tier2 \in [Keys -> FileStates] /\ tier3 \in [Keys -> FileStates]
    BY DEF Init, FileStates
  <2>2. CallTyped
    BY DEF Init, IdleCall, CallPCs, CallTyped
  <2>3. TypeOK
    BY <2>1, <2>2 DEF Init, TypeOK, IdleEvict, Results, TaskPCs, CallTyped
  <2> QED BY <2>3 DEF Init, Refs, TableRefs, CallRefs, TaskRefs, IdleCall
<1>2. TypeOK /\ Refs /\ [Next]_vars => (TypeOK /\ Refs)'
  <2> SUFFICES ASSUME TypeOK, Refs, [Next]_vars
               PROVE  TypeOK' /\ Refs'
    OBVIOUS
  <2> USE DEF tier1Vars, modeVars, callVars, taskVars, fileVars, lifeVars
  <2>1. ASSUME NEW c \in Callers, NEW r \in Requests, GetOrCompile(c, r)
        PROVE  TypeOK' /\ Refs'
    <3> PICK o \in GetOrCreateCacheEntry(r) :
          LET created == o.kind = "create"
              adapt == o.meta # None /\ r.adapters IN
          /\ IF created THEN AddCacheEntry(o) ELSE UNCHANGED tier1Vars
          /\ call' = IF adapt \/ created
                     THEN [call EXCEPT ![c] =
                             [pc |-> IF adapt THEN "pad" ELSE "module",
                              key |-> r.key, meta |-> o.meta,
                              outer |-> IF created THEN cache'[o.key] ELSE None,
                              inner |-> None]]
                     ELSE call
      BY <2>1 DEF GetOrCompile
    <3>1. /\ r \in RequestType
          /\ o.kind = "create" => o.key \in Keys
          /\ o.meta \in Keys \cup {None}
      BY LookupOutcomes, RequestAssumption DEF RequestType
    <3>2. /\ TableTyped' /\ TableRefs'
          /\ \A p \in Promises : promise[p] # "none" => promise'[p] = promise[p]
          /\ o.kind = "create" => /\ cache'[o.key] \in Promises
                                  /\ promise'[cache'[o.key]] # "none"
      <4>1. CASE o.kind = "create"
        BY <3>1, <4>1, AddKeeps DEF Refs, TypeOK, TableTyped
      <4>2. CASE o.kind # "create"
        BY <4>2 DEF TypeOK, TableTyped, Refs, TableRefs
      <4> QED BY <4>1, <4>2
    <3>3. CallTyped'
      BY <3>1, <3>2 DEF TypeOK, CallTyped, TableTyped, RequestType, CallPCs
    <3>4. CallRefs'
      BY <3>1, <3>2, <3>3, NoneAssumption DEF TypeOK, CallTyped, Refs, CallRefs, RequestType
    <3> QED BY <2>1, <3>2, <3>3, <3>4
            DEF GetOrCompile, TypeOK, CallTyped, TableTyped, Refs, TaskRefs
  <2>2. ASSUME NEW c \in Callers, AdapterLookup(c)
        PROVE  TypeOK' /\ Refs'
    <3> DEFINE r == [key |-> AdapterKey[<<call[c].pc, call[c].key, call[c].meta>>],
                     middle |-> None, adapters |-> TRUE]
    <3>1. r \in RequestType
      BY <2>2, AdapterAssumption DEF AdapterLookup, Refs, CallRefs, RequestType
    <3>2. PICK o \in GetOrCreateCacheEntry(r) :
          \/ /\ o.kind = "error"
             /\ ReturnAdapterError(c)
             /\ UNCHANGED tier1Vars
          \/ /\ o.kind = "hit"
             /\ Proceed(c)
             /\ UNCHANGED <<tier1Vars, abandoned>>
          \/ /\ o.kind = "create"
             /\ AddCacheEntry(o)
             /\ call' = [call EXCEPT ![c].pc = IF @ = "pad" THEN "padModule"
                                               ELSE "sliceModule",
                                     ![c].inner = cache'[o.key]]
             /\ UNCHANGED abandoned
      BY <2>2 DEF AdapterLookup
    <3>3. call[c].inner = None
      BY <2>2 DEF AdapterLookup, Refs, CallRefs
    <3>4. CASE o.kind = "error"
      <4>1. ReturnAdapterError(c) /\ UNCHANGED tier1Vars
        BY <3>2, <3>4
      <4> QED BY <2>2, <4>1, ErrorKeeps DEF AdapterLookup, TypeOK, CallTyped, Refs,
                 TableRefs, TaskRefs
    <3>5. CASE o.kind = "hit"
      <4>1. Proceed(c) /\ UNCHANGED <<tier1Vars, abandoned>>
        BY <3>2, <3>5
      <4> QED BY <2>2, <4>1, ProceedKeeps DEF AdapterLookup, TypeOK, CallTyped, Refs,
                 TableRefs, TaskRefs
    <3>6. CASE o.kind = "create"
      <4>1. /\ AddCacheEntry(o) /\ UNCHANGED abandoned
            /\ call' = [call EXCEPT ![c].pc = IF @ = "pad" THEN "padModule"
                                              ELSE "sliceModule",
                                    ![c].inner = cache'[o.key]]
        BY <3>2, <3>6
      <4>2. /\ TableTyped' /\ TableRefs'
            /\ \A p \in Promises : promise[p] # "none" => promise'[p] = promise[p]
            /\ cache'[o.key] \in Promises /\ promise'[cache'[o.key]] # "none"
        <5> HIDE DEF r
        <5>1. o.key \in Keys
          BY <3>1, <3>6, LookupOutcomes
        <5> QED BY <4>1, <5>1, AddKeeps DEF Refs, TypeOK, TableTyped
      <4>3. CallTyped'
        <5>1. CallTyped
          BY DEF TypeOK, CallTyped
        <5>2. /\ (IF call[c].pc = "pad" THEN "padModule" ELSE "sliceModule") \in CallPCs
              /\ cache'[o.key] \in Promises \cup {None}
          BY <4>2 DEF CallPCs
        <5> HIDE DEF r
        <5> QED BY <4>1, <5>1, <5>2 DEF CallTyped
      <4>4. CallRefs'
        <5>1. \A e \in Callers \ {c} : call'[e] = call[e]
          BY <4>1 DEF TypeOK
        <5>2. /\ call'[c].outer = call[c].outer /\ call'[c].key = call[c].key
              /\ call'[c].meta = call[c].meta /\ call'[c].inner = cache'[o.key]
              /\ call'[c].pc \in {"padModule", "sliceModule"}
          BY <4>1 DEF TypeOK
        <5> QED BY <2>2, <4>2, <5>1, <5>2, NoneAssumption
                DEF AdapterLookup, TypeOK, Refs, CallRefs
      <4> QED BY <2>2, <4>1, <4>2, <4>3, <4>4
              DEF AdapterLookup, TypeOK, CallTyped, TableTyped, Refs, TaskRefs
    <3> QED BY <3>2, <3>4, <3>5, <3>6
  <2>3. ASSUME NEW c \in Callers, AdapterModule(c)
        PROVE  TypeOK' /\ Refs'
    <3>1. call[c].inner \in Promises /\ promise[call[c].inner] # "none"
      BY <2>3 DEF AdapterModule, TypeOK, Refs, CallRefs
    <3>2. CASE /\ EnqueueCompilation(call[c].inner)
               /\ Proceed(c)
               /\ UNCHANGED <<promise, abandoned>>
      BY <2>3, <3>1, <3>2, ProceedKeeps
         DEF AdapterModule, EnqueueCompilation, TypeOK, CallTyped, Refs, TableRefs,
             TaskRefs, TaskPCs
    <3>3. CASE /\ TrySetExecutablePromise(call[c].inner, "error")
               /\ ReturnAdapterError(c)
               /\ UNCHANGED task
      <4>1. /\ promise' \in [Promises -> {"none", "unset"} \cup Results]
            /\ \A q \in Promises : promise[q] # "none" => promise'[q] # "none"
            /\ TableRefs'
        BY <2>3, <3>1, <3>3, TrySetKeeps DEF AdapterModule, TypeOK, TableTyped, Refs
      <4> QED BY <2>3, <3>3, <4>1, ErrorKeeps
              DEF AdapterModule, TypeOK, CallTyped, Refs, TaskRefs
    <3> QED BY <2>3, <3>2, <3>3 DEF AdapterModule
  <2>4. ASSUME NEW c \in Callers, BuildModule(c)
        PROVE  TypeOK' /\ Refs'
    <3>1. call[c].outer \in Promises /\ promise[call[c].outer] # "none"
      BY <2>4 DEF BuildModule, TypeOK, Refs, CallRefs
    <3>2. CallTyped'
      BY <2>4 DEF BuildModule, TypeOK, CallTyped, IdleCall, CallPCs
    <3>3. CASE EnqueueCompilation(call[c].outer) /\ UNCHANGED promise
      BY <2>4, <3>1, <3>2, <3>3
         DEF BuildModule, EnqueueCompilation, TypeOK, CallTyped, Refs, TableRefs,
             CallRefs, TaskRefs, TaskPCs, IdleCall
    <3>4. CASE TrySetExecutablePromise(call[c].outer, "error") /\ UNCHANGED task
      <4>1. /\ promise' \in [Promises -> {"none", "unset"} \cup Results]
            /\ \A q \in Promises : promise[q] # "none" => promise'[q] # "none"
            /\ TableRefs'
        BY <2>4, <3>1, <3>4, TrySetKeeps DEF BuildModule, TypeOK, TableTyped, Refs
      <4>2. CallRefs'
        BY <2>4, <4>1 DEF BuildModule, TypeOK, Refs, CallRefs, IdleCall
      <4> QED BY <2>4, <3>2, <3>4, <4>1, <4>2
              DEF BuildModule, TypeOK, CallTyped, Refs, TaskRefs
    <3> QED BY <2>4, <3>3, <3>4 DEF BuildModule
  <2>5. ASSUME NEW p \in Promises, StartTask(p)
        PROVE  TypeOK' /\ Refs'
    BY <2>5
       DEF StartTask, Goto, TaskPCs, TypeOK, Refs, TableRefs, CallRefs, TaskRefs
  <2>6. ASSUME NEW p \in Promises, CheckTier2(p)
        PROVE  TypeOK' /\ Refs'
    BY <2>6
       DEF CheckTier2, Goto, TaskPCs, HoldingPCs, TypeOK, Refs, TableRefs, CallRefs, TaskRefs
  <2>7. ASSUME NEW p \in Promises, AcquireFlock(p)
        PROVE  TypeOK' /\ Refs'
    BY <2>7
       DEF AcquireFlock, Goto, TaskPCs, HoldingPCs, TypeOK, Refs, TableRefs, CallRefs, TaskRefs
  <2>8. ASSUME NEW p \in Promises, ScheduleBackup(p)
        PROVE  TypeOK' /\ Refs'
    BY <2>8
       DEF ScheduleBackup, Goto, TaskPCs, HoldingPCs, TypeOK, Refs, TableRefs, CallRefs, TaskRefs
  <2>9. ASSUME NEW p \in Promises, ReadTier3(p)
        PROVE  TypeOK' /\ Refs'
    BY <2>9
       DEF ReadTier3, Goto, TaskPCs, HoldingPCs, TypeOK, Refs, TableRefs, CallRefs, TaskRefs
  <2>10. ASSUME NEW p \in Promises, ReadTier1(p)
        PROVE  TypeOK' /\ Refs'
    BY <2>10
       DEF ReadTier1, Goto, TaskPCs, HoldingPCs, TypeOK, Refs, TableRefs, CallRefs, TaskRefs
  <2>11. ASSUME NEW p \in Promises, WaitForFuture(p)
        PROVE  TypeOK' /\ Refs'
    BY <2>11
       DEF WaitForFuture, Goto, TaskPCs, HoldingPCs, TypeOK, Refs, TableRefs, CallRefs, TaskRefs
  <2>12. ASSUME NEW p \in Promises, WriteTier2(p)
        PROVE  TypeOK' /\ Refs'
    BY <2>12
       DEF WriteTier2, Goto, TaskPCs, HoldingPCs, AtomicWriteOutcomes, FileStates, TypeOK, Refs, TableRefs, CallRefs, TaskRefs
  <2>13. ASSUME NEW p \in Promises, ReleaseFlock(p)
        PROVE  TypeOK' /\ Refs'
    BY <2>13
       DEF ReleaseFlock, Goto, TaskPCs, HoldingPCs, TypeOK, Refs, TableRefs, CallRefs, TaskRefs
  <2>14. ASSUME NEW p \in Promises, WriteTier3(p)
        PROVE  TypeOK' /\ Refs'
    BY <2>14
       DEF WriteTier3, Goto, TaskPCs, HoldingPCs, AtomicWriteOutcomes, FileStates, TypeOK, Refs, TableRefs, CallRefs, TaskRefs
  <2>15. ASSUME NEW p \in Promises, StartBackup(p)
        PROVE  TypeOK' /\ Refs'
    BY <2>15
       DEF StartBackup, TypeOK, Refs, TableRefs, CallRefs, TaskRefs
  <2>16. ASSUME NEW p \in Promises, StoreHit(p)
        PROVE  TypeOK' /\ Refs'
    <3>1. /\ cache' \in [Keys -> Promises \cup {None}]
          /\ promise' \in [Promises -> {"none", "unset"} \cup Results]
          /\ \A q \in Promises : promise[q] # "none" => promise'[q] # "none"
          /\ TableRefs'
      BY <2>16, SetKeeps DEF StoreHit, TypeOK, TableTyped, Refs, TableRefs, TaskRefs, Results
    <3>2. TypeOK'
      BY <2>16, <3>1 DEF StoreHit, Goto, TaskPCs, HoldingPCs, TypeOK
    <3>3. CallRefs'
      BY <2>16, <3>1 DEF StoreHit, TypeOK, Refs, CallRefs
    <3>4. TaskRefs'
      BY <2>16, <3>1 DEF StoreHit, Goto, TypeOK, Refs, TaskRefs
    <3> QED BY <3>1, <3>2, <3>3, <3>4 DEF Refs
  <2>17. ASSUME NEW p \in Promises, Compile(p)
        PROVE  TypeOK' /\ Refs'
    <3>1. /\ cache' \in [Keys -> Promises \cup {None}]
          /\ promise' \in [Promises -> {"none", "unset"} \cup Results]
          /\ \A q \in Promises : promise[q] # "none" => promise'[q] # "none"
          /\ TableRefs'
      BY <2>17, SetKeeps DEF Compile, TypeOK, TableTyped, Refs, TableRefs, TaskRefs, Results
    <3>2. TypeOK'
      BY <2>17, <3>1 DEF Compile, Goto, TaskPCs, HoldingPCs, TypeOK
    <3>3. CallRefs'
      BY <2>17, <3>1 DEF Compile, TypeOK, Refs, CallRefs
    <3>4. TaskRefs'
      BY <2>17, <3>1 DEF Compile, Goto, TypeOK, Refs, TaskRefs
    <3> QED BY <3>1, <3>2, <3>3, <3>4 DEF Refs
  <2>18. ASSUME NEW p \in Promises, BackupCompile(p)
        PROVE  TypeOK' /\ Refs'
    <3>1. /\ cache' \in [Keys -> Promises \cup {None}]
          /\ promise' \in [Promises -> {"none", "unset"} \cup Results]
          /\ \A q \in Promises : promise[q] # "none" => promise'[q] # "none"
          /\ TableRefs'
      BY <2>18, SetKeeps DEF BackupCompile, TypeOK, TableTyped, Refs, TableRefs, TaskRefs, Results
    <3>2. TypeOK'
      BY <2>18, <3>1 DEF BackupCompile, TypeOK
    <3>3. CallRefs'
      BY <2>18, <3>1 DEF BackupCompile, TypeOK, Refs, CallRefs
    <3>4. TaskRefs'
      BY <2>18, <3>1 DEF BackupCompile, TypeOK, Refs, TaskRefs
    <3> QED BY <3>1, <3>2, <3>3, <3>4 DEF Refs
  <2>19. ASSUME NEW b \in AllowModes, SetAllowCacheMode(b)
        PROVE  TypeOK' /\ Refs'
    BY <2>19, ModeAssumption
       DEF SetAllowCacheMode, TypeOK, Refs, TableRefs, CallRefs, TaskRefs
  <2>20. ASSUME NEW b \in CacheOnlyModes, SetCacheOnlyMode(b)
        PROVE  TypeOK' /\ Refs'
    BY <2>20, ModeAssumption
       DEF SetCacheOnlyMode, TypeOK, Refs, TableRefs, CallRefs, TaskRefs
  <2>21. ASSUME NEW e \in Evictors \cup {Destructor}, EvictSnapshot(e)
        PROVE  TypeOK' /\ Refs'
    BY <2>21
       DEF EvictSnapshot, TypeOK, Refs, TableRefs, CallRefs, TaskRefs
  <2>22. ASSUME NEW e \in Evictors \cup {Destructor}, EvictPass(e)
        PROVE  TypeOK' /\ Refs'
    BY <2>22
       DEF EvictPass, TypeOK, Refs, TableRefs, CallRefs, TaskRefs
  <2>23. ASSUME NEW e \in Evictors \cup {Destructor}, EvictClear(e)
        PROVE  TypeOK' /\ Refs'
    BY <2>23
       DEF EvictClear, IdleEvict, TypeOK, Refs, TableRefs, CallRefs, TaskRefs
  <2>24. ASSUME ShutDown
        PROVE  TypeOK' /\ Refs'
    BY <2>24
       DEF ShutDown, TypeOK, Refs, TableRefs, CallRefs, TaskRefs
  <2>25. ASSUME ResetCompilationPool
        PROVE  TypeOK' /\ Refs'
    BY <2>25
       DEF ResetCompilationPool, TypeOK, Refs, TableRefs, CallRefs, TaskRefs
  <2>26. ASSUME ResetBackupPool
        PROVE  TypeOK' /\ Refs'
    BY <2>26
       DEF ResetBackupPool, TypeOK, Refs, TableRefs, CallRefs, TaskRefs
  <2>27. ASSUME NEW k \in Keys, PeerLock(k)
        PROVE  TypeOK' /\ Refs'
    BY <2>27
       DEF PeerLock, TypeOK, Refs, TableRefs, CallRefs, TaskRefs
  <2>28. ASSUME NEW k \in Keys, PeerUnlock(k)
        PROVE  TypeOK' /\ Refs'
    BY <2>28
       DEF PeerUnlock, AtomicWriteOutcomes, FileStates, TypeOK, Refs, TableRefs, CallRefs, TaskRefs
  <2>29. ASSUME NEW k \in Keys, PeerWriteTier3(k)
        PROVE  TypeOK' /\ Refs'
    BY <2>29
       DEF PeerWriteTier3, AtomicWriteOutcomes, FileStates, TypeOK, Refs, TableRefs, CallRefs, TaskRefs
  <2>30. CASE UNCHANGED vars
    BY <2>30 DEF vars, TypeOK, Refs, TableRefs, CallRefs, TaskRefs
  <2> QED BY <2>1, <2>2, <2>3, <2>4, <2>5, <2>6, <2>7, <2>8, <2>9, <2>10, <2>11, <2>12, <2>13, <2>14, <2>15, <2>16, <2>17, <2>18, <2>19, <2>20, <2>21, <2>22, <2>23, <2>24, <2>25, <2>26, <2>27, <2>28, <2>29, <2>30
          DEF Next, CallStep, TaskStep, BackupStep, EvictStep, DestructorStep, Terminated
<1> QED BY <1>1, <1>2, PTL DEF Spec

-----------------------------------------------------------------------------
\* A backup compilation that ended, or was skipped, leaves nothing pending,
\* and one has been scheduled by the time tier 3 is read.
BackupDue ==
    \A p \in Promises :
        /\ backup[p] = "done" => promise[p] # "unset"
        /\ task[p] = "tier3read" /\ UsesBackup => backup[p] # "none"

PendInv == PendingIsCached /\ PendingHasSetter /\ BackupDue

\* Inserting an entry makes one promise pending, and it is the cached one.
LEMMA AddPending ==
    ASSUME TableTyped, TableRefs, PendingIsCached, NEW o, o.key \in Keys,
           AddCacheEntry(o)
    PROVE  /\ PendingIsCached'
           /\ \A q \in Promises : promise'[q] = "unset" =>
                 promise[q] = "unset" \/ (q = cache'[o.key] /\ promise[q] = "none")
<1>1. CASE cache[o.key] # None
  BY <1>1 DEF AddCacheEntry, PendingIsCached
<1>2. CASE cache[o.key] = None
  <2>1. PICK p \in Promises :
          /\ promise[p] = "none"
          /\ cache' = [cache EXCEPT ![o.key] = p]
          /\ promise' = [promise EXCEPT ![p] = "unset"]
          /\ keyOf' = [keyOf EXCEPT ![p] = o.key]
    BY <1>2, FreshIsFresh DEF AddCacheEntry
  <2>2. \A q \in Promises : promise[q] = "unset" => keyOf[q] # o.key
    BY <1>2, NoneAssumption DEF PendingIsCached
  <2>3. cache'[o.key] = p /\ keyOf'[p] = o.key
    BY <2>1 DEF TableTyped
  <2>4. \A q \in Promises \ {p} : promise'[q] = promise[q] /\ keyOf'[q] = keyOf[q]
    BY <2>1 DEF TableTyped
  <2>5. \A q \in Promises : promise[q] = "unset" => cache'[keyOf[q]] = q
    BY <2>1, <2>2 DEF TableTyped, TableRefs, PendingIsCached
  <2> QED BY <2>1, <2>3, <2>4, <2>5 DEF PendingIsCached
<1> QED BY <1>1, <1>2

\* SetExecutable under the key of p leaves p settled, whoever settled it, and
\* makes nothing pending.
LEMMA SetSettles ==
    ASSUME TableTyped, TableRefs, PendingIsCached, NEW p \in Promises,
           promise[p] # "none", NEW v \in Results, SetExecutable(keyOf[p], v),
           keyOf' = keyOf
    PROVE  /\ promise'[p] # "unset"
           /\ \A q \in Promises : promise'[q] = "unset" => promise[q] = "unset"
           /\ PendingIsCached'
<1>0. keyOf[p] \in Keys
  BY DEF TableRefs
<1>1. CASE cache[keyOf[p]] = None \/ IsExecutableReady(keyOf[p])
  BY <1>1, NoneAssumption DEF SetExecutable, PendingIsCached, IsExecutableReady, Ready, Results
<1>2. CASE ~(cache[keyOf[p]] = None \/ IsExecutableReady(keyOf[p]))
  <2> DEFINE t == cache[keyOf[p]]
  <2>1. /\ t \in Promises /\ promise[t] = "unset"
        /\ promise' = [promise EXCEPT ![t] = v]
        /\ cache' = IF allow THEN cache ELSE [cache EXCEPT ![keyOf[p]] = None]
    BY <1>0, <1>2 DEF TableTyped, TableRefs, SetExecutable, TrySetExecutablePromise,
                IsExecutableReady, Ready
  <2>2. /\ promise'[t] # "unset"
        /\ \A q \in Promises \ {t} : promise'[q] = promise[q]
    BY <2>1 DEF TableTyped, Results
  <2>3. \A q \in Promises : promise[q] = "unset" /\ q # t => keyOf[q] # keyOf[p]
    BY DEF PendingIsCached
  <2>4. \A q \in Promises : promise[q] = "unset" /\ q # t => cache'[keyOf[q]] = q
    BY <1>0, <2>1, <2>3 DEF PendingIsCached, TableTyped
  <2> QED BY <2>2, <2>4 DEF PendingIsCached
<1> QED BY <1>1, <1>2

\* A caller that goes on after a nested call still answers for the entry it
\* created itself.
LEMMA ProceedHandsOver ==
    ASSUME CallTyped, NEW c \in Callers, Proceed(c), UNCHANGED backup,
           \A q \in Promises : task'[q] = task[q] \/ task'[q] = "queued",
           call[c].inner = None \/ task'[call[c].inner] = "queued"
    PROVE  \A q \in Promises : HasSetter(q) => HasSetter(q)'
<1>1. PICK next \in AfterAdapter(call[c].pc, call[c].outer) :
        call' = [call EXCEPT ![c] = IF next = "idle" THEN IdleCall
                                    ELSE [@ EXCEPT !.pc = next, !.inner = None]]
  BY DEF Proceed
<1>2. next = "idle" => call[c].outer = None
  BY DEF AfterAdapter
<1>3. /\ call'[c].outer = call[c].outer
      /\ \A e \in Callers \ {c} : call'[e] = call[e]
  BY <1>1, <1>2 DEF CallTyped, IdleCall
<1> QED BY <1>3, NoneAssumption DEF HasSetter

\* A caller that fails in a nested call abandons the entry it created itself.
LEMMA ErrorHandsOver ==
    ASSUME CallTyped, NEW c \in Callers, ReturnAdapterError(c),
           UNCHANGED <<task, backup>>
    PROVE  \A q \in Promises \ {call[c].inner} :
              HasSetter(q) => HasSetter(q)' \/ q \in abandoned'
<1>1. /\ \A e \in Callers \ {c} : call'[e] = call[e]
      /\ abandoned' = abandoned \cup ({call[c].outer} \ {None})
  BY DEF ReturnAdapterError, CallTyped
<1> QED BY <1>1, NoneAssumption DEF HasSetter

\* Every future that is not set is still in the table under its own key and
\* has somebody who will set it, unless its creator failed while it built the
\* adapter kernels.  This is the cache's no-orphan guarantee for any number of
\* threads, keys and requests; TLC checks both parts in the cache runs.
THEOREM PendingFuturesAreServed == Spec => [](PendingIsCached /\ PendingHasSetter)
<1>1. Init => PendInv
  BY DEF Init, PendInv, PendingIsCached, PendingHasSetter, BackupDue
<1>2. TypeOK /\ Refs /\ PendInv /\ [Next]_vars => PendInv'
  <2> SUFFICES ASSUME TypeOK, Refs, PendInv, [Next]_vars
               PROVE  PendInv'
    OBVIOUS
  <2> USE DEF tier1Vars, modeVars, callVars, taskVars, fileVars, lifeVars
  <2>0. TableTyped /\ TableRefs /\ PendingIsCached
    BY DEF TypeOK, TableTyped, Refs, PendInv
  <2>1. ASSUME NEW c \in Callers, NEW r \in Requests, GetOrCompile(c, r)
        PROVE  PendInv'
    <3>1. call[c].outer = None /\ call[c].inner = None
      BY <2>1 DEF GetOrCompile, Refs, CallRefs
    <3>2. PICK o \in GetOrCreateCacheEntry(r) :
          LET created == o.kind = "create"
              adapt == o.meta # None /\ r.adapters IN
          /\ IF created THEN AddCacheEntry(o) ELSE UNCHANGED tier1Vars
          /\ call' = IF adapt \/ created
                     THEN [call EXCEPT ![c] =
                             [pc |-> IF adapt THEN "pad" ELSE "module",
                              key |-> r.key, meta |-> o.meta,
                              outer |-> IF created THEN cache'[o.key] ELSE None,
                              inner |-> None]]
                     ELSE call
      BY <2>1 DEF GetOrCompile
    <3>3. CASE o.kind = "create"
      <4>1. o.key \in Keys
        BY <3>3, LookupOutcomes, RequestAssumption DEF RequestType
      <4>2. /\ PendingIsCached'
            /\ \A q \in Promises : promise'[q] = "unset" =>
                  promise[q] = "unset" \/ (q = cache'[o.key] /\ promise[q] = "none")
        BY <2>0, <3>2, <3>3, <4>1, AddPending
      <4>3. /\ call'[c].outer = cache'[o.key]
            /\ \A e \in Callers \ {c} : call'[e] = call[e]
        BY <3>2, <3>3 DEF TypeOK
      <4>4. \A q \in Promises : HasSetter(q) => HasSetter(q)'
        BY <2>1, <3>1, <4>3, NoneAssumption DEF HasSetter, GetOrCompile
      <4>5. PendingHasSetter'
        BY <2>1, <4>2, <4>3, <4>4 DEF HasSetter, GetOrCompile, PendInv, PendingHasSetter
      <4>6. BackupDue'
        BY <2>1, <4>2 DEF GetOrCompile, PendInv, BackupDue, Refs, TaskRefs
      <4> QED BY <4>2, <4>5, <4>6 DEF PendInv
    <3>4. CASE o.kind # "create"
      <4>1. UNCHANGED tier1Vars /\ \A e \in Callers \ {c} : call'[e] = call[e]
        BY <3>2, <3>4 DEF TypeOK
      <4>2. \A q \in Promises : HasSetter(q) => HasSetter(q)'
        BY <2>1, <3>1, <4>1, NoneAssumption DEF HasSetter, GetOrCompile
      <4> QED BY <2>1, <4>1, <4>2
              DEF GetOrCompile, PendInv, PendingIsCached, PendingHasSetter, BackupDue
    <3> QED BY <3>3, <3>4
  <2>2. ASSUME NEW c \in Callers, AdapterLookup(c)
        PROVE  PendInv'
    <3> DEFINE r == [key |-> AdapterKey[<<call[c].pc, call[c].key, call[c].meta>>],
                     middle |-> None, adapters |-> TRUE]
    <3>1. r \in RequestType
      BY <2>2, AdapterAssumption DEF AdapterLookup, Refs, CallRefs, RequestType
    <3>2. PICK o \in GetOrCreateCacheEntry(r) :
          \/ /\ o.kind = "error"
             /\ ReturnAdapterError(c)
             /\ UNCHANGED tier1Vars
          \/ /\ o.kind = "hit"
             /\ Proceed(c)
             /\ UNCHANGED <<tier1Vars, abandoned>>
          \/ /\ o.kind = "create"
             /\ AddCacheEntry(o)
             /\ call' = [call EXCEPT ![c].pc = IF @ = "pad" THEN "padModule"
                                               ELSE "sliceModule",
                                     ![c].inner = cache'[o.key]]
             /\ UNCHANGED abandoned
      BY <2>2 DEF AdapterLookup
    <3>3. call[c].inner = None
      BY <2>2 DEF AdapterLookup, Refs, CallRefs
    <3>4. CASE o.kind = "error"
      <4>1. ReturnAdapterError(c) /\ UNCHANGED tier1Vars
        BY <3>2, <3>4
      <4>2. \A q \in Promises : HasSetter(q) => HasSetter(q)' \/ q \in abandoned'
        BY <2>2, <3>3, <4>1, ErrorHandsOver, NoneAssumption DEF AdapterLookup, TypeOK, CallTyped
      <4>3. abandoned \subseteq abandoned'
        BY <4>1 DEF ReturnAdapterError
      <4> QED BY <2>2, <4>1, <4>2, <4>3
              DEF AdapterLookup, PendInv, PendingIsCached, PendingHasSetter, BackupDue
    <3>5. CASE o.kind = "hit"
      <4>1. Proceed(c) /\ UNCHANGED <<tier1Vars, abandoned>>
        BY <3>2, <3>5
      <4>2. \A q \in Promises : HasSetter(q) => HasSetter(q)'
        BY <2>2, <3>3, <4>1, ProceedHandsOver DEF AdapterLookup, TypeOK, CallTyped
      <4> QED BY <2>2, <4>1, <4>2
              DEF AdapterLookup, PendInv, PendingIsCached, PendingHasSetter, BackupDue
    <3>6. CASE o.kind = "create"
      <4>1. /\ AddCacheEntry(o) /\ UNCHANGED abandoned
            /\ call' = [call EXCEPT ![c].pc = IF @ = "pad" THEN "padModule"
                                              ELSE "sliceModule",
                                    ![c].inner = cache'[o.key]]
        BY <3>2, <3>6
      <4>2. /\ PendingIsCached'
            /\ \A q \in Promises : promise'[q] = "unset" =>
                  promise[q] = "unset" \/ (q = cache'[o.key] /\ promise[q] = "none")
        <5> HIDE DEF r
        <5>1. o.key \in Keys
          BY <3>1, <3>6, LookupOutcomes
        <5> QED BY <2>0, <4>1, <5>1, AddPending
      <4>3. /\ call'[c].outer = call[c].outer /\ call'[c].inner = cache'[o.key]
            /\ \A e \in Callers \ {c} : call'[e] = call[e]
        BY <4>1 DEF TypeOK
      <4>4. \A q \in Promises : HasSetter(q) => HasSetter(q)'
        BY <2>2, <3>3, <4>3, NoneAssumption DEF HasSetter, AdapterLookup
      <4>5. PendingHasSetter'
        BY <4>1, <4>2, <4>3, <4>4 DEF HasSetter, PendInv, PendingHasSetter
      <4>6. BackupDue'
        BY <2>2, <4>2 DEF AdapterLookup, PendInv, BackupDue, Refs, TaskRefs
      <4> QED BY <4>2, <4>5, <4>6 DEF PendInv
    <3> QED BY <3>2, <3>4, <3>5, <3>6
  <2>3. ASSUME NEW c \in Callers, AdapterModule(c)
        PROVE  PendInv'
    <3>1. call[c].inner \in Promises /\ promise[call[c].inner] # "none"
      BY <2>3 DEF AdapterModule, TypeOK, Refs, CallRefs
    <3>2. CASE /\ EnqueueCompilation(call[c].inner)
               /\ Proceed(c)
               /\ UNCHANGED <<promise, abandoned>>
      <4>1. /\ task'[call[c].inner] = "queued"
            /\ \A q \in Promises \ {call[c].inner} : task'[q] = task[q]
        BY <3>1, <3>2 DEF EnqueueCompilation, TypeOK
      <4>2. \A q \in Promises : HasSetter(q) => HasSetter(q)'
        BY <2>3, <3>2, <4>1, ProceedHandsOver DEF AdapterModule, TypeOK, CallTyped
      <4> QED BY <2>3, <3>2, <4>1, <4>2
              DEF AdapterModule, PendInv, PendingIsCached, PendingHasSetter, BackupDue
    <3>3. CASE /\ TrySetExecutablePromise(call[c].inner, "error")
               /\ ReturnAdapterError(c)
               /\ UNCHANGED task
      <4>1. /\ promise'[call[c].inner] # "unset"
            /\ \A q \in Promises : promise'[q] = "unset" => promise[q] = "unset"
        BY <3>1, <3>3 DEF TrySetExecutablePromise, TypeOK
      <4>2. \A q \in Promises \ {call[c].inner} :
               HasSetter(q) => HasSetter(q)' \/ q \in abandoned'
        BY <2>3, <3>3, ErrorHandsOver DEF AdapterModule, TypeOK, CallTyped
      <4>3. abandoned \subseteq abandoned'
        BY <3>3 DEF ReturnAdapterError
      <4> QED BY <2>3, <3>3, <4>1, <4>2, <4>3
              DEF AdapterModule, PendInv, PendingIsCached, PendingHasSetter, BackupDue
    <3> QED BY <2>3, <3>2, <3>3 DEF AdapterModule
  <2>4. ASSUME NEW c \in Callers, BuildModule(c)
        PROVE  PendInv'
    <3>1. /\ call[c].outer \in Promises /\ promise[call[c].outer] # "none"
          /\ call[c].inner = None
      BY <2>4 DEF BuildModule, TypeOK, Refs, CallRefs
    <3>2. \A e \in Callers \ {c} : call'[e] = call[e]
      BY <2>4 DEF BuildModule, TypeOK
    <3>3. CASE EnqueueCompilation(call[c].outer) /\ UNCHANGED promise
      <4>1. /\ task'[call[c].outer] = "queued"
            /\ \A q \in Promises \ {call[c].outer} : task'[q] = task[q]
        BY <3>1, <3>3 DEF EnqueueCompilation, TypeOK
      <4>2. \A q \in Promises : HasSetter(q) => HasSetter(q)'
        BY <2>4, <3>1, <3>2, <4>1, NoneAssumption DEF HasSetter, BuildModule
      <4> QED BY <2>4, <3>3, <4>1, <4>2
              DEF BuildModule, PendInv, PendingIsCached, PendingHasSetter, BackupDue
    <3>4. CASE TrySetExecutablePromise(call[c].outer, "error") /\ UNCHANGED task
      <4>1. /\ promise'[call[c].outer] # "unset"
            /\ \A q \in Promises : promise'[q] = "unset" => promise[q] = "unset"
        BY <3>1, <3>4 DEF TrySetExecutablePromise, TypeOK
      <4>2. \A q \in Promises \ {call[c].outer} : HasSetter(q) => HasSetter(q)'
        BY <2>4, <3>1, <3>2, <3>4, NoneAssumption DEF HasSetter, BuildModule
      <4> QED BY <2>4, <3>4, <4>1, <4>2
              DEF BuildModule, PendInv, PendingIsCached, PendingHasSetter, BackupDue
    <3> QED BY <2>4, <3>3, <3>4 DEF BuildModule
  <2>5. ASSUME NEW p \in Promises, StartTask(p)
        PROVE  PendInv'
    BY <2>5
       DEF StartTask, Goto, TypeOK, PendInv, PendingIsCached, PendingHasSetter,
           HasSetter, BackupDue
  <2>6. ASSUME NEW p \in Promises, CheckTier2(p)
        PROVE  PendInv'
    BY <2>6
       DEF CheckTier2, Goto, TypeOK, PendInv, PendingIsCached, PendingHasSetter,
           HasSetter, BackupDue
  <2>7. ASSUME NEW p \in Promises, AcquireFlock(p)
        PROVE  PendInv'
    BY <2>7
       DEF AcquireFlock, Goto, TypeOK, PendInv, PendingIsCached, PendingHasSetter,
           HasSetter, BackupDue
  <2>8. ASSUME NEW p \in Promises, ScheduleBackup(p)
        PROVE  PendInv'
    BY <2>8, TierAssumption
       DEF ScheduleBackup, Goto, TypeOK, PendInv, PendingIsCached, PendingHasSetter,
           HasSetter, BackupDue
  <2>9. ASSUME NEW p \in Promises, ReadTier3(p)
        PROVE  PendInv'
    BY <2>9
       DEF ReadTier3, Goto, TypeOK, PendInv, PendingIsCached, PendingHasSetter,
           HasSetter, BackupDue
  <2>10. ASSUME NEW p \in Promises, ReadTier1(p)
        PROVE  PendInv'
    BY <2>10
       DEF ReadTier1, Goto, TypeOK, PendInv, PendingIsCached, PendingHasSetter,
           HasSetter, BackupDue
  <2>11. ASSUME NEW p \in Promises, WaitForFuture(p)
        PROVE  PendInv'
    BY <2>11
       DEF WaitForFuture, Goto, TypeOK, PendInv, PendingIsCached, PendingHasSetter,
           HasSetter, BackupDue
  <2>12. ASSUME NEW p \in Promises, WriteTier2(p)
        PROVE  PendInv'
    BY <2>12
       DEF WriteTier2, Goto, TypeOK, PendInv, PendingIsCached, PendingHasSetter,
           HasSetter, BackupDue
  <2>13. ASSUME NEW p \in Promises, ReleaseFlock(p)
        PROVE  PendInv'
    BY <2>13
       DEF ReleaseFlock, Goto, TypeOK, PendInv, PendingIsCached, PendingHasSetter,
           HasSetter, BackupDue
  <2>14. ASSUME NEW p \in Promises, WriteTier3(p)
        PROVE  PendInv'
    BY <2>14
       DEF WriteTier3, Goto, TypeOK, PendInv, PendingIsCached, PendingHasSetter,
           HasSetter, BackupDue
  <2>15. ASSUME NEW p \in Promises, StoreHit(p)
        PROVE  PendInv'
    <3>1. /\ promise'[p] # "unset"
          /\ \A q \in Promises : promise'[q] = "unset" => promise[q] = "unset"
          /\ PendingIsCached'
      BY <2>0, <2>15, SetSettles DEF StoreHit, Refs, TaskRefs, Results
    <3>2. \A q \in Promises \ {p} : task'[q] = task[q]
      BY <2>15 DEF StoreHit, Goto, TypeOK
    <3>3. PendingHasSetter'
      BY <2>15, <3>1, <3>2 DEF StoreHit, PendInv, PendingHasSetter, HasSetter
    <3>4. BackupDue'
      BY <2>15, <3>1, <3>2 DEF StoreHit, Goto, TypeOK, PendInv, BackupDue
    <3> QED BY <3>1, <3>3, <3>4 DEF PendInv
  <2>16. ASSUME NEW p \in Promises, Compile(p)
        PROVE  PendInv'
    <3>1. /\ promise'[p] # "unset"
          /\ \A q \in Promises : promise'[q] = "unset" => promise[q] = "unset"
          /\ PendingIsCached'
      BY <2>0, <2>16, SetSettles DEF Compile, Refs, TaskRefs, Results
    <3>2. \A q \in Promises \ {p} : task'[q] = task[q]
      BY <2>16 DEF Compile, Goto, TypeOK
    <3>3. PendingHasSetter'
      BY <2>16, <3>1, <3>2 DEF Compile, PendInv, PendingHasSetter, HasSetter
    <3>4. BackupDue'
      BY <2>16, <3>1, <3>2 DEF Compile, Goto, TypeOK, PendInv, BackupDue
    <3> QED BY <3>1, <3>3, <3>4 DEF PendInv
  <2>17. ASSUME NEW p \in Promises, BackupCompile(p)
        PROVE  PendInv'
    <3>1. /\ promise'[p] # "unset"
          /\ \A q \in Promises : promise'[q] = "unset" => promise[q] = "unset"
          /\ PendingIsCached'
      BY <2>0, <2>17, SetSettles DEF BackupCompile, Refs, TaskRefs, Results
    <3>2. \A q \in Promises \ {p} : backup'[q] = backup[q]
      BY <2>17 DEF BackupCompile, TypeOK
    <3>3. PendingHasSetter'
      BY <2>17, <3>1, <3>2 DEF BackupCompile, PendInv, PendingHasSetter, HasSetter
    <3>4. BackupDue'
      BY <2>17, <3>1, <3>2 DEF BackupCompile, TypeOK, PendInv, BackupDue
    <3> QED BY <3>1, <3>3, <3>4 DEF PendInv
  <2>18. ASSUME NEW p \in Promises, StartBackup(p)
        PROVE  PendInv'
    <3>1. IsExecutableReady(keyOf[p]) => promise[p] # "unset"
      BY <2>0 DEF IsExecutableReady, Ready, Results, PendingIsCached
    <3> QED BY <2>18, <3>1
            DEF StartBackup, TypeOK, PendInv, PendingIsCached, PendingHasSetter,
                HasSetter, BackupDue
  <2>19. ASSUME NEW b \in AllowModes, SetAllowCacheMode(b)
        PROVE  PendInv'
    BY <2>19
       DEF SetAllowCacheMode, PendInv, PendingIsCached, PendingHasSetter, HasSetter,
           BackupDue
  <2>20. ASSUME NEW b \in CacheOnlyModes, SetCacheOnlyMode(b)
        PROVE  PendInv'
    BY <2>20
       DEF SetCacheOnlyMode, PendInv, PendingIsCached, PendingHasSetter, HasSetter,
           BackupDue
  <2>21. ASSUME NEW e \in Evictors \cup {Destructor}, EvictSnapshot(e)
        PROVE  PendInv'
    BY <2>21
       DEF EvictSnapshot, PendInv, PendingIsCached, PendingHasSetter, HasSetter,
           BackupDue
  <2>22. ASSUME NEW e \in Evictors \cup {Destructor}, EvictPass(e)
        PROVE  PendInv'
    <3>1. \A q \in Promises : promise[q] = "unset" => keyOf[q] \in Keys
      BY <2>0 DEF TableRefs
    <3>2. PendingIsCached'
      BY <2>0, <2>22, <3>1, NoneAssumption
         DEF EvictPass, PendingIsCached, Ready, Results
    <3> QED BY <2>22, <3>2 DEF EvictPass, PendInv, PendingHasSetter, HasSetter, BackupDue
  <2>23. ASSUME NEW e \in Evictors \cup {Destructor}, EvictClear(e)
        PROVE  PendInv'
    BY <2>23
       DEF EvictClear, PendInv, PendingIsCached, PendingHasSetter, HasSetter,
           BackupDue
  <2>24. ASSUME ShutDown
        PROVE  PendInv'
    BY <2>24
       DEF ShutDown, PendInv, PendingIsCached, PendingHasSetter, HasSetter,
           BackupDue
  <2>25. ASSUME ResetCompilationPool
        PROVE  PendInv'
    BY <2>25
       DEF ResetCompilationPool, PendInv, PendingIsCached, PendingHasSetter, HasSetter,
           BackupDue
  <2>26. ASSUME ResetBackupPool
        PROVE  PendInv'
    BY <2>26
       DEF ResetBackupPool, PendInv, PendingIsCached, PendingHasSetter, HasSetter,
           BackupDue
  <2>27. ASSUME NEW k \in Keys, PeerLock(k)
        PROVE  PendInv'
    BY <2>27
       DEF PeerLock, PendInv, PendingIsCached, PendingHasSetter, HasSetter,
           BackupDue
  <2>28. ASSUME NEW k \in Keys, PeerUnlock(k)
        PROVE  PendInv'
    BY <2>28
       DEF PeerUnlock, PendInv, PendingIsCached, PendingHasSetter, HasSetter,
           BackupDue
  <2>29. ASSUME NEW k \in Keys, PeerWriteTier3(k)
        PROVE  PendInv'
    BY <2>29
       DEF PeerWriteTier3, PendInv, PendingIsCached, PendingHasSetter, HasSetter,
           BackupDue
  <2>30. CASE UNCHANGED vars
    BY <2>30 DEF vars, PendInv, PendingIsCached, PendingHasSetter, HasSetter, BackupDue
  <2> QED BY <2>1, <2>2, <2>3, <2>4, <2>5, <2>6, <2>7, <2>8, <2>9, <2>10, <2>11, <2>12, <2>13, <2>14, <2>15, <2>16, <2>17, <2>18, <2>19, <2>20, <2>21, <2>22, <2>23, <2>24, <2>25, <2>26, <2>27, <2>28, <2>29, <2>30
          DEF Next, CallStep, TaskStep, BackupStep, EvictStep, DestructorStep, Terminated
<1> QED BY <1>1, <1>2, TypeCorrect, PTL DEF Spec, PendInv

\* A future that is not set is in the table under its own key, where its task
\* finds it and a second request joins it: EvictAll, the modes and the
\* destructor drop only entries that are set.
THEOREM PendingFuturesStayCached == Spec => []PendingIsCached
BY PendingFuturesAreServed, PTL

-----------------------------------------------------------------------------
\* What a step may do to the table and the futures: an allowed step of
\* ExecutableFutures, or nothing.
FuturesStep == [Futures!Next]_<<cache, promise>>

LEMMA AddRefines ==
    ASSUME NEW o, o.key \in Keys, AddCacheEntry(o)
    PROVE  FuturesStep
<1>1. CASE cache[o.key] # None
  BY <1>1 DEF AddCacheEntry, FuturesStep
<1>2. CASE cache[o.key] = None
  <2>1. PICK p \in Promises :
          /\ promise[p] = "none"
          /\ cache' = [cache EXCEPT ![o.key] = p]
          /\ promise' = [promise EXCEPT ![p] = "unset"]
    BY <1>2, FreshIsFresh DEF AddCacheEntry
  <2>2. Futures!Insert(o.key, p)
    BY <1>2, <2>1 DEF Futures!Insert
  <2> QED BY <2>2 DEF Futures!Next, FuturesStep
<1> QED BY <1>1, <1>2

LEMMA SetRefines ==
    ASSUME TableTyped, TableRefs, NEW k \in Keys, NEW v \in Results,
           SetExecutable(k, v)
    PROVE  FuturesStep
<1>1. CASE cache[k] = None \/ IsExecutableReady(k)
  BY <1>1 DEF SetExecutable, FuturesStep
<1>2. CASE ~(cache[k] = None \/ IsExecutableReady(k))
  <2>1. /\ cache[k] # None /\ promise[cache[k]] = "unset"
        /\ promise' = [promise EXCEPT ![cache[k]] = v]
        /\ cache' = IF allow THEN cache ELSE [cache EXCEPT ![k] = None]
    BY <1>2 DEF TableTyped, TableRefs, SetExecutable, TrySetExecutablePromise,
                IsExecutableReady, Ready
  <2>2. Futures!Settle(k, v)
    BY <2>1 DEF Futures!Settle
  <2> QED BY <2>2 DEF Futures!Next, FuturesStep, Results
<1> QED BY <1>1, <1>2

\* Failing a promise directly is allowed because a pending promise is still
\* the one under its key.
LEMMA TrySetRefines ==
    ASSUME TableTyped, TableRefs, PendingIsCached, NEW p \in Promises,
           TrySetExecutablePromise(p, "error"), cache' = cache
    PROVE  FuturesStep
<1>1. CASE promise[p] # "unset"
  BY <1>1 DEF TrySetExecutablePromise, FuturesStep
<1>2. CASE promise[p] = "unset"
  <2>1. keyOf[p] \in Keys /\ cache[keyOf[p]] = p
    BY <1>2 DEF TableRefs, PendingIsCached
  <2>2. promise' = [promise EXCEPT ![p] = "error"]
    BY <1>2 DEF TrySetExecutablePromise
  <2>3. Futures!Settle(keyOf[p], "error")
    BY <1>2, <2>1, <2>2, NoneAssumption DEF Futures!Settle
  <2> QED BY <2>1, <2>3 DEF Futures!Next, FuturesStep
<1> QED BY <1>1, <1>2

\* One step of the cache, seen by the users of its futures.
LEMMA StepRefines ==
    ASSUME TypeOK, Refs, PendingIsCached, [Next]_vars
    PROVE  FuturesStep
<1> USE DEF tier1Vars, modeVars, callVars, taskVars, fileVars, lifeVars
<1>0. TableTyped /\ TableRefs
  BY DEF TypeOK, TableTyped, Refs
<1>1. ASSUME NEW c \in Callers, NEW r \in Requests, GetOrCompile(c, r)
      PROVE  FuturesStep
  <2>1. PICK o \in GetOrCreateCacheEntry(r) :
          IF o.kind = "create" THEN AddCacheEntry(o) ELSE UNCHANGED tier1Vars
    BY <1>1 DEF GetOrCompile
  <2>2. o.kind = "create" => o.key \in Keys
    BY LookupOutcomes, RequestAssumption DEF RequestType
  <2> QED BY <2>1, <2>2, AddRefines DEF FuturesStep
<1>2. ASSUME NEW c \in Callers, AdapterLookup(c)
      PROVE  FuturesStep
  <2> DEFINE r == [key |-> AdapterKey[<<call[c].pc, call[c].key, call[c].meta>>],
                   middle |-> None, adapters |-> TRUE]
  <2>1. r \in RequestType
    BY <1>2, AdapterAssumption DEF AdapterLookup, Refs, CallRefs, RequestType
  <2>2. PICK o \in GetOrCreateCacheEntry(r) :
          \/ o.kind = "create" /\ AddCacheEntry(o)
          \/ UNCHANGED tier1Vars
    BY <1>2 DEF AdapterLookup
  <2> HIDE DEF r
  <2>3. o.kind = "create" => o.key \in Keys
    BY <2>1, LookupOutcomes
  <2> QED BY <2>2, <2>3, AddRefines DEF FuturesStep
<1>3. ASSUME NEW c \in Callers, AdapterModule(c)
      PROVE  FuturesStep
  <2>1. call[c].inner \in Promises
    BY <1>3 DEF AdapterModule, TypeOK, Refs, CallRefs
  <2>2. \/ UNCHANGED <<cache, promise>>
        \/ TrySetExecutablePromise(call[c].inner, "error") /\ cache' = cache
    BY <1>3 DEF AdapterModule
  <2> QED BY <1>0, <2>1, <2>2, TrySetRefines DEF FuturesStep
<1>4. ASSUME NEW c \in Callers, BuildModule(c)
      PROVE  FuturesStep
  <2>1. call[c].outer \in Promises
    BY <1>4 DEF BuildModule, TypeOK, Refs, CallRefs
  <2>2. \/ UNCHANGED <<cache, promise>>
        \/ TrySetExecutablePromise(call[c].outer, "error") /\ cache' = cache
    BY <1>4 DEF BuildModule
  <2> QED BY <1>0, <2>1, <2>2, TrySetRefines DEF FuturesStep
<1>5. ASSUME NEW p \in Promises, StoreHit(p) \/ Compile(p) \/ BackupCompile(p)
      PROVE  FuturesStep
  <2>1. keyOf[p] \in Keys
    BY <1>0, <1>5 DEF StoreHit, Compile, BackupCompile, Refs, TaskRefs, TableRefs
  <2>2. \E v \in Results : SetExecutable(keyOf[p], v)
    BY <1>5 DEF StoreHit, Compile, BackupCompile, Results
  <2> QED BY <1>0, <2>1, <2>2, SetRefines
<1>6. ASSUME NEW e \in Evictors \cup {Destructor}, EvictPass(e)
      PROVE  FuturesStep
  <2> DEFINE left == {k \in evict[e].keys : cache[k] # None /\ ~Ready(cache[k])}
             S == evict[e].keys \ left
  <2>1. S \subseteq Keys
    BY DEF TypeOK
  <2>2. Futures!Drop(S)
    BY <1>6 DEF EvictPass, Futures!Drop, Futures!Settled, Ready, Results
  <2> QED BY <2>1, <2>2 DEF Futures!Next, FuturesStep
<1>7. ASSUME NEW p \in Promises,
             \/ StartTask(p) \/ CheckTier2(p) \/ AcquireFlock(p)
             \/ ScheduleBackup(p) \/ ReadTier3(p) \/ ReadTier1(p)
             \/ WaitForFuture(p) \/ WriteTier2(p) \/ ReleaseFlock(p)
             \/ WriteTier3(p) \/ StartBackup(p)
      PROVE  UNCHANGED <<cache, promise>>
  BY <1>7 DEF StartTask, CheckTier2, AcquireFlock, ScheduleBackup, ReadTier3,
              ReadTier1, WaitForFuture, WriteTier2, ReleaseFlock, WriteTier3,
              StartBackup
<1>8. ASSUME NEW b, SetAllowCacheMode(b) \/ SetCacheOnlyMode(b)
      PROVE  UNCHANGED <<cache, promise>>
  BY <1>8 DEF SetAllowCacheMode, SetCacheOnlyMode
<1>9. ASSUME NEW e, EvictSnapshot(e) \/ EvictClear(e)
      PROVE  UNCHANGED <<cache, promise>>
  BY <1>9 DEF EvictSnapshot, EvictClear
<1>10. ASSUME ShutDown \/ ResetCompilationPool \/ ResetBackupPool
      PROVE  UNCHANGED <<cache, promise>>
  BY <1>10 DEF ShutDown, ResetCompilationPool, ResetBackupPool
<1>11. ASSUME NEW k, PeerLock(k) \/ PeerUnlock(k) \/ PeerWriteTier3(k)
      PROVE  UNCHANGED <<cache, promise>>
  BY <1>11 DEF PeerLock, PeerUnlock, PeerWriteTier3
<1>12. CASE UNCHANGED vars
  BY <1>12 DEF vars, FuturesStep
<1>13. Next => FuturesStep \/ UNCHANGED <<cache, promise>>
  BY <1>1, <1>2, <1>3, <1>4, <1>5, <1>6, <1>7, <1>8, <1>9, <1>10, <1>11, <1>12
     DEF Next, CallStep, TaskStep, BackupStep, EvictStep, DestructorStep, Terminated
<1> QED BY <1>12, <1>13 DEF FuturesStep

\* The cache implements ExecutableFutures: through lookups, tier hits, backup
\* compilations, mode switches, evictions and restarts, each step inserts one
\* future, settles one that is in the table, drops settled ones, or changes
\* neither the table nor a future.
THEOREM CacheImplementsFutures == Spec => ImplementsFutures
<1>1. Init => Futures!Init
  BY DEF Init, Futures!Init
<1>2. TypeOK /\ Refs /\ PendingIsCached /\ [Next]_vars => FuturesStep
  BY StepRefines
<1> QED BY <1>1, <1>2, TypeCorrect, PendingFuturesAreServed, PTL
        DEF Spec, ImplementsFutures, Futures!Spec, FuturesStep

-----------------------------------------------------------------------------
\* The lock file of a key has one holder, a task between taking and releasing
\* it or the other process; and while a task holds it after its second check,
\* the file is not one the check would have accepted.
LockInv ==
    /\ \A p \in Promises : task[p] \in HoldingPCs => flock[keyOf[p]] = p
    /\ \A k \in Keys : peer[k] = "locked" => flock[k] = Peer
    /\ \A p \in Promises :
          task[p] \in {"tier3", "tier3read", "tier3hit", "compile2", "read", "wait",
                      "write2"} => tier2[keyOf[p]] # "valid"

\* The facts about types and names LockInv needs.
LockTyped ==
    /\ task \in [Promises -> TaskPCs]
    /\ flock \in [Keys -> Promises \cup {None, Peer}]
    /\ tier2 \in [Keys -> FileStates]
    /\ peer \in [Keys -> {"idle", "locked", "unlocked", "done"}]
    /\ \A p \in Promises : task[p] # "none" => keyOf[p] \in Keys

\* Inserting an entry leaves the keys of all others alone.
LEMMA AddKeepsKeys ==
    ASSUME TableTyped, NEW o, AddCacheEntry(o)
    PROVE  \A p \in Promises : promise[p] # "none" => keyOf'[p] = keyOf[p]
BY FreshIsFresh DEF AddCacheEntry, TableTyped

\* Taking a task's step while its lock file is untouched.
LEMMA LockKept ==
    ASSUME LockInv, UNCHANGED <<flock, tier2, peer>>,
           \A p \in Promises : task[p] # "none" => keyOf'[p] = keyOf[p],
           \A p \in Promises : task'[p] = task[p] \/ task'[p] \in {"queued", "done"}
    PROVE  LockInv'
BY DEF LockInv, HoldingPCs

\* A tier-2 file that other processes can load is never lost, however many
\* tasks and processes work on its key: the flock and the second check under
\* it suffice, although AtomicWriteToCacheFile deletes the final file when a
\* write fails.
THEOREM Tier2FilesSurvive == Spec => ValidTier2NeverLost
<1> DEFINE Survive == \A k \in Keys : tier2[k] = "valid" => tier2'[k] = "valid"
<1>1. Init => LockInv
  BY DEF Init, LockInv, HoldingPCs
<1>2. TypeOK /\ Refs /\ LockInv /\ [Next]_vars => LockInv' /\ Survive
  <2> SUFFICES ASSUME TypeOK, Refs, LockInv, [Next]_vars
               PROVE  LockInv' /\ Survive
    OBVIOUS
  <2> USE DEF tier1Vars, modeVars, callVars, taskVars, fileVars, lifeVars
  <2>0. TableTyped /\ LockTyped
    BY DEF TypeOK, TableTyped, LockTyped, Refs, TableRefs, TaskRefs
  <2>1. ASSUME NEW c \in Callers, NEW r \in Requests, GetOrCompile(c, r)
        PROVE  LockInv' /\ Survive
    <3>1. \A p \in Promises : promise[p] # "none" => keyOf'[p] = keyOf[p]
      BY <2>0, <2>1, AddKeepsKeys DEF GetOrCompile
    <3> QED BY <2>1, <3>1, LockKept DEF GetOrCompile, Refs, TaskRefs
  <2>2. ASSUME NEW c \in Callers, AdapterLookup(c)
        PROVE  LockInv' /\ Survive
    <3>1. \A p \in Promises : promise[p] # "none" => keyOf'[p] = keyOf[p]
      BY <2>0, <2>2, AddKeepsKeys DEF AdapterLookup
    <3> QED BY <2>2, <3>1, LockKept DEF AdapterLookup, Refs, TaskRefs
  <2>3. ASSUME NEW c \in Callers, AdapterModule(c) \/ BuildModule(c)
        PROVE  LockInv' /\ Survive
    <3>1. \A p \in Promises : task'[p] = task[p] \/ task'[p] \in {"queued", "done"}
      BY <2>0, <2>3 DEF AdapterModule, BuildModule, EnqueueCompilation, LockTyped
    <3> QED BY <2>3, <3>1, LockKept DEF AdapterModule, BuildModule
  <2>4. ASSUME NEW p \in Promises, StartTask(p) \/ CheckTier2(p)
        PROVE  LockInv' /\ Survive
    BY <2>0, <2>4 DEF StartTask, CheckTier2, Goto, LockTyped, LockInv, HoldingPCs
  <2>5. ASSUME NEW p \in Promises, StoreHit(p) \/ Compile(p)
        PROVE  LockInv' /\ Survive
    BY <2>0, <2>5 DEF StoreHit, Compile, Goto, LockTyped, LockInv, HoldingPCs
  <2>6. ASSUME NEW p \in Promises, AcquireFlock(p)
        PROVE  LockInv' /\ Survive
    <3>1. /\ task' = [task EXCEPT ![p] = "check2"]
          /\ flock' = [flock EXCEPT ![keyOf[p]] = p]
          /\ flock[keyOf[p]] = None /\ keyOf[p] \in Keys
          /\ UNCHANGED <<keyOf, tier2, peer>>
      BY <2>0, <2>6 DEF AcquireFlock, Goto, LockTyped
    <3> QED BY <2>0, <3>1, NoneAssumption DEF LockTyped, LockInv, HoldingPCs
  <2>7. ASSUME NEW p \in Promises,
               ScheduleBackup(p) \/ ReadTier3(p) \/ ReadTier1(p) \/ WaitForFuture(p)
        PROVE  LockInv' /\ Survive
    BY <2>0, <2>7 DEF ScheduleBackup, ReadTier3, ReadTier1, WaitForFuture, Goto,
                      LockTyped, LockInv, HoldingPCs
  <2>8. ASSUME NEW p \in Promises, WriteTier2(p)
        PROVE  LockInv' /\ Survive
    <3>1. PICK new \in AtomicWriteOutcomes(tier2[keyOf[p]]) :
            tier2' = [tier2 EXCEPT ![keyOf[p]] = new]
      BY <2>8 DEF WriteTier2
    <3>2. /\ task[p] = "write2" /\ task' = [task EXCEPT ![p] = "release"]
          /\ UNCHANGED <<keyOf, flock, peer>>
      BY <2>8 DEF WriteTier2, Goto
    <3>3. tier2[keyOf[p]] # "valid" /\ flock[keyOf[p]] = p
      BY <3>2 DEF LockInv, HoldingPCs
    <3>4. \A q \in Promises \ {p} : task[q] \in HoldingPCs => keyOf[q] # keyOf[p]
      BY <3>3 DEF LockInv
    <3>5. Survive
      BY <2>0, <3>1, <3>3 DEF LockTyped
    <3> QED BY <2>0, <3>1, <3>2, <3>4, <3>5 DEF LockTyped, LockInv, HoldingPCs
  <2>9. ASSUME NEW p \in Promises, ReleaseFlock(p)
        PROVE  LockInv' /\ Survive
    <3>1. /\ flock' = [flock EXCEPT ![keyOf[p]] = None]
          /\ task[p] \in HoldingPCs
          /\ \A q \in Promises \ {p} : task'[q] = task[q]
          /\ task'[p] \in {"write3", "done"}
          /\ UNCHANGED <<keyOf, tier2, peer>>
      BY <2>0, <2>9 DEF ReleaseFlock, Goto, LockTyped, HoldingPCs
    <3>2. flock[keyOf[p]] = p
      BY <3>1 DEF LockInv
    <3>3. /\ \A q \in Promises \ {p} : task[q] \in HoldingPCs => keyOf[q] # keyOf[p]
          /\ \A k \in Keys : peer[k] = "locked" => k # keyOf[p]
      BY <3>2, NoneAssumption DEF LockInv
    <3>4. \A q \in Promises : task[q] \in HoldingPCs => keyOf[q] \in Keys
      BY <2>0 DEF LockTyped, HoldingPCs
    <3> QED BY <2>0, <3>1, <3>3, <3>4 DEF LockTyped, LockInv, HoldingPCs
  <2>10. ASSUME NEW p \in Promises, WriteTier3(p)
        PROVE  LockInv' /\ Survive
    BY <2>0, <2>10 DEF WriteTier3, Goto, LockTyped, LockInv, HoldingPCs
  <2>11. ASSUME NEW p \in Promises, StartBackup(p) \/ BackupCompile(p)
        PROVE  LockInv' /\ Survive
    BY <2>11, LockKept DEF StartBackup, BackupCompile
  <2>12. ASSUME NEW b, SetAllowCacheMode(b) \/ SetCacheOnlyMode(b)
        PROVE  LockInv' /\ Survive
    BY <2>12, LockKept DEF SetAllowCacheMode, SetCacheOnlyMode
  <2>13. ASSUME NEW e, EvictSnapshot(e) \/ EvictPass(e) \/ EvictClear(e)
        PROVE  LockInv' /\ Survive
    BY <2>13, LockKept DEF EvictSnapshot, EvictPass, EvictClear
  <2>14. ASSUME ShutDown \/ ResetCompilationPool \/ ResetBackupPool
        PROVE  LockInv' /\ Survive
    BY <2>14, LockKept DEF ShutDown, ResetCompilationPool, ResetBackupPool
  <2>15. ASSUME NEW k \in Keys, PeerLock(k)
        PROVE  LockInv' /\ Survive
    BY <2>0, <2>15, NoneAssumption DEF PeerLock, LockTyped, LockInv, HoldingPCs
  <2>16. ASSUME NEW k \in Keys, PeerUnlock(k)
        PROVE  LockInv' /\ Survive
    <3>1. \/ tier2' = tier2
          \/ \E new : tier2' = [tier2 EXCEPT ![k] = new] /\ tier2[k] # "valid"
      BY <2>16 DEF PeerUnlock
    <3>2. /\ peer[k] = "locked"
          /\ \/ peer' = [peer EXCEPT ![k] = "unlocked"]
             \/ peer' = [peer EXCEPT ![k] = "done"]
          /\ flock' = [flock EXCEPT ![k] = None]
          /\ UNCHANGED <<keyOf, task>>
      BY <2>16 DEF PeerUnlock
    <3>3. \A q \in Promises : task[q] \in HoldingPCs => keyOf[q] \in Keys \ {k}
      BY <2>0, <3>2, NoneAssumption DEF LockTyped, LockInv, HoldingPCs
    <3>4. \A j \in Keys \ {k} : tier2'[j] = tier2[j] /\ flock'[j] = flock[j]
      BY <2>0, <3>1, <3>2 DEF LockTyped
    <3>7. Survive
      BY <2>0, <3>1 DEF LockTyped
    <3>6. \A j \in Keys : peer'[j] = "locked" => peer[j] = "locked" /\ j # k
      BY <2>0, <3>2 DEF LockTyped
    <3>5. \A q \in Promises : task[q] \in {"tier3", "tier3read", "tier3hit",
              "compile2", "read", "wait", "write2"} => task[q] \in HoldingPCs
      BY DEF HoldingPCs
    <3> QED BY <3>2, <3>3, <3>4, <3>5, <3>6, <3>7 DEF LockInv
  <2>17. ASSUME NEW k \in Keys, PeerWriteTier3(k)
        PROVE  LockInv' /\ Survive
    BY <2>0, <2>17 DEF PeerWriteTier3, LockTyped, LockInv, HoldingPCs
  <2>18. CASE UNCHANGED vars
    BY <2>18, LockKept DEF vars
  <2> QED BY <2>1, <2>2, <2>3, <2>4, <2>5, <2>6, <2>7, <2>8, <2>9, <2>10, <2>11, <2>12,
             <2>13, <2>14, <2>15, <2>16, <2>17, <2>18
          DEF Next, CallStep, TaskStep, BackupStep, EvictStep, DestructorStep, Terminated
<1> QED BY <1>1, <1>2, TypeCorrect, PTL DEF Spec, ValidTier2NeverLost

(***************************************************************************)
(* Proofs about eviction and destruction of the compilation cache.  They   *)
(* build on the refinement of ExecutableFutures: a key only ever gets a    *)
(* promise that was not used before, so an entry that has left the table   *)
(* does not come back.                                                     *)
(***************************************************************************)

\* The key of an entry is fixed when it is inserted.
LEMMA KeysAreFixed ==
    ASSUME TypeOK, [Next]_vars
    PROVE  \A p \in Promises : promise[p] # "none" => keyOf'[p] = keyOf[p]
<1> USE DEF tier1Vars, modeVars, callVars, taskVars, fileVars, lifeVars
<1>0. TableTyped
  BY DEF TypeOK, TableTyped
<1>1. ASSUME NEW c \in Callers, NEW r \in Requests, GetOrCompile(c, r)
      PROVE  \A p \in Promises : promise[p] # "none" => keyOf'[p] = keyOf[p]
  BY <1>0, <1>1, AddKeepsKeys DEF GetOrCompile
<1>2. ASSUME NEW c \in Callers, AdapterLookup(c)
      PROVE  \A p \in Promises : promise[p] # "none" => keyOf'[p] = keyOf[p]
  BY <1>0, <1>2, AddKeepsKeys DEF AdapterLookup
<1>3. ASSUME NEW c \in Callers, AdapterModule(c) \/ BuildModule(c)
      PROVE  UNCHANGED keyOf
  BY <1>3 DEF AdapterModule, BuildModule
<1>4. ASSUME NEW p \in Promises, TaskStep(p) \/ BackupStep(p)
      PROVE  UNCHANGED keyOf
  BY <1>4 DEF TaskStep, StartTask, CheckTier2, StoreHit, AcquireFlock,
              ScheduleBackup, ReadTier3, Compile, ReadTier1, WaitForFuture,
              WriteTier2, ReleaseFlock, WriteTier3, BackupStep, StartBackup,
              BackupCompile
<1>5. ASSUME NEW b, SetAllowCacheMode(b) \/ SetCacheOnlyMode(b)
      PROVE  UNCHANGED keyOf
  BY <1>5 DEF SetAllowCacheMode, SetCacheOnlyMode
<1>6. ASSUME NEW e, EvictSnapshot(e) \/ EvictStep(e)
      PROVE  UNCHANGED keyOf
  BY <1>6 DEF EvictSnapshot, EvictStep, EvictPass, EvictClear
<1>7. ASSUME ShutDown \/ ResetCompilationPool \/ ResetBackupPool
      PROVE  UNCHANGED keyOf
  BY <1>7 DEF ShutDown, ResetCompilationPool, ResetBackupPool
<1>8. ASSUME NEW k, PeerLock(k) \/ PeerUnlock(k) \/ PeerWriteTier3(k)
      PROVE  UNCHANGED keyOf
  BY <1>8 DEF PeerLock, PeerUnlock, PeerWriteTier3
<1>9. CASE UNCHANGED vars
  BY <1>9 DEF vars
<1> QED BY <1>1, <1>2, <1>3, <1>4, <1>5, <1>6, <1>7, <1>8, <1>9
        DEF Next, CallStep, DestructorStep, Terminated

\* A used promise that is under no key stays so.
LEMMA EntriesDoNotReturn ==
    ASSUME TypeOK, Refs, FuturesStep, NEW p \in Promises, promise[p] # "none",
           keyOf'[p] = keyOf[p], cache'[keyOf[p]] = p
    PROVE  cache[keyOf[p]] = p
<1>0. cache \in [Keys -> Promises \cup {None}] /\ keyOf[p] \in Keys
  BY DEF TypeOK, Refs, TableRefs
<1>1. ASSUME NEW k \in Keys, NEW q \in Promises, Futures!Insert(k, q)
      PROVE  cache[keyOf[p]] = p
  BY <1>0, <1>1 DEF Futures!Insert
<1>2. ASSUME NEW k \in Keys, NEW v \in {"ok", "error"}, Futures!Settle(k, v)
      PROVE  cache[keyOf[p]] = p
  BY <1>0, <1>2, NoneAssumption DEF Futures!Settle
<1>3. ASSUME NEW S \in SUBSET Keys, Futures!Drop(S)
      PROVE  cache[keyOf[p]] = p
  BY <1>0, <1>3, NoneAssumption DEF Futures!Drop
<1> QED BY <1>1, <1>2, <1>3 DEF FuturesStep, Futures!Next

\* A used promise stays used.
LEMMA FuturesKeepUsed ==
    ASSUME promise \in [Promises -> {"none", "unset"} \cup Results], FuturesStep
    PROVE  \A p \in Promises : promise[p] # "none" => promise'[p] # "none"
<1> DEFINE Kept == \A p \in Promises : promise[p] # "none" => promise'[p] # "none"
<1>1. ASSUME NEW k \in Keys, NEW q \in Promises, Futures!Insert(k, q)
      PROVE  Kept
  BY <1>1 DEF Futures!Insert
<1>2. ASSUME NEW k \in Keys, NEW v \in {"ok", "error"}, Futures!Settle(k, v)
      PROVE  Kept
  BY <1>2 DEF Futures!Settle
<1>3. ASSUME NEW S \in SUBSET Keys, Futures!Drop(S)
      PROVE  Kept
  BY <1>3 DEF Futures!Drop
<1> QED BY <1>1, <1>2, <1>3 DEF FuturesStep, Futures!Next

\* Only EvictAll moves an activation of EvictAll.
LEMMA EvictUntouched ==
    ASSUME [Next]_vars
    PROVE  \/ evict' = evict
           \/ \E f \in Evictors \cup {Destructor} : EvictSnapshot(f) \/ EvictStep(f)
<1> USE DEF tier1Vars, modeVars, callVars, taskVars, fileVars, lifeVars
<1>1. ASSUME NEW c, NEW r, GetOrCompile(c, r)
      PROVE  evict' = evict
  BY <1>1 DEF GetOrCompile
<1>2. ASSUME NEW c, CallStep(c)
      PROVE  evict' = evict
  BY <1>2 DEF CallStep, AdapterLookup, AdapterModule, BuildModule
<1>3. ASSUME NEW p, TaskStep(p) \/ BackupStep(p)
      PROVE  evict' = evict
  BY <1>3 DEF TaskStep, StartTask, CheckTier2, StoreHit, AcquireFlock,
              ScheduleBackup, ReadTier3, Compile, ReadTier1, WaitForFuture,
              WriteTier2, ReleaseFlock, WriteTier3, BackupStep, StartBackup,
              BackupCompile
<1>4. ASSUME NEW b, SetAllowCacheMode(b) \/ SetCacheOnlyMode(b)
      PROVE  evict' = evict
  BY <1>4 DEF SetAllowCacheMode, SetCacheOnlyMode
<1>5. ASSUME ShutDown \/ ResetCompilationPool \/ ResetBackupPool
      PROVE  evict' = evict
  BY <1>5 DEF ShutDown, ResetCompilationPool, ResetBackupPool
<1>6. ASSUME NEW k, PeerLock(k) \/ PeerUnlock(k) \/ PeerWriteTier3(k)
      PROVE  evict' = evict
  BY <1>6 DEF PeerLock, PeerUnlock, PeerWriteTier3
<1>7. CASE UNCHANGED vars
  BY <1>7 DEF vars
<1> QED BY <1>1, <1>2, <1>3, <1>4, <1>5, <1>6, <1>7
        DEF Next, DestructorStep, Terminated

-----------------------------------------------------------------------------
\* While EvictAll runs, whatever of its snapshot is still cached is under a
\* key it has not finished with.
Tracks(e) ==
    evict[e].pc # "idle" =>
        \A p \in evict[e].old :
            /\ promise[p] # "none"
            /\ cache[keyOf[p]] = p => evict[e].pc = "pass" /\ keyOf[p] \in evict[e].keys

\* When EvictAll's loop ends, every entry it found at its start has left the
\* table for good, also if its key was asked for again meanwhile; for any
\* number of concurrent evictions.
THEOREM EvictAllEvicts == Spec => []EvictedEntriesGone
<1> DEFINE E == Evictors \cup {Destructor}
           Tracked == \A e \in E : Tracks(e)
<1>1. Init => Tracked
  BY DEF Init, Tracks, IdleEvict
<1>2. TypeOK /\ Refs /\ PendingIsCached /\ Tracked /\ [Next]_vars => Tracked'
  <2> SUFFICES ASSUME TypeOK, Refs, PendingIsCached, Tracked, [Next]_vars,
                      NEW e \in E
               PROVE  Tracks(e)'
    OBVIOUS
  <2> USE DEF tier1Vars, modeVars, callVars, taskVars, fileVars, lifeVars
  <2>1. /\ FuturesStep
        /\ \A p \in Promises : promise[p] # "none" => keyOf'[p] = keyOf[p]
    BY StepRefines, KeysAreFixed
  <2>2. \A p \in Promises : promise[p] # "none" /\ cache'[keyOf'[p]] = p =>
           cache[keyOf[p]] = p
    BY <2>1, EntriesDoNotReturn
  <2>3. \A p \in Promises : promise[p] # "none" => promise'[p] # "none"
    BY <2>1, FuturesKeepUsed DEF TypeOK
  <2>4. CASE evict'[e] = evict[e]
    <3>1. evict[e].old \subseteq Promises
      BY DEF TypeOK
    <3> QED BY <2>1, <2>2, <2>3, <2>4, <3>1 DEF Tracks
  <2>5. ASSUME EvictSnapshot(e)
        PROVE  Tracks(e)'
    <3> DEFINE keys == {k \in Keys : cache[k] # None}
    <3>1. evict'[e] = [pc |-> IF keys = {} THEN "clear" ELSE "pass",
                       keys |-> keys, old |-> {cache[k] : k \in keys}]
      BY <2>5 DEF EvictSnapshot, TypeOK
    <3>2. UNCHANGED <<cache, promise, keyOf>>
      BY <2>5 DEF EvictSnapshot
    <3>3. \A p \in {cache[k] : k \in keys} : promise[p] # "none" /\ keyOf[p] \in keys
      BY DEF Refs, TableRefs
    <3> QED BY <3>1, <3>2, <3>3 DEF Tracks
  <2>6. ASSUME EvictPass(e)
        PROVE  Tracks(e)'
    <3> DEFINE left == {k \in evict[e].keys : cache[k] # None /\ ~Ready(cache[k])}
    <3>1. /\ evict'[e].keys = left /\ evict'[e].old = evict[e].old
          /\ evict'[e].pc = IF left = {} THEN "clear" ELSE "pass"
          /\ evict[e].pc = "pass"
          /\ cache' = [k \in Keys |-> IF k \in evict[e].keys \ left THEN None
                                      ELSE cache[k]]
          /\ UNCHANGED <<promise, keyOf>>
      BY <2>6 DEF EvictPass, TypeOK
    <3>2. ASSUME NEW p \in evict[e].old, cache'[keyOf[p]] = p
          PROVE  keyOf[p] \in left
      <4>1. p \in Promises /\ promise[p] # "none" /\ keyOf[p] \in Keys
        BY <3>1 DEF Tracks, TypeOK, Refs, TableRefs
      <4>2. cache[keyOf[p]] = p
        BY <2>2, <3>1, <3>2, <4>1
      <4>3. keyOf[p] \in evict[e].keys
        BY <3>1, <4>2 DEF Tracks
      <4> QED BY <3>1, <3>2, <4>1, <4>3, NoneAssumption
    <3> QED BY <3>1, <3>2 DEF Tracks
  <2>7. ASSUME EvictClear(e)
        PROVE  Tracks(e)'
    BY <2>7 DEF EvictClear, IdleEvict, Tracks, TypeOK
  <2>8. ASSUME NEW f \in E, f # e, EvictSnapshot(f) \/ EvictStep(f)
        PROVE  evict'[e] = evict[e]
    BY <2>8 DEF EvictSnapshot, EvictStep, EvictPass, EvictClear, TypeOK
  <2>9. \/ evict' = evict
        \/ \E f \in E : EvictSnapshot(f) \/ EvictStep(f)
    BY EvictUntouched
  <2> QED BY <2>4, <2>5, <2>6, <2>7, <2>8, <2>9 DEF EvictStep
<1>3. TypeOK /\ Tracked => EvictedEntriesGone
  BY DEF EvictedEntriesGone, Tracks
<1> QED BY <1>1, <1>2, <1>3, TypeCorrect, PendingFuturesAreServed, PTL DEF Spec

-----------------------------------------------------------------------------
\* From the moment ~CompilationCache starts nobody is inside GetOrCompile; once
\* compilation_pool_ is gone no task is left; and the destructor's EvictAll
\* empties the table.
Destroying ==
    /\ phase # "up" => \A c \in Callers : call[c].pc = "idle"
    /\ phase \in {"drainBackup", "evict", "down"} =>
          \A p \in Promises : task[p] \in {"none", "done"}
    /\ evict[Destructor].pc # "idle" => phase = "evict"
    /\ evict[Destructor].pc = "pass" =>
          \A k \in Keys : cache[k] # None => k \in evict[Destructor].keys
    /\ evict[Destructor].pc = "clear" \/ phase = "down" =>
          \A k \in Keys : cache[k] = None

LEMMA DestroyingHolds == Spec => []Destroying
<1>1. Init => Destroying
  BY DEF Init, Destroying, IdleCall, IdleEvict
<1>2. TypeOK /\ Refs /\ PendingIsCached /\ Destroying /\ [Next]_vars => Destroying'
  <2> SUFFICES ASSUME TypeOK, Refs, PendingIsCached, Destroying, [Next]_vars
               PROVE  Destroying'
    OBVIOUS
  <2> USE DEF tier1Vars, modeVars, callVars, taskVars, fileVars, lifeVars
  <2> DEFINE D == Destructor
  <2>0. /\ cache \in [Keys -> Promises \cup {None}]
        /\ task \in [Promises -> TaskPCs]
        /\ evict \in [Evictors \cup {D} ->
                        [pc: {"idle", "pass", "clear"}, keys: SUBSET Keys,
                         old: SUBSET Promises]]
    BY DEF TypeOK
  <2>1. ASSUME NEW c \in Callers, NEW r \in Requests, GetOrCompile(c, r)
        PROVE  Destroying'
    BY <2>1 DEF GetOrCompile, Destroying
  <2>2. ASSUME NEW c \in Callers, CallStep(c)
        PROVE  Destroying'
    <3>1. phase = "up" /\ UNCHANGED <<phase, evict>>
      BY <2>2 DEF CallStep, AdapterLookup, AdapterModule, BuildModule, Destroying
    <3> QED BY <3>1 DEF Destroying
  <2>3. ASSUME NEW p \in Promises, StoreHit(p) \/ Compile(p)
        PROVE  Destroying'
    <3>1. /\ task[p] \notin {"none", "done"} /\ UNCHANGED <<call, phase, evict>>
      BY <2>3 DEF StoreHit, Compile
    <3>2. phase \in {"up", "drainPrimary"}
      BY <3>1 DEF Destroying, TypeOK
    <3> QED BY <3>1, <3>2 DEF Destroying
  <2>4. ASSUME NEW p \in Promises,
               \/ StartTask(p) \/ CheckTier2(p) \/ AcquireFlock(p)
               \/ ScheduleBackup(p) \/ ReadTier3(p) \/ ReadTier1(p)
               \/ WaitForFuture(p) \/ WriteTier2(p) \/ ReleaseFlock(p)
               \/ WriteTier3(p)
        PROVE  Destroying'
    <3>1. /\ task[p] \notin {"none", "done"} /\ UNCHANGED <<call, phase, evict>>
      BY <2>4 DEF StartTask, CheckTier2, AcquireFlock, ScheduleBackup, ReadTier3,
                  ReadTier1, WaitForFuture, WriteTier2, ReleaseFlock, WriteTier3
    <3>2. phase \in {"up", "drainPrimary"}
      BY <3>1 DEF Destroying, TypeOK
    <3> QED BY <3>1, <3>2 DEF Destroying
  <2>5. ASSUME NEW p \in Promises, BackupCompile(p)
        PROVE  Destroying'
    <3>1. keyOf[p] \in Keys
      BY <2>5 DEF BackupCompile, Refs, TaskRefs, TableRefs
    <3>2. \A k \in Keys : cache'[k] # None => cache[k] # None
      BY <2>0, <2>5, <3>1 DEF BackupCompile, SetExecutable
    <3> QED BY <2>5, <3>2 DEF BackupCompile, Destroying
  <2>6. ASSUME NEW p \in Promises, StartBackup(p)
        PROVE  Destroying'
    BY <2>6 DEF StartBackup, Destroying
  <2>7. ASSUME NEW b, SetAllowCacheMode(b) \/ SetCacheOnlyMode(b)
        PROVE  Destroying'
    BY <2>7 DEF SetAllowCacheMode, SetCacheOnlyMode, Destroying
  <2>8. ASSUME NEW e \in Evictors \cup {D}, EvictSnapshot(e)
        PROVE  Destroying'
    <3>1. CASE e = D
      <4>1. /\ evict'[D].keys = {k \in Keys : cache[k] # None}
            /\ evict'[D].pc = IF evict'[D].keys = {} THEN "clear" ELSE "pass"
            /\ phase = "evict" /\ UNCHANGED <<cache, call, task, phase>>
        BY <2>0, <2>8, <3>1 DEF EvictSnapshot
      <4> QED BY <4>1 DEF Destroying
    <3>2. CASE e # D
      <4>1. evict'[D] = evict[D] /\ UNCHANGED <<cache, call, task, phase>>
        BY <2>0, <2>8, <3>2 DEF EvictSnapshot
      <4> QED BY <4>1 DEF Destroying
    <3> QED BY <3>1, <3>2
  <2>9. ASSUME NEW e \in Evictors \cup {D}, EvictPass(e)
        PROVE  Destroying'
    <3> DEFINE left == {k \in evict[e].keys : cache[k] # None /\ ~Ready(cache[k])}
    <3>1. /\ cache' = [k \in Keys |-> IF k \in evict[e].keys \ left THEN None
                                      ELSE cache[k]]
          /\ UNCHANGED <<call, task, phase>>
      BY <2>9 DEF EvictPass
    <3>2. CASE e = D
      <4>1. /\ evict[D].pc = "pass" /\ evict'[D].keys = left
            /\ evict'[D].pc = IF left = {} THEN "clear" ELSE "pass"
        BY <2>0, <2>9, <3>2 DEF EvictPass
      <4>2. \A k \in Keys : cache'[k] # None => k \in left
        BY <3>1, <3>2, <4>1 DEF Destroying
      <4> QED BY <3>1, <4>1, <4>2 DEF Destroying
    <3>3. CASE e # D
      <4>1. evict'[D] = evict[D]
        BY <2>0, <2>9, <3>3 DEF EvictPass
      <4> QED BY <3>1, <4>1 DEF Destroying
    <3> QED BY <3>2, <3>3
  <2>10. ASSUME NEW e \in Evictors \cup {D}, EvictClear(e)
        PROVE  Destroying'
    <3>1. CASE e = D
      <4>1. /\ evict[D].pc = "clear" /\ evict'[D].pc = "idle"
            /\ phase' \in {"up", "down"} /\ UNCHANGED <<cache, call, task>>
        BY <2>0, <2>10, <3>1 DEF EvictClear, IdleEvict
      <4> QED BY <4>1 DEF Destroying
    <3>2. CASE e # D
      <4>1. evict'[D] = evict[D] /\ UNCHANGED <<cache, call, task, phase>>
        BY <2>0, <2>10, <3>2 DEF EvictClear
      <4> QED BY <4>1 DEF Destroying
    <3> QED BY <3>1, <3>2
  <2>11. ASSUME ShutDown \/ ResetCompilationPool \/ ResetBackupPool
        PROVE  Destroying'
    BY <2>11 DEF ShutDown, ResetCompilationPool, ResetBackupPool, Destroying
  <2>12. ASSUME NEW k \in Keys, PeerLock(k) \/ PeerUnlock(k) \/ PeerWriteTier3(k)
        PROVE  Destroying'
    BY <2>12 DEF PeerLock, PeerUnlock, PeerWriteTier3, Destroying
  <2>13. CASE UNCHANGED vars
    BY <2>13 DEF vars, Destroying
  <2> QED BY <2>1, <2>2, <2>3, <2>4, <2>5, <2>6, <2>7, <2>8, <2>9, <2>10, <2>11,
             <2>12, <2>13
          DEF Next, TaskStep, BackupStep, EvictStep, DestructorStep, Terminated
<1> QED BY <1>1, <1>2, TypeCorrect, PendingFuturesAreServed, PTL DEF Spec

\* ~CompilationCache resets its members in a safe order: when the backup pool
\* may be gone no task is left to schedule on it, and an instance that is gone
\* has left no future unset.
THEOREM DestructionIsOrderly == Spec => []DestroyedInOrder
<1>1. Refs /\ PendingIsCached /\ Destroying => DestroyedInOrder
  BY NoneAssumption DEF Refs, TableRefs, PendingIsCached, Destroying, DestroyedInOrder
<1> QED BY <1>1, DestroyingHolds, TypeCorrect, PendingFuturesAreServed, PTL

-----------------------------------------------------------------------------
(* Insertions.                                                             *)
(*                                                                         *)
(* AddStaticCacheEntry checks that its key is new.  It is called for a key *)
(* the static lookup has just missed, except by                            *)
(* AddBoundedDynamicCacheEntry, whose middle key no static lookup has seen *)
(* before: that one is new only because bounded_dynamic_cache_ lists every *)
(* cached middle key.  EvictAll breaks this when it clears that table in a *)
(* critical section of its own while one of its keys is cached, which torn *)
(* records; nothing else does.                                             *)

\* What the callers of GetOrCompile see to: the bounds a request is annotated
\* with accept its own shapes, and a middle key is the key of no plain request
\* and of no adapter kernel.
MiddleKeysApart ==
    \A r \in Requests : r.middle # None =>
        /\ <<r.middle, r.key>> \in Compatible
        /\ \A q \in Requests : q.key # r.middle
        /\ \A a \in {"pad", "slice"} \X Keys \X Keys : AdapterKey[a] # r.middle

\* bounded_dynamic_cache_ lists every middle key that is cached.
MiddlesListed ==
    \A r \in Requests : r.middle # None /\ cache[r.middle] # None => r.middle \in dyn

\* The key an entry is created for is not cached, and a middle key is listed.
LEMMA LookupMisses ==
    ASSUME MiddleKeysApart, MiddlesListed, TypeOK, NEW q, NEW o,
           q \in Requests \/ (q.middle = None /\ \A r \in Requests :
                                  r.middle # None => q.key # r.middle),
           o \in GetOrCreateCacheEntry(q), o.kind = "create"
    PROVE  /\ cache[o.key] = None
           /\ \A r \in Requests : r.middle # None /\ r.middle = o.key =>
                 o.dynamic \/ o.key \in dyn
<1> DEFINE Good == /\ cache[o.key] = None
                   /\ \A r \in Requests : r.middle # None /\ r.middle = o.key =>
                         o.dynamic \/ o.key \in dyn
<1>1. \A r \in Requests : r.middle # None => q.key # r.middle
  BY DEF MiddleKeysApart
<1>2. CASE o = Created(q.key, None, FALSE) /\ cache[q.key] = None
  BY <1>1, <1>2 DEF Created
<1>3. ASSUME NEW m \in dyn, o = GetOrCreateMiddle(m) PROVE Good
  <2>1. o = Created(m, m, FALSE) /\ cache[m] = None
    BY <1>3 DEF GetOrCreateMiddle, Found, Refused, Created
  <2> QED BY <2>1 DEF Created
<1>4. CASE /\ o = Created(q.middle, q.middle, TRUE) /\ q.middle # None
           /\ {m \in dyn : <<m, q.key>> \in Compatible} = {}
  <2>1. q \in Requests /\ <<q.middle, q.key>> \in Compatible
    BY <1>4 DEF MiddleKeysApart
  <2>2. q.middle \notin dyn
    BY <1>4, <2>1
  <2>3. cache[q.middle] = None
    BY <1>4, <2>1, <2>2 DEF MiddlesListed
  <2> QED BY <1>4, <2>3 DEF Created
<1>5. \/ o = Created(q.key, None, FALSE) /\ cache[q.key] = None
      \/ \E m \in dyn : o = GetOrCreateMiddle(m)
      \/ /\ o = Created(q.middle, q.middle, TRUE) /\ q.middle # None
         /\ {m \in dyn : <<m, q.key>> \in Compatible} = {}
  <2> DEFINE A == {m \in dyn : <<m, q.key>> \in Compatible}
             Insertion == IF q.middle # None THEN {Created(q.middle, q.middle, TRUE)}
                      ELSE {Created(q.key, None, FALSE)}
             UnlessCacheOnly == IF cacheOnly THEN {Refused} ELSE Insertion
             UnlessAccepted == IF A # {} THEN {GetOrCreateMiddle(m) : m \in A} ELSE UnlessCacheOnly
             UnlessDisabled == IF ~allow THEN {Created(q.key, None, FALSE)} ELSE UnlessAccepted
  <2>1. o \in IF cache[q.key] # None THEN {Found(q.key, None)} ELSE UnlessDisabled
    BY DEF GetOrCreateCacheEntry
  <2>2. A \subseteq dyn
    OBVIOUS
  <2>3. o # Found(q.key, None) /\ o # Refused
    BY DEF Found, Refused
  <2> HIDE DEF A
  <2> QED BY <2>1, <2>2, <2>3 DEF A
<1> QED BY <1>2, <1>3, <1>4, <1>5

\* So inserting it succeeds and keeps the middle keys listed.
LEMMA AddSucceeds ==
    ASSUME TypeOK, MiddlesListed, ~crashed, NEW o, o.key \in Keys,
           cache[o.key] = None,
           \A r \in Requests : r.middle # None /\ r.middle = o.key =>
               o.dynamic \/ o.key \in dyn,
           AddCacheEntry(o)
    PROVE  MiddlesListed' /\ ~crashed'
<1>1. /\ dyn' = IF o.dynamic THEN dyn \cup {o.key} ELSE dyn
      /\ cache' = [cache EXCEPT ![o.key] = FreshPromise]
      /\ crashed' = crashed
  BY DEF AddCacheEntry
<1>2. \A r \in Requests : r.middle # None => r.middle \in Keys
  BY RequestAssumption
<1>3. \A k \in Keys : k # o.key => cache'[k] = cache[k]
  BY <1>1 DEF TypeOK
<1>4. ASSUME NEW r \in Requests, r.middle # None, cache'[r.middle] # None
      PROVE  r.middle \in dyn'
  <2>1. CASE r.middle = o.key
    BY <1>1, <1>4, <2>1
  <2>2. CASE r.middle # o.key
    BY <1>1, <1>2, <1>3, <1>4, <2>2 DEF MiddlesListed
  <2> QED BY <2>1, <2>2
<1> QED BY <1>1, <1>4 DEF MiddlesListed

\* No insertion hits an existing key ("Key already exists in static cache",
\* compilation_cache.cc:440), whatever the callers request in whatever order, in
\* all cache modes, across evictions and restarts, if the middle keys are apart
\* and no EvictAll clears bounded_dynamic_cache_ while a key of it is cached.
THEOREM InsertionsAreNew ==
    ASSUME MiddleKeysApart
    PROVE  Spec => []NoCheckFails
<1> DEFINE I == torn \/ (MiddlesListed /\ ~crashed)
<1>1. Init => I
  <2>1. \A r \in Requests : r.middle # None => r.middle \in Keys
    BY RequestAssumption
  <2> QED BY <2>1 DEF Init, MiddlesListed
<1>2. ASSUME TypeOK, Refs, I, [Next]_vars, torn
      PROVE  I'
  <2> USE DEF tier1Vars, modeVars, callVars, taskVars, fileVars, lifeVars
  <2>1. torn' = torn \/ \E e \in Evictors \cup {Destructor} : EvictClear(e)
    BY <1>2
    DEF Next, GetOrCompile, CallStep, AdapterLookup, AdapterModule, BuildModule,
        TaskStep, StartTask, CheckTier2, StoreHit, AcquireFlock, ScheduleBackup,
        ReadTier3, Compile, ReadTier1, WaitForFuture, WriteTier2, ReleaseFlock,
        WriteTier3, BackupStep, StartBackup, BackupCompile, SetAllowCacheMode,
        SetCacheOnlyMode, EvictSnapshot, EvictStep, EvictPass, ShutDown,
        DestructorStep, ResetCompilationPool, ResetBackupPool, Terminated,
        PeerLock, PeerUnlock, PeerWriteTier3, vars
  <2> QED BY <1>2, <2>1 DEF EvictClear
<1>3. ASSUME TypeOK, Refs, I, [Next]_vars, ~torn
      PROVE  I'
  <2> USE <1>3
  <2> USE DEF tier1Vars, modeVars, callVars, taskVars, fileVars, lifeVars
  <2>0. \A r \in Requests : r.middle # None => r.middle \in Keys
    BY RequestAssumption
  <2>1. ASSUME NEW c \in Callers, NEW q \in Requests, GetOrCompile(c, q)
        PROVE  I'
    <3>1. PICK o \in GetOrCreateCacheEntry(q) :
             IF o.kind = "create" THEN AddCacheEntry(o) ELSE UNCHANGED tier1Vars
      BY <2>1 DEF GetOrCompile
    <3>2. CASE o.kind # "create"
      BY <3>1, <3>2 DEF MiddlesListed
    <3>3. CASE o.kind = "create"
      <4>1. q \in RequestType
        BY RequestAssumption DEF RequestType
      <4>2. o.key \in Keys
        BY <3>3, <4>1, LookupOutcomes
      <4>3. /\ cache[o.key] = None
            /\ \A r \in Requests : r.middle # None /\ r.middle = o.key =>
                  o.dynamic \/ o.key \in dyn
        BY <3>3, LookupMisses
      <4> QED BY <3>1, <3>3, <4>2, <4>3, AddSucceeds
    <3> QED BY <3>2, <3>3
  <2>2. ASSUME NEW c \in Callers, AdapterLookup(c)
        PROVE  I'
    <3> DEFINE a == <<call[c].pc, call[c].key, call[c].meta>>
               q == [key |-> AdapterKey[a], middle |-> None, adapters |-> TRUE]
    <3>1. PICK o \in GetOrCreateCacheEntry(q) :
             \/ UNCHANGED tier1Vars
             \/ o.kind = "create" /\ AddCacheEntry(o)
      BY <2>2 DEF AdapterLookup
    <3>2. CASE UNCHANGED tier1Vars
      BY <3>2 DEF MiddlesListed
    <3>3. CASE o.kind = "create" /\ AddCacheEntry(o)
      <4>1. a \in {"pad", "slice"} \X Keys \X Keys
        BY <2>2 DEF AdapterLookup, Refs, CallRefs
      <4>2. q \in RequestType /\ q.middle = None /\ q.key = AdapterKey[a]
        BY <4>1, AdapterAssumption DEF RequestType
      <4>3. \A r \in Requests : r.middle # None => q.key # r.middle
        BY <4>1, <4>2 DEF MiddleKeysApart
      <4> HIDE DEF q
      <4>4. o.key \in Keys
        BY <3>3, <4>2, LookupOutcomes
      <4>5. /\ cache[o.key] = None
            /\ \A r \in Requests : r.middle # None /\ r.middle = o.key =>
                  o.dynamic \/ o.key \in dyn
        BY <3>3, <4>2, <4>3, LookupMisses
      <4> QED BY <3>3, <4>4, <4>5, AddSucceeds
    <3> QED BY <3>1, <3>2, <3>3
  <2>3. ASSUME \A k \in Keys : cache'[k] # None => cache[k] # None,
               UNCHANGED <<dyn, crashed>>
        PROVE  I'
    BY <2>0, <2>3 DEF MiddlesListed
  <2>4. ASSUME NEW c \in Callers, AdapterModule(c) \/ BuildModule(c)
        PROVE  I'
    BY <2>3, <2>4 DEF AdapterModule, BuildModule
  <2>5. ASSUME NEW p \in Promises, StoreHit(p) \/ Compile(p) \/ BackupCompile(p)
        PROVE  I'
    <3>1. keyOf[p] \in Keys /\ cache \in [Keys -> Promises \cup {None}]
      BY <2>5 DEF StoreHit, Compile, BackupCompile, Refs, TaskRefs, TableRefs, TypeOK
    <3>2. \E v : SetExecutable(keyOf[p], v)
      BY <2>5 DEF StoreHit, Compile, BackupCompile
    <3>3. \A k \in Keys : cache'[k] # None => cache[k] # None
      BY <3>1, <3>2 DEF SetExecutable
    <3> QED BY <2>3, <2>5, <3>3 DEF StoreHit, Compile, BackupCompile
  <2>6. ASSUME NEW p \in Promises,
               \/ StartTask(p) \/ CheckTier2(p) \/ AcquireFlock(p)
               \/ ScheduleBackup(p) \/ ReadTier3(p) \/ ReadTier1(p)
               \/ WaitForFuture(p) \/ WriteTier2(p) \/ ReleaseFlock(p)
               \/ WriteTier3(p) \/ StartBackup(p)
        PROVE  I'
    BY <2>3, <2>6 DEF StartTask, CheckTier2, AcquireFlock, ScheduleBackup,
            ReadTier3, ReadTier1, WaitForFuture, WriteTier2, ReleaseFlock,
            WriteTier3, StartBackup
  <2>7. ASSUME NEW b, SetAllowCacheMode(b) \/ SetCacheOnlyMode(b)
        PROVE  I'
    BY <2>3, <2>7 DEF SetAllowCacheMode, SetCacheOnlyMode
  <2>8. ASSUME NEW e, EvictSnapshot(e)
        PROVE  I'
    BY <2>3, <2>8 DEF EvictSnapshot
  <2>9. ASSUME NEW e, EvictPass(e)
        PROVE  I'
    BY <2>3, <2>9 DEF EvictPass
  <2>10. ASSUME NEW e, EvictClear(e), ~torn'
        PROVE  I'
    <3>1. \A m \in dyn : cache[m] = None
      BY <2>10 DEF EvictClear
    <3>2. \A r \in Requests : r.middle # None => cache[r.middle] = None
      BY <3>1 DEF MiddlesListed
    <3> QED BY <2>10, <3>2 DEF EvictClear, MiddlesListed
  <2>11. ASSUME ShutDown \/ ResetCompilationPool \/ ResetBackupPool
        PROVE  I'
    BY <2>3, <2>11 DEF ShutDown, ResetCompilationPool, ResetBackupPool
  <2>12. ASSUME NEW k \in Keys, PeerLock(k) \/ PeerUnlock(k) \/ PeerWriteTier3(k)
        PROVE  I'
    BY <2>3, <2>12 DEF PeerLock, PeerUnlock, PeerWriteTier3
  <2>13. CASE UNCHANGED vars
    BY <2>3, <2>13 DEF vars
  <2> QED BY <2>1, <2>2, <2>4, <2>5, <2>6, <2>7, <2>8, <2>9, <2>10, <2>11, <2>12,
             <2>13
          DEF Next, CallStep, TaskStep, BackupStep, EvictStep, DestructorStep,
              Terminated
<1>4. I => NoCheckFails
  BY DEF NoCheckFails
<1>5. TypeOK /\ Refs /\ I /\ [Next]_vars => I'
  BY <1>2, <1>3
<1> HIDE DEF I
<1> QED BY <1>1, <1>4, <1>5, TypeCorrect, PTL DEF Spec
=============================================================================
