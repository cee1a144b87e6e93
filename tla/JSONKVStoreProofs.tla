------------------------- MODULE JSONKVStoreProofs -------------------------
(***************************************************************************)
(* What holds of JSONKVStore for every set of keys, values, writers and    *)
(* persisters, and what one persister at a time adds to it.                *)
(***************************************************************************)
EXTENDS JSONKVStore, AtomicFileProofs

-----------------------------------------------------------------------------
(* Types.                                                                  *)

\* While the process is down nobody is inside a call.
Quiet ==
  data = Down =>
    /\ \A p \in Persisters : call[p] = "idle" /\ ver[p] = 0
    /\ \A w \in Writers : ~Upserting(w)

LEMMA EmptyIsMap == EmptyMap \in Maps
BY DEF EmptyMap, Maps

LEMMA OverlayType ==
  ASSUME NEW m \in Maps, NEW batch \in Maps
  PROVE  Overlay(m, batch) \in Maps
BY DEF Overlay, Maps

LEMMA WithoutType ==
  ASSUME NEW m \in Maps, NEW ids
  PROVE  Without(m, ids) \in Maps
BY DEF Without, Maps

LEMMA LogGrows ==
  ASSUME NEW l \in Seq(Maps), l # <<>>, NEW m \in Maps
  PROVE  /\ Append(l, m) \in Seq(Maps) /\ Append(l, m) # <<>>
         /\ Len(Append(l, m)) = Len(l) + 1 /\ Len(l) \in Nat /\ Len(l) >= 1
         /\ Append(l, m)[Len(l) + 1] = m
         /\ \A v \in 1..Len(l) : Append(l, m)[v] = l[v]
<1>1. /\ Append(l, m) \in Seq(Maps) /\ Append(l, m) # <<>>
      /\ Len(Append(l, m)) = Len(l) + 1
      /\ \A v \in 1..Len(l) : Append(l, m)[v] = l[v]
      /\ Append(l, m)[Len(l) + 1] = m
  BY AppendProperties
<1>2. Len(l) \in Nat /\ Len(l) # 0
  BY LenProperties, EmptySeq
<1> QED
  BY <1>1, <1>2

\* What a start loads is a map.
LEMMA LoadedType ==
  ASSUME Loadable
  PROVE  Loaded \in Maps
BY EmptyIsMap, ParsedType DEF Loadable, Loaded

LEMMA InitTypes == Init => TypeOK /\ Quiet
<1> SUFFICES ASSUME Init PROVE TypeOK /\ Quiet
  OBVIOUS
<1>1. <<EmptyMap>> \in Seq(Maps) /\ <<EmptyMap>> # <<>> /\ Len(<<EmptyMap>>) = 1
  BY EmptyIsMap
<1>2. FileTypeOK
  BY FileInitTypes DEF Init
<1>3. data \in Maps
  BY EmptyIsMap DEF Init
<1> QED
  BY <1>1, <1>2, <1>3, EmptyIsMap, NoneIsNoWriter, DownIsNoMap
     DEF Init, TypeOK, Quiet

\* Every step keeps the types, whatever the number of persisters.
LEMMA StepTypes ==
  ASSUME TypeOK, Quiet, [Next]_vars
  PROVE  TypeOK' /\ Quiet'
<1> USE DEF TypeOK, Quiet
<1>1. ASSUME NEW w \in Writers, UpsertBegin(w)
      PROVE  TypeOK' /\ Quiet'
  <2>1. UNCHANGED fileVars /\ FileTypeOK'
    BY <1>1 DEF UpsertBegin, fileVars, FileTypeOK
  <2>2. \A k \in Keys : keyLock[k] # w
    BY <1>1 DEF UpsertBegin, Upserting, EmptyMap
  <2> QED
    BY <1>1, <2>1, <2>2 DEF UpsertBegin, Upserting, fileVars
<1>2. ASSUME NEW w \in Writers, NEW k \in Keys, LockKey(w, k)
      PROVE  TypeOK' /\ Quiet'
  <2>1. UNCHANGED fileVars /\ FileTypeOK'
    BY <1>2 DEF LockKey, fileVars, FileTypeOK
  <2> QED
    BY <1>2, <2>1 DEF LockKey, Upserting, fileVars
<1>3. ASSUME NEW w \in Writers, NEW k \in Keys, StageKey(w, k)
      PROVE  TypeOK' /\ Quiet'
  <2>1. UNCHANGED fileVars /\ FileTypeOK'
    BY <1>3 DEF StageKey, fileVars, FileTypeOK
  <2>2. staged' \in [Writers -> Maps]
    BY <1>3 DEF StageKey, Maps
  <2>3. keyLock' \in [Keys -> Writers \union {None}]
    BY <1>3 DEF StageKey
  <2>4. \A j \in Keys, v \in Writers :
           keyLock'[j] = v => items'[v][j] # None /\ staged'[v][j] = None
    BY <1>3, NoneIsNoWriter DEF StageKey, Maps
  <2> QED
    BY <1>3, <2>1, <2>2, <2>3, <2>4 DEF StageKey, Upserting, fileVars
<1>4. ASSUME NEW w \in Writers, Commit(w)
      PROVE  TypeOK' /\ Quiet'
  <2>1. UNCHANGED fileVars /\ FileTypeOK'
    BY <1>4 DEF Commit, fileVars, FileTypeOK
  <2>2. data # Down /\ data \in Maps
    BY <1>4 DEF Commit
  <2>3. data' \in Maps /\ data' # Down
    BY <1>4, <2>2, OverlayType, DownIsNoMap DEF Commit
  <2>4. log' \in Seq(Maps) /\ log' # <<>> /\ Len(log') = Len(log) + 1 /\ Len(log) \in Nat
    BY <1>4, <2>3, LogGrows DEF Commit
  <2>5. acked' \in 1..Len(log') /\ ver' \in [Persisters -> 0..Len(log')]
    BY <1>4, <2>4 DEF Commit
  <2>6. \A k \in Keys : keyLock[k] # w
    BY <1>4 DEF Commit
  <2>7. items' \in [Writers -> Maps] /\ staged' \in [Writers -> Maps]
    BY <1>4, EmptyIsMap DEF Commit
  <2> QED
    BY <1>4, <2>1, <2>3, <2>4, <2>5, <2>6, <2>7 DEF Commit
<1>5. ASSUME NEW ids \in SUBSET Keys, Delete(ids)
      PROVE  TypeOK' /\ Quiet'
  <2>1. UNCHANGED fileVars /\ FileTypeOK'
    BY <1>5 DEF Delete, fileVars, FileTypeOK
  <2>2. data' \in Maps /\ data' # Down
    BY <1>5, WithoutType, DownIsNoMap DEF Delete
  <2>3. log' \in Seq(Maps) /\ log' # <<>> /\ Len(log') = Len(log) + 1 /\ Len(log) \in Nat
    BY <1>5, <2>2, LogGrows DEF Delete
  <2>4. acked' \in 1..Len(log') /\ ver' \in [Persisters -> 0..Len(log')]
    BY <1>5, <2>3 DEF Delete
  <2> QED
    BY <1>5, <2>1, <2>2, <2>3, <2>4 DEF Delete
<1>6. ASSUME NEW p \in Persisters, Persist(p)
      PROVE  TypeOK' /\ Quiet'
  <2>1. SaveStep(p)
    BY <1>6 DEF Persist, SaveStep, PersistSnapshot, PersistOpen, PersistWrite,
      PersistNotWritten, PersistRename, PersistNotRenamed, PersistCleanup
  <2>2. FileTypeOK'
    BY <2>1, SaveStepTypes
  <2>3. UNCHANGED memVars
    BY <1>6 DEF Persist, PersistSnapshot, PersistOpen, PersistWrite,
      PersistNotWritten, PersistRename, PersistNotRenamed, PersistCleanup
  <2>4. Len(log) \in Nat /\ Len(log) >= 1
    BY LogGrows, EmptyIsMap
  <2>5. /\ ver' \in [Persisters -> 0..Len(log)]
        /\ acked' \in 1..Len(log)
    BY <1>6, <2>4 DEF Persist, PersistSnapshot, PersistOpen, PersistWrite,
      PersistNotWritten, PersistRename, PersistNotRenamed, PersistCleanup
  <2>6. data # Down
    BY <1>6 DEF Persist, PersistSnapshot, PersistOpen, PersistWrite,
      PersistNotWritten, PersistRename, PersistNotRenamed, PersistCleanup,
      OpenTmp, WriteBlock, WriteFails, RenameTmp, RenameFails, RemoveTmp
  <2> QED
    BY <2>2, <2>3, <2>5, <2>6 DEF memVars
<1>7. ASSUME Crash
      PROVE  TypeOK' /\ Quiet'
  <2>1. FileTypeOK'
    BY <1>7, EmptySeq DEF Crash, ProcessKilled, Killed, FileTypeOK
  <2>2. Len(log) \in Nat
    BY LenProperties
  <2> QED
    BY <1>7, <2>1, <2>2, EmptyIsMap, NoneIsNoWriter
       DEF Crash, ProcessKilled, Killed, Upserting
<1>8. ASSUME Restart
      PROVE  TypeOK' /\ Quiet'
  <2>1. UNCHANGED fileVars /\ FileTypeOK'
    BY <1>8 DEF Restart, fileVars, FileTypeOK
  <2>2. Loaded \in Maps /\ Loaded # Down
    BY <1>8, LoadedType, DownIsNoMap DEF Restart
  <2>3. <<Loaded>> \in Seq(Maps) /\ <<Loaded>> # <<>> /\ Len(<<Loaded>>) = 1
    BY <2>2
  <2>4. ver \in [Persisters -> 0..1]
    BY <1>8 DEF Restart
  <2> QED
    BY <1>8, <2>1, <2>2, <2>3, <2>4 DEF Restart
<1>9. CASE UNCHANGED vars
  <2>1. FileTypeOK'
    BY <1>9 DEF vars, fileVars, FileTypeOK
  <2> QED
    BY <1>9, <2>1 DEF vars, memVars, fileVars, Upserting
<1> QED
  BY <1>1, <1>2, <1>3, <1>4, <1>5, <1>6, <1>7, <1>8, <1>9 DEF Next, Upsert

\* The variables keep their types and a per-key mutex is held only by a writer
\* that still has that id to stage (kv_json_store.go, Upsert), for every
\* number of writers and persisters.
THEOREM TypeCorrect == Spec => []TypeOK
<1>1. Init => TypeOK /\ Quiet
  BY InitTypes
<1>2. TypeOK /\ Quiet /\ [Next]_vars => (TypeOK /\ Quiet)'
  BY StepTypes
<1> QED
  BY <1>1, <1>2, PTL DEF Spec

-----------------------------------------------------------------------------
(* The per-key mutexes.                                                    *)

\* The ids of its batch a writer has still to copy.
ToStage(w) == {k \in Keys : items[w][k] # None /\ staged[w][k] = None}

CopiesOfTheBatch ==
  \A w \in Writers, k \in Keys : staged[w][k] \in {None, items[w][k]}
OneMutexEach ==
  \A j, k \in Keys : keyLock[j] # None /\ keyLock[j] = keyLock[k] => j = k

\* The guard of Commit holds for a writer in Upsert, or that of LockKey or of
\* StageKey for an id it wants, or that of StageKey for the holder of that id.
SomebodyMoves ==
  \A w \in Writers : Upserting(w) =>
    \/ staged[w] = items[w]
    \/ \E k \in ToStage(w) :
         \/ keyLock[k] = None /\ \A j \in Keys : keyLock[j] # w
         \/ keyLock[k] \in Writers /\ k \in ToStage(keyLock[k])

\* Within an Upsert the batch stays what it was and no copy is undone; a mutex
\* changes hands only when its holder has made its copy, or the process stops.
StagingAdvances ==
  /\ \A w \in Writers : Upserting(w) /\ Upserting(w)' =>
       items'[w] = items[w] /\ ToStage(w)' \subseteq ToStage(w)
  /\ \A w \in Writers, k \in Keys :
       keyLock[k] = w /\ keyLock'[k] # w /\ data' # Down =>
         keyLock'[k] = None /\ k \in ToStage(w) /\ k \notin ToStage(w)'

MutexInv == TypeOK /\ CopiesOfTheBatch /\ OneMutexEach

LEMMA MutexInvMoves == MutexInv => SomebodyMoves
<1> SUFFICES ASSUME MutexInv, NEW w \in Writers, Upserting(w), staged[w] # items[w]
             PROVE  \E k \in ToStage(w) :
                      \/ keyLock[k] = None /\ \A j \in Keys : keyLock[j] # w
                      \/ keyLock[k] \in Writers /\ k \in ToStage(keyLock[k])
  BY DEF SomebodyMoves
<1> USE DEF MutexInv, TypeOK
<1>1. CASE \E j \in Keys : keyLock[j] = w
  BY <1>1 DEF ToStage
<1>2. CASE \A j \in Keys : keyLock[j] # w
  <2>1. staged[w] \in Maps /\ items[w] \in Maps
    OBVIOUS
  <2>2. PICK k \in Keys : staged[w][k] # items[w][k]
    BY <2>1 DEF Maps
  <2>3. k \in ToStage(w)
    BY <2>2 DEF CopiesOfTheBatch, ToStage
  <2>4. CASE keyLock[k] = None
    BY <1>2, <2>3, <2>4
  <2>5. CASE keyLock[k] \in Writers
    <3>1. k \in ToStage(keyLock[k])
      BY <2>5 DEF ToStage
    <3> QED
      BY <2>3, <2>5, <3>1
  <2> QED
    BY <2>4, <2>5
<1> QED
  BY <1>1, <1>2

\* The steps that are not of Upsert leave the batches and the mutexes alone.
LEMMA OthersLeaveMutexes ==
  ASSUME [Next]_vars, \A w \in Writers : ~Upsert(w), ~Crash
  PROVE  UNCHANGED <<keyLock, items, staged>>
BY DEF Next, Persist, Delete, Restart, vars, memVars, PersistSnapshot, PersistOpen,
  PersistWrite, PersistNotWritten, PersistRename, PersistNotRenamed, PersistCleanup

LEMMA MutexStep ==
  ASSUME MutexInv, Quiet, [Next]_vars
  PROVE  MutexInv' /\ StagingAdvances
<1> USE DEF MutexInv, TypeOK
<1>t. TypeOK'
  BY StepTypes
<1>1. ASSUME NEW w \in Writers, UpsertBegin(w)
      PROVE  CopiesOfTheBatch' /\ OneMutexEach' /\ StagingAdvances
  <2>1. \A k \in Keys : staged[w][k] = None
    BY <1>1 DEF UpsertBegin, Upserting, CopiesOfTheBatch, EmptyMap
  <2>2. \A v \in Writers \ {w} : items'[v] = items[v]
    BY <1>1 DEF UpsertBegin
  <2>3. UNCHANGED <<keyLock, staged>> /\ ~Upserting(w)
    BY <1>1 DEF UpsertBegin
  <2> QED
    BY <2>1, <2>2, <2>3
       DEF CopiesOfTheBatch, OneMutexEach, StagingAdvances, ToStage, Upserting
<1>2. ASSUME NEW w \in Writers, NEW k \in Keys, LockKey(w, k)
      PROVE  CopiesOfTheBatch' /\ OneMutexEach' /\ StagingAdvances
  <2>1. UNCHANGED <<items, staged>>
    BY <1>2 DEF LockKey
  <2>2. keyLock[k] = None /\ \A j \in Keys : keyLock[j] # w
    BY <1>2 DEF LockKey
  <2>3. keyLock' = [keyLock EXCEPT ![k] = w]
    BY <1>2 DEF LockKey
  <2>4. OneMutexEach'
    BY <2>2, <2>3 DEF OneMutexEach
  <2>5. \A v \in Writers, j \in Keys : keyLock[j] = v => keyLock'[j] = v
    BY <2>2, <2>3, NoneIsNoWriter
  <2>6. StagingAdvances
    BY <2>1, <2>5 DEF StagingAdvances, ToStage
  <2> QED
    BY <2>1, <2>4, <2>6 DEF CopiesOfTheBatch
<1>3. ASSUME NEW w \in Writers, NEW k \in Keys, StageKey(w, k)
      PROVE  CopiesOfTheBatch' /\ OneMutexEach' /\ StagingAdvances
  <2>1. UNCHANGED items /\ keyLock[k] = w /\ keyLock' = [keyLock EXCEPT ![k] = None]
    BY <1>3 DEF StageKey
  <2>2. items[w][k] # None
    BY <2>1
  <2>3. staged'[w][k] = items[w][k]
    BY <1>3 DEF StageKey, Maps
  <2>4. \A v \in Writers, j \in Keys :
           <<v, j>> # <<w, k>> => staged'[v][j] = staged[v][j]
    BY <1>3 DEF StageKey, Maps
  <2>5. CopiesOfTheBatch'
    BY <2>1, <2>3, <2>4 DEF CopiesOfTheBatch
  <2>6. OneMutexEach'
    BY <2>1 DEF OneMutexEach
  <2>7. \A v \in Writers : ToStage(v)' \subseteq ToStage(v)
    BY <2>1, <2>2, <2>3, <2>4 DEF ToStage
  <2>8. k \in ToStage(w) /\ k \notin ToStage(w)'
    BY <2>1, <2>2, <2>3 DEF ToStage
  <2>9. ASSUME NEW v \in Writers, NEW j \in Keys, keyLock[j] = v, keyLock'[j] # v
        PROVE  keyLock'[j] = None /\ j \in ToStage(v) /\ j \notin ToStage(v)'
    <3>1. j = k /\ v = w
      BY <2>1, <2>9
    <3> QED
      BY <2>1, <2>8, <3>1
  <2> QED
    BY <2>1, <2>5, <2>6, <2>7, <2>9 DEF StagingAdvances
<1>4. ASSUME NEW w \in Writers, Commit(w)
      PROVE  CopiesOfTheBatch' /\ OneMutexEach' /\ StagingAdvances
  <2>1. /\ items' = [items EXCEPT ![w] = EmptyMap]
        /\ staged' = [staged EXCEPT ![w] = EmptyMap]
        /\ UNCHANGED keyLock
    BY <1>4 DEF Commit
  <2>2. ~Upserting(w)'
    BY <2>1 DEF Upserting
  <2>3. CopiesOfTheBatch'
    BY <2>1 DEF CopiesOfTheBatch, EmptyMap
  <2> QED
    BY <2>1, <2>2, <2>3 DEF OneMutexEach, StagingAdvances, ToStage
<1>5. ASSUME Crash
      PROVE  CopiesOfTheBatch' /\ OneMutexEach' /\ StagingAdvances
  <2>1. /\ data' = Down
        /\ keyLock' = [k \in Keys |-> None]
        /\ items' = [w \in Writers |-> EmptyMap]
        /\ staged' = [w \in Writers |-> EmptyMap]
    BY <1>5 DEF Crash
  <2> QED
    BY <2>1 DEF CopiesOfTheBatch, OneMutexEach, StagingAdvances, Upserting, EmptyMap
<1>6. ASSUME UNCHANGED <<keyLock, items, staged>>
      PROVE  CopiesOfTheBatch' /\ OneMutexEach' /\ StagingAdvances
  BY <1>6 DEF CopiesOfTheBatch, OneMutexEach, StagingAdvances, ToStage, Upserting
<1>7. CopiesOfTheBatch' /\ OneMutexEach' /\ StagingAdvances
  <2>1. CASE \E w \in Writers : Upsert(w)
    BY <2>1, <1>1, <1>2, <1>3, <1>4 DEF Upsert
  <2>2. CASE Crash
    BY <2>2, <1>5
  <2>3. CASE (\A w \in Writers : ~Upsert(w)) /\ ~Crash
    <3>1. UNCHANGED <<keyLock, items, staged>>
      BY <2>3, OthersLeaveMutexes
    <3> QED
      BY <3>1, <1>6
  <2> QED
    BY <2>1, <2>2, <2>3
<1> QED
  BY <1>t, <1>7

LEMMA InitMutex == Init => MutexInv
<1> SUFFICES ASSUME Init PROVE CopiesOfTheBatch /\ OneMutexEach
  BY InitTypes DEF MutexInv
<1> QED
  BY DEF Init, CopiesOfTheBatch, OneMutexEach, EmptyMap

\* What makes UpsertCompletes true, for any number of writers whose batches
\* share ids (kv_json_store.go, Upsert): nobody holds two of the per-key
\* mutexes, every writer or the holder of what it wants can go on at once, and
\* each turn leaves fewer copies to make.
THEOREM NoCircleOfMutexes ==
  Spec => [](OneMutexEach /\ SomebodyMoves) /\ [][StagingAdvances]_vars
<1>1. Init => MutexInv /\ TypeOK /\ Quiet
  BY InitMutex, InitTypes
<1>2. MutexInv /\ TypeOK /\ Quiet /\ [Next]_vars =>
        (MutexInv /\ TypeOK /\ Quiet)' /\ StagingAdvances
  BY MutexStep, StepTypes
<1>3. MutexInv => OneMutexEach /\ SomebodyMoves
  BY MutexInvMoves DEF MutexInv
<1> QED
  BY <1>1, <1>2, <1>3, PTL DEF Spec

-----------------------------------------------------------------------------
(* One persister: the file is always the map last acknowledged.            *)

SnapshotsCommitted ==
  \A p \in Persisters : call[p] \in {"open", "write"} =>
    ver[p] \in acked..Len(log) /\ buf[p] = Encode(log[ver[p]])
FileIsAcked ==
  IF HasCanonical THEN Canonical = Encode(log[acked]) ELSE log[acked] = EmptyMap
MemoryIsNewest == data # Down => data = log[Len(log)]

SoleInv ==
  /\ TypeOK
  /\ Quiet
  /\ TmpApart
  /\ SnapshotsCommitted
  /\ FileIsAcked
  /\ MemoryIsNewest

LEMMA LogType ==
  ASSUME TypeOK
  PROVE  Len(log) \in Nat /\ acked \in Nat /\ \A v \in 1..Len(log) : log[v] \in Maps
BY LenProperties, ElementOfSeq DEF TypeOK

\* Such a file loads, and loads as the map acknowledged.
LEMMA FileLoads ==
  ASSUME TypeOK, FileIsAcked
  PROVE  Loadable /\ Loaded = log[acked]
<1>1. log[acked] \in Maps
  BY LogType DEF TypeOK
<1>2. Encode(log[acked]) # <<>>
  BY <1>1, EncodeParses DEF Parses
<1> QED
  BY <1>1, <1>2, EncodeParses, ParsedEncode
     DEF FileIsAcked, Loadable, Loaded, NothingStored

LEMMA SoleInit == Init => SoleInv
<1> SUFFICES ASSUME Init PROVE SoleInv
  OBVIOUS
<1>1. TypeOK /\ Quiet /\ TmpApart
  BY InitTypes, FileInitTypes DEF Init
<1> QED
  BY <1>1 DEF Init, FileInit, SoleInv, SnapshotsCommitted, FileIsAcked,
              MemoryIsNewest, HasCanonical

\* A step of memory that commits one map, or none.
LEMMA SoleMemoryStep ==
  ASSUME SoleInv, TypeOK', Quiet', UNCHANGED <<acked, ver, fileVars>>, data # Down,
         \/ UNCHANGED <<data, log>>
         \/ log' = Append(log, data') /\ data' \in Maps
  PROVE  SoleInv'
<1> USE DEF SoleInv
<1>1. TmpApart' /\ CanonicalKept
  BY DEF fileVars, TmpApart, CanonicalKept, HasCanonical, Canonical, WrittenPrefix
<1>2. /\ Len(log) \in Nat /\ Len(log') \in Nat /\ Len(log) <= Len(log')
      /\ \A v \in 1..Len(log) : log'[v] = log[v]
      /\ data' = log'[Len(log')]
  <2>1. CASE UNCHANGED <<data, log>>
    BY <2>1, LogType DEF MemoryIsNewest
  <2>2. CASE log' = Append(log, data') /\ data' \in Maps
    BY <2>2, LogGrows DEF TypeOK
  <2> QED
    BY <2>1, <2>2
<1>3. acked \in 1..Len(log) /\ acked' = acked /\ log'[acked'] = log[acked]
  BY <1>2 DEF TypeOK
<1>4. FileIsAcked'
  BY <1>1, <1>3 DEF FileIsAcked, CanonicalKept
<1>5. SnapshotsCommitted'
  BY <1>2, <1>3 DEF SnapshotsCommitted, fileVars
<1> QED
  BY <1>1, <1>2, <1>4, <1>5 DEF MemoryIsNewest

LEMMA SolePersistStep ==
  ASSUME SoleWriter, SoleInv, TypeOK', Quiet', NEW p \in Persisters, Persist(p)
  PROVE  SoleInv'
<1> USE DEF SoleInv
<1>1. \A q \in Persisters : q = p
  BY DEF SoleWriter
<1>2. SaveStep(p) /\ FileTypeOK
  <2>1. PersistSnapshot(p) => \E m \in Maps : BeginSave(p, m)
    BY DEF PersistSnapshot, TypeOK
  <2> QED
    BY <2>1 DEF Persist, SaveStep, TypeOK, PersistOpen, PersistWrite,
      PersistNotWritten, PersistRename, PersistNotRenamed, PersistCleanup
<1>3. TmpApart'
  BY <1>2, SaveStepApart
<1>4. UNCHANGED memVars
  BY DEF Persist, PersistSnapshot, PersistOpen, PersistWrite,
    PersistNotWritten, PersistRename, PersistNotRenamed, PersistCleanup
<1>5. MemoryIsNewest'
  BY <1>4 DEF MemoryIsNewest, memVars
<1>6. CASE PersistRename(p)
  <2>1. HasCanonical' /\ Canonical' = buf[p]
    BY <1>2, <1>6, RenameInstallsBuffer DEF PersistRename
  <2>2. ver[p] \in acked..Len(log) /\ buf[p] = Encode(log[ver[p]])
    BY <1>6 DEF SnapshotsCommitted, PersistRename, RenameTmp
  <2>3. acked' = ver[p]
    BY <1>6, <2>2, LogType DEF PersistRename
  <2>4. FileIsAcked'
    BY <2>1, <2>2, <2>3, <1>4 DEF FileIsAcked, memVars
  <2>5. call'[p] = "idle"
    BY <1>2, <1>6 DEF PersistRename, RenameTmp, Return, FileTypeOK
  <2>6. SnapshotsCommitted'
    BY <1>1, <2>5 DEF SnapshotsCommitted
  <2> QED
    BY <1>3, <1>5, <2>4, <2>6
<1>7. CASE ~PersistRename(p)
  <2>1. ~RenameTmp(p)
    BY <1>2, <1>7, RenameShows DEF Persist, PersistRename, PersistSnapshot, PersistOpen,
      PersistWrite, PersistNotWritten, PersistNotRenamed, PersistCleanup,
      BeginSave, OpenTmp, WriteBlock, WriteFails, RenameFails, RemoveTmp,
      FileTypeOK
  <2>2. CanonicalKept
    BY <1>2, <2>1, OnlyRenameChangesCanonical
  <2>3. acked' = acked /\ log' = log
    BY <1>4, <1>7 DEF memVars, Persist, PersistSnapshot, PersistOpen, PersistWrite,
      PersistNotWritten, PersistNotRenamed, PersistCleanup
  <2>4. FileIsAcked'
    BY <2>2, <2>3 DEF FileIsAcked, CanonicalKept
  <2>5. SnapshotsCommitted'
    <3>1. CASE PersistSnapshot(p)
      <4>1. ver'[p] = Len(log) /\ buf'[p] = Encode(log[Len(log)])
        BY <3>1, <1>2 DEF PersistSnapshot, BeginSave, MemoryIsNewest, TypeOK, FileTypeOK
      <4>2. Len(log) \in acked..Len(log)
        BY LogType DEF TypeOK
      <4> QED
        BY <1>1, <2>3, <4>1, <4>2 DEF SnapshotsCommitted
    <3>2. CASE PersistOpen(p) \/ PersistWrite(p)
      BY <1>1, <1>2, <2>3, <3>2 DEF SnapshotsCommitted, PersistOpen, PersistWrite,
        OpenTmp, WriteBlock, FileTypeOK
    <3>3. CASE PersistNotWritten(p) \/ PersistNotRenamed(p) \/ PersistCleanup(p)
      <4>1. call'[p] \in {"idle", "remove"}
        BY <1>2, <3>3 DEF PersistNotWritten, PersistNotRenamed, PersistCleanup,
          WriteFails, RenameFails, RemoveTmp, Return, FileTypeOK
      <4> QED
        BY <1>1, <4>1 DEF SnapshotsCommitted
    <3> QED
      BY <1>7, <3>1, <3>2, <3>3 DEF Persist
  <2> QED
    BY <1>3, <1>5, <2>4, <2>5
<1> QED
  BY <1>6, <1>7

LEMMA SoleStep ==
  ASSUME SoleWriter, SoleInv, [Next]_vars
  PROVE  SoleInv'
<1> USE DEF SoleInv
<1>1. TypeOK' /\ Quiet'
  BY StepTypes
<1>2. ASSUME NEW w \in Writers, Upsert(w)
      PROVE  SoleInv'
  <2>1. data # Down
    BY <1>2, NoneIsNoWriter DEF Upsert, UpsertBegin, LockKey, StageKey, Commit,
      Quiet, Upserting, TypeOK, EmptyMap
  <2>2. UNCHANGED <<acked, ver, fileVars>>
    BY <1>2 DEF Upsert, UpsertBegin, LockKey, StageKey, Commit
  <2>3. \/ UNCHANGED <<data, log>>
        \/ log' = Append(log, data') /\ data' \in Maps
    BY <1>2, <2>1, OverlayType DEF Upsert, UpsertBegin, LockKey, StageKey, Commit, TypeOK
  <2> QED
    BY <1>1, <2>1, <2>2, <2>3, SoleMemoryStep
<1>3. ASSUME NEW ids \in SUBSET Keys, Delete(ids)
      PROVE  SoleInv'
  <2>1. data # Down /\ UNCHANGED <<acked, ver, fileVars>>
    BY <1>3 DEF Delete
  <2>2. log' = Append(log, data') /\ data' \in Maps
    BY <1>3, <2>1, WithoutType DEF Delete, TypeOK
  <2> QED
    BY <1>1, <2>1, <2>2, SoleMemoryStep
<1>4. ASSUME NEW p \in Persisters, Persist(p)
      PROVE  SoleInv'
  BY <1>1, <1>4, SolePersistStep
<1>5. CASE Crash
  <2>1. TmpApart' /\ CanonicalKept
    BY <1>5, KillKeepsFiles DEF Crash, TypeOK
  <2>2. FileIsAcked'
    BY <1>5, <2>1 DEF Crash, FileIsAcked, CanonicalKept
  <2> QED
    BY <1>1, <1>5, <2>1, <2>2
       DEF Crash, ProcessKilled, Killed, SnapshotsCommitted, MemoryIsNewest
<1>6. CASE Restart
  <2>1. TmpApart' /\ CanonicalKept
    BY <1>6 DEF Restart, fileVars, TmpApart, CanonicalKept, HasCanonical,
                Canonical, WrittenPrefix
  <2>2. Loaded = log[acked] /\ log[acked] \in Maps
    BY FileLoads, LogType DEF TypeOK
  <2>3. log' = <<Loaded>> /\ acked' = 1 /\ data' = Loaded
    BY <1>6 DEF Restart
  <2>4. Len(log') = 1 /\ log'[1] = Loaded
    BY <2>3
  <2>5. FileIsAcked'
    BY <2>1, <2>2, <2>3, <2>4 DEF FileIsAcked, CanonicalKept
  <2>6. SnapshotsCommitted'
    BY <1>6 DEF Restart, fileVars, Quiet, SnapshotsCommitted
  <2> QED
    BY <1>1, <2>1, <2>3, <2>4, <2>5, <2>6 DEF MemoryIsNewest
<1>7. CASE UNCHANGED vars
  <2>1. TmpApart' /\ CanonicalKept
    BY <1>7 DEF vars, fileVars, TmpApart, CanonicalKept, HasCanonical,
                Canonical, WrittenPrefix
  <2>2. FileIsAcked'
    BY <1>7, <2>1 DEF vars, memVars, FileIsAcked, CanonicalKept
  <2> QED
    BY <1>1, <1>7, <2>1, <2>2
       DEF vars, memVars, fileVars, SnapshotsCommitted, MemoryIsNewest
<1> QED
  BY <1>2, <1>3, <1>4, <1>5, <1>6, <1>7 DEF Next

\* With one Persist at a time what is under way on the file system never
\* touches the canonical file before its rename (Persist, loadFromDisk).
THEOREM SoleInvariant ==
  ASSUME SoleWriter
  PROVE  Spec => []SoleInv
<1>1. SoleInv /\ [Next]_vars => SoleInv'
  BY SoleStep
<1> QED
  BY <1>1, SoleInit, PTL DEF Spec

\* With one Persist at a time the canonical file is always a complete
\* marshalled map (kv_json_store.go, the comment on JSONKVStore).
THEOREM FileIsComplete ==
  ASSUME SoleWriter
  PROVE  Spec => []CanonicalComplete
<1>1. SoleInv => CanonicalComplete
  BY LogType DEF SoleInv, FileIsAcked, CanonicalComplete, TypeOK
<1> QED
  BY <1>1, SoleInvariant, PTL

\* With one Persist at a time the file always loads as a committed map no
\* older than the last one a clean Persist covered (kv_store.go, Persist).
THEOREM CleanPersistIsDurable ==
  ASSUME SoleWriter
  PROVE  Spec => []PersistDurable
<1>1. SoleInv => PersistDurable
  <2> SUFFICES ASSUME SoleInv PROVE PersistDurable
    OBVIOUS
  <2>1. acked \in acked..Len(log)
    BY LogType DEF SoleInv, TypeOK
  <2> QED
    BY <2>1, FileLoads DEF SoleInv, PersistDurable
<1> QED
  BY <1>1, SoleInvariant, PTL

\* With one Persist at a time a start brings back a committed map that no
\* clean Persist is newer than, whatever the crash interrupted.
THEOREM StartRecovers ==
  ASSUME SoleWriter
  PROVE  Spec => RestartRecovers
<1>1. SoleInv /\ [Next]_vars =>
        (data = Down /\ data' # Down => \E v \in acked..Len(log) : data' = log[v])
  <2> SUFFICES ASSUME SoleInv, [Next]_vars, data = Down, data' # Down
               PROVE  \E v \in acked..Len(log) : data' = log[v]
    OBVIOUS
  <2> USE DEF SoleInv
  <2>1. ~\E p \in Persisters : Persist(p)
    BY DEF Quiet, Persist, PersistSnapshot, PersistOpen, PersistWrite,
      PersistNotWritten, PersistRename, PersistNotRenamed, PersistCleanup,
      OpenTmp, WriteBlock, WriteFails, RenameTmp, RenameFails, RemoveTmp
  <2>2. ~\E w \in Writers : Commit(w)
    BY DEF Quiet, Commit
  <2>3. Restart
    BY <2>1, <2>2 DEF Next, Upsert, UpsertBegin, LockKey, StageKey, Delete,
      Crash, vars, memVars
  <2>4. data' = log[acked]
    BY <2>3, FileLoads DEF Restart
  <2>5. acked \in acked..Len(log)
    BY LogType DEF TypeOK
  <2> QED
    BY <2>4, <2>5
<1> QED
  BY <1>1, SoleInvariant, PTL DEF Spec, RestartRecovers

-----------------------------------------------------------------------------
(* Refinement: each step is a step of DurableMap, or leaves it unchanged.  *)

Saving == [p \in Persisters |->
             IF call[p] \in {"open", "write"} THEN Parsed(buf[p]) ELSE None]

LEMMA LoadedKept ==
  ASSUME CanonicalKept
  PROVE  Loaded' = Loaded
BY DEF CanonicalKept, Loaded, NothingStored

\* A snapshot under way is a map, and so not the mark of an idle saver.
LEMMA SavingIsMap ==
  ASSUME SoleInv, NEW p \in Persisters, call[p] \in {"open", "write"}
  PROVE  Saving[p] = log[ver[p]] /\ Saving[p] # None
<1>1. ver[p] \in 1..Len(log) /\ buf[p] = Encode(log[ver[p]])
  BY LogType DEF SoleInv, SnapshotsCommitted, TypeOK
<1>2. log[ver[p]] \in Maps
  BY <1>1, LogType DEF SoleInv
<1> QED
  BY <1>1, <1>2, ParsedEncode, NoneIsNoMap DEF Saving

LEMMA PersistImplements ==
  ASSUME SoleWriter, SoleInv, SoleInv', NEW p \in Persisters, Persist(p)
  PROVE  \/ Abstract!BeginSave(p) \/ Abstract!EndSave(p) \/ Abstract!AbortSave(p)
         \/ UNCHANGED <<data, Loaded, Saving>>
<1> USE DEF SoleInv
<1>1. \A q \in Persisters : q = p
  BY DEF SoleWriter
<1>2. FileTypeOK /\ TypeOK /\ FileTypeOK'
  BY DEF TypeOK
<1>3. SaveStep(p)
  <2>1. PersistSnapshot(p) => \E m \in Maps : BeginSave(p, m)
    BY DEF PersistSnapshot, TypeOK
  <2> QED
    BY <2>1 DEF Persist, SaveStep, PersistOpen, PersistWrite,
      PersistNotWritten, PersistRename, PersistNotRenamed, PersistCleanup
<1>4. data' = data
  BY DEF memVars, Persist, PersistSnapshot, PersistOpen, PersistWrite,
    PersistNotWritten, PersistRename, PersistNotRenamed, PersistCleanup
<1>5. CASE PersistRename(p)
  <2>1. call[p] = "write" /\ call'[p] = "idle"
    BY <1>2, <1>5 DEF PersistRename, RenameTmp, Return, FileTypeOK
  <2>2. Saving[p] = Parsed(buf[p]) /\ Saving[p] # None /\ log[ver[p]] = Saving[p]
    BY <2>1, SavingIsMap DEF Saving
  <2>3. acked' = ver[p] /\ log' = log
    BY <1>5, <2>1, LogType DEF PersistRename, SnapshotsCommitted, memVars
  <2>4. Loaded' = log'[acked']
    <3>1. (Loadable /\ Loaded = log[acked])'
      BY FileLoads, PTL
    <3> QED
      BY <3>1
  <2>5. Saving' = [Saving EXCEPT ![p] = None]
    BY <1>1, <2>1 DEF Saving
  <2>6. Abstract!EndSave(p)
    BY <1>4, <2>2, <2>3, <2>4, <2>5 DEF Abstract!EndSave, Saving
  <2> QED
    BY <2>6
<1>6. ASSUME ~PersistRename(p)
      PROVE  Loaded' = Loaded
  <2>1. ~RenameTmp(p)
    BY <1>6, <1>2, RenameShows DEF Persist, PersistRename, PersistSnapshot, PersistOpen,
      PersistWrite, PersistNotWritten, PersistNotRenamed, PersistCleanup,
      BeginSave, OpenTmp, WriteBlock, WriteFails, RenameFails, RemoveTmp,
      FileTypeOK
  <2> QED
    BY <2>1, <1>2, <1>3, OnlyRenameChangesCanonical, LoadedKept
<1>7. CASE PersistSnapshot(p) /\ ~PersistRename(p)
  <2>1. data \in Maps /\ data # Down
    BY <1>7 DEF PersistSnapshot, TypeOK
  <2>2. /\ call[p] = "idle" /\ call'[p] = "open"
        /\ buf'[p] = Encode(data)
    BY <1>2, <1>7 DEF PersistSnapshot, BeginSave, FileTypeOK
  <2>3. Saving[p] = None /\ Saving' = [Saving EXCEPT ![p] = data]
    BY <1>1, <2>1, <2>2, ParsedEncode DEF Saving
  <2>4. Abstract!BeginSave(p)
    BY <1>4, <1>6, <1>7, <2>1, <2>3 DEF Abstract!BeginSave, Saving
  <2> QED
    BY <2>4
<1>8. CASE (PersistNotWritten(p) \/ PersistNotRenamed(p)) /\ ~PersistRename(p)
  <2>1. call[p] \in {"open", "write"} /\ call'[p] \in {"idle", "remove"}
    BY <1>2, <1>8 DEF PersistNotWritten, PersistNotRenamed, WriteFails,
                      RenameFails, Return, FileTypeOK
  <2>2. Saving' = [Saving EXCEPT ![p] = None]
    BY <1>1, <2>1 DEF Saving
  <2>3. Saving[p] # None
    BY <2>1, SavingIsMap
  <2>4. Abstract!AbortSave(p)
    BY <1>4, <1>6, <1>8, <2>2, <2>3 DEF Abstract!AbortSave, Saving
  <2> QED
    BY <2>4
<1>9. CASE (PersistOpen(p) \/ PersistWrite(p) \/ PersistCleanup(p)) /\ ~PersistRename(p)
  <2>1. \/ call[p] \in {"open", "write"} /\ call'[p] = "write" /\ buf' = buf
        \/ call[p] = "remove" /\ call'[p] = "idle"
    BY <1>2, <1>9 DEF PersistOpen, PersistWrite, PersistCleanup, OpenTmp,
                      WriteBlock, RemoveTmp, Return, FileTypeOK
  <2>2. Saving' = Saving
    BY <1>1, <2>1 DEF Saving
  <2> QED
    BY <1>4, <1>6, <1>9, <2>2
<1> QED
  BY <1>5, <1>7, <1>8, <1>9 DEF Persist

LEMMA StepImplements ==
  ASSUME SoleWriter, SoleInv, SoleInv', [Next]_vars
  PROVE  [Abstract!Next]_(Abstract!vars)
<1> USE DEF SoleInv
<1>1. SUFFICES Abstract!Next \/ UNCHANGED <<data, Loaded, Saving>>
  BY DEF Abstract!vars, Saving
<1>2. ASSUME UNCHANGED fileVars
      PROVE  Loaded' = Loaded /\ Saving' = Saving
  BY <1>2 DEF fileVars, Loaded, NothingStored, HasCanonical, Canonical, Saving
<1>3. ASSUME NEW w \in Writers, Upsert(w)
      PROVE  Abstract!Next \/ UNCHANGED <<data, Loaded, Saving>>
  <2>1. UNCHANGED fileVars
    BY <1>3 DEF Upsert, UpsertBegin, LockKey, StageKey, Commit
  <2>2. CASE Commit(w)
    <3>1. data # Down /\ staged[w] \in Maps
      BY <2>2 DEF Commit, Quiet, TypeOK
    <3>2. data' = Overlay(data, staged[w])
      BY <2>2 DEF Commit
    <3>3. data \in Maps /\ data' \in Maps
      BY <3>1, <3>2, OverlayType DEF TypeOK
    <3>4. \A k \in Keys : data[k] # None => data'[k] # None
      BY <3>1, <3>2, <3>3 DEF Overlay, Maps
    <3>5. Abstract!Put
      BY <1>2, <2>1, <3>1, <3>3, <3>4 DEF Abstract!Put, Abstract!Maps, Maps, Saving
    <3> QED
      BY <3>5 DEF Abstract!Next
  <2>3. CASE ~Commit(w)
    BY <1>2, <1>3, <2>1, <2>3 DEF Upsert, UpsertBegin, LockKey, StageKey
  <2> QED
    BY <2>2, <2>3
<1>4. ASSUME NEW ids \in SUBSET Keys, Delete(ids)
      PROVE  Abstract!Next
  <2>1. Abstract!Remove
    BY <1>2, <1>4 DEF Delete, Abstract!Remove, Abstract!Without, Without, Saving
  <2> QED
    BY <2>1 DEF Abstract!Next
<1>5. ASSUME NEW p \in Persisters, Persist(p)
      PROVE  Abstract!Next \/ UNCHANGED <<data, Loaded, Saving>>
  BY <1>5, PersistImplements DEF Abstract!Next
<1>6. CASE Crash
  <2>1. Loaded' = Loaded
    BY <1>6, KillKeepsFiles, LoadedKept DEF Crash, TypeOK
  <2>2. Saving' = [p \in Persisters |-> None]
    BY <1>6 DEF Crash, ProcessKilled, Killed, Saving
  <2>3. Abstract!Stop
    BY <1>6, <2>1, <2>2 DEF Crash, Abstract!Stop, Saving
  <2> QED
    BY <2>3 DEF Abstract!Next
<1>7. CASE Restart
  <2>1. Abstract!Start
    BY <1>2, <1>7 DEF Restart, Abstract!Start, Saving
  <2> QED
    BY <2>1 DEF Abstract!Next
<1>8. CASE UNCHANGED vars
  BY <1>2, <1>8 DEF vars, memVars
<1> QED
  BY <1>3, <1>4, <1>5, <1>6, <1>7, <1>8 DEF Next

LEMMA InitImplements == Init => Abstract!Init
BY DEF Init, FileInit, Abstract!Init, Abstract!Empty, EmptyMap, Loaded,
       NothingStored, HasCanonical

\* With one Persist at a time the store is a durable map: a save takes effect
\* in one step, at the rename, or not at all, and a start brings back what
\* the last save made durable (kv_json_store.go, Persist and loadFromDisk).
THEOREM IsDurableMap ==
  ASSUME SoleWriter
  PROVE  Spec => ImplementsDurableMap
<1>1. SoleInv /\ SoleInv' /\ [Next]_vars => [Abstract!Next]_(Abstract!vars)
  BY StepImplements
<1> QED
  BY <1>1, InitImplements, SoleInvariant, PTL
     DEF Spec, ImplementsDurableMap, Abstract!Spec
=============================================================================
