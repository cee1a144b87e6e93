---------------------------- MODULE JSONKVStore ----------------------------
(***************************************************************************)
(* The JSON key-value store of s05 (kv_json_store.go): a map in memory     *)
(* under one RWMutex, per-key mutexes taken while an Upsert stages its     *)
(* copies, and a Persist that flushes a snapshot through AtomicFile.       *)
(* A critical section under mu is one step; everything the code does       *)
(* outside mu interleaves.                                                 *)
(***************************************************************************)
EXTENDS AtomicFile

CONSTANTS
  Writers,   \* goroutines that call Upsert
  Down,      \* the process is not running
  MaxLog     \* bound: maps committed between two restarts

ASSUME DownIsNoMap == Down \notin Maps
ASSUME NoneIsNoMap == None \notin Maps
ASSUME NoneIsNoWriter == None \notin Writers
ASSUME MaxLogIsPositive == MaxLog \in Nat \ {0}

VARIABLES
  data,      \* the map in memory
  keyLock,   \* who holds each per-key mutex
  items,     \* the batch each writer was called with (empty: not in Upsert)
  staged,    \* the copies it has made so far
  log,       \* history: the maps committed since the start, oldest first
  acked,     \* history: the newest log entry a clean Persist has covered
  ver        \* history: the log entry each persister's snapshot was taken at,
             \* 0 outside Persist

memVars == <<data, keyLock, items, staged, log>>
vars == <<memVars, acked, ver, fileVars>>

Overlay(m, batch) == [k \in Keys |-> IF batch[k] = None THEN m[k] ELSE batch[k]]
Without(m, ids) == [k \in Keys |-> IF k \in ids THEN None ELSE m[k]]

Upserting(w) == items[w] # EmptyMap
\* A new batch or Delete starts only if the log has room for it.
Room == Len(log) + Cardinality({w \in Writers : Upserting(w)}) < MaxLog

Init ==
  /\ FileInit
  /\ data = EmptyMap
  /\ keyLock = [k \in Keys |-> None]
  /\ items = [w \in Writers |-> EmptyMap]
  /\ staged = [w \in Writers |-> EmptyMap]
  /\ log = <<EmptyMap>>
  /\ acked = 1
  /\ ver = [p \in Persisters |-> 0]

-----------------------------------------------------------------------------
(* Upsert and Delete.                                                      *)

UpsertBegin(w) ==
  /\ data # Down
  /\ ~Upserting(w)
  /\ Room
  /\ \E batch \in Maps \ {EmptyMap} : items' = [items EXCEPT ![w] = batch]
  /\ UNCHANGED <<data, keyLock, staged, log, acked, ver, fileVars>>

\* lk.Lock() for the next id of the batch, in map order (any order).
LockKey(w, k) ==
  /\ items[w][k] # None
  /\ staged[w][k] = None
  /\ keyLock[k] = None
  /\ \A j \in Keys : keyLock[j] # w
  /\ keyLock' = [keyLock EXCEPT ![k] = w]
  /\ UNCHANGED <<data, items, staged, log, acked, ver, fileVars>>

\* Mutant: the per-key mutex is not released after the copy.
StageKeyNoUnlock(w, k) ==
  /\ keyLock[k] = w
  /\ staged' = [staged EXCEPT ![w][k] = items[w][k]]
  /\ UNCHANGED <<data, keyLock, items, log, acked, ver, fileVars>>

\* staged[id] = copyMap(rec) ; lk.Unlock()
StageKey(w, k) ==
  /\ keyLock[k] = w
  /\ staged' = [staged EXCEPT ![w][k] = items[w][k]]
  /\ keyLock' = [keyLock EXCEPT ![k] = None]
  /\ UNCHANGED <<data, items, log, acked, ver, fileVars>>

\* The commit under mu: every staged record, then return.
Commit(w) ==
  /\ Upserting(w)
  /\ staged[w] = items[w]
  /\ data' = Overlay(data, staged[w])
  /\ log' = Append(log, data')
  /\ items' = [items EXCEPT ![w] = EmptyMap]
  /\ staged' = [staged EXCEPT ![w] = EmptyMap]
  /\ UNCHANGED <<keyLock, acked, ver, fileVars>>

Delete(ids) ==
  /\ data # Down
  /\ Room
  /\ data' = Without(data, ids)
  /\ log' = Append(log, data')
  /\ UNCHANGED <<keyLock, items, staged, acked, ver, fileVars>>

-----------------------------------------------------------------------------
(* Persist.                                                                *)

\* The snapshot under the read lock.
PersistSnapshot(p) ==
  /\ data # Down
  /\ BeginSave(p, data)
  /\ ver' = [ver EXCEPT ![p] = Len(log)]
  /\ UNCHANGED <<memVars, acked>>

PersistOpen(p)  == OpenTmp(p)    /\ UNCHANGED <<memVars, acked, ver>>
PersistWrite(p) == WriteBlock(p) /\ UNCHANGED <<memVars, acked, ver>>
PersistNotWritten(p) ==
  WriteFails(p) /\ ver' = [ver EXCEPT ![p] = 0] /\ UNCHANGED <<memVars, acked>>

\* The clean return: what the snapshot covered is acknowledged.
PersistRename(p) ==
  /\ RenameTmp(p)
  /\ acked' = IF ver[p] > acked THEN ver[p] ELSE acked
  /\ ver' = [ver EXCEPT ![p] = 0]
  /\ UNCHANGED memVars

PersistNotRenamed(p) == RenameFails(p) /\ UNCHANGED <<memVars, acked, ver>>
PersistCleanup(p) ==
  RemoveTmp(p) /\ ver' = [ver EXCEPT ![p] = 0] /\ UNCHANGED <<memVars, acked>>

-----------------------------------------------------------------------------
(* The process stops at any point and NewJSONKVStore starts it again.      *)

Crash ==
  /\ data # Down
  /\ ProcessKilled
  /\ data' = Down
  /\ keyLock' = [k \in Keys |-> None]
  /\ items' = [w \in Writers |-> EmptyMap]
  /\ staged' = [w \in Writers |-> EmptyMap]
  /\ ver' = [p \in Persisters |-> 0]
  /\ UNCHANGED <<log, acked>>

\* loadFromDisk: a missing or empty file is an empty store, a malformed one
\* is an error and no store.  It reads the canonical name only.
NothingStored == IF HasCanonical THEN Canonical = <<>> ELSE TRUE
Loadable == ~NothingStored => Parses(Canonical)
Loaded == IF NothingStored THEN EmptyMap ELSE Parsed(Canonical)

\* Mutant: an orphan .tmp is preferred to the canonical file.
RestartFromTmp ==
  /\ data = Down
  /\ Loadable
  /\ data' = IF dir.tmp = NoInode THEN Loaded
             ELSE IF file[dir.tmp] = <<>> THEN EmptyMap
             ELSE Parsed(file[dir.tmp])
  /\ log' = <<data'>>
  /\ acked' = 1
  /\ UNCHANGED <<keyLock, items, staged, ver, fileVars>>

Restart ==
  /\ data = Down
  /\ Loadable
  /\ data' = Loaded
  /\ log' = <<Loaded>>
  /\ acked' = 1
  /\ UNCHANGED <<keyLock, items, staged, ver, fileVars>>

Upsert(w) ==
  \/ UpsertBegin(w)
  \/ \E k \in Keys : LockKey(w, k) \/ StageKey(w, k)
  \/ Commit(w)

Persist(p) ==
  \/ PersistSnapshot(p)
  \/ PersistOpen(p)
  \/ PersistWrite(p)
  \/ PersistNotWritten(p)
  \/ PersistRename(p)
  \/ PersistNotRenamed(p)
  \/ PersistCleanup(p)

Next ==
  \/ \E w \in Writers : Upsert(w)
  \/ \E ids \in SUBSET Keys \ {{}} : Delete(ids)
  \/ \E p \in Persisters : Persist(p)
  \/ Crash
  \/ Restart

Spec == Init /\ [][Next]_vars

\* A goroutine inside Upsert is scheduled until it returns.
StageStep(w) == \E k \in Keys : LockKey(w, k) \/ StageKey(w, k)
Fairness == \A w \in Writers : WF_vars(StageStep(w)) /\ WF_vars(Commit(w))
FairSpec == Spec /\ Fairness

-----------------------------------------------------------------------------
\* Every variable keeps its type, and a per-key mutex is held only by a
\* writer that has that id still to stage.
TypeOK ==
  /\ FileTypeOK
  /\ data \in Maps \union {Down}
  /\ keyLock \in [Keys -> Writers \union {None}]
  /\ items \in [Writers -> Maps]
  /\ staged \in [Writers -> Maps]
  /\ log \in Seq(Maps) /\ log # <<>>
  /\ acked \in 1..Len(log)
  /\ ver \in [Persisters -> 0..Len(log)]
  /\ \A k \in Keys, w \in Writers :
       keyLock[k] = w => items[w][k] # None /\ staged[w][k] = None

\* Whoever opens the canonical file finds a complete marshalled map, never a
\* half-written one (kv_json_store.go, the comment on JSONKVStore).
CanonicalComplete == HasCanonical => \E m \in Maps : Canonical = Encode(m)

\* After a clean return of Persist the file holds a committed map no older
\* than the snapshot of any Persist that has returned cleanly (kv_store.go,
\* the comment on Persist), in every state, so also after a failed Persist.
PersistDurable ==
  Loadable => \E v \in acked..Len(log) : Loaded = log[v]

\* A store that starts after a crash holds a map that was committed before
\* it, no older than the last clean Persist; an orphan .tmp is never loaded.
RestartRecovers ==
  [][data = Down /\ data' # Down =>
       \E v \in acked..Len(log) : data' = log[v]]_vars

\* A writer that entered Upsert leaves it (or the process stops): two
\* writers whose batches share ids never wait for each other forever.
UpsertCompletes == \A w \in Writers : Upserting(w) ~> ~Upserting(w)

\* The store implements the abstract durable map: a save takes effect in one
\* step, at the rename, or not at all.
Abstract ==
  INSTANCE DurableMap WITH
    mem <- data,
    disk <- Loaded,
    saving <- [p \in Persisters |->
                 IF call[p] \in {"open", "write"} THEN Parsed(buf[p]) ELSE None],
    Savers <- Persisters
ImplementsDurableMap == Abstract!Spec
=============================================================================
