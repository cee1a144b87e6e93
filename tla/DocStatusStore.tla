--------------------------- MODULE DocStatusStore ---------------------------
(***************************************************************************)
(* The document status store of s03 (doc_status.go, doc_status_store.go):  *)
(* one record per document under one RWMutex, moved along the state        *)
(* machine                                                                 *)
(*                                                                         *)
(*     pending -> processing -> processed                                  *)
(*         \          |  ^                                                 *)
(*          +-> failed <-+                                                 *)
(*                                                                         *)
(* and flushed to one JSON file through AtomicFile.  The clients are any   *)
(* goroutines calling any operation at any time; a call the code rejects   *)
(* changes nothing and so is no step.                                      *)
(***************************************************************************)
EXTENDS AtomicFile

CONSTANTS
  ChunkLists,  \* what MarkProcessed may record
  NoChunks,    \* the empty ChunksList
  Down         \* the process is not running

\* The ids of AtomicFile are document ids (MD5 of the content) and the bodies
\* are status records.
Docs == Keys
Status == {"pending", "processing", "processed", "failed"}
Recs == [status : Status, chunks : ChunkLists \union {NoChunks}]

ASSUME ValsAreRecords == Vals = Recs
ASSUME NoChunksIsNoList == NoChunks \notin ChunkLists
ASSUME DownIsNoMap == Down \notin Maps
ASSUME NoneIsNoMap == None \notin Maps

VARIABLES
  docs,        \* the map in memory, or Down
  saved,       \* history: what the clean Persist wrote that gave an inode
               \* the canonical name
  latest       \* history: what the last clean Persist wrote, None once a
               \* power loss has undone its rename

history == <<saved, latest>>
vars == <<docs, history, fileVars>>

Init ==
  /\ FileInit
  /\ docs = EmptyMap
  /\ saved = [i \in Inodes |-> EmptyMap]
  /\ latest = EmptyMap

-----------------------------------------------------------------------------
\* Mutant: a finished document may be picked up again.
RetryAnything(from, to) ==
  \/ from = "pending" /\ to \in {"processing", "failed"}
  \/ from = "processing" /\ to \in {"processed", "failed"}
  \/ from \in {"failed", "processed"} /\ to = "processing"

\* Mutant: repeating the status a document already has is accepted.
SelfLoops(from, to) ==
  \/ from = "pending" /\ to \in {"processing", "failed"}
  \/ from = "processing" /\ to \in {"processing", "processed", "failed"}
  \/ from = "failed" /\ to = "processing"

IsValidTransition(from, to) ==
  \/ from = "pending" /\ to \in {"processing", "failed"}
  \/ from = "processing" /\ to \in {"processed", "failed"}
  \/ from = "failed" /\ to = "processing"

Up == docs # Down
Known(d) == Up /\ docs[d] # None
Accepts(d, to) == Known(d) /\ IsValidTransition(docs[d].status, to)

\* Mutant: a known document is reset to pending.
EnqueueAgain(d) ==
  /\ Up
  /\ docs' = [docs EXCEPT ![d] =
                [status |-> "pending", chunks |-> NoChunks]]

\* Enqueue of a document that is not known yet; otherwise it changes nothing.
Enqueue(d) ==
  /\ Up
  /\ docs[d] = None
  /\ docs' = [docs EXCEPT ![d] =
                [status |-> "pending", chunks |-> NoChunks]]

MarkProcessing(d) ==
  /\ Accepts(d, "processing")
  /\ docs' = [docs EXCEPT ![d].status = "processing"]

MarkProcessed(d, list) ==
  /\ Accepts(d, "processed")
  /\ docs' = [docs EXCEPT ![d].status = "processed", ![d].chunks = list]

\* The error message it records is left out, like the other texts.
MarkFailed(d) ==
  /\ Accepts(d, "failed")
  /\ docs' = [docs EXCEPT ![d].status = "failed"]

Mark(d) ==
  \/ Enqueue(d)
  \/ MarkProcessing(d)
  \/ \E list \in ChunkLists : MarkProcessed(d, list)
  \/ MarkFailed(d)

\* The resume scan, of a map and of the one in memory.
Listed(m, status) == {d \in Docs : m[d] # None /\ m[d].status = status}
ListByStatus(status) == IF Up THEN Listed(docs, status) ELSE {}

-----------------------------------------------------------------------------
(* Persist and Load.                                                       *)

PersistSnapshot(p) == Up /\ BeginSave(p, docs)

PersistUnfinished(p) ==
  /\ \/ PersistSnapshot(p)
     \/ OpenTmp(p)
     \/ WriteBlock(p)
     \/ WriteFails(p)
     \/ RenameFails(p)
     \/ RemoveTmp(p)
  /\ UNCHANGED <<docs, history>>

\* What was saved in the inodes that a start may still read.
Remember(maps) ==
  saved' = [i \in Inodes |->
              IF \E d \in older' \union {dir'} : d.canonical = i
              THEN maps[i] ELSE EmptyMap]

PersistRename(p) ==
  /\ RenameTmp(p)
  /\ Remember([saved EXCEPT ![dir.tmp] = Parsed(buf[p])])
  /\ latest' = Parsed(buf[p])
  /\ UNCHANGED docs

Crash == Up /\ docs' = Down /\ ProcessKilled /\ UNCHANGED history

Outage ==
  /\ docs' = Down
  /\ MachineLost
  /\ Remember(saved)
  /\ latest' = IF dir'.canonical = dir.canonical THEN latest ELSE None

Kernel ==
  /\ \/ \E i \in Inodes : WriteBack(i) /\ UNCHANGED saved
     \/ WriteBackDir /\ Remember(saved)
  /\ UNCHANGED <<docs, latest>>

\* Load: a missing file is an empty store, anything that does not parse (an
\* empty file too) is an error.
Loadable == HasCanonical => Parses(Canonical)
Loaded == IF HasCanonical THEN Parsed(Canonical) ELSE EmptyMap

Restart ==
  /\ docs = Down
  /\ Loadable
  /\ docs' = Loaded
  /\ UNCHANGED <<history, fileVars>>

Next ==
  \/ \E d \in Docs : Mark(d) /\ UNCHANGED <<history, fileVars>>
  \/ \E p \in Persisters : PersistUnfinished(p) \/ PersistRename(p)
  \/ Kernel
  \/ Crash
  \/ Outage
  \/ Restart

Spec == Init /\ [][Next]_vars

-----------------------------------------------------------------------------
\* Readers of the file see the old file or the new file, never a half-written
\* one (doc_status_store.go, the comment on Persist).
FileNeverHalfWritten == HasCanonical => Parses(Canonical)

\* A file that loads is all of what one clean Persist wrote, never cut short,
\* mixed or of a Persist that failed, and it is what the last one wrote
\* unless a power loss has undone that one's rename: Load fails rather than
\* drop records silently (doc_status_store.go, the comment on Load).
SavedAs(i) == IF i = NoInode THEN EmptyMap ELSE saved[i]
LoadsASave ==
  Loadable =>
    /\ Loaded = SavedAs(dir.canonical)
    /\ latest # None => Loaded = latest

\* While the process is down, the scan over FAILED and PROCESSING that the
\* next start makes finds every document that still needs a run
\* (doc_status_store.go, the comment on ListByStatus).
BootScanFindsAll ==
  (~Up /\ Loadable) =>
    {d \in Docs : Loaded[d] # None /\ Loaded[d].status # "processed"}
      \subseteq Listed(Loaded, "failed") \union Listed(Loaded, "processing")

\* The statuses a document may still reach from a given one.
Ahead(s) ==
  CASE s = "pending" -> Status
    [] s \in {"processing", "failed"} -> Status \ {"pending"}
    [] s = "processed" -> {"processed"}

\* While the process runs, memory is never behind the file: a document on
\* disk is known, its status follows from the one on disk by legal steps, and
\* a document the file calls processed has that very record in memory.
MemoryFollowsDisk ==
  Up => \A d \in Docs :
    Loaded[d] # None =>
      /\ docs[d] # None
      /\ docs[d].status \in Ahead(Loaded[d].status)
      /\ Loaded[d].status = "processed" => docs[d] = Loaded[d]

\* A document once known is never forgotten nor enqueued afresh while the
\* process runs, and a processed one never changes.
DocsAreKept ==
  [][\A d \in Docs :
       (Known(d) /\ docs' # Down) =>
         /\ docs'[d] # None
         /\ docs'[d].status \in Ahead(docs[d].status)
         /\ docs[d].status = "processed" => docs'[d] = docs[d]]_vars
=============================================================================
