-------------------------- MODULE DocIngestProofs ---------------------------
(***************************************************************************)
(* What holds of the status store of s03 for every set of documents and of *)
(* chunk lists, and what one Persist at a time adds to it, power losses    *)
(* included; then its clients, any number of callers (DocCallers) and      *)
(* run() of main.go (DocIngest).                                           *)
(***************************************************************************)
EXTENDS DocCallers, DocIngest, AtomicFileProofs

-----------------------------------------------------------------------------
(***************************************************************************)
(* The store (DocStatusStore).                                             *)
(***************************************************************************)

-----------------------------------------------------------------------------
(* The map in memory.                                                      *)

DocsTypeOK == docs \in Maps \union {Down}

LEMMA EmptyIsStore == EmptyMap \in Maps /\ EmptyMap # Down
BY DownIsNoMap DEF EmptyMap, Maps

\* What a start loads is a map of records.
LEMMA LoadedIsStore ==
  ASSUME Loadable
  PROVE  Loaded \in Maps /\ Loaded # Down
BY EmptyIsStore, DownIsNoMap, ParsedType DEF Loadable, Loaded

\* A record of a document that is known.
LEMMA KnownRecord ==
  ASSUME DocsTypeOK, NEW d \in Docs, Known(d)
  PROVE  docs \in Maps /\ docs[d] \in Recs /\ docs[d].status \in Status
<1>1. docs \in Maps /\ docs[d] \in Vals
  BY DEF DocsTypeOK, Known, Up, Maps, Docs
<1> QED
  BY <1>1, ValsAreRecords DEF Recs

\* One record changes; the others stay as they are.
OneDoc(d, s) ==
  /\ docs' \in Maps /\ docs' # Down
  /\ docs'[d] # None /\ docs'[d].status = s
  /\ \A e \in Docs \ {d} : docs'[e] = docs[e]

LEMMA PutRecord ==
  ASSUME DocsTypeOK, Up, NEW d \in Docs, NEW r \in Recs, docs' = [docs EXCEPT ![d] = r]
  PROVE  OneDoc(d, r.status)
<1>1. docs \in Maps /\ r \in Vals /\ r # None
  BY ValsAreRecords, NoneIsNoVal DEF DocsTypeOK, Up
<1>2. docs' \in Maps
  BY <1>1 DEF Maps, Docs
<1> QED
  BY <1>1, <1>2, DownIsNoMap DEF OneDoc, Maps, Docs

LEMMA MarkChangesOne ==
  ASSUME DocsTypeOK, NEW d \in Docs,
         \/ MarkProcessing(d)
         \/ \E list \in ChunkLists : MarkProcessed(d, list)
         \/ MarkFailed(d)
  PROVE  /\ MarkProcessing(d) => OneDoc(d, "processing")
         /\ (\E list \in ChunkLists : MarkProcessed(d, list)) => OneDoc(d, "processed")
         /\ MarkFailed(d) => OneDoc(d, "failed")
<1>1. Known(d) /\ Up /\ docs \in Maps /\ docs[d] \in Recs
  BY KnownRecord DEF MarkProcessing, MarkProcessed, MarkFailed, Accepts, Known
<1>2. ASSUME MarkProcessing(d) PROVE OneDoc(d, "processing")
  <2> DEFINE r == [docs[d] EXCEPT !.status = "processing"]
  <2>1. r \in Recs /\ r.status = "processing"
    BY <1>1 DEF Recs, Status
  <2>2. docs' = [docs EXCEPT ![d] = r]
    BY <1>2 DEF MarkProcessing
  <2> HIDE DEF r
  <2> QED
    BY <1>1, <2>1, <2>2, PutRecord
<1>3. ASSUME NEW list \in ChunkLists, MarkProcessed(d, list) PROVE OneDoc(d, "processed")
  <2> DEFINE r == [docs[d] EXCEPT !.status = "processed", !.chunks = list]
  <2>1. r \in Recs /\ r.status = "processed"
    BY <1>1 DEF Recs, Status
  <2>2. docs' = [docs EXCEPT ![d] = r]
    BY <1>1, <1>3 DEF MarkProcessed, Maps, Docs, Recs
  <2> HIDE DEF r
  <2> QED
    BY <1>1, <2>1, <2>2, PutRecord
<1>4. ASSUME MarkFailed(d) PROVE OneDoc(d, "failed")
  <2> DEFINE r == [docs[d] EXCEPT !.status = "failed"]
  <2>1. r \in Recs /\ r.status = "failed"
    BY <1>1 DEF Recs, Status
  <2>2. docs' = [docs EXCEPT ![d] = r]
    BY <1>4 DEF MarkFailed
  <2> HIDE DEF r
  <2> QED
    BY <1>1, <2>1, <2>2, PutRecord
<1> QED
  BY <1>2, <1>3, <1>4

-----------------------------------------------------------------------------
(* Records only move ahead.                                                *)

\* Every record of m is in n, the same or further along its life.
Behind(m, n) ==
  \A d \in Docs :
    m[d] # None =>
      /\ n[d] # None
      /\ n[d].status \in Ahead(m[d].status)
      /\ m[d].status = "processed" => n[d] = m[d]

LEMMA AheadIsOrder ==
  /\ \A s \in Status : s \in Ahead(s) /\ Ahead(s) \subseteq Status
  /\ \A s \in Status : \A t \in Ahead(s) : Ahead(t) \subseteq Ahead(s)
BY DEF Ahead, Status

LEMMA StatusOfRecord ==
  ASSUME NEW m \in Maps, NEW d \in Docs, m[d] # None
  PROVE  m[d] \in Recs /\ m[d].status \in Status
<1>1. m[d] \in Vals
  BY DEF Maps, Docs
<1> QED
  BY <1>1, ValsAreRecords DEF Recs

LEMMA BehindItself ==
  ASSUME NEW m \in Maps
  PROVE  Behind(m, m)
BY StatusOfRecord, AheadIsOrder DEF Behind

LEMMA EmptyIsBehind ==
  ASSUME NEW m
  PROVE  Behind(EmptyMap, m)
BY DEF Behind, EmptyMap, Docs

LEMMA BehindTrans ==
  ASSUME NEW l \in Maps, NEW m \in Maps, NEW n \in Maps, Behind(l, m), Behind(m, n)
  PROVE  Behind(l, n)
<1> SUFFICES ASSUME NEW d \in Docs, l[d] # None
             PROVE  /\ n[d] # None
                    /\ n[d].status \in Ahead(l[d].status)
                    /\ l[d].status = "processed" => n[d] = l[d]
  BY DEF Behind
<1>1. /\ m[d] # None /\ m[d].status \in Ahead(l[d].status)
      /\ l[d].status = "processed" => m[d] = l[d]
  BY DEF Behind
<1>2. /\ n[d] # None /\ n[d].status \in Ahead(m[d].status)
      /\ m[d].status = "processed" => n[d] = m[d]
  BY <1>1 DEF Behind
<1>3. l[d].status \in Status
  BY StatusOfRecord
<1>4. Ahead(m[d].status) \subseteq Ahead(l[d].status)
  BY <1>1, <1>3, AheadIsOrder
<1> QED
  BY <1>1, <1>2, <1>4

\* An operation that is accepted moves its record ahead and no other.
LEMMA MarkMovesAhead ==
  ASSUME DocsTypeOK, NEW d \in Docs, Mark(d)
  PROVE  Up /\ docs \in Maps /\ docs' \in Maps /\ docs' # Down /\ Behind(docs, docs')
<1>1. Up /\ docs \in Maps
  BY DEF Mark, Enqueue, MarkProcessing, MarkProcessed, MarkFailed, Accepts, Known, Up, DocsTypeOK
<1>2. ASSUME NEW s \in Status, OneDoc(d, s),
             docs[d] # None => docs[d].status # "processed" /\ s \in Ahead(docs[d].status)
      PROVE  docs' \in Maps /\ docs' # Down /\ Behind(docs, docs')
  <2>1. Behind(docs, docs)
    BY <1>1, BehindItself
  <2> QED
    BY <1>2, <2>1 DEF OneDoc, Behind
<1>3. CASE Enqueue(d)
  <2> DEFINE r == [status |-> "pending", chunks |-> NoChunks]
  <2>1. r \in Recs /\ r.status = "pending"
    BY DEF Recs, Status
  <2>2. docs' = [docs EXCEPT ![d] = r] /\ docs[d] = None
    BY <1>3 DEF Enqueue
  <2> HIDE DEF r
  <2>3. OneDoc(d, "pending")
    BY <1>1, <2>1, <2>2, PutRecord
  <2> QED
    BY <1>1, <1>2, <2>2, <2>3 DEF Status
<1>4. CASE MarkProcessing(d)
  <2>1. OneDoc(d, "processing")
    BY <1>4, MarkChangesOne
  <2>2. docs[d].status \in {"pending", "failed"}
    BY <1>4 DEF MarkProcessing, Accepts, IsValidTransition
  <2> QED
    BY <1>1, <1>2, <2>1, <2>2 DEF Ahead, Status
<1>5. CASE \E list \in ChunkLists : MarkProcessed(d, list)
  <2>1. OneDoc(d, "processed")
    BY <1>5, MarkChangesOne
  <2>2. docs[d].status = "processing"
    BY <1>5 DEF MarkProcessed, Accepts, IsValidTransition
  <2> QED
    BY <1>1, <1>2, <2>1, <2>2 DEF Ahead, Status
<1>6. CASE MarkFailed(d)
  <2>1. OneDoc(d, "failed")
    BY <1>6, MarkChangesOne
  <2>2. docs[d].status \in {"pending", "processing"}
    BY <1>6 DEF MarkFailed, Accepts, IsValidTransition
  <2> QED
    BY <1>1, <1>2, <2>1, <2>2 DEF Ahead, Status
<1> QED
  BY <1>1, <1>3, <1>4, <1>5, <1>6 DEF Mark

\* A step that does not mark keeps the map, loses it, or loads it.
LEMMA OtherSteps ==
  ASSUME DocsTypeOK, [Next]_vars, \A d \in Docs : ~Mark(d)
  PROVE  \/ docs' = docs
         \/ docs' = Down
         \/ docs = Down /\ docs' \in Maps
<1>1. Restart => docs = Down /\ docs' \in Maps
  BY LoadedIsStore DEF Restart
<1> QED
  BY <1>1 DEF Next, vars, Kernel, PersistUnfinished, PersistRename, Crash, Outage

LEMMA DocsStep ==
  ASSUME DocsTypeOK, [Next]_vars
  PROVE  DocsTypeOK'
<1>1. CASE \E d \in Docs : Mark(d)
  BY <1>1, MarkMovesAhead DEF DocsTypeOK
<1>2. CASE \A d \in Docs : ~Mark(d)
  BY <1>2, OtherSteps DEF DocsTypeOK
<1> QED
  BY <1>1, <1>2

LEMMA DocsInit == Init => DocsTypeOK
BY EmptyIsStore DEF Init, DocsTypeOK

LEMMA StepKeepsRecords ==
  ASSUME DocsTypeOK, [Next]_vars, NEW d \in Docs, Known(d), docs' # Down
  PROVE  /\ docs'[d] # None
         /\ docs'[d].status \in Ahead(docs[d].status)
         /\ docs[d].status = "processed" => docs'[d] = docs[d]
<1>1. docs \in Maps /\ docs # Down /\ docs[d] # None
  BY DEF Known, Up, DocsTypeOK
<1>2. CASE \E e \in Docs : Mark(e)
  BY <1>1, <1>2, MarkMovesAhead DEF Behind
<1>3. CASE \A e \in Docs : ~Mark(e)
  <2>1. docs' = docs
    BY <1>1, <1>3, OtherSteps
  <2> QED
    BY <1>1, <2>1, BehindItself DEF Behind
<1> QED
  BY <1>2, <1>3

\* While the process runs no document is forgotten nor started afresh, and a
\* processed one never changes (doc_status_store.go, Enqueue and the Mark
\* functions), whatever becomes of the file.
THEOREM DocumentsAreKept == Spec => DocsAreKept
<1> DEFINE Kept ==
      \A d \in Docs :
        (Known(d) /\ docs' # Down) =>
          /\ docs'[d] # None
          /\ docs'[d].status \in Ahead(docs[d].status)
          /\ docs[d].status = "processed" => docs'[d] = docs[d]
<1>1. DocsTypeOK /\ [Next]_vars => Kept
  BY StepKeepsRecords
<1>2. DocsTypeOK /\ [Next]_vars => DocsTypeOK'
  BY DocsStep
<1> QED
  BY <1>1, <1>2, DocsInit, PTL DEF Spec, DocsAreKept

-----------------------------------------------------------------------------
(* One Persist at a time: the file.                                        *)

\* A marshalled map that was cut short does not parse.
LEMMA CutDoesNotParse ==
  ASSUME NEW m \in Maps, NEW n \in Nat, n <= Len(Encode(m))
  PROVE  LET c == SubSeq(Encode(m), 1, n)
         IN  c \in Seq(Blocks) /\ (c = Encode(m) \/ ~Parses(c))
<1> DEFINE c == Encode(m)
           size == Cardinality(Present(m))
<1>1. size \in Nat /\ c \in Seq(Blocks) /\ Len(c) = size + 1
  BY EncodeShape
<1>2. \A i \in 1..size : c[i] # End
  BY <1>1, EncodeParses, BlocksDistinct DEF Parses, Record
<1> HIDE DEF c, size
<1>3. \A i \in 1..n : c[i] \in Blocks
  BY <1>1, ElementOfSeq DEF c
<1>4. /\ SubSeq(c, 1, n) \in Seq(Blocks) /\ Len(SubSeq(c, 1, n)) = n
      /\ \A i \in 1..n : SubSeq(c, 1, n)[i] = c[i]
  BY <1>3, SubSeqProperties
<1>5. CASE n = Len(c)
  BY <1>1, <1>4, <1>5, SubSeqFull DEF c
<1>6. CASE n < Len(c)
  <2>1. n = 0 => SubSeq(c, 1, n) = <<>>
    BY <1>4
  <2>2. n > 0 => SubSeq(c, 1, n)[n] # End
    BY <1>1, <1>2, <1>4, <1>6
  <2>3. ~Parses(SubSeq(c, 1, n))
    BY <1>4, <2>1, <2>2 DEF Parses
  <2> QED
    BY <1>4, <2>3 DEF c
<1> QED
  BY <1>1, <1>5, <1>6 DEF c

\* While the process is down no Persist is under way.
QuietWhenDown == ~Up => \A p \in Persisters : call[p] = "idle"

\* What a Persist is writing is a map that memory has not fallen behind.
SnapshotsBehind ==
  \A p \in Persisters :
    call[p] \in {"open", "write"} =>
      \E m \in Maps : buf[p] = Encode(m) /\ Behind(m, docs)

\* A file with a canonical name, in this directory or in one that a power loss
\* may bring back, is what was saved in it, or a power loss tore it: then it
\* does not parse, no write is due to it, no other directory may come back, and
\* the process cannot start.
FilesAreSaved ==
  \A d \in older \union {dir} : d.canonical \in Inodes =>
    \/ file[d.canonical] = Encode(saved[d.canonical])
    \/ /\ ~Up /\ older = {} /\ d.canonical \notin dirty
       /\ ~Parses(file[d.canonical])

LatestInPlace == latest # None => latest = SavedAs(dir.canonical)

StatusInv ==
  /\ FileTypeOK /\ TmpApart /\ DocsTypeOK
  /\ saved \in [Inodes -> Maps] /\ latest \in Maps \union {None}
  /\ QuietWhenDown
  /\ SnapshotsBehind
  /\ FilesAreSaved
  /\ LatestInPlace
  /\ Up => Behind(SavedAs(dir.canonical), docs)

LEMMA StatusInit == Init => StatusInv
<1> SUFFICES ASSUME Init PROVE StatusInv
  OBVIOUS
<1>1. FileTypeOK /\ TmpApart
  BY FileInitTypes DEF Init
<1>2. dir.canonical = NoInode /\ older = {} /\ docs = EmptyMap /\ latest = EmptyMap
  BY DEF Init, FileInit
<1>3. SavedAs(dir.canonical) = EmptyMap
  BY <1>2 DEF SavedAs
<1> QED
  BY <1>1, <1>2, <1>3, EmptyIsStore, BehindItself, NoInodeIsNoInode
     DEF Init, FileInit, StatusInv, DocsTypeOK, QuietWhenDown, SnapshotsBehind,
         FilesAreSaved, LatestInPlace, Up

LEMMA SavedAsType ==
  ASSUME StatusInv
  PROVE  SavedAs(dir.canonical) \in Maps
BY EmptyIsStore DEF StatusInv, FileTypeOK, SavedAs

\* What a start loads is what was saved in the canonical file.
LEMMA SavedLoads ==
  ASSUME StatusInv
  PROVE  /\ Loadable => Loaded = SavedAs(dir.canonical)
         /\ Up => Loadable
<1>1. CASE HasCanonical
  <2> DEFINE c == dir.canonical
  <2>1. c \in Inodes /\ c # NoInode
    BY <1>1 DEF HasCanonical, StatusInv, FileTypeOK
  <2>2. saved[c] \in Maps /\ SavedAs(c) = saved[c]
    BY <2>1 DEF StatusInv, SavedAs
  <2>3. Canonical = Encode(saved[c]) \/ (~Up /\ ~Parses(Canonical))
    BY <2>1 DEF StatusInv, FilesAreSaved, Canonical
  <2> QED
    BY <1>1, <2>2, <2>3, ParsedEncode, EncodeParses DEF Loadable, Loaded
<1>2. CASE ~HasCanonical
  BY <1>2 DEF Loadable, Loaded, HasCanonical, SavedAs
<1> QED
  BY <1>1, <1>2

\* What is remembered of the files that may still be read.
LEMMA RememberTypes ==
  ASSUME NEW maps \in [Inodes -> Maps], Remember(maps)
  PROVE  /\ saved' \in [Inodes -> Maps]
         /\ \A d \in older' \union {dir'} :
              d.canonical \in Inodes => saved'[d.canonical] = maps[d.canonical]
BY EmptyIsStore DEF Remember

LEMMA MarkKeepsStatus ==
  ASSUME StatusInv, NEW d \in Docs, Mark(d), UNCHANGED <<history, fileVars>>
  PROVE  StatusInv'
<1> USE DEF StatusInv, history
<1>1. Up /\ docs \in Maps /\ docs' \in Maps /\ docs' # Down /\ Behind(docs, docs')
  BY MarkMovesAhead
<1>2. FileTypeOK' /\ TmpApart'
  BY DEF fileVars, FileTypeOK, TmpApart, WrittenPrefix
<1>3. DocsTypeOK' /\ QuietWhenDown'
  BY <1>1 DEF DocsTypeOK, QuietWhenDown, Up
<1>4. SnapshotsBehind'
  BY <1>1, BehindTrans DEF SnapshotsBehind, fileVars
<1>5. FilesAreSaved' /\ LatestInPlace'
  BY <1>1 DEF FilesAreSaved, LatestInPlace, SavedAs, fileVars
<1>6. SavedAs(dir.canonical) \in Maps /\ SavedAs(dir.canonical)' = SavedAs(dir.canonical)
  BY SavedAsType DEF SavedAs, fileVars
<1>7. (Up => Behind(SavedAs(dir.canonical), docs))'
  BY <1>1, <1>6, BehindTrans
<1> QED
  BY <1>2, <1>3, <1>4, <1>5, <1>7

LEMMA PersistKeepsStatus ==
  ASSUME SoleWriter, StatusInv, NEW p \in Persisters, PersistUnfinished(p) \/ PersistRename(p)
  PROVE  StatusInv'
<1> USE DEF StatusInv
<1>1. \A q \in Persisters : q = p
  BY DEF SoleWriter
<1>2. docs' = docs /\ Up /\ docs \in Maps
  BY DEF PersistUnfinished, PersistRename, PersistSnapshot, OpenTmp, WriteBlock,
    WriteFails, RenameTmp, RenameFails, RemoveTmp, QuietWhenDown, DocsTypeOK, Up
<1>3. SaveStep(p)
  BY <1>2 DEF PersistUnfinished, PersistRename, PersistSnapshot, SaveStep
<1>4. FileTypeOK' /\ TmpApart'
  BY <1>3, SaveStepTypes, SaveStepApart
<1>5. DocsTypeOK' /\ QuietWhenDown'
  BY <1>2 DEF DocsTypeOK, QuietWhenDown, Up
<1>6. /\ \A d \in older' : d \in older \union {dir}
      /\ \A d \in older' \union {dir'} :
           d.canonical \in Inodes => file'[d.canonical] = file[d.canonical]
      /\ RenameTmp(p) \/ dir'.canonical = dir.canonical
  BY <1>3, CanonicalsStay
<1>7. \A d \in older \union {dir} :
        d.canonical \in Inodes => file[d.canonical] = Encode(saved[d.canonical])
  BY <1>2 DEF FilesAreSaved
<1>8. CASE PersistRename(p)
  <2>1. HasCanonical' /\ Canonical' = buf[p]
    BY <1>8, RenameInstallsBuffer DEF PersistRename
  <2>2. call[p] = "write" /\ call'[p] = "idle"
    BY <1>8, RenameShows DEF PersistRename
  <2>3. PICK m \in Maps : buf[p] = Encode(m) /\ Behind(m, docs)
    BY <2>2 DEF SnapshotsBehind
  <2>4. Parsed(buf[p]) = m
    BY <2>3, ParsedEncode
  <2>5. /\ dir.tmp \in Inodes /\ dir.tmp # NoInode /\ dir'.canonical = dir.tmp
        /\ \A d \in older \union {dir} : dir.tmp # d.canonical
    BY <1>8, RenameTypes, NoInodeIsNoInode DEF PersistRename, RenameTmp, FileTypeOK, TmpApart
  <2> DEFINE maps == [saved EXCEPT ![dir.tmp] = m]
  <2>6. maps \in [Inodes -> Maps] /\ Remember(maps)
    BY <1>8, <2>4 DEF PersistRename
  <2>7. /\ saved' \in [Inodes -> Maps]
        /\ \A d \in older' \union {dir'} :
             d.canonical \in Inodes => saved'[d.canonical] = maps[d.canonical]
    BY <2>6, RememberTypes
  <2>8. saved'[dir'.canonical] = m /\ SavedAs(dir.canonical)' = m
    BY <2>5, <2>7 DEF SavedAs
  <2>9. FilesAreSaved'
    <3> SUFFICES ASSUME NEW d \in older' \union {dir'}, d.canonical \in Inodes
                 PROVE  file'[d.canonical] = Encode(saved'[d.canonical])
      BY DEF FilesAreSaved
    <3>1. CASE d = dir'
      BY <3>1, <2>1, <2>3, <2>8 DEF Canonical
    <3>2. CASE d \in older'
      <4>1. d \in older \union {dir} /\ d.canonical # dir.tmp
        BY <3>2, <1>6, <2>5
      <4>2. saved'[d.canonical] = saved[d.canonical]
        BY <2>7, <4>1
      <4> QED
        BY <1>6, <1>7, <4>1, <4>2
    <3> QED
      BY <3>1, <3>2
  <2>10. SnapshotsBehind'
    BY <1>1, <2>2 DEF SnapshotsBehind
  <2>11. latest' = m
    BY <1>8, <2>4 DEF PersistRename
  <2> QED
    BY <1>2, <1>4, <1>5, <2>3, <2>7, <2>8, <2>9, <2>10, <2>11 DEF LatestInPlace
<1>9. CASE PersistUnfinished(p) /\ ~PersistRename(p)
  <2>1. saved' = saved /\ latest' = latest
    BY <1>9 DEF PersistUnfinished, history
  <2>2. ~RenameTmp(p)
    BY <1>9, RenameShows DEF PersistUnfinished, PersistSnapshot, BeginSave, OpenTmp,
      WriteBlock, WriteFails, RenameFails, RemoveTmp, FileTypeOK
  <2>3. dir'.canonical = dir.canonical
    BY <1>6, <2>2
  <2>4. FilesAreSaved'
    <3> SUFFICES ASSUME NEW d \in older' \union {dir'}, d.canonical \in Inodes
                 PROVE  file'[d.canonical] = Encode(saved[d.canonical])
      BY <2>1 DEF FilesAreSaved
    <3>1. file'[d.canonical] = file[d.canonical]
      BY <1>6
    <3>2. PICK e \in older \union {dir} : e.canonical = d.canonical
      BY <1>6, <2>3
    <3> QED
      BY <1>7, <3>1, <3>2
  <2>5. SavedAs(dir.canonical)' = SavedAs(dir.canonical)
    BY <2>1, <2>3 DEF SavedAs
  <2>6. LatestInPlace' /\ (Up => Behind(SavedAs(dir.canonical), docs))'
    BY <1>2, <2>1, <2>5 DEF LatestInPlace
  <2>7. SnapshotsBehind'
    <3>1. CASE PersistSnapshot(p)
      <4>1. buf'[p] = Encode(docs)
        BY <3>1 DEF PersistSnapshot, BeginSave, FileTypeOK
      <4> QED
        BY <1>1, <1>2, <4>1, BehindItself DEF SnapshotsBehind
    <3>2. CASE OpenTmp(p) \/ WriteBlock(p)
      <4>1. call[p] \in {"open", "write"} /\ buf' = buf
        BY <3>2 DEF OpenTmp, WriteBlock
      <4> QED
        BY <1>1, <1>2, <4>1 DEF SnapshotsBehind
    <3>3. CASE WriteFails(p) \/ RenameFails(p) \/ RemoveTmp(p)
      <4>1. call'[p] \in {"idle", "remove"}
        BY <3>3 DEF WriteFails, RenameFails, RemoveTmp, Return, FileTypeOK
      <4> QED
        BY <1>1, <4>1 DEF SnapshotsBehind
    <3> QED
      BY <1>9, <3>1, <3>2, <3>3 DEF PersistUnfinished
  <2> QED
    BY <1>2, <1>4, <1>5, <2>1, <2>4, <2>6, <2>7
<1> QED
  BY <1>8, <1>9

\* The kernel writes a file or the directory back.
LEMMA KernelKeepsStatus ==
  ASSUME StatusInv, Kernel
  PROVE  StatusInv'
<1> USE DEF StatusInv
<1>1. docs' = docs /\ latest' = latest
  BY DEF Kernel
<1>2. ASSUME NEW i \in Inodes, WriteBack(i), UNCHANGED saved
      PROVE  StatusInv'
  <2>1. FileTypeOK' /\ TmpApart' /\ DocsTypeOK' /\ QuietWhenDown' /\ SnapshotsBehind'
    BY <1>1, <1>2 DEF WriteBack, FileTypeOK, TmpApart, WrittenPrefix, DocsTypeOK,
      QuietWhenDown, SnapshotsBehind, Up
  <2>2. FilesAreSaved' /\ LatestInPlace' /\ (Up => Behind(SavedAs(dir.canonical), docs))'
    BY <1>1, <1>2 DEF WriteBack, FilesAreSaved, LatestInPlace, SavedAs, Up
  <2> QED
    BY <1>1, <1>2, <2>1, <2>2
<1>3. ASSUME WriteBackDir, Remember(saved)
      PROVE  StatusInv'
  <2>1. older' = {} /\ UNCHANGED <<dir, call, fd, pos, buf>>
    BY <1>3 DEF WriteBackDir
  <2>2. /\ file' \in [Inodes -> Seq(Blocks)] /\ dirty' \in SUBSET Inodes
        /\ \A i \in Inodes : i \in Linked \union Opened => file'[i] = file[i]
    BY <1>3, FreeTypes DEF WriteBackDir
  <2>3. dirty' \subseteq dirty
    BY <1>3 DEF WriteBackDir, Free
  <2>4. FileTypeOK'
    BY <2>1, <2>2 DEF FileTypeOK
  <2>5. TmpApart'
    <3>1. ASSUME NEW p \in Persisters, call[p] = "write"
          PROVE  file'[fd[p]] = file[fd[p]]
      <4>1. fd[p] \in Inodes /\ fd[p] \in Opened
        BY <3>1 DEF FileTypeOK, Opened
      <4> QED
        BY <2>2, <4>1
    <3> QED
      BY <2>1, <3>1 DEF TmpApart, WrittenPrefix
  <2>6. DocsTypeOK' /\ QuietWhenDown' /\ SnapshotsBehind'
    BY <1>1, <2>1 DEF DocsTypeOK, QuietWhenDown, SnapshotsBehind, Up
  <2>7. /\ saved' \in [Inodes -> Maps]
        /\ dir.canonical \in Inodes => saved'[dir.canonical] = saved[dir.canonical]
    BY <1>3, <2>1, RememberTypes
  <2>8. dir.canonical \in Inodes => file'[dir.canonical] = file[dir.canonical]
    BY <2>2 DEF Linked, Names
  <2>9. FilesAreSaved'
    BY <1>1, <2>1, <2>3, <2>7, <2>8 DEF FilesAreSaved, Up
  <2>10. SavedAs(dir.canonical)' = SavedAs(dir.canonical)
    BY <2>1, <2>7 DEF SavedAs, FileTypeOK
  <2> QED
    BY <1>1, <2>4, <2>5, <2>6, <2>7, <2>9, <2>10 DEF LatestInPlace, Up
<1> QED
  BY <1>2, <1>3 DEF Kernel

LEMMA CrashKeepsStatus ==
  ASSUME StatusInv, Crash
  PROVE  StatusInv'
<1> USE DEF StatusInv, Crash, history
<1>1. FileTypeOK' /\ TmpApart'
  BY KillKeepsFiles
<1>2. /\ UNCHANGED <<dir, older, file, dirty>>
      /\ \A p \in Persisters : call'[p] = "idle"
  BY DEF ProcessKilled, Killed
<1>3. FilesAreSaved' /\ LatestInPlace'
  BY <1>2 DEF FilesAreSaved, LatestInPlace, SavedAs, Up
<1> QED
  BY <1>1, <1>2, <1>3 DEF DocsTypeOK, QuietWhenDown, SnapshotsBehind, Up

\* A power loss leaves the canonical file of the directory it leaves as it was,
\* or torn.
LEMMA OutageKeepsStatus ==
  ASSUME StatusInv, Outage
  PROVE  StatusInv'
<1> USE DEF StatusInv
<1>1. PICK n \in [dirty -> 0..(Cardinality(Keys) + 1)] :
        /\ \A i \in dirty : n[i] <= Len(file[i])
        /\ file' = [i \in Inodes |->
                      IF i \notin Linked' THEN <<>>
                      ELSE IF i \in dirty THEN SubSeq(file[i], 1, n[i])
                      ELSE file[i]]
  BY DEF Outage, MachineLost
<1>2. /\ Killed /\ dirty' = {} /\ older' = {} /\ docs' = Down
      /\ dir' \in older \union {dir} /\ Remember(saved)
      /\ latest' = IF dir'.canonical = dir.canonical THEN latest ELSE None
  BY DEF Outage, MachineLost
<1>3. \A i \in dirty : n[i] \in Nat
  BY <1>1, FiniteKeys, FS_CardinalityType
<1>4. file' \in [Inodes -> Seq(Blocks)]
  <2>1. ASSUME NEW i \in dirty
        PROVE  SubSeq(file[i], 1, n[i]) \in Seq(Blocks)
    <3>1. file[i] \in Seq(Blocks)
      BY DEF FileTypeOK
    <3>2. \A j \in 1..n[i] : file[i][j] \in Blocks
      BY <1>1, <1>3, <3>1, ElementOfSeq, LenProperties
    <3> QED
      BY <1>3, <3>2, SubSeqProperties
  <2> QED
    BY <1>1, <2>1, EmptySeq DEF FileTypeOK
<1>5. FileTypeOK'
  BY <1>2, <1>4, EmptySeq DEF FileTypeOK, Killed
<1>6. \A p \in Persisters : call'[p] = "idle" /\ pos'[p] = 0
  BY <1>2 DEF Killed
<1>7. TmpApart'
  BY <1>2, <1>6 DEF TmpApart
<1> DEFINE c == dir'.canonical
<1>8. /\ saved' \in [Inodes -> Maps]
      /\ c \in Inodes => saved'[c] = saved[c] /\ saved[c] \in Maps
  BY <1>2, RememberTypes
<1>9. FilesAreSaved'
  <2> SUFFICES ASSUME c \in Inodes
               PROVE  file'[c] = Encode(saved'[c]) \/ ~Parses(file'[c])
    BY <1>2 DEF FilesAreSaved, Up
  <2>1. c \in Linked'
    BY DEF Linked, Names
  <2>2. CASE c \notin dirty
    <3>1. file'[c] = file[c]
      BY <1>1, <2>1, <2>2
    <3>2. file[c] = Encode(saved[c]) \/ ~Parses(file[c])
      BY <1>2 DEF FilesAreSaved
    <3> QED
      BY <1>8, <3>1, <3>2
  <2>3. CASE c \in dirty
    <3>1. file[c] = Encode(saved[c])
      BY <1>2, <2>3 DEF FilesAreSaved
    <3>2. file'[c] = SubSeq(Encode(saved[c]), 1, n[c]) /\ n[c] <= Len(Encode(saved[c]))
      BY <1>1, <2>1, <2>3, <3>1
    <3> QED
      BY <1>3, <1>8, <2>3, <3>2, CutDoesNotParse
  <2> QED
    BY <2>2, <2>3
<1>10. LatestInPlace'
  <2> SUFFICES ASSUME latest' # None
               PROVE  latest' = SavedAs(dir.canonical)'
    BY DEF LatestInPlace
  <2>1. c = dir.canonical /\ latest' = latest
    BY <1>2
  <2>2. latest = SavedAs(c) /\ (c = NoInode \/ c \in Inodes)
    BY <2>1 DEF LatestInPlace, FileTypeOK
  <2> QED
    BY <1>8, <2>1, <2>2 DEF SavedAs
<1> QED
  BY <1>2, <1>5, <1>6, <1>7, <1>8, <1>9, <1>10
     DEF DocsTypeOK, QuietWhenDown, SnapshotsBehind, Up

LEMMA RestartKeepsStatus ==
  ASSUME StatusInv, Restart
  PROVE  StatusInv'
<1> USE DEF StatusInv, history
<1>1. docs = Down /\ docs' = SavedAs(dir.canonical) /\ UNCHANGED <<saved, latest, fileVars>>
  BY SavedLoads DEF Restart
<1>2. docs' \in Maps /\ docs' # Down
  BY <1>1, SavedAsType, DownIsNoMap
<1>3. FileTypeOK' /\ TmpApart'
  BY <1>1 DEF fileVars, FileTypeOK, TmpApart, WrittenPrefix
<1>4. QuietWhenDown' /\ SnapshotsBehind' /\ DocsTypeOK'
  BY <1>1, <1>2 DEF QuietWhenDown, SnapshotsBehind, DocsTypeOK, Up, fileVars
<1>5. FilesAreSaved'
  <2> SUFFICES ASSUME NEW d \in older \union {dir}, d.canonical \in Inodes
               PROVE  file[d.canonical] = Encode(saved[d.canonical])
    BY <1>1 DEF FilesAreSaved, fileVars
  <2>1. d = dir => d.canonical # NoInode /\ Parses(file[d.canonical])
    BY NoInodeIsNoInode DEF Restart, Loadable, HasCanonical, Canonical
  <2> QED
    BY <2>1 DEF FilesAreSaved
<1>6. LatestInPlace' /\ SavedAs(dir.canonical)' = SavedAs(dir.canonical)
  BY <1>1 DEF LatestInPlace, SavedAs, fileVars
<1> QED
  BY <1>1, <1>2, <1>3, <1>4, <1>5, <1>6, SavedAsType, BehindItself

LEMMA StatusStep ==
  ASSUME SoleWriter, StatusInv, [Next]_vars
  PROVE  StatusInv'
<1>1. CASE UNCHANGED vars
  <2>1. FileTypeOK' /\ TmpApart'
    BY <1>1 DEF StatusInv, vars, fileVars, FileTypeOK, TmpApart, WrittenPrefix
  <2> QED
    BY <1>1, <2>1 DEF StatusInv, vars, history, fileVars, DocsTypeOK, QuietWhenDown,
      SnapshotsBehind, FilesAreSaved, LatestInPlace, SavedAs, Up
<1> QED
  BY <1>1, MarkKeepsStatus, PersistKeepsStatus, KernelKeepsStatus, CrashKeepsStatus,
     OutageKeepsStatus, RestartKeepsStatus DEF Next

\* With one Persist at a time the file is the last clean save or torn by a
\* power loss, and memory is not behind what is written (Persist, Load).
THEOREM StatusInvariant ==
  ASSUME SoleWriter
  PROVE  Spec => []StatusInv
<1>1. StatusInv /\ [Next]_vars => StatusInv'
  BY StatusStep
<1> QED
  BY <1>1, StatusInit, PTL DEF Spec

\* With one Persist at a time a file that loads is all of what one clean
\* Persist wrote, and what the last one wrote unless a power loss has undone
\* that one's rename (doc_status_store.go, Persist, which syncs neither file
\* nor directory, and the comment on Load).
THEOREM LoadNeverLosesSilently ==
  ASSUME SoleWriter
  PROVE  Spec => []LoadsASave
<1>1. StatusInv => LoadsASave
  BY SavedLoads DEF StatusInv, LatestInPlace, LoadsASave
<1> QED
  BY <1>1, StatusInvariant, PTL

\* With one Persist at a time memory never falls behind the file
\* (doc_status_store.go, Persist under the read lock).
THEOREM MemoryIsAhead ==
  ASSUME SoleWriter
  PROVE  Spec => []MemoryFollowsDisk
<1>1. StatusInv => MemoryFollowsDisk
  BY SavedLoads DEF StatusInv, Behind, MemoryFollowsDisk
<1> QED
  BY <1>1, StatusInvariant, PTL

-----------------------------------------------------------------------------
(***************************************************************************)
(* Any callers (DocCallers).                                               *)
(***************************************************************************)

CallersInv == DocsTypeOK /\ HoldsTypeOK /\ OneRunPerDoc

LEMMA PickKeeps ==
  ASSUME CallersInv, NEW c \in Callers, NEW d \in Docs, Pick(c, d)
  PROVE  CallersInv'
<1> USE DEF CallersInv
<1>1. Known(d) /\ docs[d].status # "processing"
  BY DEF Pick, MarkProcessing, Accepts, IsValidTransition
<1>2. OneDoc(d, "processing")
  BY MarkChangesOne DEF Pick
<1>3. holds' = [holds EXCEPT ![c] = d] /\ d # None
  BY NoneIsNoDoc DEF Pick
<1>4. \A b \in Callers : holds[b] # d
  BY <1>1, <1>3 DEF OneRunPerDoc
<1>5. DocsTypeOK' /\ HoldsTypeOK'
  BY <1>2, <1>3 DEF OneDoc, DocsTypeOK, HoldsTypeOK, Up
<1>6. ASSUME NEW b \in Callers, holds'[b] # None
      PROVE  Known(holds[b])' /\ docs'[holds'[b]].status = "processing"
  BY <1>2, <1>3, <1>4, <1>6 DEF OneDoc, OneRunPerDoc, HoldsTypeOK, Known, Up
<1>7. ASSUME NEW b \in Callers, NEW e \in Callers \ {b}, holds'[b] # None
      PROVE  holds'[e] # holds'[b]
  BY <1>3, <1>4, <1>7 DEF OneRunPerDoc, HoldsTypeOK
<1> QED
  BY <1>5, <1>6, <1>7 DEF OneRunPerDoc

LEMMA SettleKeeps ==
  ASSUME CallersInv, NEW c \in Callers, Settle(c)
  PROVE  CallersInv'
<1> USE DEF CallersInv
<1> DEFINE d == holds[c]
<1>1. d # None /\ d \in Docs /\ Known(d) /\ holds' = [holds EXCEPT ![c] = None]
  BY DEF Settle, Leave, HoldsTypeOK, OneRunPerDoc
<1>2. OneDoc(d, "processed") \/ OneDoc(d, "failed")
  BY <1>1, MarkChangesOne DEF Settle
<1>3. \A b \in Callers \ {c} : holds[b] # d
  BY <1>1 DEF OneRunPerDoc
<1>4. DocsTypeOK' /\ HoldsTypeOK'
  BY <1>1, <1>2 DEF OneDoc, DocsTypeOK, HoldsTypeOK, Up
<1>5. OneRunPerDoc'
  BY <1>1, <1>2, <1>3 DEF OneDoc, OneRunPerDoc, HoldsTypeOK, Known, Up
<1> QED
  BY <1>4, <1>5

LEMMA AddKeeps ==
  ASSUME CallersInv, NEW d \in Docs, Enqueue(d), UNCHANGED holds
  PROVE  CallersInv'
<1> USE DEF CallersInv
<1>1. Up /\ docs[d] = None
  BY DEF Enqueue
<1>2. Behind(docs, docs') /\ docs' \in Maps /\ docs' # Down /\ docs \in Maps
  BY MarkMovesAhead DEF Mark
<1>3. \A e \in Docs \ {d} : docs'[e] = docs[e]
  BY <1>2 DEF Enqueue, Maps, Docs
<1>4. ASSUME NEW c \in Callers, holds[c] # None
      PROVE  holds[c] \in Docs \ {d}
  BY <1>1, <1>4 DEF HoldsTypeOK, OneRunPerDoc, Known
<1>5. OneRunPerDoc'
  BY <1>2, <1>3, <1>4 DEF OneRunPerDoc, Known, Up
<1> QED
  BY <1>2, <1>5 DEF DocsTypeOK, HoldsTypeOK, Up

LEMMA CallersStep ==
  ASSUME CallersInv, [CallersNext]_callerVars
  PROVE  CallersInv'
<1> USE DEF CallersInv
<1>1. ASSUME docs' = docs, NEW c \in Callers, Leave(c) \/ UNCHANGED holds
      PROVE  CallersInv'
  BY <1>1 DEF Leave, DocsTypeOK, HoldsTypeOK, NobodyHolds, OneRunPerDoc, Known, Up
<1>2. ASSUME UNCHANGED <<docs, holds>> PROVE CallersInv'
  BY <1>2 DEF DocsTypeOK, HoldsTypeOK, NobodyHolds, OneRunPerDoc, Known, Up
<1>3. ASSUME NEW c \in Callers, Work(c) PROVE CallersInv'
  BY <1>1, <1>3, PickKeeps, SettleKeeps DEF Work, GiveUp
<1>4. CASE Restart /\ UNCHANGED holds
  <2>1. ~Up /\ docs' \in Maps /\ docs' # Down
    BY <1>4, LoadedIsStore DEF Restart, Up
  <2>2. \A c \in Callers : holds[c] = None
    BY <2>1 DEF HoldsTypeOK, NobodyHolds
  <2> QED
    BY <1>4, <2>1, <2>2 DEF DocsTypeOK, HoldsTypeOK, OneRunPerDoc, Up
<1>5. CASE (Crash \/ Outage) /\ holds' = NobodyHolds
  BY <1>5 DEF Crash, Outage, DocsTypeOK, HoldsTypeOK, NobodyHolds, OneRunPerDoc, Up
<1>6. CASE UNCHANGED callerVars
  BY <1>2, <1>6 DEF callerVars, vars
<1>7. ASSUME NEW p \in Persisters, PersistUnfinished(p) \/ PersistRename(p) \/ Kernel
      PROVE  docs' = docs
  BY <1>7 DEF PersistUnfinished, PersistRename, Kernel
<1>8. Kernel => docs' = docs
  BY DEF Kernel
<1> QED
  BY <1>2, <1>3, <1>4, <1>5, <1>6, <1>7, <1>8, AddKeeps DEF CallersNext

LEMMA CallersInitial == CallersInit => CallersInv
<1> SUFFICES ASSUME CallersInit PROVE CallersInv
  OBVIOUS
<1>1. DocsTypeOK /\ Up /\ holds = NobodyHolds
  BY DocsInit, EmptyIsStore DEF CallersInit, Init, Up
<1> QED
  BY <1>1 DEF CallersInv, HoldsTypeOK, NobodyHolds, OneRunPerDoc

\* Two callers never work on one document, and a document that is worked on
\* is processing (transition of doc_status_store.go), for any number of
\* callers and documents, crashes and power losses.
THEOREM CallersAreApart == CallersSpec => []OneRunPerDoc
<1>1. CallersInv /\ [CallersNext]_callerVars => CallersInv'
  BY CallersStep
<1>2. CallersInv => OneRunPerDoc
  BY DEF CallersInv
<1> QED
  BY <1>1, <1>2, CallersInitial, PTL DEF CallersSpec

-----------------------------------------------------------------------------
(***************************************************************************)
(* run() of main.go (DocIngest).                                           *)
(***************************************************************************)

\* Nothing of a map is half-finished, and the document of round 3 failed.
Finished(m) ==
  \A d \in Docs : m[d] # None =>
    /\ m[d].status \in {"processed", "failed"}
    /\ d = FailDoc => m[d].status = "failed"

\* What a run has done to the two documents by the time it makes a call.
StatusIs(d, statuses) == docs[d] # None /\ docs[d].status \in statuses
InputSoFar ==
  /\ pc = "enqueue" => docs = SavedAs(dir.canonical)
  /\ pc = "begin" =>
       /\ StatusIs(input, {"pending", "processed", "failed"})
       /\ docs[input].status = "processed" => docs[input] = SavedAs(dir.canonical)[input]
  /\ pc = "finish" => StatusIs(input, {"processing"})
  /\ pc \in {"again", "second"} => StatusIs(input, {"processed"})
  /\ pc \in {"try", "fail", "forbid", "persist"} /\ input # FailDoc => StatusIs(input, {"processed"})
SecondSoFar ==
  /\ pc \in {"begin", "finish", "again", "second"} /\ input # FailDoc =>
       (docs[FailDoc] # None => docs[FailDoc].status = "failed")
  /\ pc = "try" =>
       /\ docs[FailDoc] # None
       /\ input # FailDoc => StatusIs(FailDoc, {"pending", "failed"})
       /\ input = FailDoc => StatusIs(FailDoc, {"processed"})
  /\ pc = "fail" => StatusIs(FailDoc, {"processing"}) /\ input # FailDoc
  /\ pc \in {"forbid", "persist"} => StatusIs(FailDoc, {"failed"}) /\ input # FailDoc

\* Of the other documents memory holds what was loaded.
OthersFinished ==
  Up => \A d \in Docs \ {input, FailDoc} :
    docs[d] # None => docs[d].status \in {"processed", "failed"}

\* A Persist is under way only at the end, and writes nothing half-finished.
SavesFinished ==
  \A p \in Persisters :
    call[p] # "idle" =>
      /\ pc = "persist"
      /\ call[p] \in {"open", "write"} =>
           \E m \in Maps : buf[p] = Encode(m) /\ Finished(m)

\* A run was refused over a document that the file calls processed.
RefusedSoFar ==
  pc = "refused" =>
    \/ input = FailDoc
    \/ /\ SavedAs(dir.canonical)[input] # None
       /\ SavedAs(dir.canonical)[input].status = "processed"

RunFacts == InputSoFar /\ SecondSoFar /\ OthersFinished /\ SavesFinished /\ RefusedSoFar

RunInv ==
  /\ StatusInv
  /\ IngestTypeOK
  /\ RunFacts
  /\ \A i \in Inodes : Finished(saved[i])

\* What a start loads is finished.
LEMMA SavedIsFinished ==
  ASSUME RunInv
  PROVE  /\ SavedAs(dir.canonical) \in Maps /\ Finished(SavedAs(dir.canonical))
         /\ Up => Loaded = SavedAs(dir.canonical)
<1>1. Finished(EmptyMap)
  BY DEF Finished, EmptyMap, Docs
<1> QED
  BY <1>1, SavedLoads, SavedAsType DEF RunInv, StatusInv, FileTypeOK, SavedAs

\* The calls of run() before Persist.
Calling == Round1 \/ Round2 \/ Round3 \/ Forbidden

LEMMA RunIsClient ==
  ASSUME RunInv, [IngestNext]_ingestVars
  PROVE  [Next]_vars
<1>1. ASSUME Round1 \/ Round3
      PROVE  docs' = docs \/ \E d \in Docs : Mark(d)
  BY <1>1, FailDocIsDoc DEF Round1, Round3, EnqueueAt, MarkAt, Mark, RunInv, IngestTypeOK
<1>2. ASSUME Round2 \/ Forbidden
      PROVE  docs' = docs
  <2>1. Round2 => docs' = docs
    BY DEF Round2, RunInv, RunFacts, InputSoFar, StatusIs, Known, IngestTypeOK
  <2>2. Forbidden => docs' = docs
    BY DEF Forbidden, RunInv, RunFacts, SecondSoFar, StatusIs, Accepts, IsValidTransition
  <2> QED
    BY <1>2, <2>1, <2>2
<1>3. ASSUME Calling, UNCHANGED <<history, fileVars>>
      PROVE  [Next]_vars
  BY <1>1, <1>2, <1>3 DEF Calling, Next, vars
<1>4. ASSUME NEW p \in Persisters, Save(p) PROVE Next
  BY <1>4 DEF Save, Next
<1>5. Stop \/ Start \/ Outage \/ Kernel => Next
  BY DEF Stop, Start, Next
<1>6. CASE UNCHANGED ingestVars
  BY <1>6 DEF ingestVars
<1> QED
  BY <1>3, <1>4, <1>5, <1>6 DEF IngestNext, Calling

\* One accepted call changes the record of its document and no other.
LEMMA EnqueueChangesOne ==
  ASSUME DocsTypeOK, NEW d \in Docs, Enqueue(d)
  PROVE  OneDoc(d, "pending")
<1> DEFINE r == [status |-> "pending", chunks |-> NoChunks]
<1>1. r \in Recs /\ r.status = "pending"
  BY DEF Recs, Status
<1>2. docs' = [docs EXCEPT ![d] = r] /\ Up
  BY DEF Enqueue
<1> HIDE DEF r
<1> QED
  BY <1>1, <1>2, PutRecord

LEMMA Round1Keeps ==
  ASSUME RunInv, Round1, UNCHANGED <<history, fileVars>>
  PROVE  IngestTypeOK' /\ RunFacts'
<1> USE DEF RunInv, RunFacts, IngestTypeOK
<1>1. /\ input' = input /\ input \in Docs /\ FailDoc \in Docs /\ Up /\ docs \in Maps
      /\ SavedAs(dir.canonical)' = SavedAs(dir.canonical)
      /\ SavedAs(dir.canonical) \in Maps /\ Finished(SavedAs(dir.canonical))
      /\ DocsTypeOK /\ UNCHANGED <<call, buf>> /\ pc # "persist"
  BY SavedIsFinished, FailDocIsDoc
     DEF Round1, EnqueueAt, MarkAt, Goto, history, fileVars, SavedAs, StatusInv, DocsTypeOK, Up
<1>2. \A p \in Persisters : call[p] = "idle"
  BY <1>1 DEF SavesFinished
<1>3. SavesFinished'
  BY <1>1, <1>2 DEF SavesFinished
<1>4. CASE EnqueueAt("enqueue", input, "begin")
  <2>1. pc' = "begin" /\ docs = SavedAs(dir.canonical)
    BY <1>4 DEF EnqueueAt, Goto, InputSoFar
  <2>2. CASE Known(input)
    BY <1>1, <1>3, <1>4, <2>1, <2>2 DEF EnqueueAt, Known, Finished, StatusIs, InputSoFar,
      SecondSoFar, OthersFinished, RefusedSoFar, Up
  <2>3. CASE ~Known(input)
    <3>1. OneDoc(input, "pending")
      BY <1>1, <1>4, <2>3, EnqueueChangesOne DEF EnqueueAt
    <3> QED
      BY <1>1, <1>3, <2>1, <3>1 DEF OneDoc, Finished, StatusIs, InputSoFar,
        SecondSoFar, OthersFinished, RefusedSoFar, Up
  <2> QED
    BY <2>2, <2>3
<1>5. CASE MarkAt("begin", input, "processing", MarkProcessing(input), "finish")
  <2>1. pc = "begin"
    BY <1>5 DEF MarkAt
  <2>2. CASE Accepts(input, "processing")
    <3>1. OneDoc(input, "processing") /\ pc' = "finish"
      BY <1>1, <1>5, <2>2, MarkChangesOne DEF MarkAt, Goto
    <3> QED
      BY <1>1, <1>3, <2>1, <3>1 DEF OneDoc, StatusIs, InputSoFar, SecondSoFar,
        OthersFinished, RefusedSoFar, Up
  <2>3. CASE ~Accepts(input, "processing")
    <3>1. docs' = docs /\ pc' = "refused"
      BY <1>5, <2>3 DEF MarkAt, Goto
    <3>2. docs[input] # None /\ docs[input].status = "processed"
      BY <1>1, <2>1, <2>3 DEF InputSoFar, StatusIs, Accepts, IsValidTransition, Known
    <3> QED
      BY <1>1, <1>3, <2>1, <3>1, <3>2 DEF InputSoFar, SecondSoFar, OthersFinished,
        RefusedSoFar, Up
  <2> QED
    BY <2>2, <2>3
<1>6. ASSUME NEW list \in ChunkLists,
             MarkAt("finish", input, "processed", MarkProcessed(input, list), "again")
      PROVE  IngestTypeOK' /\ RunFacts'
  <2>1. pc = "finish" /\ Accepts(input, "processed")
    BY <1>1, <1>6 DEF MarkAt, InputSoFar, StatusIs, Accepts, IsValidTransition, Known
  <2>2. OneDoc(input, "processed") /\ pc' = "again"
    BY <1>1, <1>6, <2>1, MarkChangesOne DEF MarkAt, Goto
  <2> QED
    BY <1>1, <1>3, <2>1, <2>2 DEF OneDoc, StatusIs, InputSoFar, SecondSoFar,
      OthersFinished, RefusedSoFar, Up
<1> QED
  BY <1>4, <1>5, <1>6 DEF Round1

LEMMA Round3Keeps ==
  ASSUME RunInv, Round3, UNCHANGED <<history, fileVars>>
  PROVE  IngestTypeOK' /\ RunFacts'
<1> USE DEF RunInv, RunFacts, IngestTypeOK
<1>1. /\ input' = input /\ input \in Docs /\ FailDoc \in Docs /\ Up /\ docs \in Maps
      /\ DocsTypeOK /\ UNCHANGED <<call, buf>> /\ pc # "persist"
  BY FailDocIsDoc
     DEF Round3, EnqueueAt, MarkAt, Goto, fileVars, StatusInv, DocsTypeOK, Up
<1>2. \A p \in Persisters : call[p] = "idle"
  BY <1>1 DEF SavesFinished
<1>3. SavesFinished'
  BY <1>1, <1>2 DEF SavesFinished
<1>4. CASE EnqueueAt("second", FailDoc, "try")
  <2>1. pc = "second" /\ pc' = "try"
    BY <1>4 DEF EnqueueAt, Goto
  <2>2. CASE Known(FailDoc)
    BY <1>1, <1>3, <1>4, <2>1, <2>2 DEF EnqueueAt, Known, StatusIs, InputSoFar,
      SecondSoFar, OthersFinished, RefusedSoFar, Up
  <2>3. CASE ~Known(FailDoc)
    <3>1. OneDoc(FailDoc, "pending") /\ input # FailDoc
      BY <1>1, <1>4, <2>1, <2>3, EnqueueChangesOne DEF EnqueueAt, InputSoFar, StatusIs, Known
    <3> QED
      BY <1>1, <1>3, <2>1, <3>1 DEF OneDoc, StatusIs, InputSoFar,
        SecondSoFar, OthersFinished, RefusedSoFar, Up
  <2> QED
    BY <2>2, <2>3
<1>5. CASE MarkAt("try", FailDoc, "processing", MarkProcessing(FailDoc), "fail")
  <2>1. pc = "try"
    BY <1>5 DEF MarkAt
  <2>2. CASE input # FailDoc
    <3>1. Accepts(FailDoc, "processing")
      BY <1>1, <2>1, <2>2 DEF SecondSoFar, StatusIs, Accepts, IsValidTransition, Known
    <3>2. OneDoc(FailDoc, "processing") /\ pc' = "fail"
      BY <1>1, <1>5, <3>1, MarkChangesOne DEF MarkAt, Goto
    <3> QED
      BY <1>1, <1>3, <2>1, <2>2, <3>2 DEF OneDoc, StatusIs, InputSoFar, SecondSoFar,
        OthersFinished, RefusedSoFar, Up
  <2>3. CASE input = FailDoc
    <3>1. ~Accepts(FailDoc, "processing")
      BY <2>1, <2>3 DEF SecondSoFar, StatusIs, Accepts, IsValidTransition
    <3>2. docs' = docs /\ pc' = "refused"
      BY <1>5, <3>1 DEF MarkAt, Goto
    <3> QED
      BY <1>1, <1>3, <2>3, <3>2 DEF InputSoFar, SecondSoFar, OthersFinished, RefusedSoFar, Up
  <2> QED
    BY <2>2, <2>3
<1>6. CASE MarkAt("fail", FailDoc, "failed", MarkFailed(FailDoc), "forbid")
  <2>1. pc = "fail" /\ input # FailDoc /\ Accepts(FailDoc, "failed")
    BY <1>1, <1>6 DEF MarkAt, SecondSoFar, StatusIs, Accepts, IsValidTransition, Known
  <2>2. OneDoc(FailDoc, "failed") /\ pc' = "forbid"
    BY <1>1, <1>6, <2>1, MarkChangesOne DEF MarkAt, Goto
  <2> QED
    BY <1>1, <1>3, <2>1, <2>2 DEF OneDoc, StatusIs, InputSoFar, SecondSoFar,
      OthersFinished, RefusedSoFar, Up
<1> QED
  BY <1>4, <1>5, <1>6 DEF Round3

\* The two calls of run() that change nothing.
LEMMA IdleCallsKeep ==
  ASSUME RunInv, Round2 \/ Forbidden, UNCHANGED <<history, fileVars>>
  PROVE  IngestTypeOK' /\ RunFacts'
<1> USE DEF RunInv, RunFacts, IngestTypeOK
<1>1. Round2 => docs' = docs /\ pc = "again" /\ pc' = "second" /\ input' = input
  BY DEF Round2, InputSoFar, StatusIs, Known, Goto
<1>2. Forbidden => docs' = docs /\ pc = "forbid" /\ pc' = "persist" /\ input' = input
  BY DEF Forbidden, SecondSoFar, StatusIs, Accepts, IsValidTransition, Goto
<1>3. UNCHANGED <<dir, saved, call, buf>>
  BY DEF history, fileVars
<1> QED
  BY <1>1, <1>2, <1>3 DEF StatusIs, InputSoFar, SecondSoFar, OthersFinished, SavesFinished,
    RefusedSoFar, Up

\* A step of Persist leaves memory as it is; its snapshot is finished.
LEMMA SaveKeeps ==
  ASSUME SoleWriter, RunInv, NEW p \in Persisters, Save(p)
  PROVE  IngestTypeOK' /\ RunFacts' /\ \A i \in Inodes : Finished(saved[i])'
<1> USE DEF RunInv, RunFacts, IngestTypeOK
<1>1. /\ pc = "persist" /\ pc' = (IF call'[p] = "idle" THEN "done" ELSE "persist")
      /\ input' = input /\ docs' = docs /\ Up
      /\ PersistUnfinished(p) \/ PersistRename(p)
  BY DEF Save, Goto, PersistUnfinished, PersistRename
<1>2. \A q \in Persisters : q = p
  BY DEF SoleWriter
<1>3. docs \in Maps /\ Finished(docs)
  <2>1. docs \in Maps /\ FailDoc \in Docs
    BY <1>1, FailDocIsDoc DEF StatusInv, DocsTypeOK, Up
  <2>2. StatusIs(FailDoc, {"failed"}) /\ input # FailDoc /\ StatusIs(input, {"processed"})
    BY <1>1 DEF InputSoFar, SecondSoFar
  <2> QED
    BY <1>1, <2>1, <2>2 DEF OthersFinished, StatusIs, Finished
<1>4. InputSoFar' /\ SecondSoFar' /\ OthersFinished' /\ RefusedSoFar' /\ IngestTypeOK'
  BY <1>1 DEF InputSoFar, SecondSoFar, OthersFinished, RefusedSoFar, StatusIs, Up
<1>5. CASE PersistRename(p)
  <2>1. call[p] = "write" /\ call'[p] = "idle"
    BY <1>5, RenameShows DEF PersistRename, StatusInv
  <2>2. PICK m \in Maps : buf[p] = Encode(m) /\ Finished(m)
    BY <2>1 DEF SavesFinished
  <2>3. Parsed(buf[p]) = m
    BY <2>2, ParsedEncode
  <2>4. saved' \in [Inodes -> Maps] /\ \A i \in Inodes : saved'[i] \in {saved[i], m, EmptyMap}
    BY <1>5, <2>2, <2>3, EmptyIsStore DEF PersistRename, Remember, StatusInv
  <2>5. Finished(EmptyMap)
    BY DEF Finished, EmptyMap, Docs
  <2>6. ASSUME NEW i \in Inodes PROVE Finished(saved[i])'
    BY <2>2, <2>4, <2>5 DEF Finished
  <2>7. SavesFinished'
    BY <1>2, <2>1 DEF SavesFinished
  <2> QED
    BY <1>4, <2>6, <2>7
<1>6. CASE PersistUnfinished(p)
  <2>1. saved' = saved
    BY <1>6 DEF PersistUnfinished, history
  <2>2. ASSUME call'[p] \in {"open", "write"}
        PROVE  \E m \in Maps : buf'[p] = Encode(m) /\ Finished(m)
    <3>1. CASE PersistSnapshot(p)
      <4>1. buf'[p] = Encode(docs)
        BY <3>1 DEF PersistSnapshot, BeginSave, StatusInv, FileTypeOK
      <4> QED
        BY <1>3, <4>1
    <3>2. CASE OpenTmp(p) \/ WriteBlock(p)
      <4>1. call[p] \in {"open", "write"} /\ buf' = buf
        BY <3>2 DEF OpenTmp, WriteBlock
      <4> QED
        BY <4>1 DEF SavesFinished
    <3>3. CASE WriteFails(p) \/ RenameFails(p) \/ RemoveTmp(p)
      BY <2>2, <3>3 DEF WriteFails, RenameFails, RemoveTmp, Return, StatusInv, FileTypeOK
    <3> QED
      BY <1>6, <3>1, <3>2, <3>3 DEF PersistUnfinished
  <2>3. SavesFinished'
    <3> SUFFICES ASSUME call'[p] # "idle"
                 PROVE  /\ pc' = "persist"
                        /\ call'[p] \in {"open", "write"} =>
                             \E m \in Maps : buf'[p] = Encode(m) /\ Finished(m)
      BY <1>2 DEF SavesFinished, Finished
    <3> QED
      BY <1>1, <2>2
  <2> QED
    BY <1>4, <2>1, <2>3 DEF Finished
<1> QED
  BY <1>1, <1>5, <1>6

\* The process ends, the machine stops, or a new run starts.
LEMMA EndsKeep ==
  ASSUME RunInv, Stop \/ (Outage /\ Goto("off")) \/ Start
  PROVE  IngestTypeOK' /\ RunFacts' /\ \A i \in Inodes : Finished(saved[i])'
<1> USE DEF RunInv, RunFacts, IngestTypeOK
<1>1. \A p \in Persisters : call'[p] = "idle"
  <2>1. Start => \A p \in Persisters : call'[p] = "idle"
    BY DEF Start, Restart, fileVars, StatusInv, QuietWhenDown, Up
  <2> QED
    BY <2>1 DEF Stop, Crash, Outage, MachineLost, ProcessKilled, Killed
<1>2. SavesFinished'
  BY <1>1 DEF SavesFinished
<1>3. ASSUME NEW i \in Inodes PROVE Finished(saved[i])'
  <2>1. Finished(EmptyMap)
    BY DEF Finished, EmptyMap, Docs
  <2>2. saved'[i] \in {saved[i], EmptyMap}
    BY DEF Stop, Crash, Outage, Start, Restart, Remember, history
  <2> QED
    BY <2>1, <2>2 DEF Finished
<1>4. CASE Start
  <2>1. docs' = SavedAs(dir.canonical) /\ UNCHANGED <<dir, saved>> /\ pc' = "enqueue" /\ input' \in Docs
    BY <1>4, SavedLoads DEF Start, Restart, history, fileVars
  <2>2. SavedAs(dir.canonical)' = SavedAs(dir.canonical) /\ docs' # Down
    BY <2>1, SavedIsFinished, DownIsNoMap DEF SavedAs
  <2>3. OthersFinished'
    BY <2>1, <2>2, SavedIsFinished DEF OthersFinished, Finished
  <2> QED
    BY <1>2, <1>3, <2>1, <2>2, <2>3 DEF InputSoFar, SecondSoFar, RefusedSoFar, Up
<1>5. CASE Stop \/ (Outage /\ Goto("off"))
  BY <1>2, <1>3, <1>5 DEF Stop, Crash, Outage, Goto, InputSoFar, SecondSoFar,
    OthersFinished, RefusedSoFar, Up
<1> QED
  BY <1>4, <1>5

LEMMA KernelKeepsRun ==
  ASSUME RunInv, Kernel, UNCHANGED runVars
  PROVE  IngestTypeOK' /\ RunFacts' /\ \A i \in Inodes : Finished(saved[i])'
<1> USE DEF RunInv, RunFacts, IngestTypeOK
<1>1. UNCHANGED <<docs, pc, input, dir, call, buf>>
  BY DEF Kernel, WriteBack, WriteBackDir, runVars
<1>2. saved' = saved \/ Remember(saved)
  BY DEF Kernel
<1>3. SavedAs(dir.canonical)' = SavedAs(dir.canonical)
  BY <1>1, <1>2, RememberTypes DEF SavedAs, StatusInv, FileTypeOK
<1>4. ASSUME NEW i \in Inodes PROVE Finished(saved[i])'
  <2>1. Finished(EmptyMap)
    BY DEF Finished, EmptyMap, Docs
  <2>2. saved'[i] \in {saved[i], EmptyMap}
    BY <1>2 DEF Remember
  <2> QED
    BY <2>1, <2>2 DEF Finished
<1> QED
  BY <1>1, <1>3, <1>4 DEF InputSoFar, SecondSoFar, OthersFinished, SavesFinished,
    RefusedSoFar, StatusIs, Up

LEMMA RunStep ==
  ASSUME SoleWriter, RunInv, [IngestNext]_ingestVars
  PROVE  RunInv'
<1>1. StatusInv'
  BY RunIsClient, StatusStep DEF RunInv
<1>2. CASE Calling /\ UNCHANGED <<history, fileVars>>
  <2>1. IngestTypeOK' /\ RunFacts'
    BY <1>2, Round1Keeps, Round3Keeps, IdleCallsKeep DEF Calling
  <2>2. \A i \in Inodes : Finished(saved[i])'
    BY <1>2 DEF RunInv, history, Finished
  <2> QED
    BY <1>1, <2>1, <2>2 DEF RunInv
<1>3. CASE UNCHANGED ingestVars
  <2>1. UNCHANGED <<docs, saved, dir, call, buf, pc, input>>
    BY <1>3 DEF ingestVars, runVars, vars, history, fileVars
  <2>2. IngestTypeOK' /\ RunFacts' /\ \A i \in Inodes : Finished(saved[i])'
    BY <2>1 DEF RunInv, RunFacts, IngestTypeOK, InputSoFar, SecondSoFar, OthersFinished,
      SavesFinished, RefusedSoFar, StatusIs, SavedAs, Finished, Up
  <2> QED
    BY <1>1, <2>2 DEF RunInv
<1> QED
  BY <1>1, <1>2, <1>3, SaveKeeps, EndsKeep, KernelKeepsRun DEF IngestNext, RunInv, Calling

LEMMA RunInit == IngestInit => RunInv
<1> SUFFICES ASSUME IngestInit PROVE RunInv
  OBVIOUS
<1>1. StatusInv /\ Init /\ docs = EmptyMap /\ Up
  BY StatusInit, EmptyIsStore DEF IngestInit, Init, Up
<1>2. Finished(EmptyMap)
  BY DEF Finished, EmptyMap, Docs
<1>3. /\ \A i \in Inodes : saved[i] = EmptyMap
      /\ \A p \in Persisters : call[p] = "idle"
      /\ SavedAs(dir.canonical) = EmptyMap /\ pc = "enqueue" /\ input \in Docs
  BY <1>1 DEF IngestInit, Init, FileInit, SavedAs
<1> QED
  BY <1>1, <1>2, <1>3 DEF RunInv, RunFacts, IngestTypeOK, InputSoFar, SecondSoFar,
    OthersFinished, SavesFinished, RefusedSoFar, Finished, EmptyMap, Docs

\* What run() has done by the time it makes each call, and that all it ever
\* saves is finished (main.go, run), for every set of documents, every kill
\* and every power loss.
THEOREM RunInvariant ==
  ASSUME SoleWriter
  PROVE  IngestSpec => []RunInv
<1>1. RunInv /\ [IngestNext]_ingestVars => RunInv'
  BY RunStep
<1> QED
  BY <1>1, RunInit, PTL DEF IngestSpec

\* A run never finds a half-finished document in the file, wherever earlier
\* runs were killed and whatever a power loss brought back (main.go, run,
\* which saves once and at the end).
THEOREM FilesAreSettled ==
  ASSUME SoleWriter
  PROVE  IngestSpec => []FileIsSettled
<1>1. RunInv => FileIsSettled
  BY SavedIsFinished DEF RunInv, IngestTypeOK, Finished, FileIsSettled
<1> QED
  BY <1>1, RunInvariant, PTL

\* A run that was killed can be made again: the store refuses a run only over
\* an input that the file calls processed or that is the text of round 3
\* (main.go, run).
THEOREM RunsResume ==
  ASSUME SoleWriter
  PROVE  IngestSpec => []KilledRunsResume
<1>1. RunInv => KilledRunsResume
  BY SavedIsFinished DEF RunInv, IngestTypeOK, RunFacts, RefusedSoFar, KilledRunsResume
<1> QED
  BY <1>1, RunInvariant, PTL

\* run() is a client of the store and nothing more: whatever it does, killed
\* or not, is a behaviour of the store, so all that holds of any calls holds
\* of its calls (main.go, run; the forbidden transition is always refused).
THEOREM IngestUsesStore ==
  ASSUME SoleWriter
  PROVE  IngestSpec => Spec
<1>1. IngestInit => Init
  BY DEF IngestInit
<1>2. RunInv /\ [IngestNext]_ingestVars => [Next]_vars
  BY RunIsClient
<1> QED
  BY <1>1, <1>2, RunInvariant, PTL DEF IngestSpec, Spec
=============================================================================
